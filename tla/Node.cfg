SPECIFICATION FairSpec
CONSTANTS
  Client = {"alice", "bob"}
  Service = {"server", "echo"}
  ConnLess = {"echo"}
  Bound <- BoundAny
  PortMaxBind = 1
  PortMax = 4
  ConnMax = 2
  ConnQueueLength = 1
  Backlog = 1
  FifoLength = 1
  Buffers = 2
  Hmac = {"bob", "echo"}
  Dport <- DportEach
  MaxCalls = 3
  MaxInject = 1
  None = None
INVARIANTS OneOwner OneHolder NoAmbiguity Addressed ReplyFresh
PROPERTIES Drained
CHECK_DEADLOCK FALSE
