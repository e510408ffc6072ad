SPECIFICATION Spec
CONSTANTS
  Window = 1
  MaxWindow = 3
  ConnQueueLength = 3
  DelayedAcks = TRUE
  AckDelayCount = 2
  Rand <- RandThrice
  MaxSend <- One
  NetBound = 2
  OldSeq = {}
  Closers = {"client", "server"}
  BacklogMayFill = FALSE
INVARIANTS TypeOK HandleValid NoOrphan
CHECK_DEADLOCK FALSE
