SPECIFICATION Spec
CONSTANTS
  Window = 2
  MaxWindow = 3
  ConnQueueLength = 2
  DelayedAcks = TRUE
  AckDelayCount = 2
  Rand <- RandServerTwice
  MaxSend <- Three
  NetBound = 2
  OldSeq = {7}
  Closers = {"client", "server"}
  BacklogMayFill = TRUE
INVARIANTS Synchronised StreamInOrder StreamAccounted
PROPERTIES RstAfterData
CHECK_DEADLOCK FALSE
