SPECIFICATION Spec
CONSTANTS
  Window = 2
  MaxWindow = 3
  ConnQueueLength = 5
  DelayedAcks = TRUE
  AckDelayCount = 2
  Rand <- RandOnce
  MaxSend <- Seven
  NetBound = 2
  OldSeq = {}
  Closers = {}
  BacklogMayFill = FALSE
INVARIANTS NoAckedLoss
CHECK_DEADLOCK FALSE
