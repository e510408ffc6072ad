SPECIFICATION Spec
CONSTANTS
  Window = 2
  MaxWindow = 3
  ConnQueueLength = 5
  DelayedAcks = TRUE
  AckDelayCount = 2
  Rand <- RandOnce
  MaxSend <- Four
  NetBound = 3
  OldSeq = {}
  Closers = {}
  BacklogMayFill = FALSE
INVARIANTS NothingForgotten WindowRespected
PROPERTIES ReliableStream
CHECK_DEADLOCK FALSE
