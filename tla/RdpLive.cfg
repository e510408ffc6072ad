SPECIFICATION FairSpec
CONSTANTS
  Window = 1
  MaxWindow = 3
  ConnQueueLength = 5
  DelayedAcks = TRUE
  AckDelayCount = 2
  Rand <- RandOnce
  MaxSend <- Two
  NetBound = 2
  OldSeq = {7}
  Closers = {"client"}
  BacklogMayFill = FALSE
PROPERTIES Delivered WindowReopens SlotReclaimed
CHECK_DEADLOCK FALSE
