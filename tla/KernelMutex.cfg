SPECIFICATION FairSpec
CONSTANTS
  a = a
  b = b
  idle = idle
  fifo = mail
  high = high
  middle = middle
  low = low
  mutex = mutex
  mail = mail
  Task <- MutexTasks
  IdleTask = idle
  Priority <- MutexPriorities
  Queue = {mutex, mail}
  TickMod = 4
  OverflowMod = 2
  Kind <- MutexKind
  Length <- MutexLength
  Item = {"x"}
  May <- MutexProgram
  Started = {middle, low, idle}
  DeviceSends = {}
  DeviceReads = {mail}
  IsrBound = 1
  Slack = 1
INVARIANTS Inherited
PROPERTIES HighestGetsMutex
