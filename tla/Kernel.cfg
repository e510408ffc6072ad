SPECIFICATION Spec
CONSTANTS
  a = a
  b = b
  idle = idle
  fifo = fifo
  mutex = mutex
  high = high
  middle = middle
  low = low
  mail = mail
  Task <- Tasks
  IdleTask = idle
  Priority <- Priorities
  Queue = {fifo}
  TickMod = 4
  OverflowMod = 2
  Kind <- QueueKind
  Length <- QueueLength
  Item = {x, y}
  May <- Program
  Started <- Tasks
  DeviceSends = {fifo}
  DeviceReads = {}
  IsrBound = 2
  Slack = 1
SYMMETRY Interchangeable
INVARIANTS OnePlace NoLostWakeup SleepsToTheTick
PROPERTIES RunsHighest QueueOfMessages
