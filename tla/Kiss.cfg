SPECIFICATION Spec
CONSTANTS
  Task = {"a", "b"}
  HeaderLength = 1
  CrcLength = 1
  DataSize = 3
  Other = {}
  Datas <- DatasEach
  Buffers = 1
  MaxPackets = 3
  MaxLost = 5
  None = None
INVARIANTS Intact Resync Held
CHECK_DEADLOCK FALSE
