SPECIFICATION Spec
CONSTANTS
  Task = {"a", "b", "c"}
  SrcOf <- SrcThree
  IdCount = 2
  RemainCount = 4
  PbufElements = 2
  BufferSize = 11
  Lengths = {0, 2, 3, 10, 11, 26, 27}
  MaxPackets = 3
INVARIANTS Intact Complete OneBuffer
CHECK_DEADLOCK FALSE
