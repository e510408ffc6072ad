SPECIFICATION Spec
CONSTANTS
  Items <- SomeItems
  Mtu = 2
  QueueLength = 2
  Tails <- SomeTails
INVARIANTS Placed Unmixed Contained Balanced
CHECK_DEADLOCK FALSE
