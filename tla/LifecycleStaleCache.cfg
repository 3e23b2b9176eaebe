SPECIFICATION Spec
CONSTANTS
  Count = 1
  Capacity = 6
  RingCapacity = 2
  Jobs = {j1, j2, j3}
  MaxBoots = 2
  ThreadsFail = FALSE
CHECK_DEADLOCK FALSE
INVARIANT
  ExecutesCurrent
