SPECIFICATION Spec
CONSTANTS
  CarId = {0, 1, 2}
  Files <- All
  Capacity = 2
  MaxSpurious = 0
  None = None
INVARIANTS
  NoCollision
  LockOrder
  NoDeadlock
  OutOrder
  LaneIsFifo
