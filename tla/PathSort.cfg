SPECIFICATION Spec
CONSTANTS
  CarId = {0}
  Capacity = 1
  None = None
  N = 4
  Lists <- AllLists
INVARIANTS
  Sorted
  ReadyToLock
