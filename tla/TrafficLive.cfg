SPECIFICATION FairSpec
CONSTANTS
  CarId = {0, 1, 2}
  Files <- One
  Capacity = 2
  MaxSpurious = 1
  None = None
INVARIANTS
  NoLostWakeup
PROPERTIES
  ImplementsIntersection
  Termination
