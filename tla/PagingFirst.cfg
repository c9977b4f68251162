SPECIFICATION Spec
CONSTANTS
  Page = {a, b, c}
  memsize = 1
  swapsize = 3
  MaxVersion = 1
INVARIANTS
  FirstReference
CHECK_DEADLOCK FALSE
