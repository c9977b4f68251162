SPECIFICATION SimSpec
CONSTANTS
  Page = {a, b, c, d}
  a = a
  b = b
  c = c
  d = d
  Traces <- SomeTraces
  memsize = 3
  swapsize = 2
  MaxVersion = 1
INVARIANTS
  FramesMatch
  SlotsMatch
  LatestKept
  OnlyWhenFull
  ListIsRecency
PROPERTIES
  FirstOut
  SecondChance
  LeastRecentOut
  
CHECK_DEADLOCK FALSE
