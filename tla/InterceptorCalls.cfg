SPECIFICATION FairSpec
CONSTANTS
  Pid <- TwoRoots
  Root <- TwoRoots
  SameOwner <- Owners
  Syscall <- Calls
  NoPid = NoPid
  Signals = TRUE
  MemoryFails = TRUE
INVARIANTS
  HandlersIntact
  FlagIsTrue
  ForwardsToOwn
PROPERTIES
  ExitCleansUp
  TableLockReleased
CHECK_DEADLOCK FALSE
