SPECIFICATION UnloadSpec
CONSTANTS
  Pid <- Two
  Root <- Roots
  SameOwner <- Owners
  Syscall <- Calls
  NoPid = NoPid
  Signals = TRUE
  MemoryFails = FALSE
INVARIANTS
  LocksHeld
  
  UnloadRestores
CHECK_DEADLOCK FALSE
