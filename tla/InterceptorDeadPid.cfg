SPECIFICATION Spec
CONSTANTS
  Pid <- TwoRoots
  Root <- TwoRoots
  SameOwner <- Owners
  Syscall <- JustExit
  NoPid = NoPid
  Signals = FALSE
  MemoryFails = FALSE
INVARIANTS
  NoDeadPidListed
CHECK_DEADLOCK FALSE
