SPECIFICATION MFairSpec
CONSTANTS
  e1 = e1
  e2 = e2
  p1 = p1
  Loop = Loop
  Op = {e1, e2, p1}
  Unhooked = {p1}
  FailureThreshold = 2
  MaxDelay = 2
  MaxOutages = 1
  MaxFaults = 1
INVARIANTS OneAttempt NeverForgotten
PROPERTY MemoryMigrates
CHECK_DEADLOCK FALSE
