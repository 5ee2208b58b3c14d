SPECIFICATION MFairSpec
CONSTANTS
  e1 = e1
  e2 = e2
  p1 = p1
  Loop = Loop
  Op = {e1, e2}
  Unhooked = {}
  FailureThreshold = 2
  MaxDelay = 2
  MaxOutages = 0
  MaxFaults = 0
PROPERTY StorageMigrates
