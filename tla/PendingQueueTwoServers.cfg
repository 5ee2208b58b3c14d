CONSTANTS
  s1 = s1
  s2 = s2
  p1 = p1
  p2 = p2
  Server <- TwoServers
  Permit <- TwoPermits
  Host <- OneEach
  MaxMsg = 1
  MaxRetry = 2
  MaxRounds = 1
SPECIFICATION Spec
SYMMETRY ServerSymmetry
INVARIANTS TypeOK RetryBudgetAgrees DoneWasHandled AttemptsBounded NoOverlapBeforeTimeout
PROPERTIES DeadLettersStay
