SPECIFICATION FairSpec
CONSTANTS
  r1 = r1
  r2 = r2
  good = good
  bad = bad
  Run = {r1, r2}
  Event = {1, 2, 3}
  Summary = {11, 12, 13, 14, 15, 16}
  Session = {good, bad}
  SessionOf <- MCSessionOf
  Width <- MCWidth
  MinChildren <- MCMinChildren
  RetryLimit = 2
  Poison <- MCPoison
  MaxTime = 3
  StoreUntil = 0
  MaxFaults = 1
INVARIANTS Exclusive CountsAgree TriesBounded
PROPERTIES EveryRowSettles ImplementsDigest
CHECK_DEADLOCK FALSE
