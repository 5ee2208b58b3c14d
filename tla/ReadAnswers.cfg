SPECIFICATION FairSpec
CONSTANTS
  r1 = r1
  q1 = q1
  q2 = q2
  None = None
  Obs = {1, 2, 3, 4}
  FirstObs = {1, 2, 4}
  Request = {r1}
  Twins = {{1, 2}, {3, 4}}
  Before = 1
  After = 1
  Query = {q1, q2}
  Text <- MCText
  AllWords <- MCAllWords
  Vector <- MCVector
  Keywords <- MCKeywords
  Overlap <- MCOverlap
  Limit = 1
  MaxQueryLimit = 5
  Entry = {1, 2, 3, 4, 5}
  Listing <- MCListing
  OfProject = {1, 2}
  ContextLimit = 4
  Day = {0, 1}
  MaxUsage = 1
  MaxFaults = 1
INVARIANTS TimelineComplete BestFirst
PROPERTY EveryEntryIsUsed
CHECK_DEADLOCK FALSE
