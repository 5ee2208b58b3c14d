SPECIFICATION SFairSpec
CONSTANTS
  w1 = w1
  w2 = w2
  s1 = s1
  q1 = q1
  Session = {s1}
  Sweeper = {w1, w2}
  Request = {q1}
  MaxObserved = 2
  MaxFailures = 1
  MaxBadCalls = 1
INVARIANTS PlaceholderOwned
PROPERTIES SummaryKept SessionsSettle
