SPECIFICATION Spec
CONSTANTS
  None = None
  c1 = c1
  c2 = c2
  c3 = c3
  w1 = w1
  w2 = w2
  o1 = o1
  Save = {c1, c2, c3}
  Sweep = {w1, w2}
  Observation = {o1}
  SameTitle <- Titles
  AlikeTitle <- Likeness
  AlikeVector <- Likeness
  Source <- Sources
  Gaps = {7}
  MaxWeek = 14
  MaxReads = 1
  MaxFaults = 1
SYMMETRY Symmetry
INVARIANTS ConfidenceAccounted
PROPERTIES UsedStays SourcesKept InsertsAreNews PassArchives
CHECK_DEADLOCK FALSE
