SPECIFICATION Spec
CONSTANTS
  m1 = m1
  r1 = r1
  t1 = t1
  t2 = t2
  b1 = b1
  Message = {m1}
  Memory = {r1}
  Task = {t1, t2}
  Sweep = {b1}
  None = None
  Titled = {m1}
  Tries = 2
  MaxFaults = 1
INVARIANTS SavedIsStored SourcesExist VectorsCurrent
PROPERTIES FactsKept
SYMMETRY Symmetry
CHECK_DEADLOCK FALSE
