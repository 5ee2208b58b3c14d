SPECIFICATION FairSpec
CONSTANTS
  w1 = w1
  w2 = w2
  w3 = w3
  r1 = r1
  h1 = h1
  f1 = f1
  f2 = f2
  Write <- ThreeWrites
  Client <- RequestAndHandler
  Handler <- OnlyHandler
  Flusher <- TwoFlushers
  Polling = TRUE
  Capacity = 2
  Threshold = 2
INVARIANTS OneFlush KeptInOrder
PROPERTIES FlushedOnRecovery
