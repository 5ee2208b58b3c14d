SPECIFICATION FairSpec
CONSTANTS
  g1 = g1
  h1 = h1
  Caller <- TwoKinds
  Handler <- OnlyHandler
  Bare <- OnlyFirst
  Cancelled <- OnlyFirst
  Threshold = 2
  MinBackoff = 1
  MaxBackoff = 2
INVARIANTS TypeOK HalfOpenHasProbe
PROPERTIES RecoversOrProbesFail
