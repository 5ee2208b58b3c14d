SPECIFICATION Spec
CONSTANTS
  s1 = s1
  q1 = q1
  w1 = w1
  None = None
  Obs = {1, 2, 3, 4}
  FirstObs = {1, 2, 3}
  Session = {s1}
  Request = {q1}
  Check = {w1}
  NoiseOf <- MCNoiseOf
  Similarity <- MCSimilarity
  DedupThreshold = 2
  InjectionThreshold = 2
  ObsLimit = 3
  MaxInjectedIds = 2
  MaxFaults = 1
INVARIANTS EchoesStopped OnePerTopic
CHECK_DEADLOCK FALSE
