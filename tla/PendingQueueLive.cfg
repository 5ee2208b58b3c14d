CONSTANTS
  s1 = s1
  s2 = s2
  p1 = p1
  p2 = p2
  Server <- OneServer
  Permit <- OnePermit
  Host <- OneOnOne
  MaxMsg = 2
  MaxRetry = 1
  MaxRounds = 0
SPECIFICATION FairSpec
PROPERTIES ImplementsWorkQueue WaitingIsServed OrphanWithRetriesRecovers

