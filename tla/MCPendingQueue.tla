--------------------------- MODULE MCPendingQueue ---------------------------
(* Instances of PendingQueue for TLC: the permits are split over servers.  *)
EXTENDS PendingQueue, TLC

CONSTANTS s1, s2, p1, p2

OneServer == {s1}
TwoServers == {s1, s2}
TwoPermits == {p1, p2}

OnePermit == {p1}
OneOnOne == [p \in OnePermit |-> s1]
OneEach == p1 :> s1 @@ p2 :> s2

\* The servers swap together with their permits.
ServerSymmetry ==
  {f \in Permutations(TwoServers \cup TwoPermits) :
     /\ \A s \in TwoServers : f[s] \in TwoServers
     /\ \A p \in TwoPermits : OneEach[f[p]] = f[OneEach[p]]}

============================================================================
