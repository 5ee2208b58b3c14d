--------------------------- MODULE MCContextInjection ---------------------------
(* Instances of ContextInjection for TLC. *)
EXTENDS ContextInjection

CONSTANTS s1, q1, w1

\* 1 and 2 are alike, and so are 2 and 3; 4 is an echo of 3 just so.
Near == {{1, 2}, {2, 3}}
JustSo == {{3, 4}}
MCSimilarity ==
  [x \in Obs |-> [y \in Obs |-> IF x = y \/ {x, y} \in Near THEN 3
                               ELSE IF {x, y} \in JustSo THEN 2 ELSE 0]]
MCNoiseOf == [x \in Obs |-> IF x = 1 THEN 1 ELSE 2]
==============================================================================
