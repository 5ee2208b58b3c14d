----------------------------- MODULE MCKnowledge -----------------------------
(* Instances of Knowledge for TLC. *)
EXTENDS Knowledge, TLC

CONSTANTS c1, c2, c3, w1, w2, o1

\* c1 and c2 have one title, c3 another that is like it in letters and sense.
Titles == {<<c1, c1>>, <<c2, c2>>, <<c3, c3>>, <<c1, c2>>, <<c2, c1>>}
Likeness == {<<c1, c3>>, <<c3, c1>>, <<c2, c3>>, <<c3, c2>>}
\* c1 names the observation it comes from; the others are linked.
Sources == [c \in Save |-> IF c = c1 THEN o1 ELSE None]
Symmetry == Permutations({w1, w2})
=============================================================================
