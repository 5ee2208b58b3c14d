---------------------------- MODULE MCObservations ----------------------------
(* Instances of Observations for TLC. *)
EXTENDS Observations, TLC

CONSTANTS m1, r1, t1, t2, b1

Symmetry == Permutations({t1, t2})
=============================================================================
