------------------------- MODULE MCSessionSummaries -------------------------
(* Instances of SessionSummaries for TLC. *)
EXTENDS SessionSummaries, TLC

CONSTANTS w1, w2, q1, s1
=============================================================================
