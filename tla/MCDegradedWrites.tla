-------------------------- MODULE MCDegradedWrites --------------------------
(* Small instances of DegradedWrites. *)
EXTENDS DegradedWrites, TLC

CONSTANTS w1, w2, w3, r1, h1, f1, f2

ThreeWrites == {w1, w2, w3}
RequestAndHandler == {r1, h1}
OnlyHandler == {h1}
TwoFlushers == {f1, f2}
=============================================================================
