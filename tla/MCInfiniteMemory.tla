-------------------------- MODULE MCInfiniteMemory --------------------------
(* Instances of InfiniteMemory for TLC. *)
EXTENDS InfiniteMemory

CONSTANTS r1, r2, good, bad

MCSessionOf == [e \in Event |-> IF e = 3 THEN bad ELSE good]
MCWidth == <<1, 2>>
MCMinChildren == <<2, 2>>
MCPoison == {<<0, bad>>}
=============================================================================
