-------------------------- MODULE MCCircuitBreaker --------------------------
(* Small instances of CircuitBreaker. *)
EXTENDS CircuitBreaker, TLC

CONSTANTS g1,  \* a call of a maintenance task that may be dropped
          h1   \* a call of an MCP handler

TwoKinds == {g1, h1}
OnlyHandler == {h1}
OnlyFirst == {g1}

============================================================================
