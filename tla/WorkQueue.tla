------------------------------ MODULE WorkQueue ------------------------------
(***************************************************************************)
(* What the durable queue promises its producers and its operator, without *)
(* tables, leases, pollers or tasks: a queued message is waiting until it  *)
(* is acknowledged after somebody handled it, or is set aside as a dead    *)
(* letter, which only the operator revives; and a message that was not     *)
(* handled leaves in no other way than a purge of all dead letters that    *)
(* are old enough, or of everything.                                       *)
(***************************************************************************)
CONSTANT Msg

VARIABLES
  state,    \* of each message
  handled   \* the messages somebody has handled with success

vars == <<state, handled>>

In(st) == {m \in Msg : state[m] = st}
Moved(S, st) == [m \in Msg |-> IF m \in S THEN st ELSE state[m]]

Init ==
  /\ state = [m \in Msg |-> "absent"]
  /\ handled = {}

Submit(S) ==
  /\ S \subseteq In("absent")
  /\ state' = Moved(S, "waiting")
  /\ UNCHANGED handled

Handle(m) ==
  /\ state[m] # "absent"
  /\ handled' = handled \cup {m}
  /\ UNCHANGED state

Acknowledge(m) ==
  /\ state[m] \in {"waiting", "dead"}
  /\ m \in handled
  /\ state' = [state EXCEPT ![m] = "gone"]
  /\ UNCHANGED handled

Bury(S) ==
  /\ S \subseteq In("waiting")
  /\ state' = Moved(S, "dead")
  /\ UNCHANGED handled

Revive ==
  /\ state' = Moved(In("dead"), "waiting")
  /\ UNCHANGED handled

PurgeDead(S) ==
  /\ S \subseteq In("dead")
  /\ state' = Moved(S, "gone")
  /\ UNCHANGED handled

PurgeAll ==
  /\ state' = Moved(In("waiting") \cup In("dead"), "gone")
  /\ UNCHANGED handled

Next ==
  \/ \E S \in SUBSET Msg : Submit(S) \/ Bury(S) \/ PurgeDead(S)
  \/ \E m \in Msg : Handle(m) \/ Acknowledge(m)
  \/ Revive
  \/ PurgeAll

Spec == Init /\ [][Next]_vars

=============================================================================
