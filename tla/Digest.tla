-------------------------------- MODULE Digest --------------------------------
(***************************************************************************)
(* What infinite memory promises a reader, without runs, leases, retries   *)
(* and links: events arrive and stay; a summary is made at once from items *)
(* of one level, one session and one window of time, stands one level      *)
(* above them in their session, and at the time of the first of them; and  *)
(* an item is in one summary, unless a run took too long over it: then it  *)
(* is loose, which no item in a summary becomes.                           *)
(***************************************************************************)
EXTENDS Naturals, Sequences

CONSTANTS
  Event,     \* the ids of events
  Summary,   \* the ids of summaries
  SessionOf, \* the session of each event
  Width      \* length of a window, per level

VARIABLES
  known, \* the items, events and summaries: level, session and time of each
  made,  \* per summary, the items it was made from
  loose, \* the items that may be in several summaries
  now    \* the time

vars == <<known, made, loose, now>>

Items == DOMAIN known
Digested == UNION {made[s] : s \in DOMAIN made}

Init ==
  /\ known = [x \in {} |-> 0]
  /\ made = [s \in {} |-> {}]
  /\ loose = {}
  /\ now = 0

Adds(x, item) ==
  /\ x \notin Items
  /\ known' = [y \in Items \cup {x} |-> IF y = x THEN item ELSE known[y]]

Arrive(e) ==
  /\ Adds(e, [level |-> 0, session |-> SessionOf[e], ts |-> now])
  /\ UNCHANGED <<made, loose, now>>

\* The items below the last level can be summarized, with those like them.
Open == {x \in Items : known[x].level < Len(Width)}
Window(x) == known[x].ts \div Width[known[x].level + 1]
Alike(x) ==
  {y \in Open : /\ known[y].level = known[x].level
                /\ known[y].session = known[x].session
                /\ Window(y) = Window(x)}

\* The first of the items a summary s is made from gives it session and time.
Summarize(s, first) ==
  /\ Adds(s, [known[first] EXCEPT !.level = @ + 1])
  /\ \E B \in SUBSET Alike(first) :
       /\ first \in B
       /\ \A x \in B : known[first].ts <= known[x].ts
       /\ B \cap Digested \subseteq loose
       /\ made' = [t \in DOMAIN made \cup {s} |-> IF t = s THEN B ELSE made[t]]
  /\ UNCHANGED <<loose, now>>

Loosen(x) ==
  /\ x \in Items \ Digested
  /\ loose' = loose \cup {x}
  /\ UNCHANGED <<known, made, now>>

Tick ==
  /\ now' = now + 1
  /\ UNCHANGED <<known, made, loose>>

Next ==
  \/ \E e \in Event : Arrive(e)
  \/ \E s \in Summary, first \in Open : Summarize(s, first)
  \/ \E x \in Items : Loosen(x)
  \/ Tick

Spec == Init /\ [][Next]_vars

=============================================================================
