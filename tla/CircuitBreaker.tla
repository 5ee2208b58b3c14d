--------------------------- MODULE CircuitBreaker ---------------------------
(***************************************************************************)
(* The circuit breaker of PgStorage and the calls that go through it. The  *)
(* breaker is four independent atomics (state, failure count, backoff and  *)
(* the anchor the backoff is counted from), so every load, store and swap  *)
(* is a step of its own and the calls of a process interleave in between.  *)
(*                                                                         *)
(* A call asks should_allow, runs its query and records the outcome. Four  *)
(* kinds of caller do so in the code:                                      *)
(*  - guarded: PgStorage::guarded, the default;                            *)
(*  - Handler: the MCP tool handlers, which ask should_allow themselves,   *)
(*    then make guarded calls, then record the outcome a second time;      *)
(*  - Bare: the background tasks of the knowledge service, which record    *)
(*    success and unavailability but no other error;                       *)
(*  - Cancelled: guarded calls of HTTP requests, whose future is dropped   *)
(*    at the await when the client goes away.                              *)
(*                                                                         *)
(* Abstractions: time is in ticks, and the age of the anchor saturates at  *)
(* the largest backoff, which no comparison tells from a larger one; `now` *)
(* and the anchor are read at once (a `now` read earlier gives the age of  *)
(* an earlier moment, or 0, as an earlier read would); the failure count   *)
(* saturates at the threshold; a query has its outcome at one instant, and *)
(* an acquire timeout of a full pool counts as the database being down.    *)
(* failed and probe are history variables.                                 *)
(* Definitions named X_Y are slips of X; nothing uses them.                *)
(***************************************************************************)
EXTENDS Naturals

CONSTANTS
  Caller,      \* the concurrent calls of a process
  Handler,     \* those made by MCP tool handlers
  Bare,        \* those made by the knowledge service's background tasks
  Cancelled,   \* those whose client may go away
  Threshold,   \* FAILURE_THRESHOLD
  MinBackoff,  \* MIN_BACKOFF_SECS, in ticks
  MaxBackoff   \* MAX_BACKOFF_SECS, in ticks

ASSUME CallerAssumption ==
  /\ Handler \subseteq Caller /\ Bare \subseteq Caller
  /\ Cancelled \subseteq Caller
  /\ Handler \cap (Bare \cup Cancelled) = {}
ASSUME BackoffAssumption ==
  /\ Threshold \in Nat \ {0}
  /\ MinBackoff \in Nat \ {0} /\ MaxBackoff \in Nat
  /\ MinBackoff <= MaxBackoff

VARIABLES
  state,          \* closed, open or half-open
  failure_count,  \* consecutive failures
  backoff,        \* backoff_secs
  age,            \* ticks since last_failure_time
  up,             \* whether the database answers
  call,           \* per caller: its next step, its level, what it loaded
  failed,         \* history: failed queries since an undisputed success
  probe           \* history: the caller that was let through half-open

breaker == <<state, failure_count, backoff, age>>
history == <<failed, probe>>
vars == <<breaker, up, call, history>>

Smaller(a, b) == IF a <= b THEN a ELSE b
NoCaller == "none"

\* The steps between should_allow, the query and the end of the record.
Asking == {"load", "anchor", "backoff", "exchange"}
Succeeding == {"zero", "reset", "close"}
Failing == {"failed", "double", "redouble", "reanchor", "reopen",
            "count", "trip", "stamp"}
Pc == {"idle", "query", "other"} \cup Asking \cup Succeeding \cup Failing

\* A handler's call is at level "outer" in its own should_allow, "inner" in a
\* guarded call and "after" when it records the outcome again.
Level == {"plain", "outer", "inner", "after"}
Call == [pc: Pc, level: Level, seen: 0..MaxBackoff]
Idle == [pc |-> "idle", level |-> "plain", seen |-> 0]

TypeOK ==
  /\ state \in {"closed", "open", "half"}
  /\ failure_count \in 0..Threshold
  /\ backoff \in MinBackoff..MaxBackoff
  /\ age \in 0..MaxBackoff
  /\ up \in BOOLEAN
  /\ call \in [Caller -> Call]
  /\ failed \in 0..Threshold
  /\ probe \in Caller \cup {NoCaller}

Init ==
  /\ state = "closed" /\ failure_count = 0
  /\ backoff = MinBackoff /\ age = 0
  /\ up = TRUE
  /\ call = [c \in Caller |-> Idle]
  /\ failed = 0 /\ probe = NoCaller

-----------------------------------------------------------------------------
At(c, pc) == call[c].pc = pc
GotoLevel(c, pc, level) ==
  call' = [call EXCEPT ![c] = [pc |-> pc, level |-> level, seen |-> 0]]
Goto(c, pc) == GotoLevel(c, pc, call[c].level)
Loaded(c, pc, value) ==
  call' = [call EXCEPT ![c] = [pc |-> pc, level |-> call[c].level,
                               seen |-> value]]

Return(c) == GotoLevel(c, "idle", "plain")

Begin(c) ==
  /\ At(c, "idle")
  /\ GotoLevel(c, "load", IF c \in Handler THEN "outer" ELSE "plain")
  /\ UNCHANGED <<breaker, up, failed, probe>>

\* should_allow said yes: run the query. A handler goes on to its guarded
\* call, or is done at once (a memory filtered out before any query).
Granted(c) ==
  IF call[c].level = "outer"
  THEN GotoLevel(c, "load", "inner") \/ GotoLevel(c, "zero", "after")
  ELSE Goto(c, "query")

\* should_allow said no: a degraded answer, nothing recorded. But a guarded
\* call returns Unavailable, which its handler takes for a failed query.
Refused(c) ==
  IF call[c].level = "inner" THEN GotoLevel(c, "failed", "after")
                             ELSE Return(c)

\* The end of record_success and of record_failure.
RecordedSuccess(c) ==
  IF call[c].level = "inner"
  THEN GotoLevel(c, "load", "inner") \/ GotoLevel(c, "zero", "after")
  ELSE Return(c)
RecordedFailure(c) ==
  IF call[c].level = "inner" THEN GotoLevel(c, "failed", "after")
                             ELSE Return(c)

-----------------------------------------------------------------------------
(* should_allow *)

LoadState(c) ==
  /\ At(c, "load")
  /\ \/ state = "closed" /\ Granted(c)
     \/ state = "half" /\ Refused(c)
     \/ state = "open" /\ Goto(c, "anchor")
  /\ UNCHANGED <<breaker, up, history>>

ReadAnchor(c) ==
  /\ At(c, "anchor")
  /\ Loaded(c, "backoff", age)
  /\ UNCHANGED <<breaker, up, history>>

LoadBackoff(c) ==
  /\ At(c, "backoff")
  /\ IF call[c].seen >= backoff THEN Goto(c, "exchange") ELSE Refused(c)
  /\ UNCHANGED <<breaker, up, history>>

\* compare_exchange: of the callers that come this far, one is the probe.
Exchange(c) ==
  /\ At(c, "exchange")
  /\ IF state = "open"
     THEN state' = "half" /\ probe' = c /\ Granted(c)
     ELSE Refused(c) /\ UNCHANGED <<state, probe>>
  /\ UNCHANGED <<failure_count, backoff, age, up, failed>>

should_allow(c) ==
  LoadState(c) \/ ReadAnchor(c) \/ LoadBackoff(c) \/ Exchange(c)

-----------------------------------------------------------------------------
(* The query, and which record its outcome calls for *)

QueryOk(c) ==
  /\ At(c, "query") /\ up
  /\ Goto(c, "zero")
  /\ UNCHANGED <<breaker, up, history>>

QueryUnavailable(c) ==
  /\ At(c, "query") /\ ~up
  /\ Goto(c, "failed")
  /\ failed' = Smaller(failed + 1, Threshold)
  /\ UNCHANGED <<breaker, up, probe>>

\* The database answers with an error: guarded looks at the state next, the
\* background tasks record nothing.
QueryOtherError(c) ==
  /\ At(c, "query") /\ up
  /\ IF c \in Bare THEN Return(c) ELSE Goto(c, "other")
  /\ UNCHANGED <<breaker, up, history>>

ProbeAnswered_Ignored == FALSE
ProbeAnswered == state = "half"

\* is_half_open: an answer, even an error, shows that the database is back.
\* The handler records nothing for such an error.
OtherError(c) ==
  /\ At(c, "other")
  /\ IF ProbeAnswered THEN Goto(c, "zero") ELSE Return(c)
  /\ UNCHANGED <<breaker, up, history>>

\* The future is dropped at the await: nothing is recorded.
Cancel(c) ==
  /\ c \in Cancelled /\ At(c, "query")
  /\ Return(c)
  /\ UNCHANGED <<breaker, up, history>>

-----------------------------------------------------------------------------
(* record_success *)

ClearedCount == 0

\* The history counts from here, unless a failure is being recorded.
ZeroFailures(c) ==
  /\ At(c, "zero")
  /\ failure_count' = ClearedCount
  /\ failed' = IF \E d \in Caller : call[d].pc \in Failing THEN failed ELSE 0
  /\ Goto(c, "reset")
  /\ UNCHANGED <<state, backoff, age, up, probe>>

ResetBackoff(c) ==
  /\ At(c, "reset")
  /\ backoff' = MinBackoff
  /\ Goto(c, "close")
  /\ UNCHANGED <<state, failure_count, age, up, history>>

Close(c) ==
  /\ At(c, "close")
  /\ state' = "closed"
  /\ RecordedSuccess(c)
  /\ UNCHANGED <<failure_count, backoff, age, up, history>>

record_success(c) == ZeroFailures(c) \/ ResetBackoff(c) \/ Close(c)

-----------------------------------------------------------------------------
(* record_failure *)

LoadFailed(c) ==
  /\ At(c, "failed")
  /\ Goto(c, IF state = "half" THEN "double" ELSE "count")
  /\ UNCHANGED <<breaker, up, history>>

\* The probe failed: load the backoff, store its double, move the anchor and
\* store OPEN, whatever the state is by then.
LoadCurrentBackoff(c) ==
  /\ At(c, "double")
  /\ Loaded(c, "redouble", backoff)
  /\ UNCHANGED <<breaker, up, history>>

Doubled_Uncapped(c) == 2 * call[c].seen
Doubled(c) == Smaller(2 * call[c].seen, MaxBackoff)

DoubleBackoff(c) ==
  /\ At(c, "redouble")
  /\ backoff' = Doubled(c)
  /\ Goto(c, "reanchor")
  /\ UNCHANGED <<state, failure_count, age, up, history>>

MoveAnchor(c) ==
  /\ At(c, "reanchor")
  /\ age' = 0
  /\ Goto(c, "reopen")
  /\ UNCHANGED <<state, failure_count, backoff, up, history>>

Reopened_StillProbing == "half"
Reopened == "open"

Reopen(c) ==
  /\ At(c, "reopen")
  /\ state' = Reopened
  /\ RecordedFailure(c)
  /\ UNCHANGED <<failure_count, backoff, age, up, failed, probe>>

\* fetch_add, then the comparison with the threshold.
CountFailure(c) ==
  /\ At(c, "count")
  /\ failure_count' = Smaller(failure_count + 1, Threshold)
  /\ IF failure_count + 1 >= Threshold THEN Goto(c, "trip")
                                       ELSE RecordedFailure(c)
  /\ UNCHANGED <<state, backoff, age, up, history>>

\* The swap to OPEN; the anchor is only moved after it.
Trip(c) ==
  /\ At(c, "trip")
  /\ state' = "open"
  /\ IF state = "open"
     THEN RecordedFailure(c)
     ELSE Goto(c, "stamp")
  /\ UNCHANGED <<failure_count, backoff, age, up, failed, probe>>

StampAnchor(c) ==
  /\ At(c, "stamp")
  /\ age' = 0
  /\ RecordedFailure(c)
  /\ UNCHANGED <<state, failure_count, backoff, up, history>>

record_failure(c) ==
  \/ LoadFailed(c)
  \/ LoadCurrentBackoff(c) \/ DoubleBackoff(c) \/ MoveAnchor(c) \/ Reopen(c)
  \/ CountFailure(c) \/ Trip(c) \/ StampAnchor(c)

-----------------------------------------------------------------------------
(* Time and the database *)

Tick ==
  /\ age < MaxBackoff
  /\ age' = Smaller(age + 1, MaxBackoff)
  /\ UNCHANGED <<state, failure_count, backoff, up, call, failed, probe>>

GoesDown ==
  /\ up /\ up' = FALSE
  /\ UNCHANGED <<breaker, call, history>>

ComesBack ==
  /\ ~up /\ up' = TRUE
  /\ UNCHANGED <<breaker, call, history>>

\* A call that has begun runs to its end.
Proceed(c) ==
  \/ should_allow(c)
  \/ QueryOk(c) \/ QueryUnavailable(c) \/ QueryOtherError(c) \/ OtherError(c)
  \/ record_success(c) \/ record_failure(c)

Next ==
  \/ \E c \in Caller : Begin(c) \/ Proceed(c) \/ Cancel(c)
  \/ Tick \/ GoesDown \/ ComesBack

Spec == Init /\ [][Next]_vars

(* Fairness. The periodic maintenance and the queue pollers call for ever, *)
(* the tasks of the runtime run, queries end, and time passes.             *)
Fairness ==
  /\ \A c \in Caller : WF_vars(Begin(c)) /\ WF_vars(Proceed(c))
  /\ WF_vars(Tick)

FairSpec == Spec /\ Fairness

-----------------------------------------------------------------------------
(* Properties *)

\* The steps of a call in which it still answers for the state it leaves.
Answering == {"query", "other", "zero", "reset", "close", "failed", "double",
              "redouble", "reanchor", "reopen"}
Answers(c) ==
  \/ call[c].pc \in Answering
  \/ call[c].pc = "load" /\ call[c].level = "inner"

\* The half-open state, which refuses everybody, always has a call in flight
\* that will leave it, so that no interleaving of late results strands it.
\* (Unless the probe is a background task or a request that is dropped.)
HalfOpenHasProbe ==
  state = "half" => \/ probe \in Bare \cup Cancelled
                    \/ probe \in Caller /\ Answers(probe)

\* Failures have to be consecutive: a call reaches the swap to OPEN only when
\* Threshold queries failed since the last success that no recording of a
\* failure overlapped (FAILURE_THRESHOLD's doc comment).
OpensOnThreshold ==
  \A c \in Caller : At(c, "trip") => failed >= Threshold

\* When the database is back for good, the circuit closes for good, as README.md
\* promises ("automatically recovers on reconnect"), but for two cases: a probe
\* that may end without a word did so, or handlers, whose probe is refused by
\* their own guarded call and recorded as failed, are the probe again and again.
RecoversOrProbesFail ==
  <>[]up => \/ <>[](state = "closed")
            \/ <>[](state = "half" /\ probe \in Bare \cup Cancelled)
            \/ []<>(state = "half" /\ probe \in Handler /\ call[probe].level = "after")
============================================================================
