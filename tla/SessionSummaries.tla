--------------------------- MODULE SessionSummaries ---------------------------
(***************************************************************************)
(* The summaries of sessions. A client's request completes or summarizes   *)
(* a session; the maintenance sweep (generate_pending_summaries) writes    *)
(* the summaries nobody asked for. A sweep claims a session by saving a    *)
(* placeholder over whatever summary it has, and takes a placeholder older *)
(* than ten minutes for the remains of a dead sweep. Sweeps of one or      *)
(* several processes overlap with each other and with the requests.        *)
(*                                                                         *)
(* Abstractions: of a summary only the kind of its text counts; of the     *)
(* observations of a session their number and whether the last is an hour  *)
(* old. "manual", which the sweep leaves out, is not one of the sessions.  *)
(* The limit of a sweep (10 sessions) and the cut to the last 150          *)
(* observations are left out. A call that the circuit breaker refuses is   *)
(* one that fails. failures, badCalls and overtaken are history variables. *)
(* Definitions named X_Y are slips of X; nothing uses them.                *)
(***************************************************************************)
EXTENDS Naturals, FiniteSets

CONSTANTS
  Session,     \* the session ids
  Sweeper,     \* concurrent sweeps
  Request,     \* concurrent requests of clients
  MaxObserved, \* the bound on the observations of a session
  MaxFailures, \* the bound on failed queries and crashes
  MaxBadCalls  \* the bound on failed calls of the LLM

ASSUME BoundAssumption ==
  MaxObserved \in Nat /\ MaxFailures \in Nat /\ MaxBadCalls \in Nat

VARIABLES
  status,    \* sessions: the status of each row
  observed,  \* observations: how many each session has
  quiet,     \* the sessions whose last observation is an hour old
  summary,   \* session_summaries: the kind of each row
  sweeper,   \* per sweep: next step, its session, the sessions to come
  request,   \* per request: next step, its session
  failures, badCalls,
  overtaken  \* history: sweeps whose session got a summary after their check

svars == <<status, observed, quiet, summary, sweeper, request, failures, badCalls, overtaken>>

NoSession == "none"
Status == {"none", "active", "completed"}
\* "stale" is a placeholder older than STALE_PLACEHOLDER_MINUTES; "error" and
\* "skip" are the two texts that stand for a summary.
Kind == {"none", "processing", "stale", "error", "skip", "final"}
Placeholder == {"processing", "stale"}

STypeOK ==
  /\ status \in [Session -> Status]
  /\ observed \in [Session -> 0..MaxObserved]
  /\ quiet \subseteq Session
  /\ summary \in [Session -> Kind]
  /\ sweeper \in [Sweeper -> [pc: {"idle", "next", "drop", "claim", "fetch", "error",
                                   "skip", "llm", "final", "undo"},
                              session: Session \cup {NoSession},
                              todo: SUBSET Session]]
  /\ request \in [Request -> [pc: {"idle", "close", "llm", "status", "save"},
                              session: Session \cup {NoSession}]]
  /\ failures \in 0..MaxFailures /\ badCalls \in 0..MaxBadCalls
  /\ overtaken \subseteq Sweeper

Rest == [pc |-> "idle", session |-> NoSession, todo |-> {}]
NoRequest == [pc |-> "idle", session |-> NoSession]

SInit ==
  /\ status = [s \in Session |-> "none"]
  /\ observed = [s \in Session |-> 0]
  /\ quiet = {}
  /\ summary = [s \in Session |-> "none"]
  /\ sweeper = [w \in Sweeper |-> Rest]
  /\ request = [q \in Request |-> NoRequest]
  /\ failures = 0 /\ badCalls = 0 /\ overtaken = {}

Failure == failures < MaxFailures /\ failures' = failures + 1
BadCall == badCalls < MaxBadCalls /\ badCalls' = badCalls + 1

-----------------------------------------------------------------------------
(* The statements of the storage *)

save_session(s) == status' = [status EXCEPT ![s] = "active"]
delete_session(s) == status' = [status EXCEPT ![s] = "none"]

close_stale_sessions ==
  status' = [s \in Session |->
               IF status[s] = "active" THEN "completed" ELSE status[s]]

\* Sweeps at work on s, past their look at its summary.
Working(s) ==
  {w \in Sweeper : sweeper[w].session = s /\ sweeper[w].pc \notin {"idle", "next"}}

\* An upsert: it overwrites whatever is there.
save_summary(s, kind) ==
  /\ summary' = [summary EXCEPT ![s] = kind]
  /\ overtaken' = IF kind = "final" THEN overtaken \cup Working(s) ELSE overtaken

delete_summary(s) ==
  summary' = [summary EXCEPT ![s] = "none"] /\ UNCHANGED overtaken

\* The transaction of a request: a summary only for a session with a row.
update_session_status_with_summary(s, withText) ==
  /\ status' = [status EXCEPT ![s] = IF @ = "none" THEN @ ELSE "completed"]
  /\ IF withText /\ status[s] # "none"
     THEN save_summary(s, "final")
     ELSE UNCHANGED <<summary, overtaken>>

get_sessions_without_summaries_All ==
  {s \in Session : /\ summary[s] = "none"
                   /\ s \in quiet /\ observed[s] >= 2}
get_sessions_without_summaries ==
  {s \in Session : /\ summary[s] \in {"none", "stale"}
                   /\ s \in quiet /\ observed[s] >= 2}

-----------------------------------------------------------------------------
(* Sessions and observations come and go *)

world == <<observed, quiet>>
tasks == <<sweeper, request>>
history == <<failures, badCalls>>

init_session(s) ==
  save_session(s) /\ UNCHANGED <<world, summary, tasks, history, overtaken>>

\* The summary and the observations of a deleted session stay.
session_delete(s) ==
  delete_session(s) /\ UNCHANGED <<world, summary, tasks, history, overtaken>>

\* At the start of a server: sessions active for more than a day.
StartupRecovery ==
  close_stale_sessions /\ UNCHANGED <<world, summary, tasks, history, overtaken>>

Observe(s) ==
  /\ observed[s] < MaxObserved
  /\ observed' = [observed EXCEPT ![s] = @ + 1] /\ quiet' = quiet \ {s}
  /\ UNCHANGED <<status, summary, tasks, history, overtaken>>

\* An observation is deleted, or merged into one of another session.
Forget(s) ==
  /\ observed[s] > 0
  /\ observed' = [observed EXCEPT ![s] = @ - 1]
  /\ UNCHANGED <<status, quiet, summary, tasks, history, overtaken>>

HourPasses(s) ==
  /\ s \notin quiet /\ quiet' = quiet \cup {s}
  /\ UNCHANGED <<status, observed, summary, tasks, history, overtaken>>

PlaceholderAges(s) ==
  /\ summary[s] = "processing" /\ summary' = [summary EXCEPT ![s] = "stale"]
  /\ UNCHANGED <<status, world, tasks, history, overtaken>>

-----------------------------------------------------------------------------
(* complete_session and summarize_session *)

Goto(q, pc) == request' = [request EXCEPT ![q].pc = pc]
Answer(q) == request' = [request EXCEPT ![q] = NoRequest]

FetchObservations(q, s) ==
  /\ request[q].pc = "idle"
  /\ request' = [request EXCEPT ![q] =
       [pc |-> IF observed[s] = 0 THEN "close" ELSE "llm", session |-> s]]
  /\ UNCHANGED <<status, world, summary, sweeper, history, overtaken>>

\* A failed call of the LLM ends the request: the session stays active.
Generate(q) ==
  /\ request[q].pc = "llm"
  /\ \/ Goto(q, "status") /\ UNCHANGED badCalls
     \/ Answer(q) /\ BadCall
  /\ UNCHANGED <<status, world, summary, sweeper, failures, overtaken>>

UpdateStatus(q) ==
  /\ request[q].pc \in {"close", "status"}
  /\ \/ /\ update_session_status_with_summary(request[q].session,
                                              request[q].pc = "status")
        /\ IF request[q].pc = "status" THEN Goto(q, "save") ELSE Answer(q)
        /\ UNCHANGED failures
     \/ Answer(q) /\ Failure /\ UNCHANGED <<status, summary, overtaken>>
  /\ UNCHANGED <<world, sweeper, badCalls>>

\* A failure to save the whole summary is only logged.
SaveSummary(q) ==
  /\ request[q].pc = "save" /\ Answer(q)
  /\ \/ save_summary(request[q].session, "final") /\ UNCHANGED failures
     \/ Failure /\ UNCHANGED <<summary, overtaken>>
  /\ UNCHANGED <<status, world, sweeper, badCalls>>

RequestStep(q) ==
  \/ \E s \in Session : FetchObservations(q, s)
  \/ Generate(q) \/ UpdateStatus(q) \/ SaveSummary(q)

-----------------------------------------------------------------------------
(* generate_pending_summaries *)

Proceed(w, pc) ==
  sweeper' = [sweeper EXCEPT ![w].pc = pc]
\* Done with its session: the next one.
Continue(w) ==
  sweeper' = [sweeper EXCEPT ![w] = [@ EXCEPT !.pc = "next", !.session = NoSession]]

ListSessions(w) ==
  /\ sweeper[w].pc = "idle"
  /\ get_sessions_without_summaries # {}
  /\ sweeper' = [sweeper EXCEPT ![w] = [pc |-> "next", session |-> NoSession,
                                    todo |-> get_sessions_without_summaries]]
  /\ UNCHANGED <<status, world, summary, request, history, overtaken>>

\* check_existing_summary: what to do about the summary s has by now. A query
\* that fails means: skip it.
AfterCheck_Any(s) == IF summary[s] = "none" THEN "claim" ELSE "drop"
AfterCheck(s) ==
  CASE summary[s] = "none" -> "claim"
    [] summary[s] = "stale" -> "drop"
    [] OTHER -> "next"

check_existing_summary(w) ==
  /\ sweeper[w].pc = "next"
  /\ \E s \in sweeper[w].todo :
       \/ /\ sweeper' = [sweeper EXCEPT ![w] =
               [pc |-> AfterCheck(s), todo |-> @.todo \ {s},
                session |-> IF AfterCheck(s) = "next" THEN NoSession ELSE s]]
          /\ UNCHANGED failures
       \/ sweeper' = [sweeper EXCEPT ![w].todo = @ \ {s}] /\ Failure
  /\ overtaken' = overtaken \ {w}
  /\ UNCHANGED <<status, world, summary, request, badCalls>>

EndSweep(w) ==
  /\ sweeper[w].pc = "next" /\ sweeper[w].todo = {}
  /\ sweeper' = [sweeper EXCEPT ![w] = Rest]
  /\ UNCHANGED <<status, world, summary, request, history, overtaken>>

\* The stale placeholder is deleted, whatever has become of it; whether that
\* works or not, the claim comes next.
DropStale(w) ==
  /\ sweeper[w].pc = "drop" /\ Proceed(w, "claim")
  /\ \/ delete_summary(sweeper[w].session) /\ UNCHANGED failures
     \/ Failure /\ UNCHANGED <<summary, overtaken>>
  /\ UNCHANGED <<status, world, request, badCalls>>

claim_summary_slot(w) ==
  /\ sweeper[w].pc = "claim"
  /\ \/ /\ save_summary(sweeper[w].session, "processing") /\ Proceed(w, "fetch")
        /\ UNCHANGED failures
     \/ Continue(w) /\ Failure /\ UNCHANGED <<summary, overtaken>>
  /\ UNCHANGED <<status, world, request, badCalls>>

fetch_session_observations(w) ==
  /\ sweeper[w].pc = "fetch"
  /\ \/ /\ Proceed(w, IF observed[sweeper[w].session] < 2 THEN "skip" ELSE "llm")
        /\ UNCHANGED failures
     \/ Proceed(w, "error") /\ Failure
  /\ UNCHANGED <<status, world, summary, request, badCalls, overtaken>>

generate_session_summary_Kept(w) ==
  /\ sweeper[w].pc = "llm"
  /\ \/ Proceed(w, "final") /\ UNCHANGED badCalls
     \/ Continue(w) /\ BadCall
  /\ UNCHANGED <<status, world, summary, request, failures, overtaken>>
generate_session_summary(w) ==
  /\ sweeper[w].pc = "llm"
  /\ \/ Proceed(w, "final") /\ UNCHANGED badCalls
     \/ Proceed(w, "undo") /\ BadCall
  /\ UNCHANGED <<status, world, summary, request, failures, overtaken>>

\* The summary, or the text that stands for it. A summary that is not saved
\* takes its placeholder along, the others leave it.
Settle(w) ==
  /\ sweeper[w].pc \in {"final", "error", "skip"}
  /\ \/ /\ save_summary(sweeper[w].session, sweeper[w].pc) /\ Continue(w)
        /\ UNCHANGED failures
     \/ /\ Failure /\ UNCHANGED <<summary, overtaken>>
        /\ IF sweeper[w].pc = "final" THEN Proceed(w, "undo") ELSE Continue(w)
  /\ UNCHANGED <<status, world, request, badCalls>>

DropPlaceholder(w) ==
  /\ sweeper[w].pc = "undo" /\ Continue(w)
  /\ \/ delete_summary(sweeper[w].session) /\ UNCHANGED failures
     \/ Failure /\ UNCHANGED <<summary, overtaken>>
  /\ UNCHANGED <<status, world, request, badCalls>>

SweepStep(w) ==
  \/ ListSessions(w) \/ check_existing_summary(w) \/ EndSweep(w)
  \/ DropStale(w) \/ claim_summary_slot(w) \/ fetch_session_observations(w)
  \/ generate_session_summary(w) \/ Settle(w) \/ DropPlaceholder(w)

\* The process of a sweep dies.
Crash(w) ==
  /\ sweeper[w].pc # "idle" /\ Failure
  /\ sweeper' = [sweeper EXCEPT ![w] = Rest]
  /\ UNCHANGED <<status, world, summary, request, badCalls, overtaken>>

SNext ==
  \/ \E s \in Session : \/ init_session(s) \/ session_delete(s)
                        \/ Observe(s) \/ Forget(s)
                        \/ HourPasses(s) \/ PlaceholderAges(s)
  \/ StartupRecovery
  \/ \E q \in Request : RequestStep(q)
  \/ \E w \in Sweeper : SweepStep(w) \/ Crash(w)

SSpec == SInit /\ [][SNext]_svars

\* Time passes, and the maintenance loop keeps its sweeps going. Nothing is
\* assumed of clients.
SFairSpec ==
  /\ SSpec
  /\ \A s \in Session : WF_svars(HourPasses(s)) /\ WF_svars(PlaceholderAges(s))
  /\ \A w \in Sweeper : WF_svars(SweepStep(w))

-----------------------------------------------------------------------------

\* Beside the types: as long as no query fails and no process dies, a
\* placeholder has a sweep that will replace or delete it. Neither a failed call
\* of the LLM nor a second sweep that claimed the same session leaves one behind
\* (generate_pending_summaries).
PlaceholderOwned ==
  /\ STypeOK
  /\ \A s \in Session :
       failures = 0 /\ summary[s] \in Placeholder =>
         \E w \in Working(s) : sweeper[w].pc \notin {"drop", "claim"}

\* A summary is lost, to a placeholder, a deletion or a lesser text, only to
\* a sweep that had looked for it before it was there (check_existing_summary;
\* save_summary and delete_summary ask nobody).
SummaryKept ==
  [][\A s \in Session : summary[s] = "final" /\ summary'[s] # "final" =>
       \E w \in overtaken : sweeper[w].session = s]_svars

\* A session that has gone quiet with two observations gets its text, through
\* crashes at any point and failed calls, unless its observations go
\* (the stale placeholders of get_sessions_without_summaries).
SessionsSettle ==
  \A s \in Session :
    s \in quiet /\ observed[s] >= 2 ~>
      summary[s] \in {"final", "error", "skip"} \/ observed[s] < 2
==============================================================================
