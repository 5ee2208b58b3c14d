---------------------------- MODULE PendingQueue ----------------------------
(***************************************************************************)
(* The durable work queue: the table pending_messages, the `serve`         *)
(* processes that poll it, the worker tasks they spawn and the operator's  *)
(* requests on it.                                                         *)
(*                                                                         *)
(* A row is claimed (pending -> processing), handled by a task that holds  *)
(* one permit of its server's semaphore, and then deleted or failed.       *)
(* Nothing ties a row to the task that claimed it: complete_message and    *)
(* fail_message act on the id alone, so a task that outlives its           *)
(* visibility timeout acts on a row that another task has claimed since.   *)
(*                                                                         *)
(* Abstractions:                                                           *)
(*  - the visibility timeout is the step LeaseExpires of the row, which    *)
(*    may happen at any moment after the claim; the second that separates  *)
(*    the `<` of the claim from the `<=` of the release is not seen;       *)
(*  - created_at_epoch has one-second resolution: messages queued together *)
(*    share it, later ones share it or follow;                             *)
(*  - every database call may fail instead (outage or open circuit);       *)
(*  - processing is its result, Ok or Err, at one instant.                 *)
(* attempts, overdue and handled are history variables. Definitions named  *)
(* X_Y are slips of X that the properties have to tell from X; nothing     *)
(* uses them.                                                              *)
(***************************************************************************)
EXTENDS Naturals

CONSTANTS
  Server,      \* the `serve` processes that share the database
  Permit,      \* the semaphore permits of all servers
  Host,        \* the server each permit belongs to
  MaxMsg,      \* bound: number of messages ever queued
  MaxRetry,    \* OPENCODE_MEM_MAX_RETRY
  MaxRounds    \* bound: operator requests to retry the failed messages

ASSUME HostAssumption == Host \in [Permit -> Server]
ASSUME BoundAssumption ==
  /\ MaxMsg \in Nat
  /\ MaxRetry \in Nat \ {0}
  /\ MaxRounds \in Nat

VARIABLES
  row,       \* the table, by id, with the ids that are not in it
  nextId,    \* the id sequence
  slot,      \* what each permit is used for
  poll,      \* the poller loop of each server
  admin,     \* the process_pending_queue request of each server
  phase,     \* life of each server process
  active,    \* AppState.processing_active of each server
  rounds,    \* operator retries so far
  attempts,  \* history: claims of a row since it was queued or retried
  overdue,   \* history: ids whose lease has ever expired
  handled    \* history: ids some task has processed with result Ok

table == <<row, nextId>>
local == <<slot, poll, admin, phase, active>>
history == <<attempts, overdue, handled>>
vars == <<row, nextId, slot, poll, admin, phase, active, rounds,
          attempts, overdue, handled>>

Msg == 1..MaxMsg
NoMsg == 0

\* "new" ids were never inserted; "done" and "cleared" rows were deleted.
Status == {"new", "pending", "processing", "failed", "done", "cleared"}
Row == [status: Status, retry: Nat, lease: {"none", "live", "expired"},
        created: Nat]
Busy == {"run", "complete", "fail"}
Slot == [use: {"free", "admin"}, job: {NoMsg}]
          \cup [use: {"poller"}, job: Msg \cup {NoMsg}]
          \cup [use: Busy, job: Msg]

Free == [use |-> "free", job |-> NoMsg]
Serving(s) == phase[s] \in {"up", "draining"}
Requested == \E s \in Server : Serving(s)  \* someone answers a request
Permits(s, use) == {p \in Permit : Host[p] = s /\ slot[p].use = use}

InTable(m) == row[m].status \in {"pending", "processing", "failed"}
Deleted(m, how) ==
  [row[m] EXCEPT !.status = how, !.retry = 0, !.lease = "none"]

TypeOK ==
  /\ row \in [Msg -> Row]
  /\ nextId \in 1..(MaxMsg + 1)
  /\ slot \in [Permit -> Slot]
  /\ poll \in [Server -> {"check", "claim", "spawn", "sleep", "stopped"}]
  /\ admin \in [Server -> {"none", "claim", "await"}]
  /\ phase \in [Server -> {"up", "draining", "joining", "down"}]
  /\ active \in [Server -> BOOLEAN]
  /\ rounds \in 0..MaxRounds
  /\ attempts \in [Msg -> Nat]
  /\ overdue \subseteq Msg
  /\ handled \subseteq Msg

\* An empty table and servers that are about to start.
Init ==
  /\ row = [m \in Msg |-> [status |-> "new", retry |-> 0, lease |-> "none",
                           created |-> 0]]
  /\ nextId = 1
  /\ slot = [p \in Permit |-> Free]
  /\ poll = [s \in Server |-> "check"]
  /\ admin = [s \in Server |-> "none"]
  /\ phase = [s \in Server |-> "down"]
  /\ active = [s \in Server |-> TRUE]
  /\ rounds = 0
  /\ attempts = [m \in Msg |-> 0]
  /\ overdue = {}
  /\ handled = {}

-----------------------------------------------------------------------------
(* Producers *)

\* The seconds in which the next message may come.
NextSecond ==
  IF nextId = 1 THEN {1}
  ELSE {row[nextId - 1].created, row[nextId - 1].created + 1}

\* queue_message inserts one row, queue_messages several in one statement.
Enqueue(last, second) ==
  /\ Requested
  /\ last \in nextId..MaxMsg
  /\ second \in NextSecond
  /\ row' = [m \in Msg |->
               IF m \in nextId..last
               THEN [status |-> "pending", retry |-> 0, lease |-> "none",
                     created |-> second]
               ELSE row[m]]
  /\ nextId' = last + 1
  /\ UNCHANGED <<local, rounds, history>>

-----------------------------------------------------------------------------
(* Claiming *)

Stale_Ignored(m) == TRUE
Stale_Never(m) == FALSE
Stale(m) == row[m].lease = "expired"

Exhausted_Late(n) == n > MaxRetry
Exhausted_OnlyAtLimit(n) == n = MaxRetry
Exhausted(n) == n >= MaxRetry

Claimable(m) ==
  /\ \/ row[m].status = "pending"
     \/ row[m].status = "processing" /\ Stale(m)
  /\ row[m].retry < MaxRetry

\* SKIP LOCKED: rows that a statement in flight may hold, of a task that ends
\* or of a server that recovers while it starts.
Locked(m) ==
  \/ \E p \in Permit : slot[p].job = m /\ slot[p].use \in {"complete", "fail"}
  \/ Stale(m) /\ \E s \in Server : phase[s] = "down"

\* A claim hands the oldest claimable rows to the reserved permits: all of
\* them, or as many as there are permits (LIMIT); locked rows may be skipped.
OldestFirst(assign, reserved) ==
  LET batch == DOMAIN assign IN
  /\ batch \subseteq {m \in Msg : Claimable(m)}
  /\ \A a, b \in batch : assign[a] = assign[b] => a = b
  /\ \A m \in Msg \ batch : Claimable(m) /\ ~Locked(m) =>
       /\ \A b \in batch : row[b].created <= row[m].created
       /\ \A p \in reserved : \E b \in batch : assign[b] = p

ClaimedRetry_Uncounted(m) == row[m].retry
ClaimedRetry_Refunded(m) ==
  IF row[m].status = "processing" THEN row[m].retry - 1 ELSE row[m].retry
ClaimedRetry(m) ==
  IF row[m].status = "processing" THEN row[m].retry + 1 ELSE row[m].retry

claim_pending_messages(batch) ==
  /\ row' = [m \in Msg |->
               IF m \in batch
               THEN [row[m] EXCEPT !.status = "processing", !.lease = "live",
                                   !.retry = ClaimedRetry(m)]
               ELSE row[m]]
  /\ attempts' = [m \in Msg |-> IF m \in batch THEN attempts[m] + 1
                                               ELSE attempts[m]]

Assignments(reserved) ==
  UNION {[batch -> reserved] : batch \in SUBSET {m \in Msg : Claimable(m)}}

\* A claim that took effect and whose answer nobody reads.
ClaimLost(reserved) ==
  \E assign \in Assignments(reserved) :
    /\ DOMAIN assign # {}
    /\ OldestFirst(assign, reserved)
    /\ claim_pending_messages(DOMAIN assign)

\* The permits of `reserved` after the rows of `assign` got theirs: each is
\* in use `use`, with its row, if it has one.
Assigned(assign, reserved, use) ==
  [p \in Permit |->
     IF \E m \in DOMAIN assign : assign[m] = p
     THEN [use |-> use, job |-> CHOOSE m \in DOMAIN assign : assign[m] = p]
     ELSE slot[p]]

\* The permits of server s in use `use` without a row go back.
Released_Leaked(s, use) == slot
Released(s, use) ==
  [p \in Permit |-> IF Host[p] = s /\ slot[p] = [use |-> use, job |-> NoMsg]
                    THEN Free ELSE slot[p]]

-----------------------------------------------------------------------------
(* The poller of a server *)

PollSkip(s) ==
  /\ phase[s] # "down" /\ poll[s] = "check"
  /\ ~active[s] \/ Permits(s, "free") = {}
  /\ poll' = [poll EXCEPT ![s] = "sleep"]
  /\ UNCHANGED <<table, slot, admin, phase, active, rounds, history>>

PollReserve(s) ==
  /\ phase[s] # "down" /\ poll[s] = "check"
  /\ active[s] /\ Permits(s, "free") # {}
  /\ slot' = [p \in Permit |-> IF p \in Permits(s, "free")
                               THEN [use |-> "poller", job |-> NoMsg]
                               ELSE slot[p]]
  /\ poll' = [poll EXCEPT ![s] = "claim"]
  /\ UNCHANGED <<table, admin, phase, active, rounds, history>>

\* With rows: go on to spawn their tasks. Without: sleep, permits in hand.
PollClaim(s) ==
  /\ phase[s] # "down" /\ poll[s] = "claim"
  /\ \E assign \in Assignments(Permits(s, "poller")) :
       /\ OldestFirst(assign, Permits(s, "poller"))
       /\ claim_pending_messages(DOMAIN assign)
       /\ slot' = Assigned(assign, Permits(s, "poller"), "poller")
       /\ poll' = [poll EXCEPT ![s] = IF DOMAIN assign = {} THEN "sleep"
                                                            ELSE "spawn"]
  /\ UNCHANGED <<nextId, admin, phase, active, rounds, overdue, handled>>

\* The claim failed; the rows are claimed all the same if the connection was
\* lost after the commit. Either way the permits are held while sleeping.
PollClaimError(s) ==
  /\ phase[s] # "down" /\ poll[s] = "claim"
  /\ \/ UNCHANGED <<row, attempts>>
     \/ ClaimLost(Permits(s, "poller"))
  /\ poll' = [poll EXCEPT ![s] = "sleep"]
  /\ UNCHANGED <<nextId, slot, admin, phase, active, rounds, overdue, handled>>

\* A task enters the JoinSet, whose lock the shutdown holds while joining.
PollSpawn(p) ==
  /\ Serving(Host[p]) /\ poll[Host[p]] = "spawn"
  /\ slot[p].use = "poller" /\ slot[p].job # NoMsg
  /\ slot' = [slot EXCEPT ![p].use = "run"]
  /\ UNCHANGED <<table, poll, admin, phase, active, rounds, history>>

\* End of an iteration with work: unused permits are dropped, no sleep.
PollNext(s) ==
  /\ phase[s] # "down" /\ poll[s] = "spawn"
  /\ \A p \in Permits(s, "poller") : slot[p].job = NoMsg
  /\ slot' = Released(s, "poller")
  /\ poll' = [poll EXCEPT ![s] = "check"]
  /\ UNCHANGED <<table, admin, phase, active, rounds, history>>

\* End of the sleep; the shutdown signal is only seen here.
PollWake(s) ==
  /\ phase[s] # "down" /\ poll[s] = "sleep"
  /\ slot' = Released(s, "poller")
  /\ poll' = [poll EXCEPT ![s] = IF phase[s] = "up" THEN "check"
                                                     ELSE "stopped"]
  /\ UNCHANGED <<table, admin, phase, active, rounds, history>>

-----------------------------------------------------------------------------
(* The operator's process_pending_queue request *)

AdminReserve(s) ==
  /\ Serving(s) /\ admin[s] = "none"
  /\ active[s] /\ Permits(s, "free") # {}
  /\ slot' = [p \in Permit |-> IF p \in Permits(s, "free")
                               THEN [use |-> "admin", job |-> NoMsg]
                               ELSE slot[p]]
  /\ admin' = [admin EXCEPT ![s] = "claim"]
  /\ UNCHANGED <<table, poll, phase, active, rounds, history>>

\* The tasks are spawned at once; unused permits live as long as the handler.
AdminClaim(s) ==
  /\ phase[s] # "down" /\ admin[s] = "claim"
  /\ \E assign \in Assignments(Permits(s, "admin")) :
       /\ OldestFirst(assign, Permits(s, "admin"))
       /\ claim_pending_messages(DOMAIN assign)
       /\ slot' = IF DOMAIN assign = {}
                  THEN Released(s, "admin")
                  ELSE Assigned(assign, Permits(s, "admin"), "run")
       /\ admin' = [admin EXCEPT ![s] = IF DOMAIN assign = {} THEN "none"
                                                              ELSE "await"]
  /\ UNCHANGED <<nextId, poll, phase, active, rounds, overdue, handled>>

\* The claim failed, or the client went away and the handler was dropped in
\* the middle of it: its permits go back, with or without the rows claimed.
AdminClaimError(s) ==
  /\ phase[s] # "down" /\ admin[s] = "claim"
  /\ \/ UNCHANGED <<row, attempts>>
     \/ ClaimLost(Permits(s, "admin"))
  /\ slot' = Released(s, "admin")
  /\ admin' = [admin EXCEPT ![s] = "none"]
  /\ UNCHANGED <<nextId, poll, phase, active, rounds, overdue, handled>>

\* The handler has seen its tasks end, or was dropped while it waited.
AdminDone(s) ==
  /\ phase[s] # "down" /\ admin[s] = "await"
  /\ slot' = Released(s, "admin")
  /\ admin' = [admin EXCEPT ![s] = "none"]
  /\ UNCHANGED <<table, poll, phase, active, rounds, history>>

-----------------------------------------------------------------------------
(* A task: process_pending_message, then complete_message or fail_message *)

ProcessOk(p) ==
  /\ slot[p].use = "run"
  /\ slot' = [slot EXCEPT ![p].use = "complete"]
  /\ handled' = handled \cup {slot[p].job}
  /\ UNCHANGED <<table, poll, admin, phase, active, rounds, attempts, overdue>>

Failing_Acknowledged == "complete"
Failing == "fail"

ProcessErr(p) ==
  /\ slot[p].use = "run"
  /\ slot' = [slot EXCEPT ![p].use = Failing]
  /\ UNCHANGED <<table, poll, admin, phase, active, rounds, history>>

\* A row that is charged one retry and goes back, or to the dead letters.
Charged(m) ==
  [row[m] EXCEPT !.retry = @ + 1, !.lease = "none",
                 !.status = IF Exhausted(row[m].retry + 1)
                            THEN "failed" ELSE "pending"]

complete_message(p) ==
  LET m == slot[p].job IN
  /\ slot[p].use = "complete"
  /\ row' = [row EXCEPT ![m] = IF InTable(m) THEN Deleted(m, "done") ELSE @]
  /\ slot' = [slot EXCEPT ![p] = Free]
  /\ UNCHANGED <<nextId, poll, admin, phase, active, rounds, history>>

\* Not permanent: the only way the code calls it.
fail_message(p) ==
  LET m == slot[p].job IN
  /\ slot[p].use = "fail"
  /\ row' = [row EXCEPT ![m] = IF InTable(m) THEN Charged(m) ELSE @]
  /\ slot' = [slot EXCEPT ![p] = Free]
  /\ UNCHANGED <<nextId, poll, admin, phase, active, rounds, history>>

\* The task panics, or the last call fails, which it only logs.
TaskDrops(p) ==
  /\ slot[p].use \in Busy
  /\ slot' = [slot EXCEPT ![p] = Free]
  /\ UNCHANGED <<table, poll, admin, phase, active, rounds, history>>

-----------------------------------------------------------------------------
(* Time and the life of a server *)

LeaseExpires(m) ==
  /\ row[m].status = "processing" /\ row[m].lease = "live"
  /\ row' = [row EXCEPT ![m].lease = "expired"]
  /\ overdue' = overdue \cup {m}
  /\ UNCHANGED <<nextId, local, rounds, attempts, handled>>

\* Everything a server keeps in memory is gone.
Stopped(s) ==
  /\ slot' = [p \in Permit |-> IF Host[p] = s THEN Free ELSE slot[p]]
  /\ poll' = [poll EXCEPT ![s] = "check"]
  /\ admin' = [admin EXCEPT ![s] = "none"]
  /\ phase' = [phase EXCEPT ![s] = "down"]
  /\ active' = [active EXCEPT ![s] = TRUE]
  /\ UNCHANGED <<table, rounds, history>>

Crash(s) == phase[s] # "down" /\ Stopped(s)

\* The shutdown signal: the requests in flight are still served.
Drain(s) ==
  /\ phase[s] = "up"
  /\ phase' = [phase EXCEPT ![s] = "draining"]
  /\ UNCHANGED <<table, slot, poll, admin, active, rounds, history>>

Join(s) ==
  /\ phase[s] = "draining" /\ admin[s] = "none"
  /\ phase' = [phase EXCEPT ![s] = "joining"]
  /\ UNCHANGED <<table, slot, poll, admin, active, rounds, history>>

\* serve waits for the tasks, not for the poller. (It does not wait for the
\* tasks of a request that was dropped: such an exit is a Crash.)
Exit(s) ==
  /\ phase[s] = "joining"
  /\ \A p \in Permit : Host[p] = s => slot[p].use \notin Busy
  /\ Stopped(s)

release_stale_messages ==
  row' = [m \in Msg |->
            IF row[m].status = "processing" /\ Stale(m)
            THEN Charged(m) ELSE row[m]]

\* Startup recovery, which may fail without keeping the server from starting.
Start(s) ==
  /\ phase[s] = "down"
  /\ release_stale_messages \/ UNCHANGED row
  /\ phase' = [phase EXCEPT ![s] = "up"]
  /\ UNCHANGED <<nextId, slot, poll, admin, active, rounds, history>>

-----------------------------------------------------------------------------
(* The operator's requests on the table, and garbage collection *)

set_processing_status(s, on) ==
  /\ Serving(s) /\ active[s] # on
  /\ active' = [active EXCEPT ![s] = on]
  /\ UNCHANGED <<table, slot, poll, admin, phase, rounds, history>>

Remove(S) ==
  /\ S # {}
  /\ row' = [m \in Msg |-> IF m \in S THEN Deleted(m, "cleared") ELSE row[m]]
  /\ UNCHANGED <<nextId, local, rounds, history>>

Failed_OrPending == {m \in Msg : row[m].status \in {"failed", "pending"}}
Failed == {m \in Msg : row[m].status = "failed"}

clear_failed_messages == Requested /\ Remove(Failed)

clear_all_pending_messages == Requested /\ Remove({m \in Msg : InTable(m)})

\* The dead letters queued at or before the TTL's cutoff; the periodic
\* maintenance of any process removes them, with or without a server.
clear_stale_failed_messages(cutoff) ==
  Remove({m \in Failed : row[m].created <= cutoff})

retry_failed_messages ==
  /\ Requested
  /\ Failed # {} /\ rounds < MaxRounds
  /\ row' = [m \in Msg |->
               IF m \in Failed
               THEN [row[m] EXCEPT !.status = "pending", !.retry = 0,
                                   !.lease = "none"]
               ELSE row[m]]
  /\ rounds' = rounds + 1
  /\ attempts' = [m \in Msg |-> IF m \in Failed THEN 0 ELSE attempts[m]]
  /\ UNCHANGED <<nextId, local, overdue, handled>>

-----------------------------------------------------------------------------
Poller(s) ==
  \/ PollSkip(s) \/ PollReserve(s) \/ PollClaim(s) \/ PollClaimError(s)
  \/ PollNext(s) \/ PollWake(s)

AdminProcess(s) ==
  AdminReserve(s) \/ AdminClaim(s) \/ AdminClaimError(s) \/ AdminDone(s)

Task(p) ==
  \/ PollSpawn(p)
  \/ ProcessOk(p) \/ ProcessErr(p)
  \/ complete_message(p) \/ fail_message(p) \/ TaskDrops(p)

Lifecycle(s) == Crash(s) \/ Drain(s) \/ Join(s) \/ Exit(s) \/ Start(s)

Operator ==
  \/ \E s \in Server, on \in BOOLEAN : set_processing_status(s, on)
  \/ clear_failed_messages
  \/ clear_all_pending_messages
  \/ \E cutoff \in Msg : clear_stale_failed_messages(cutoff)
  \/ retry_failed_messages

Next ==
  \/ \E last \in Msg, second \in Msg : Enqueue(last, second)
  \/ \E s \in Server : Poller(s) \/ AdminProcess(s) \/ Lifecycle(s)
  \/ \E p \in Permit : Task(p)
  \/ \E m \in Msg : LeaseExpires(m)
  \/ Operator

Spec == Init /\ [][Next]_vars

(* Fairness. A server that stopped is restarted by its supervisor, time    *)
(* passes, the poller and the tasks run, and tasks end (their calls have   *)
(* timeouts). Reserving and claiming need strong fairness: another request *)
(* may hold the permits, and the database may be down, but not for ever.   *)
Fairness ==
  /\ \A s \in Server :
       /\ WF_vars(Start(s)) /\ WF_vars(Join(s)) /\ WF_vars(Exit(s))
       /\ WF_vars(PollSkip(s)) /\ WF_vars(PollNext(s)) /\ WF_vars(PollWake(s))
       /\ SF_vars(PollReserve(s)) /\ SF_vars(PollClaim(s))
       /\ WF_vars(AdminClaim(s) \/ AdminClaimError(s)) /\ WF_vars(AdminDone(s))
  /\ \A p \in Permit : WF_vars(Task(p))
  /\ \A m \in Msg : WF_vars(LeaseExpires(m))

FairSpec == Spec /\ Fairness

-----------------------------------------------------------------------------
(* Properties *)

\* The state of a message as the promise of the queue sees it.
Seen(m) ==
  CASE row[m].status = "new" -> "absent"
    [] row[m].status \in {"pending", "processing"} -> "waiting"
    [] row[m].status = "failed" -> "dead"
    [] row[m].status \in {"done", "cleared"} -> "gone"

WQ == INSTANCE WorkQueue WITH state <- [m \in Msg |-> Seen(m)]

\* The table, the pollers and the tasks keep the promise of the queue.
ImplementsWorkQueue == WQ!Spec

\* A waiting row is one the claim's retry guard accepts, and a dead letter
\* one it refuses: fail, release and claim agree on where the budget ends,
\* whatever order late tasks, recoveries and retries come in. (The claim
\* filters on retry_count < max, the failures compute retry_count + 1 >= max.)
RetryBudgetAgrees ==
  \A m \in Msg :
    /\ row[m].status = "pending" => row[m].retry < MaxRetry
    /\ row[m].status = "processing" => row[m].retry <= MaxRetry
    /\ row[m].status = "failed" => row[m].retry >= MaxRetry

\* A poison message, even one that kills its worker every time, is handed
\* out at most MaxRetry + 1 times between two decisions of the operator.
AttemptsBounded == \A m \in Msg : attempts[m] <= MaxRetry + 1

\* Two tasks have the same message only after its visibility timeout ran out
\* at least once: no crash, recovery, lost answer or retry alone does it.
NoOverlapBeforeTimeout ==
  \A p, q \in Permit :
    /\ p # q
    /\ slot[p].job # NoMsg /\ slot[p].job = slot[q].job
    => slot[p].job \in overdue

\* At least once: a message leaves the queue as done only when some task has
\* processed it, through crashes and tasks that are late.
DoneWasHandled ==
  \A m \in Msg : row[m].status = "done" => m \in handled

\* A dead letter comes back only when the operator asks for it, with a fresh
\* budget; a task that fails late does not revive it.
DeadLettersStay ==
  [][\A m \in Msg :
       row[m].status = "failed" /\ row'[m].status \notin {"failed", "done", "cleared"}
       => rounds' = rounds + 1 /\ row'[m].retry = 0]_vars

\* Operators leave the servers alone from some moment on.
Quiet == \A s \in Server : active[s] /\ admin[s] = "none"

\* A waiting message does not wait for ever, whatever crashes and errors
\* come in between, once processing stays enabled on every server.
WaitingIsServed ==
  <>[]Quiet =>
    \A m \in Msg : (row[m].status = "pending") ~> (row[m].status # "pending")

\* Claimed, and no task has it: its server crashed, or the answer of the
\* claim was lost.
Orphaned(m) ==
  row[m].status = "processing" /\ \A p \in Permit : slot[p].job # m

Recoverable(m) == Orphaned(m) /\ row[m].retry < MaxRetry

\* An orphan whose budget is not spent is claimed again or released once its
\* visibility timeout has run out.
OrphanWithRetriesRecovers ==
  <>[]Quiet => \A m \in Msg : Recoverable(m) ~> ~Recoverable(m)

============================================================================
