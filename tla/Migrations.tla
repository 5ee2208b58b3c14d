------------------------------ MODULE Migrations ------------------------------
(***************************************************************************)
(* Migrations that could not run when the process started. PgStorage runs  *)
(* them from a hook of its breaker's recovery; InfiniteMemoryService, with *)
(* a breaker of its own, also from a background loop and whenever a query  *)
(* finds a relation missing. One flag, migrations_pending, tells that they *)
(* are to be run and is taken by compare-and-exchange.                     *)
(*                                                                         *)
(* Abstractions: the migrations are applied all at once; the breaker's     *)
(* atomics, interleaved in CircuitBreaker, are read and written at once    *)
(* and a backoff may be over at any time; of a query's outcomes the three  *)
(* that matter remain. panicked is a history variable.                     *)
(* Definitions named X_Y are slips of X; nothing uses them.                *)
(***************************************************************************)
EXTENDS Naturals, FiniteSets

CONSTANTS
  Op,         \* concurrent calls of the service
  Unhooked,   \* those that record on the breaker without the recovery hook
  Loop,       \* the background loop of InfiniteMemoryService
  FailureThreshold, \* FAILURE_THRESHOLD
  MaxDelay,   \* MAX_DELAY_SECS, in steps of INITIAL_DELAY_SECS
  MaxOutages, \* the bound on how often the database goes down
  MaxFaults   \* the bound on attempts that fail or panic for other reasons

ASSUME CallAssumption == Unhooked \subseteq Op /\ Loop \notin Op
ASSUME BoundAssumption ==
  /\ FailureThreshold \in Nat \ {0} /\ MaxDelay \in Nat \ {0}
  /\ MaxOutages \in Nat /\ MaxFaults \in Nat

VARIABLES
  service,  \* which of the two services this is
  reachable, \* whether the database answers
  schema,   \* whether the migrations are applied
  pending,  \* migrations_pending
  circuit, failures, \* the service's circuit breaker
  op,       \* per call: next step
  watching, \* tool calls of MCP that began with the storage's circuit not closed
  hooks,    \* calls whose recovery hook was spawned and has not begun
  attempts, \* who runs the migrations now: hooks of calls, the loop
  loop, delay, \* the loop: next step and how long it sleeps
  outages, faults, panicked

guard == <<circuit, failures>>
looping == <<loop, delay>>
bounds == <<outages, faults, panicked>>
mvars == <<service, reachable, schema, pending, guard, op, watching, hooks, attempts,
          looping, bounds>>

MTypeOK ==
  /\ service \in {"storage", "memory"}
  /\ reachable \in BOOLEAN /\ schema \in BOOLEAN
  /\ pending \in BOOLEAN /\ panicked \in BOOLEAN
  /\ circuit \in {"closed", "open", "half"} /\ failures \in 0..FailureThreshold
  /\ op \in [Op -> {"idle", "query"}]
  /\ hooks \subseteq Op /\ watching \subseteq Op /\ attempts \subseteq Op \cup {Loop}
  /\ loop \in {"none", "asleep", "due", "trying", "over"} /\ delay \in 1..MaxDelay
  /\ outages \in 0..MaxOutages /\ faults \in 0..MaxFaults

Lesser(a, b) == IF a < b THEN a ELSE b
Fault == faults < MaxFaults /\ faults' = faults + 1

\* Both constructors try at once. An earlier process may have migrated.
MInit ==
  /\ service \in {"storage", "memory"}
  /\ reachable \in BOOLEAN /\ schema \in BOOLEAN
  /\ pending \in BOOLEAN /\ (~reachable => pending) /\ (~pending => schema)
  /\ circuit = "closed" /\ failures = 0
  /\ op = [o \in Op |-> "idle"] /\ watching = {} /\ hooks = {} /\ attempts = {}
  /\ loop = IF service = "memory" /\ pending THEN "asleep" ELSE "none"
  /\ delay = 1
  /\ outages = 0 /\ faults = 0 /\ panicked = FALSE

-----------------------------------------------------------------------------
(* The flag and the breaker *)

\* compare_exchange(true, false): who takes the flag runs the migrations.
Taken_ByLook(who) ==
  /\ attempts' = attempts \cup {who}
  /\ UNCHANGED pending
Taken(who) ==
  /\ pending' = FALSE
  /\ attempts' = attempts \cup {who}

NotTaken == UNCHANGED <<pending, attempts>>

recorded_success == circuit' = "closed" /\ failures' = 0

recorded_failure ==
  IF circuit = "half"
  THEN circuit' = "open" /\ UNCHANGED failures
  ELSE /\ failures' = Lesser(failures + 1, FailureThreshold)
       /\ circuit' = IF failures + 1 >= FailureThreshold THEN "open" ELSE circuit

-----------------------------------------------------------------------------
(* Calls *)

\* should_allow: the first caller after the backoff is the probe.
Ask(o) ==
  /\ op[o] = "idle" /\ circuit # "half"
  /\ op' = [op EXCEPT ![o] = "query"]
  /\ circuit' = IF circuit = "open" THEN "half" ELSE circuit
  /\ UNCHANGED <<service, reachable, schema, pending, failures, watching, hooks, attempts,
                 looping, bounds>>

\* The reads of infinite memory ask nobody, whatever the circuit.
ReadUngated(o) ==
  /\ op[o] = "idle" /\ service = "memory"
  /\ op' = [op EXCEPT ![o] = "query"]
  /\ UNCHANGED <<service, reachable, schema, pending, guard, watching, hooks, attempts,
                 looping, bounds>>

Answered(o) == op[o] = "query" /\ op' = [op EXCEPT ![o] = "idle"]
World == UNCHANGED <<service, reachable, schema, watching, looping, bounds>>

\* On recovery: PgStorage spawns the hook, the other takes the flag itself.
Recovered(o) ==
  IF circuit # "closed" /\ pending
  THEN IF service = "storage"
       THEN hooks' = hooks \cup {o} /\ NotTaken
       ELSE Taken(o) /\ UNCHANGED hooks
  ELSE UNCHANGED hooks /\ NotTaken

QuerySucceeds(o) ==
  /\ Answered(o) /\ reachable /\ schema
  /\ recorded_success
  /\ IF o \in Unhooked THEN UNCHANGED hooks /\ NotTaken ELSE Recovered(o)
  /\ World

DatabaseUnavailable(o) ==
  /\ Answered(o) /\ ~reachable
  /\ recorded_failure
  /\ UNCHANGED hooks /\ NotTaken /\ World

\* PgStorage: an answer that is an error only counts as a recovery, and only
\* for a guarded call.
StorageMissing(o) ==
  /\ Answered(o) /\ service = "storage" /\ reachable /\ ~schema
  /\ IF circuit = "half" /\ o \notin Unhooked
     THEN recorded_success /\ Recovered(o)
     ELSE UNCHANGED <<guard, hooks>> /\ NotTaken
  /\ World

OnMissing_Nothing(o) == NotTaken
OnMissing(o) == IF pending THEN Taken(o) ELSE NotTaken

\* InfiniteMemoryService: a guarded call asks for the migrations. The pipeline
\* only records its failure.
MemoryMissing(o) ==
  /\ Answered(o) /\ service = "memory" /\ reachable /\ ~schema
  /\ IF circuit = "half" \/ o \in Unhooked THEN recorded_failure ELSE UNCHANGED guard
  /\ IF o \in Unhooked THEN NotTaken ELSE OnMissing(o)
  /\ UNCHANGED hooks /\ World

\* A tool call of the MCP server has the hook run if the storage's circuit was
\* not closed when it began and is when it ends. Infinite memory has another
\* circuit: to it, such a call may end at any time.
pre_cb_state(o) ==
  /\ service = "storage" /\ circuit # "closed" /\ o \notin watching
  /\ watching' = watching \cup {o}
  /\ UNCHANGED <<service, reachable, schema, pending, guard, op, hooks, attempts, looping, bounds>>

handle_recovery(o) ==
  /\ service = "memory" \/ o \in watching
  /\ watching' = watching \ {o}
  /\ hooks' = IF pending /\ (service = "memory" \/ circuit = "closed")
              THEN hooks \cup {o} ELSE hooks
  /\ UNCHANGED <<service, reachable, schema, pending, guard, op, attempts, looping, bounds>>

\* A hook that was spawned begins: try_run_migrations.
RunHook(o) ==
  /\ o \in hooks /\ hooks' = hooks \ {o}
  /\ IF pending THEN Taken(o) ELSE NotTaken
  /\ UNCHANGED <<op, guard>> /\ World

-----------------------------------------------------------------------------
(* Attempts and the loop *)

Calls == <<service, reachable, guard, op, watching, hooks>>
Ends(a) == a \in attempts /\ attempts' = attempts \ {a}

Applied(a) ==
  /\ Ends(a) /\ reachable /\ schema' = TRUE
  /\ loop' = IF a = Loop THEN "over" ELSE loop
  /\ UNCHANGED <<Calls, pending, delay, bounds>>

NextDelay == Lesser(delay * 2, MaxDelay)

Slept(a) ==
  IF a = Loop THEN loop' = "asleep" /\ delay' = NextDelay ELSE UNCHANGED looping

\* Also when the migrations are applied and the answer is lost.
AttemptFails(a) ==
  /\ Ends(a) /\ pending' = TRUE /\ Slept(a)
  /\ IF reachable THEN Fault /\ schema' \in {schema, TRUE}
     ELSE UNCHANGED <<faults, schema>>
  /\ UNCHANGED <<Calls, outages, panicked>>

\* MigrationGuard sets the flag again when it is dropped; PgStorage has none.
Dropped_Kept == pending
Dropped == service = "memory" \/ pending

Panics(a) ==
  /\ Ends(a) /\ Fault /\ pending' = Dropped /\ panicked' = TRUE
  /\ loop' = IF a = Loop THEN "over" ELSE loop
  /\ UNCHANGED <<Calls, schema, delay, outages>>

\* The loop looks at the flag before it takes it, and ends if it is not set.
Wake ==
  /\ loop = "asleep" /\ loop' = IF pending THEN "due" ELSE "over"
  /\ UNCHANGED <<Calls, schema, pending, attempts, delay, bounds>>

LoopTries ==
  /\ loop = "due"
  /\ IF pending
     THEN Taken(Loop) /\ loop' = "trying" /\ UNCHANGED delay
     ELSE NotTaken /\ loop' = "asleep" /\ delay' = NextDelay
  /\ UNCHANGED <<Calls, schema, bounds>>

Outage ==
  /\ reachable /\ outages < MaxOutages /\ reachable' = FALSE /\ outages' = outages + 1
  /\ UNCHANGED <<service, schema, pending, guard, op, watching, hooks, attempts, looping,
                 faults, panicked>>

Restored ==
  /\ ~reachable /\ reachable' = TRUE
  /\ UNCHANGED <<service, schema, pending, guard, op, watching, hooks, attempts, looping, bounds>>

Answer(o) == QuerySucceeds(o) \/ DatabaseUnavailable(o) \/ StorageMissing(o) \/ MemoryMissing(o)
Attempt(a) == Applied(a) \/ AttemptFails(a) \/ Panics(a)

MNext ==
  \/ \E o \in Op :
       \/ Ask(o) \/ ReadUngated(o) \/ Answer(o)
       \/ RunHook(o) \/ pre_cb_state(o) \/ handle_recovery(o)
  \/ \E a \in Op \cup {Loop} : Attempt(a)
  \/ Wake \/ LoopTries \/ Outage \/ Restored

MSpec == MInit /\ [][MNext]_mvars

(* Fairness. Clients keep sending events and reading, and the first of     *)
(* them after a backoff is as often theirs as a background task's; queries *)
(* and tasks end; outages end.                                             *)
MFairness ==
  /\ \A o \in Op : SF_mvars(Ask(o)) /\ WF_mvars(Answer(o)) /\ WF_mvars(RunHook(o))
  /\ \A a \in Op \cup {Loop} : WF_mvars(Attempt(a))
  /\ WF_mvars(Wake) /\ WF_mvars(LoopTries) /\ WF_mvars(Restored)

MFairSpec == MSpec /\ MFairness

-----------------------------------------------------------------------------
(* Properties *)

(* Beside the types: however many calls fail at once, and whatever the     *)
(* loop does, the migrations are run by one task at a time ("only one      *)
(* caller proceeds").                                                      *)
OneAttempt == MTypeOK /\ Cardinality(attempts) <= 1

(* As long as they are not applied, somebody runs the migrations or the    *)
(* flag says that they are to be run; only PgStorage's, whose attempt has  *)
(* no guard, forgets them when the attempt panics.                         *)
NeverForgotten ==
  ~schema => pending \/ attempts # {} \/ (service = "storage" /\ panicked)

(* Infinite memory is migrated in the end: the loop, the recovery and the  *)
(* missing relation together leave no way to wait for ever, even when the  *)
(* loop has ended because it looked while another attempt was about to     *)
(* fail.                                                                   *)
MemoryMigrates == service = "memory" ~> schema

(* What PgStorage::new says of its own: "Deferred migrations will run on   *)
(* first successful connection via recovery hook."                         *)
StorageMigrates == service = "storage" ~> schema
=============================================================================
