---------------------------- MODULE DegradedWrites ----------------------------
(***************************************************************************)
(* The in-memory buffer of writes (PendingWriteQueue), the requests that   *)
(* put writes into it when the database does not take them, and the flush  *)
(* tasks that bring them to the database later.                            *)
(*                                                                         *)
(* Both processes have a buffer. In `serve`, requests run concurrently and *)
(* the queue poller starts a flush. In `mcp`, one request runs at a time   *)
(* (a Handler): it passes the circuit breaker's gate before its guarded    *)
(* call, and it starts a flush itself when the circuit was not closed at   *)
(* its beginning and is at its end.                                        *)
(*                                                                         *)
(* Abstractions: a write is one of a set; the four kinds of write take the *)
(* same path. A call of the breaker is one step, and its backoff is over   *)
(* at any moment (module CircuitBreaker has its atomics and its time). An  *)
(* unavailable database may have taken the write all the same: nobody can  *)
(* tell, so nothing here does. A save of several guarded calls is one      *)
(* call. asked and line are history variables. Definitions named X_Y are   *)
(* slips of X; nothing uses them.                                          *)
(***************************************************************************)
EXTENDS Naturals, Sequences, SequencesExt

CONSTANTS
  Write,     \* the writes ever requested, each once
  Client,    \* the concurrent requests of a process
  Handler,   \* those made through the MCP server
  Flusher,   \* the flush tasks a process may run
  Threshold, \* FAILURE_THRESHOLD of the circuit breaker
  Polling,   \* whether the process runs the queue poller (`serve`)
  Capacity   \* MAX_QUEUE_SIZE

ASSUME ClientAssumption == Handler \subseteq Client /\ Polling \in BOOLEAN
ASSUME CapacityAssumption == Capacity \in Nat \ {0}
ASSUME ThresholdAssumption == Threshold \in Nat \ {0}

VARIABLES
  circuit,   \* state of the circuit breaker
  failures,  \* its failure count, up to the threshold
  up,        \* whether the database answers
  claimed,   \* whether the poller has claimed messages and not yet looked
             \* at the circuit
  client,    \* per request: next step, its write, a handler's prev_state
  buffer,    \* PendingWriteQueue.queue
  flushing,  \* PendingWriteQueue.flushing
  flusher,   \* per flush task: next step, the write in its hand
  asked,     \* history: the writes requested so far
  line       \* history: the writes whose clients were told that they are
             \* buffered, oldest first, until they are settled

vars == <<circuit, failures, up, claimed, client, buffer, flushing, flusher,
          asked, line>>
breaker == <<circuit, failures>>
outside == <<up, claimed>>
database == <<breaker, outside>>
queue == <<buffer, flushing, flusher, line>>

NoWrite == "none"  \* a request that reads; an empty hand
ASSUME NoWriteAssumption == NoWrite \notin Write

Circuit == {"closed", "open", "half"}
Step == {"idle", "gate", "call", "query", "record", "push", "after"}

TypeOK ==
  /\ circuit \in Circuit
  /\ failures \in 0..Threshold
  /\ up \in BOOLEAN
  /\ claimed \in BOOLEAN
  /\ client \in [Client -> [pc: Step, write: Write \cup {NoWrite},
                            pre: Circuit]]
  /\ buffer \in Seq(Write) /\ Len(buffer) <= Capacity
  /\ flushing \in BOOLEAN
  /\ flusher \in [Flusher -> [pc: {"none", "pop", "write", "leave"},
                              item: Write \cup {NoWrite}]]
  /\ asked \subseteq Write
  /\ line \in Seq(Write)

Idle == [pc |-> "idle", write |-> NoWrite, pre |-> "closed"]
Gone == [pc |-> "none", item |-> NoWrite]

\* A degraded start (PgStorage::new_degraded) has the circuit open.
Init ==
  /\ \/ circuit = "closed" /\ failures = 0
     \/ circuit = "open" /\ failures = Threshold
  /\ up \in BOOLEAN
  /\ claimed = FALSE
  /\ client = [c \in Client |-> Idle]
  /\ buffer = <<>>
  /\ flushing = FALSE
  /\ flusher = [f \in Flusher |-> Gone]
  /\ asked = {}
  /\ line = <<>>

-----------------------------------------------------------------------------
(* The circuit breaker, as its callers see it *)

\* should_allow: yes to all when closed, to the probe when the backoff is over.
Allowed ==
  \/ circuit = "closed" /\ UNCHANGED breaker
  \/ circuit = "open" /\ circuit' = "half" /\ UNCHANGED failures
Denied == circuit # "closed" /\ UNCHANGED breaker

SuccessRecorded == circuit' = "closed" /\ failures' = 0

FailureRecorded ==
  IF circuit = "half"
  THEN circuit' = "open" /\ UNCHANGED failures
  ELSE /\ failures' = IF failures < Threshold THEN failures + 1 ELSE Threshold
       /\ circuit' = IF failures + 1 >= Threshold THEN "open" ELSE circuit

\* An error that is an answer settles a probe.
AnswerRecorded ==
  IF circuit = "half" THEN SuccessRecorded ELSE UNCHANGED breaker

-----------------------------------------------------------------------------
(* The buffer *)

Full == Len(buffer) >= Capacity

\* The database took or rejected the write, or the buffer gave it up.
Settled(w) == line' = RemoveFirst(line, w)

\* At the limit the oldest write makes room.
push(w) ==
  IF Full
  THEN /\ buffer' = Append(Tail(buffer), w)
       /\ line' = Append(RemoveFirst(line, Head(buffer)), w)
  ELSE /\ buffer' = Append(buffer, w)
       /\ line' = Append(line, w)

push_front_Back(w, seq) == Append(seq, w)
push_front(w, seq) == <<w>> \o seq

\* A flush starts unless the buffer is empty or another flush runs; the flag
\* is taken by a compare_exchange. (An emptied buffer between the two checks
\* gives a flush that ends at once.)
start_flush_Always == TRUE
start_flush == ~flushing

spawn_pending_flush ==
  IF buffer # <<>> /\ start_flush
  THEN /\ flushing' = TRUE
       /\ \E f \in Flusher :
            /\ flusher[f] = Gone
            /\ flusher' = [flusher EXCEPT ![f] = [pc |-> "pop", item |-> NoWrite]]
  ELSE UNCHANGED <<flushing, flusher>>

-----------------------------------------------------------------------------
(* A request *)

At(c, pc) == client[c].pc = pc
Goto(c, pc) == client' = [client EXCEPT ![c].pc = pc]
Done(c) == client' = [client EXCEPT ![c] = Idle]

\* The MCP server also serves requests that read.
Request(c) ==
  \E w \in Write \cup {NoWrite} :
    /\ At(c, "idle")
    /\ IF w = NoWrite THEN c \in Handler ELSE w \notin asked
    /\ client' = [client EXCEPT ![c] =
         IF c \in Handler THEN [pc |-> "gate", write |-> w, pre |-> circuit]
                          ELSE [pc |-> "call", write |-> w, pre |-> "closed"]]
    /\ asked' = asked \cup ({w} \ {NoWrite})
    /\ UNCHANGED <<database, queue>>

\* cb_fast_fail_write: a refused write goes to the buffer at once.
Gate(c) ==
  /\ At(c, "gate")
  /\ \/ Allowed /\ Goto(c, "call")
     \/ Denied /\ Goto(c, "push")
  /\ UNCHANGED <<outside, queue, asked>>

\* The guarded call asks the breaker again; a handler records the refusal.
Call(c) ==
  /\ At(c, "call")
  /\ \/ Allowed /\ Goto(c, "query")
     \/ Denied /\ Goto(c, IF c \in Handler THEN "record" ELSE "push")
  /\ UNCHANGED <<outside, queue, asked>>

\* A memory that the filters keep out is done without a query, which a
\* handler takes for a success of the database.
Filtered(c) ==
  /\ At(c, "call")
  /\ IF c \in Handler THEN SuccessRecorded ELSE UNCHANGED breaker
  /\ Goto(c, "after")
  /\ UNCHANGED <<outside, queue, asked>>

\* Answered: with success, or with an error that the caller gets to see.
QueryAnswered(c) ==
  /\ At(c, "query") /\ up
  /\ SuccessRecorded \/ AnswerRecorded
  /\ Goto(c, "after")
  /\ UNCHANGED <<outside, queue, asked>>

QueryUnavailable(c) ==
  /\ At(c, "query") /\ ~up
  /\ FailureRecorded
  /\ Goto(c, IF c \in Handler THEN "record" ELSE "push")
  /\ UNCHANGED <<outside, queue, asked>>

\* The handlers record the failure once more.
Record(c) ==
  /\ At(c, "record")
  /\ FailureRecorded
  /\ Goto(c, "push")
  /\ UNCHANGED <<outside, queue, asked>>

Push(c) ==
  /\ At(c, "push")
  /\ IF client[c].write = NoWrite
     THEN UNCHANGED <<buffer, line>>
     ELSE push(client[c].write)
  /\ Goto(c, "after")
  /\ UNCHANGED <<database, flushing, flusher, asked>>

\* The end of handle_tool_call: after a recovery, flush.
After(c) ==
  /\ At(c, "after")
  /\ IF c \in Handler /\ client[c].pre # "closed" /\ circuit = "closed"
     THEN spawn_pending_flush
     ELSE UNCHANGED <<flushing, flusher>>
  /\ Done(c)
  /\ UNCHANGED <<database, buffer, asked, line>>

\* The client of an HTTP request goes away: the handler is dropped at the
\* await, and its write is not buffered.
Cancel(c) ==
  /\ c \notin Handler /\ At(c, "query")
  /\ Done(c)
  /\ UNCHANGED <<database, queue, asked>>

-----------------------------------------------------------------------------
(* Flushing *)

\* The queue's poller claims messages, if there are any: a guarded call. (One
\* that fails or finds none is a call like those of Background.)
PollerClaim ==
  /\ Polling /\ ~claimed /\ up
  /\ SuccessRecorded
  /\ claimed' = TRUE
  /\ UNCHANGED <<up, client, queue, asked>>

\* Before it hands them out it flushes, if it finds the circuit closed.
PollerFlush ==
  /\ claimed /\ claimed' = FALSE
  /\ IF circuit = "closed"
     THEN spawn_pending_flush
     ELSE UNCHANGED <<flushing, flusher>>
  /\ UNCHANGED <<breaker, up, client, buffer, asked, line>>

pop_front(f) ==
  /\ flusher[f].pc = "pop"
  /\ IF buffer = <<>>
     THEN /\ flusher' = [flusher EXCEPT ![f] = [pc |-> "leave",
                                               item |-> NoWrite]]
          /\ UNCHANGED buffer
     ELSE /\ flusher' = [flusher EXCEPT ![f] = [pc |-> "write",
                                               item |-> Head(buffer)]]
          /\ buffer' = Tail(buffer)
  /\ UNCHANGED <<database, client, flushing, asked, line>>

\* should_allow and the query at once, as the probe if the circuit is open:
\* the write is taken, or dropped as invalid, or filtered without a query; the
\* next one follows.
FlushSettles(f) ==
  /\ flusher[f].pc = "write"
  /\ UNCHANGED breaker \/ (up /\ circuit # "half" /\ SuccessRecorded)
  /\ flusher' = [flusher EXCEPT ![f] = [pc |-> "pop", item |-> NoWrite]]
  /\ Settled(flusher[f].item)
  /\ UNCHANGED <<outside, client, buffer, flushing, asked>>

\* Refused by the breaker or unavailable: the write goes back, flushing ends.
\* At the limit the newest write makes room.
FlushPaused(f) ==
  LET w == flusher[f].item IN
  /\ flusher[f].pc = "write"
  /\ Denied \/ (~up /\ circuit # "half" /\ FailureRecorded)
  /\ IF Full
     THEN buffer' = push_front(w, Front(buffer)) /\ Settled(Last(buffer))
     ELSE buffer' = push_front(w, buffer) /\ UNCHANGED line
  /\ flusher' = [flusher EXCEPT ![f] = [pc |-> "leave", item |-> NoWrite]]
  /\ UNCHANGED <<outside, client, flushing, asked>>

\* FlushGuard::drop.
finish_flush_Forgotten == flushing
finish_flush == FALSE

Leave(f) ==
  /\ flusher[f].pc = "leave"
  /\ flushing' = finish_flush
  /\ flusher' = [flusher EXCEPT ![f] = Gone]
  /\ UNCHANGED <<database, client, buffer, asked, line>>

\* A panic in the flush task loses the write in hand; the guard is dropped.
FlushPanics(f) ==
  /\ flusher[f].pc = "write"
  /\ Settled(flusher[f].item)
  /\ flushing' = finish_flush
  /\ flusher' = [flusher EXCEPT ![f] = Gone]
  /\ UNCHANGED <<database, client, buffer, asked>>

-----------------------------------------------------------------------------
(* The environment *)

\* The guarded calls of others (periodic maintenance, the queue) show the
\* breaker whether the database answers.
Background ==
  /\ IF up THEN SuccessRecorded ELSE circuit # "half" /\ FailureRecorded
  /\ UNCHANGED <<outside, client, queue, asked>>

GoesDown == up /\ up' = FALSE /\ UNCHANGED <<breaker, claimed, client, queue, asked>>
ComesBack == ~up /\ up' = TRUE /\ UNCHANGED <<breaker, claimed, client, queue, asked>>

\* The buffer is memory: best effort.
Crash ==
  /\ \/ circuit' = "closed" /\ failures' = 0
     \/ circuit' = "open" /\ failures' = Threshold
  /\ claimed' = FALSE
  /\ client' = [c \in Client |-> Idle]
  /\ buffer' = <<>>
  /\ flushing' = FALSE
  /\ flusher' = [f \in Flusher |-> Gone]
  /\ line' = <<>>
  /\ UNCHANGED <<up, asked>>

Proceed(c) ==
  \/ Gate(c) \/ Call(c) \/ Filtered(c)
  \/ QueryAnswered(c) \/ QueryUnavailable(c) \/ Record(c) \/ Push(c) \/ After(c)

Flush(f) ==
  pop_front(f) \/ FlushSettles(f) \/ FlushPaused(f) \/ Leave(f)

Next ==
  \/ \E c \in Client : Request(c) \/ Proceed(c) \/ Cancel(c)
  \/ \E f \in Flusher : Flush(f) \/ FlushPanics(f)
  \/ PollerClaim \/ PollerFlush \/ Background \/ GoesDown \/ ComesBack \/ Crash

Spec == Init /\ [][Next]_vars

(* Fairness. The runtime runs requests and tasks, whose calls end; the MCP *)
(* client keeps calling; the periodic maintenance calls the database.      *)
(* (A circuit that stays half-open is the matter of CircuitBreaker.)       *)
(* A poller that claimed messages goes on to look at the circuit; that it  *)
(* claims any is up to the work that is there, and not assumed.            *)
Fairness ==
  /\ \A c \in Client : WF_vars(Proceed(c))
  /\ \A c \in Handler : WF_vars(Request(c))
  /\ \A f \in Flusher : WF_vars(Flush(f))
  /\ WF_vars(PollerFlush) /\ WF_vars(up /\ Background)

FairSpec == Spec /\ Fairness

-----------------------------------------------------------------------------
(* Properties *)

\* At most one flush runs, and the flag is set exactly while one does: no
\* panic, pause or late trigger leaves it behind.
OneFlush ==
  /\ \A f, g \in Flusher : flusher[f] # Gone /\ flusher[g] # Gone => f = g
  /\ flushing <=> \E f \in Flusher : flusher[f] # Gone

\* Beside the types: the writes that were answered "buffered" and are not
\* settled are exactly the one in a flush's hand and those in the buffer, in the
\* order in which they were buffered: none is forgotten, doubled or overtaken (a
\* delete by the save of its id) by flushes that pause, panic or meet the limit.
KeptInOrder ==
  /\ TypeOK
  /\ \/ line = buffer /\ \A f \in Flusher : flusher[f].item = NoWrite
     \/ \E f \in Flusher :
          /\ line = <<flusher[f].item>> \o buffer
          /\ \A g \in Flusher \ {f} : flusher[g].item = NoWrite

\* The module's comment says "On recovery, the queue is flushed back to the
\* database". That holds under load: if the database is back for good and the
\* poller claims messages again and again, the buffer is emptied for good. (A
\* `serve` process without work, or an `mcp` process whose circuit closed
\* between two requests, keeps what it has buffered.)
FlushedOnRecovery == <>[]up /\ []<>claimed => <>[](buffer = <<>>)

=============================================================================
