---------------------------- MODULE InfiniteMemory ----------------------------
(***************************************************************************)
(* The compression of raw events into summaries: 5-minute summaries of     *)
(* events, hour summaries of those, day summaries of those. A run of       *)
(* run_full_compression claims rows by a lease (processing_started_at),    *)
(* asks the LLM for a summary of each window of a session, and links the   *)
(* rows to it; a window that fails is released with one more retry. The    *)
(* maintenance tick starts a run without waiting for the last one, and     *)
(* several processes share the database, so runs overlap.                  *)
(*                                                                         *)
(* Abstractions: the four tables are one, a row has its level (0: event).  *)
(* Between a claim and the transaction that links a window, a run touches  *)
(* nothing that others see: LLM call and transaction are one step, and so  *)
(* are a failure and the release that answers it. A lease may run out at   *)
(* any moment. The limits of the claiming queries (10000, 500) are not     *)
(* reached. covers, overrun, tries, lapses and faults are history          *)
(* variables. Definitions named X_Y are slips of X; nothing uses them.     *)
(***************************************************************************)
EXTENDS Naturals, Sequences, FiniteSets, FiniteSetsExt

CONSTANTS
  Run,         \* the runs of run_full_compression, in all processes
  Event,       \* the ids of events, each stored at most once
  Summary,     \* the ids of summaries; the bound on their number
  Session,     \* the sessions events belong to
  SessionOf,   \* the session of each event
  Width,       \* length of a window per level: 300, 3600 and 86400 seconds
  MinChildren, \* summaries that make a window ripe before it is over
  RetryLimit,  \* retry_count at which a row is no longer claimed: 3
  Poison,      \* <<level, session>> whose LLM calls always fail
  MaxTime,     \* the bound on the clock
  StoreUntil,  \* the time of the last event
  MaxFaults    \* the bound on crashes, failed queries and overrun leases

Top == Len(Width)
Levels == 0..Top

ASSUME IdAssumption ==
  /\ Event \cap Summary = {} /\ 0 \notin Event \cup Summary
  /\ SessionOf \in [Event -> Session]
ASSUME WidthAssumption == Width \in Seq(Nat \ {0}) /\ Len(Width) \in 1..3
ASSUME LimitAssumption ==
  /\ RetryLimit \in Nat \ {0} /\ MinChildren \in [1..2 -> Nat]
  /\ Poison \subseteq Levels \X Session

VARIABLES
  rows,    \* the stored rows: level, session, time, parent, lease, ...
  run,     \* per run: its level, the sessions to visit, the rows it holds
  now,     \* the time
  covers,  \* history: the rows each summary was made from
  overrun, \* history: the rows whose lease ran out while a run held them
  tries,   \* history: how often the LLM was asked for a summary of each row
  lapses,  \* history: the faults that may leave an attempt uncounted
  faults   \* history: all faults so far

vars == <<rows, run, now, covers, overrun, tries, lapses, faults>>
attempts == <<tries, lapses>>

NoParent == 0
Empty == [x \in {} |-> {}]
Lease == {"free", "held", "over"}
Id == Event \cup Summary
Stored == DOMAIN rows

Idle == [level |-> Top, sessions |-> {}, batch |-> {}]

TypeOK ==
  /\ Stored \subseteq Id
  /\ \A x \in Stored :
       rows[x] \in [level: Levels, session: Session, ts: Nat,
                    parent: Summary \cup {NoParent}, lease: Lease,
                    retries: Nat, count: Nat]
  /\ run \in [Run -> [level: Levels, sessions: SUBSET Session,
                      batch: SUBSET Id]]
  /\ now \in Nat /\ faults \in Nat
  /\ tries \in [Id -> Nat] /\ lapses \in Nat
  /\ covers \in [Stored \cap Summary -> SUBSET Id]
  /\ overrun \subseteq Id

Init ==
  /\ rows = Empty
  /\ run = [r \in Run |-> Idle]
  /\ now = 0 /\ covers = Empty /\ overrun = {} /\ faults = 0
  /\ tries = [x \in Id |-> 0] /\ lapses = 0

-----------------------------------------------------------------------------
(* The statements of the storage *)

Held == UNION {run[r].batch : r \in Run}

\* An event arrives. (A redelivered call_id changes nothing.)
store_infinite_event(e) ==
  /\ e \notin Stored /\ now <= StoreUntil
  /\ rows' = [x \in Stored \cup {e} |->
                IF x # e THEN rows[x]
                ELSE [level |-> 0, session |-> SessionOf[e], ts |-> now,
                      parent |-> NoParent, lease |-> "free", retries |-> 0,
                      count |-> 1]]
  /\ UNCHANGED <<run, now, covers, overrun, attempts, faults>>

\* The WHERE of the claiming queries.
Claimable_NoLimit(x, level) ==
  /\ rows[x].level = level /\ rows[x].parent = NoParent
  /\ rows[x].lease # "held"
Claimable_NoLease(x, level) ==
  /\ rows[x].level = level /\ rows[x].parent = NoParent
  /\ rows[x].retries < RetryLimit
Claimable_NeverOver(x, level) ==
  /\ rows[x].level = level /\ rows[x].parent = NoParent
  /\ rows[x].retries < RetryLimit
  /\ rows[x].lease = "free"
Claimable(x, level) ==
  /\ rows[x].level = level /\ rows[x].parent = NoParent
  /\ rows[x].retries < RetryLimit
  /\ rows[x].lease # "held"

Claimed(S) ==
  [x \in Stored |-> IF x \in S THEN [rows[x] EXCEPT !.lease = "held"]
                               ELSE rows[x]]

\* After a failure the lease starts anew and keeps the rows back for a while.
Released(S, increment_retry) ==
  [x \in Stored |->
    IF x \notin S THEN rows[x]
    ELSE IF increment_retry
    THEN [rows[x] EXCEPT !.lease = "held", !.retries = @ + 1]
    ELSE [rows[x] EXCEPT !.lease = "free"]]

-----------------------------------------------------------------------------
(* The windows of a batch *)

Window(x, level) == rows[x].ts \div Width[level + 1]

\* The windows that come next: sessions in any order, theirs by time.
Buckets(S, level) ==
  {B \in {{y \in S : /\ rows[y].session = rows[x].session
                     /\ Window(y, level) = Window(x, level)} : x \in S} :
     \A y \in B, z \in S : rows[y].session = rows[z].session =>
                             Window(y, level) <= Window(z, level)}

First(B) == Min({rows[x].ts : x \in B})

\* is_older_than_hours, is_older_than_days
Older(B, level) == now - First(B) >= Width[level + 1]

ShouldAggregate(B, level) ==
  level > 0 => Cardinality(B) >= MinChildren[level] \/ Older(B, level)

FreshSummary == CHOOSE s \in Summary : s \notin Stored

\* The rows of a window get their parent, whatever it was by now.
Linked(B, s) ==
  [x \in Stored |-> IF x \in B THEN [rows[x] EXCEPT !.parent = s] ELSE rows[x]]

\* The transaction that inserts a summary and links its rows.
SummaryOf_Now(B, level, event_count) ==
  [level |-> level, session |-> rows[CHOOSE y \in B : TRUE].session,
   ts |-> now, parent |-> NoParent, lease |-> "free", retries |-> 0,
   count |-> event_count]
SummaryOf(B, level, event_count) ==
  [level |-> level, session |-> rows[CHOOSE y \in B : TRUE].session,
   ts |-> First(B), parent |-> NoParent, lease |-> "free", retries |-> 0,
   count |-> event_count]

create_5min_summary(B) == SummaryOf(B, 1, Cardinality(B))
create_hour_summary_Rows(B) == SummaryOf(B, 2, Cardinality(B))
create_hour_summary(B) ==
  SummaryOf(B, 2, MapThenSumSet(LAMBDA x : rows[x].count, B))
create_day_summary(B) ==
  SummaryOf(B, 3, MapThenSumSet(LAMBDA x : rows[x].count, B))

Created(B, level) ==
  CASE level = 0 -> create_5min_summary(B)
    [] level = 1 -> create_hour_summary(B)
    [] level = 2 -> create_day_summary(B)

Summarized(B, level, s) ==
  [x \in Stored \cup {s} |->
     IF x = s THEN Created(B, level) ELSE Linked(B, s)[x]]

-----------------------------------------------------------------------------
(* A run of run_full_compression *)

Fault == faults < MaxFaults /\ faults' = faults + 1
Lapse == Fault /\ lapses' = lapses + 1

get_unsummarized_infinite_events == {x \in Stored : Claimable(x, 0)}

\* The tick spawns a run, which claims all events.
Start(r) ==
  /\ run[r].level = Top
  /\ LET S == get_unsummarized_infinite_events IN
       /\ rows' = Claimed(S)
       /\ run' = [run EXCEPT ![r] = [level |-> 0, sessions |-> {}, batch |-> S]]
  /\ UNCHANGED <<now, covers, overrun, attempts, faults>>

\* The run is done with the windows B of its batch.
Handled(r, B) == run' = [run EXCEPT ![r].batch = @ \ B]

\* The LLM is asked about the rows of a window. (One attempt may be several
\* requests: those for its chunks, and the client's own retries.)
Tried(B) == tries' = [x \in Id |-> IF x \in B THEN tries[x] + 1 ELSE tries[x]]

Covered(B, s) ==
  covers' = [x \in DOMAIN covers \cup {s} |-> IF x = s THEN B ELSE covers[x]]

Compress(r) == \E B \in Buckets(run[r].batch, run[r].level) :
  /\ ShouldAggregate(B, run[r].level)
  /\ \A x \in B : <<run[r].level, rows[x].session>> \notin Poison
  /\ Summary \ Stored # {}
  /\ rows' = Summarized(B, run[r].level, FreshSummary)
  /\ Covered(B, FreshSummary) /\ Handled(r, B) /\ Tried(B)
  /\ UNCHANGED <<now, overrun, lapses, faults>>

\* The LLM or the transaction fails: the rows get one more retry.
CompressFails(r) == \E B \in Buckets(run[r].batch, run[r].level) :
  /\ ShouldAggregate(B, run[r].level)
  /\ IF \E x \in B : <<run[r].level, rows[x].session>> \in Poison
     THEN UNCHANGED faults ELSE Fault
  /\ rows' = Released(B, TRUE) /\ Handled(r, B) /\ Tried(B)
  /\ UNCHANGED <<now, covers, overrun, lapses>>

\* The release after a failure fails, too: its error is ignored.
ReleaseFails(r) == \E B \in Buckets(run[r].batch, run[r].level) :
  /\ ShouldAggregate(B, run[r].level)
  /\ Lapse /\ Handled(r, B) /\ Tried(B)
  /\ UNCHANGED <<rows, now, covers, overrun>>

\* The transaction is committed but its answer lost: a release follows.
AnswerLost(r) == \E B \in Buckets(run[r].batch, run[r].level) :
  /\ ShouldAggregate(B, run[r].level)
  /\ \A x \in B : <<run[r].level, rows[x].session>> \notin Poison
  /\ Summary \ Stored # {}
  /\ Fault /\ Handled(r, B) /\ Tried(B)
  /\ rows' = [x \in Stored \cup {FreshSummary} |->
                IF x \in B
                THEN [Released(B, TRUE)[x] EXCEPT !.parent = FreshSummary]
                ELSE Summarized(B, run[r].level, FreshSummary)[x]]
  /\ Covered(B, FreshSummary)
  /\ UNCHANGED <<now, overrun, lapses>>

\* Too few summaries in a window that is not over: left for a later run.
NotYet(r) == \E B \in Buckets(run[r].batch, run[r].level) :
  /\ ~ShouldAggregate(B, run[r].level)
  /\ rows' = Released(B, FALSE) /\ Handled(r, B)
  /\ UNCHANGED <<now, covers, overrun, attempts, faults>>

get_sessions_with_unaggregated_5min ==
  {rows[x].session : x \in
    {y \in Stored : rows[y].level = 1 /\ rows[y].parent = NoParent}}
get_sessions_with_unaggregated_hour ==
  {rows[x].session : x \in
    {y \in Stored : rows[y].level = 2 /\ rows[y].parent = NoParent}}

NextLevel(r) ==
  /\ run[r].level < Top /\ run[r].batch = {} /\ run[r].sessions = {}
  /\ LET l == run[r].level + 1 IN
       run' = [run EXCEPT ![r] =
         IF l = Top THEN Idle
         ELSE [level |-> l, batch |-> {},
               sessions |-> IF l = 1 THEN get_sessions_with_unaggregated_5min
                            ELSE get_sessions_with_unaggregated_hour]]
  /\ UNCHANGED <<rows, now, covers, overrun, attempts, faults>>

get_unaggregated_5min_for_session(s) ==
  {x \in Stored : rows[x].session = s /\ Claimable(x, 1)}
get_unaggregated_hour_for_session(s) ==
  {x \in Stored : rows[x].session = s /\ Claimable(x, 2)}

ClaimSession(r) == \E s \in run[r].sessions :
  /\ run[r].level < Top /\ run[r].batch = {}
  /\ LET S == IF run[r].level = 1 THEN get_unaggregated_5min_for_session(s)
              ELSE get_unaggregated_hour_for_session(s)
     IN /\ rows' = Claimed(S)
        /\ run' = [run EXCEPT ![r].sessions = @ \ {s}, ![r].batch = S]
  /\ UNCHANGED <<now, covers, overrun, attempts, faults>>

\* A query fails and ? ends the run, or its process crashes, maybe after it asked
\* about a window: the leases stay.
Abort(r) ==
  /\ run[r].level < Top /\ Lapse
  /\ \/ UNCHANGED tries
     \/ \E B \in Buckets(run[r].batch, run[r].level) :
          ShouldAggregate(B, run[r].level) /\ Tried(B)
  /\ run' = [run EXCEPT ![r] = Idle]
  /\ UNCHANGED <<rows, now, covers, overrun>>

Step(r) ==
  \/ Start(r) \/ Compress(r) \/ CompressFails(r) \/ ReleaseFails(r)
  \/ AnswerLost(r) \/ NotYet(r) \/ NextLevel(r) \/ ClaimSession(r)

-----------------------------------------------------------------------------
(* Time *)

Tick == now < MaxTime /\ now' = now + 1 /\ UNCHANGED <<rows, run, covers, overrun,
                                                      attempts, faults>>

\* Five minutes have passed since a row was claimed or released. (Once it
\* has a parent, nobody asks.)
Over(x) ==
  /\ x \in Stored /\ rows[x].lease = "held" /\ rows[x].parent = NoParent
  /\ rows' = [rows EXCEPT ![x].lease = "over"]
  /\ IF x \in Held THEN Lapse /\ overrun' = overrun \cup {x}
     ELSE UNCHANGED <<lapses, faults, overrun>>
  /\ UNCHANGED <<run, now, covers, tries>>

Next ==
  \/ \E e \in Event : store_infinite_event(e)
  \/ \E r \in Run : Step(r) \/ Abort(r)
  \/ Tick
  \/ \E x \in Id : Over(x)

Spec == Init /\ [][Next]_vars

\* Maintenance ticks go on, a run comes to its end, and so does a lease.
Fairness ==
  /\ \A r \in Run : WF_vars(Step(r))
  /\ WF_vars(Tick)
  /\ \A x \in Id : WF_vars(Over(x) /\ x \notin Held)

FairSpec == Spec /\ Fairness

-----------------------------------------------------------------------------
(* The summaries of a row, as a reader drills down *)

get_infinite_events_by_summary_id(s) ==
  {x \in Stored : rows[x].level = 0 /\ rows[x].parent = s}
get_5min_summaries_by_hour_id(s) ==
  {x \in Stored : rows[x].level = 1 /\ rows[x].parent = s}
get_hour_summaries_by_day_id(s) ==
  {x \in Stored : rows[x].level = 2 /\ rows[x].parent = s}

EventsOf5min(S) == UNION {get_infinite_events_by_summary_id(s) : s \in S}
EventsOfHours(S) == EventsOf5min(UNION {get_5min_summaries_by_hour_id(s) : s \in S})
EventsBelow(s) ==
  CASE rows[s].level = 1 -> EventsOf5min({s})
    [] rows[s].level = 2 -> EventsOfHours({s})
    [] rows[s].level = 3 -> EventsOfHours(get_hour_summaries_by_day_id(s))

\* All rows a summary was made from, directly or through other summaries.
MadeFrom(S) == S \cup UNION {covers[s] : s \in S \cap Summary}
Sources(s) == MadeFrom(MadeFrom(covers[s]))

\* What a reader sees of a row: nothing that runs use to coordinate.
Item(x) == [level |-> rows[x].level, session |-> rows[x].session, ts |-> rows[x].ts]

DG == INSTANCE Digest WITH
        known <- [x \in Stored |-> Item(x)], made <- covers, loose <- overrun

\* Claims, leases, retries and the transactions that link a window keep the
\* promise of infinite memory: a summary appears with all its rows, which are of
\* one window of one session, is of the right level and time, and takes no row that
\* another one has, unless its lease was overrun before (run_full_compression).
ImplementsDigest == DG!Spec

\* Two runs work on the same row only if the lease of the first ran out while
\* it was at it (get_unsummarized_infinite_events and its two siblings).
Exclusive ==
  \A r1, r2 \in Run : r1 # r2 => run[r1].batch \cap run[r2].batch \subseteq overrun

\* No event or summary is counted in two summaries of the next level, through
\* all retries, crashes, lost answers and aborted runs, unless its lease was
\* overrun (release_infinite_events, create_5min_summary).
CountedOnce ==
  \A s1, s2 \in Stored \cap Summary :
    s1 # s2 => covers[s1] \cap covers[s2] \subseteq overrun

\* Beside the types: nothing is counted twice, and the event_count of a summary is
\* the number of events a reader finds by drilling down from it, at every level,
\* unless a lease below was overrun (create_hour_summary, create_day_summary and
\* the lookups).
CountsAgree ==
  /\ TypeOK /\ CountedOnce
  /\ \A s \in Stored \cap Summary :
       Sources(s) \cap overrun = {} => rows[s].count = Cardinality(EventsBelow(s))

\* The LLM is asked no more than RetryLimit times about a row, and once more for
\* each fault that may leave an attempt uncounted: a run that ends or crashes at
\* work, a release that fails, a lease that runs out under a run. No failure that
\* is recorded, no lost answer of a transaction and no other run adds to that
\* (the retry_count of the claims and of release_infinite_events).
TriesBounded == \A x \in Id : tries[x] <= RetryLimit + lapses

\* A row has its summary, or has used up its retries because the LLM never takes
\* its window.
Settled(x) ==
  \/ rows[x].level = Top \/ rows[x].parent # NoParent
  \/ /\ <<rows[x].level, rows[x].session>> \in Poison
     /\ rows[x].retries >= RetryLimit

\* All rows settle, again and again as new ones come; a window that fails forever
\* holds back no other, and one bad call loses nothing (run_full_compression,
\* with fewer faults than retries).
EveryRowSettles == []<>(\A x \in Stored : Settled(x))
==============================================================================
