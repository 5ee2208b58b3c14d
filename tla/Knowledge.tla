------------------------------- MODULE Knowledge -------------------------------
(***************************************************************************)
(* The knowledge base: rows of global_knowledge saved by clients, merged   *)
(* when a save says what a row already says, linked to the observation     *)
(* they come from, read, decayed and archived by the lifecycle sweep, and  *)
(* deleted.                                                                *)
(*                                                                         *)
(* Abstractions: a row is named by the save whose id it bears, and titles  *)
(* and vectors are told apart by which saves have the same title, titles   *)
(* above the trigram threshold, and vectors above the semantic one. Texts, *)
(* triggers and projects are left out: they are merged as the sources are. *)
(* Confidence counts in steps of 0.05 and time in weeks, none of which     *)
(* ends inside a transaction or between the two statements of a sweep. A   *)
(* call the circuit breaker refuses is one that fails.                     *)
(* Definitions named X_Y are slips of X; nothing uses them.                *)
(***************************************************************************)
EXTENDS Integers, FiniteSets

CONSTANTS
  Save,        \* the saves, each with an id of its own
  Sweep,       \* concurrent lifecycle sweeps (servers, HTTP, command line)
  Observation, \* observations a row may come from
  None,        \* neither a save nor an observation
  SameTitle,   \* the pairs of saves with the same title up to case
  AlikeTitle,  \* the pairs with titles above the trigram merge threshold
  AlikeVector, \* the pairs with vectors above the semantic threshold
  Source,      \* the observation each save names, or None
  Gaps,        \* by how many weeks the clock may advance
  MaxWeek,     \* the bound on the clock
  MaxReads,    \* the bound on the reads of a row
  MaxFaults    \* the bound on failures

ASSUME PairsAssumption ==
  /\ SameTitle \subseteq Save \X Save
  /\ AlikeTitle \subseteq Save \X Save
  /\ AlikeVector \subseteq Save \X Save
  /\ \A c \in Save : <<c, c>> \in SameTitle
ASSUME SourceAssumption == Source \in [Save -> Observation \cup {None}]
ASSUME ClockAssumption ==
  Gaps \subseteq Nat /\ MaxWeek \in Nat /\ MaxReads \in Nat /\ MaxFaults \in Nat

VARIABLES
  rows,   \* global_knowledge, by id; None where there is no row
  call,   \* per save: next step, the match it locked, what it read, its vector
  reads,  \* per id: the usage increments its readers have spawned
  used,   \* history: per id, the answers with the row whose use is not lost
  sweep,  \* per sweep: idle, or about to archive
  week,   \* the clock
  touched, \* history: rows whose updated_at a merge or a link has moved
  faults

vars == <<rows, call, reads, used, sweep, week, touched, faults>>

InitialConfidence == 10 \* 0.5
FloorConfidence == 2    \* 0.1
ArchiveBelow == 4       \* 0.2
UsageBonus == 2         \* 0.1
FullConfidence == 20    \* 1.0
ArchiveAge == 13        \* 90 days

Row == [sources: SUBSET Observation, vector: BOOLEAN,
        confidence: FloorConfidence..FullConfidence, usage: Nat,
        created: Nat, updated: Nat, archived: BOOLEAN]

ASSUME NoneAssumption == None \notin Save \cup Observation \cup Row

Call == [pc: {"idle", "begin", "match", "write", "link", "done"},
         match: Save \cup {None}, read: SUBSET Observation, vector: BOOLEAN]

TypeOK ==
  /\ rows \in [Save -> Row \cup {None}]
  /\ call \in [Save -> Call]
  /\ reads \in [Save -> Nat]
  /\ used \in [Save -> Nat]
  /\ sweep \in [Sweep -> {"idle", "archive"}]
  /\ week \in 0..MaxWeek
  /\ touched \subseteq Save
  /\ faults \in 0..MaxFaults

Outside(pc) == [pc |-> pc, match |-> None, read |-> {}, vector |-> FALSE]

Init ==
  /\ rows = [i \in Save |-> None]
  /\ call = [c \in Save |-> Outside("idle")]
  /\ reads = [i \in Save |-> 0]
  /\ used = [i \in Save |-> 0]
  /\ sweep = [w \in Sweep |-> "idle"]
  /\ week = 0 /\ touched = {} /\ faults = 0

Stored(i) == rows[i] # None
Live(i) == Stored(i) /\ ~rows[i].archived
Fault == faults < MaxFaults /\ faults' = faults + 1
Since(t) == week - t
SourcesOf(c) == {Source[c]} \ {None}
Smaller(a, b) == IF a < b THEN a ELSE b
Greater(a, b) == IF a > b THEN a ELSE b

\* The row a save has locked with FOR UPDATE.
Locked(i) == \E c \in Save : call[c].pc = "write" /\ call[c].match = i

\* pg_advisory_xact_lock: one save at a time.
Holds(c) == call[c].pc \in {"match", "write"}
LockFree_Always(c) == TRUE
LockFree(c) == \A d \in Save \ {c} : ~Holds(d)

At(c, pc) == call' = [call EXCEPT ![c].pc = pc]
Ended(c, pc) == call' = [call EXCEPT ![c] = Outside(pc)]

-----------------------------------------------------------------------------
(* A save *)

\* The vector is made first; without one the save goes on without semantics.
save_knowledge_with_id(c) ==
  /\ call[c].pc = "idle"
  /\ \E vector \in BOOLEAN :
       call' = [call EXCEPT ![c].pc = "begin", ![c].vector = vector]
  /\ UNCHANGED <<rows, reads, used, sweep, week, touched, faults>>

Begin(c) ==
  /\ call[c].pc = "begin" /\ LockFree(c) /\ At(c, "match")
  /\ UNCHANGED <<rows, reads, used, sweep, week, touched, faults>>

\* The title is looked for in every row, the likeness only in live ones.
SameTitled(c) == {i \in Save : Stored(i) /\ <<c, i>> \in SameTitle}
find_trigram_similar_in_tx(c) == {i \in Save : Live(i) /\ <<c, i>> \in AlikeTitle}
find_semantic_similar_in_tx(c) ==
  {i \in Save : /\ Live(i) /\ rows[i].vector /\ call[c].vector
                /\ <<c, i>> \in AlikeVector}

Matches(c) ==
  IF SameTitled(c) # {} THEN SameTitled(c)
  ELSE IF find_trigram_similar_in_tx(c) # {} THEN find_trigram_similar_in_tx(c)
  ELSE find_semantic_similar_in_tx(c)

\* The match is locked and its lists are read, to be written back later.
Match(c) ==
  /\ call[c].pc = "match"
  /\ IF Matches(c) = {}
     THEN call' = [call EXCEPT ![c].pc = "write", ![c].match = None, ![c].read = {}]
     ELSE \E i \in Matches(c) :
            call' = [call EXCEPT ![c].pc = "write", ![c].match = i,
                                 ![c].read = rows[i].sources]
  /\ UNCHANGED <<rows, reads, used, sweep, week, touched, faults>>

\* merge_into_existing leaves confidence, usage and created_at alone.
MergedRow_Replaced(c) ==
  [rows[call[c].match] EXCEPT !.sources = SourcesOf(c), !.updated = week, !.archived = FALSE]
MergedRow_Unused(c) ==
  [rows[call[c].match] EXCEPT !.sources = call[c].read \cup SourcesOf(c),
                              !.usage = 0, !.updated = week, !.archived = FALSE]
MergedRow(c) ==
  [rows[call[c].match] EXCEPT !.sources = call[c].read \cup SourcesOf(c),
                              !.updated = week, !.archived = FALSE]

FreshRow(c) ==
  [sources |-> SourcesOf(c), vector |-> call[c].vector,
   confidence |-> InitialConfidence, usage |-> 0,
   created |-> week, updated |-> week, archived |-> FALSE]

save_knowledge_inner(c) ==
  IF call[c].match = None
  THEN rows' = [rows EXCEPT ![c] = FreshRow(c)] /\ touched' = touched \ {c}
  ELSE /\ rows' = [rows EXCEPT ![call[c].match] = MergedRow(c)]
       /\ touched' = touched \cup {call[c].match}

\* The answer bears the id of the row, and a row without a source is linked.
Commit(c) ==
  LET saved == IF call[c].match = None THEN c ELSE call[c].match
      orphan == Source[c] = None /\ call[c].read = {}
  IN  /\ call[c].pc = "write"
      /\ save_knowledge_inner(c)
      /\ IF orphan THEN call' = [call EXCEPT ![c] = [Outside("link") EXCEPT !.match = saved]]
                   ELSE Ended(c, "done")
      /\ UNCHANGED <<reads, used, sweep, week, faults>>

\* The commit is done and its answer lost: the save is buffered and made again.
CommitUnanswered(c) ==
  /\ call[c].pc = "write" /\ Fault
  /\ save_knowledge_inner(c) /\ Ended(c, "idle")
  /\ UNCHANGED <<reads, used, sweep, week>>

\* A query of the transaction fails, which rolls it back.
Rollback(c) ==
  /\ Holds(c) /\ Fault /\ Ended(c, "idle")
  /\ UNCHANGED <<rows, reads, used, sweep, week, touched>>

\* spawn_provenance_linking; a row gone or archived meanwhile is left alone.
link_source_observation(c) ==
  LET i == call[c].match
  IN  /\ call[c].pc = "link" /\ ~Locked(i)
      /\ Ended(c, "done")
      /\ \E o \in Observation \cup {None} : \* None: nothing similar, or a failure
           IF o # None /\ Live(i)
           THEN IF o \notin rows[i].sources
                THEN /\ rows' = [rows EXCEPT ![i].sources = @ \cup {o}, ![i].updated = week]
                     /\ touched' = touched \cup {i}
                ELSE UNCHANGED <<rows, touched>>
           ELSE UNCHANGED <<rows, touched>>
      /\ UNCHANGED <<reads, used, sweep, week, faults>>

-----------------------------------------------------------------------------
(* Readers, the lifecycle, deletion *)

\* get_knowledge and search_knowledge answer, and count the use later.
get_knowledge(i) ==
  /\ Live(i) /\ reads[i] + rows[i].usage < MaxReads
  /\ reads' = [reads EXCEPT ![i] = @ + 1] /\ used' = [used EXCEPT ![i] = @ + 1]
  /\ UNCHANGED <<rows, call, sweep, week, touched, faults>>

Used(row) ==
  [row EXCEPT !.usage = @ + 1, !.updated = week,
              !.confidence = Smaller(FullConfidence, @ + UsageBonus)]

update_knowledge_usage_batch(i) ==
  /\ reads[i] > 0 /\ ~Locked(i)
  /\ reads' = [reads EXCEPT ![i] = @ - 1]
  /\ IF Live(i) THEN rows' = [rows EXCEPT ![i] = Used(@)] /\ used' = used
                ELSE rows' = rows /\ used' = [used EXCEPT ![i] = @ - 1]
  /\ UNCHANGED <<call, sweep, week, touched, faults>>

\* The breaker is open, the query fails, or the process ends.
UsageLost(i) ==
  /\ reads[i] > 0 /\ Fault
  /\ reads' = [reads EXCEPT ![i] = @ - 1] /\ used' = [used EXCEPT ![i] = @ - 1]
  /\ UNCHANGED <<rows, call, sweep, week, touched>>

Decayed_SameClock(row) ==
  [row EXCEPT !.confidence = Greater(FloorConfidence, @ - Since(row.updated))]
Decayed_OneWeek(row) ==
  [row EXCEPT !.confidence = Greater(FloorConfidence, @ - 1), !.updated = week]
Decayed(row) ==
  [row EXCEPT !.confidence = Greater(FloorConfidence, @ - Since(row.updated)),
              !.updated = week]

\* A week is over when the clock has advanced since updated_at.
Decays(i) == Live(i) /\ rows[i].confidence > FloorConfidence /\ Since(rows[i].updated) >= 1

\* A statement over many rows waits for the locked ones.
decay_confidence(w) ==
  /\ sweep[w] = "idle" /\ \A i \in Save : Decays(i) => ~Locked(i)
  /\ rows' = [i \in Save |-> IF Decays(i) THEN Decayed(rows[i]) ELSE rows[i]]
  /\ sweep' = [sweep EXCEPT ![w] = "archive"]
  /\ UNCHANGED <<call, reads, used, week, touched, faults>>

Archivable(i) ==
  /\ Live(i) /\ rows[i].confidence < ArchiveBelow
  /\ rows[i].usage = 0 /\ Since(rows[i].created) >= ArchiveAge

auto_archive(w) ==
  /\ sweep[w] = "archive" /\ \A i \in Save : Archivable(i) => ~Locked(i)
  /\ rows' = [i \in Save |-> IF Archivable(i)
                             THEN [rows[i] EXCEPT !.archived = TRUE, !.updated = week]
                             ELSE rows[i]]
  /\ sweep' = [sweep EXCEPT ![w] = "idle"]
  /\ UNCHANGED <<call, reads, used, week, touched, faults>>

\* run_confidence_lifecycle returns on the error of a statement.
SweepFails(w) ==
  /\ sweep[w] = "archive" /\ Fault
  /\ sweep' = [sweep EXCEPT ![w] = "idle"]
  /\ UNCHANGED <<rows, call, reads, used, week, touched>>

\* By the id of a row, which a merged save has answered with.
delete_knowledge(i) ==
  /\ Stored(i) /\ ~Locked(i)
  /\ rows' = [rows EXCEPT ![i] = None] /\ used' = [used EXCEPT ![i] = reads[i]]
  /\ UNCHANGED <<call, reads, sweep, week, touched, faults>>

Tick ==
  /\ \A c \in Save : ~Holds(c)
  /\ \A w \in Sweep : sweep[w] = "idle"
  /\ \E gap \in Gaps : week + gap <= MaxWeek /\ week' = week + gap
  /\ UNCHANGED <<rows, call, reads, used, sweep, touched, faults>>

Next ==
  \/ \E c \in Save :
       \/ save_knowledge_with_id(c) \/ Begin(c) \/ Match(c)
       \/ Commit(c) \/ CommitUnanswered(c) \/ Rollback(c)
       \/ link_source_observation(c)
  \/ \E i \in Save :
       \/ get_knowledge(i) \/ update_knowledge_usage_batch(i) \/ UsageLost(i)
       \/ delete_knowledge(i)
  \/ \E w \in Sweep : decay_confidence(w) \/ auto_archive(w) \/ SweepFails(w)
  \/ Tick

Spec == Init /\ [][Next]_vars

-----------------------------------------------------------------------------
(* Properties *)

(* Beside the types: confidence is accounted for. Overlapping sweeps never *)
(* count the same week twice (only weeks up to updated_at have been        *)
(* counted, however many decay_confidence ran), and only uses raise it.    *)
ConfidenceAccounted ==
  /\ TypeOK
  /\ \A i \in Save : Stored(i) =>
       /\ InitialConfidence - (rows[i].updated - rows[i].created) <= rows[i].confidence
       /\ rows[i].confidence <= InitialConfidence + UsageBonus * rows[i].usage

(* A use keeps a row: the sweep archives only rows of which every use that *)
(* readers were answered with, and that was not lost, is a task still to   *)
(* be run. The column usage_count must remember the others, through merges *)
(* made again, links, revivals, uses of a row gone and overlapping sweeps. *)
(* The race of an answer not yet counted with the sweep is the exception.  *)
UsedStays ==
  [][\A i \in Save : (Live(i) /\ rows'[i] # None /\ rows'[i].archived)
                       => used[i] <= reads[i]]_vars

(* Sources are never lost: a merge writes back the whole list it read, and *)
(* a link made meanwhile must not vanish with it.                          *)
SourcesKept ==
  [][\A i \in Save : (Stored(i) /\ rows'[i] # None)
                       => rows[i].sources \subseteq rows'[i].sources]_vars

(* A new row is news: when save_knowledge_inner inserts, no row has the    *)
(* title and no live row a similar one, whatever other saves did between   *)
(* its look and its insert.                                                *)
InsertsAreNews ==
  [][\A i \in Save : (~Stored(i) /\ rows'[i] # None) =>
       \A j \in Save \ {i} : Stored(j) =>
         /\ <<i, j>> \notin SameTitle
         /\ <<i, j>> \in AlikeTitle => ~Live(j)]_vars

(* A pass of the lifecycle does its work: after auto_archive no live row   *)
(* is left that is old enough, was never used and never saved or linked    *)
(* again: the decay before it has brought its confidence down in time.     *)
PassArchives ==
  [][\A w \in Sweep : sweep[w] = "archive" /\ sweep'[w] = "idle" /\ faults' = faults =>
       \A i \in Save \ touched : rows'[i] # None /\ ~rows'[i].archived =>
         \/ rows'[i].usage > 0
         \/ Since(rows'[i].created) < ArchiveAge]_vars
=============================================================================
