----------------------------- MODULE Observations -----------------------------
(***************************************************************************)
(* How a tool call of the queue, or the text of a save_memory request,     *)
(* becomes an observation: a new row, or a change of an old one, chosen by *)
(* the LLM or by the similarity of embeddings; the embedding and the       *)
(* knowledge that go with it; the enrichment of saved texts; the sweep     *)
(* that merges similar rows; the backfill of embeddings; deletion.         *)
(* Every statement or transaction of PostgreSQL is a step of its own, and  *)
(* tasks, sweeps and clients interleave between any two of them.           *)
(*                                                                         *)
(* Abstractions: a source is named by the id of its observation, and       *)
(* contributes one fact of that name; narratives and the other lists are   *)
(* left out. What the LLM, the filters and the similarity of vectors       *)
(* decide is a choice. Of a vector it only counts whether it is that of    *)
(* the row's text. Noise levels and times are left out: either row of a    *)
(* pair may be the one to keep. A sweep follows one pair of those it       *)
(* found; many sweeps make up for it. The event that goes to infinite      *)
(* memory is left out, for its failure is ignored.                         *)
(* done, saved, dropped, lagging and late are history variables (done also *)
(* stands for the queue's row being gone), and outdated stands for the     *)
(* texts that vectors were computed of. Definitions named X_Y are slips of *)
(* X; nothing uses them.                                                   *)
(***************************************************************************)
EXTENDS Naturals, FiniteSets

CONSTANTS
  Message,   \* messages of the queue, by the id of their observation
  Memory,    \* save_memory requests, by the id of their observation
  Task,      \* concurrent workers of the queue and requests
  Sweep,     \* concurrent dedup sweeps and embedding backfills
  None,      \* no row, id or vector
  Titled,    \* the sources whose title may be unlike any other
  Tries,     \* attempts at a free title in save_and_notify (5 in the code)
  MaxFaults  \* the bound on failed queries, failed calls, crashes and deletions

ASSUME BoundAssumption ==
  Tries \in Nat \ {0} /\ MaxFaults \in Nat

VARIABLES
  row,     \* observations: the row of each id
  known,   \* the ids that global_knowledge names as sources
  task,    \* per task: next step and what it holds
  sweep,   \* per sweep: next step, its row, the duplicate of that
  done,    \* ids whose message is completed or request answered
  saved,   \* history: the messages that were answered with an observation
  dropped, \* history: the facts that deletions took away
  outdated,\* the tasks and sweeps that hold a vector of a text that has changed
  lagging, \* history: rows that got such a vector, or whose new one failed
  late,    \* history: rows that vanished under an extraction of knowledge
  faults

vars == <<row, known, task, sweep, done, saved, dropped, outdated, lagging, late,
          faults>>

Id == Message \cup Memory
\* A title the LLM may repeat, one of its own, or that of a tombstone, and the
\* number appended to it.
Title == [kind: {"common", "own", "tombstone"}, of: Id \cup {None}, number: 0..Tries]
Common == [kind |-> "common", of |-> None, number |-> 0]
Own(i) == [kind |-> "own", of |-> i, number |-> 0]
TitlesOf(i) == {Common} \cup (IF i \in Titled THEN {Own(i)} ELSE {})
MergedInto(i) == [kind |-> "tombstone", of |-> i, number |-> 0]
Vector == {"none", "current", "old"}
Row == [facts: SUBSET Id, title: Title, vector: Vector]

TypeOK ==
  /\ row \in [Id -> Row \cup {None}]
  /\ known \subseteq Id
  /\ \A w \in Task :
       /\ task[w].pc \in {"idle", "llm", "update", "persist", "merge", "save", "embed",
                          "read", "store", "fetch", "bury", "enrich", "check", "learn"}
       /\ task[w].id \in Id \cup {None} /\ task[w].obs \in Id \cup {None}
       /\ task[w].title \in Title /\ task[w].vector \in BOOLEAN
       /\ task[w].back \in {"persist", "save", "check"}
  /\ \A w \in Sweep :
       /\ sweep[w].pc \in {"idle", "purge", "read", "store"}
       /\ sweep[w].obs \in Id \cup {None} /\ sweep[w].duplicate \in Id \cup {None}
  /\ done \subseteq Id /\ saved \subseteq Message /\ dropped \subseteq Id
  /\ outdated \subseteq Task \cup Sweep /\ lagging \subseteq Id /\ late \subseteq Id
  /\ faults \in 0..MaxFaults

ASSUME NoneAssumption == None \notin Id \cup Row

NoTask == [pc |-> "idle", id |-> None, obs |-> None, title |-> Common,
           vector |-> FALSE, back |-> "save"]
NoSweep == [pc |-> "idle", obs |-> None, duplicate |-> None]

Init ==
  /\ row = [i \in Id |-> None] /\ known = {}
  /\ task = [w \in Task |-> NoTask] /\ sweep = [w \in Sweep |-> NoSweep]
  /\ done = {} /\ saved = {} /\ dropped = {} /\ outdated = {}
  /\ lagging = {} /\ late = {}
  /\ faults = 0

Fault == faults < MaxFaults /\ faults' = faults + 1

-----------------------------------------------------------------------------
(* The statements of the storage *)

Rows == {i \in Id : row[i] # None}
Stored == UNION {row[i].facts : i \in Rows}

\* The unique index over title_normalized, for a row that is written as i.
TitleFree(title, i) == \A j \in Rows \ {i} : row[j].title # title

\* Those about to store a vector of row i that they have computed.
Holders(i) ==
  {w \in Task : task[w].pc \in {"embed", "store"} /\ task[w].obs = i}
    \cup {w \in Sweep : sweep[w].pc = "store" /\ sweep[w].obs = i}

\* Row i has a new text: vectors of the old one may be on their way.
Retexted(i) ==
  outdated' = outdated \cup Holders(i) /\ lagging' = lagging \ {i}

\* Row i goes: a task past its last look at it will still extract its knowledge.
Vanish(i) ==
  late' = IF \E w \in Task : /\ task[w].pc \in {"embed", "bury", "check", "learn"}
                             /\ task[w].obs = i
          THEN late \cup {i} ELSE late

\* ON CONFLICT (id) DO NOTHING: no row is affected.
Exists_OrTaken(i, title) == i \in Rows \/ ~TitleFree(title, i)
Exists(i, title) == i \in Rows

\* A title that is taken is an error.
save_observation(i, facts, title) ==
  /\ TitleFree(title, i)
  /\ row' = [row EXCEPT ![i] = [facts |-> facts, title |-> title, vector |-> "none"]]
  /\ Retexted(i)

\* compute_merge: the facts of both under the title given; the vector stays.
compute_merge(existing, facts, title) ==
  [facts |-> existing.facts \cup facts, title |-> title,
   vector |-> IF existing.vector = "none" THEN "none" ELSE "old"]

\* With force_newer, the title of the newer observation.
CanMerge(i, title) == i \in Rows /\ TitleFree(title, i)
merge_into_existing(i, facts, title) ==
  /\ CanMerge(i, title)
  /\ row' = [row EXCEPT ![i] = compute_merge(@, facts, title)]
  /\ Retexted(i)

\* The vector that w computed, be it of a text the row no longer has.
store_embedding(w, i) ==
  /\ row' = IF i \notin Rows THEN row
            ELSE [row EXCEPT ![i].vector = IF w \in outdated THEN "old" ELSE "current"]
  /\ lagging' = IF w \in outdated THEN lagging \cup {i} ELSE lagging \ {i}

\* Only a row without facts is enriched.
Enrichable_Any(i) == i \in Rows
Enrichable(i) == i \in Rows /\ row[i].facts = {}

\* The sources of knowledge follow the row that was merged away.
Repointed_Kept(keeper, duplicate) == known
Repointed(keeper, duplicate) ==
  IF duplicate \in known THEN (known \ {duplicate}) \cup {keeper} ELSE known

-----------------------------------------------------------------------------
(* Tasks *)

history == <<dropped, late>>
marks == <<outdated, lagging>>
rest == <<known, sweep, done, saved, history>>

To(w, pc) == task' = [task EXCEPT ![w].pc = pc]
Drop(w) == task' = [task EXCEPT ![w] = NoTask]

\* The fact of the task's source: of a saved text there are none yet.
NewFacts(w) == {task[w].id} \cap Message

\* An error ends the task; its message goes back to the queue, its request to
\* the buffer of pending writes.
Fail(w) == Drop(w) /\ Fault /\ UNCHANGED <<row, marks, rest>>

\* The source is dealt with, without an observation.
Skip(w) ==
  /\ Drop(w) /\ done' = done \cup {task[w].id}
  /\ UNCHANGED <<row, known, sweep, saved, marks, history, faults>>

\* process: a message whose observation exists gets its knowledge only. A
\* message may be processed twice at a time, once its visibility timeout is over.
process(w, m) ==
  /\ task[w].pc = "idle" /\ m \in Message \ done
  /\ task' = [task EXCEPT ![w] = [NoTask EXCEPT !.id = m, !.obs = m,
                !.pc = IF m \in Rows THEN "check" ELSE "llm"]]
  /\ UNCHANGED <<row, marks, rest, faults>>

save_memory_with_id(w, r) ==
  /\ task[w].pc = "idle" /\ r \in Memory \ done
  /\ \A v \in Task : task[v].id # r
  /\ \E title \in TitlesOf(r) :
       task' = [task EXCEPT ![w] = [NoTask EXCEPT !.id = r, !.obs = r,
                  !.pc = "persist", !.title = title]]
  /\ UNCHANGED <<row, marks, rest, faults>>

\* compress_and_save: the LLM skips the call, or makes an observation, and may
\* name one of the candidates it was shown as the row to update.
compress_and_save(w) ==
  /\ task[w].pc = "llm"
  /\ \/ Skip(w)
     \/ Fail(w)
     \/ /\ \E title \in TitlesOf(task[w].id) :
             \/ task' = [task EXCEPT ![w].pc = "persist", ![w].title = title]
             \/ \E t \in Rows :
                  task' = [task EXCEPT ![w].pc = "update", ![w].title = title,
                                       ![w].obs = t, ![w].back = "persist"]
        /\ UNCHANGED <<row, marks, rest, faults>>

Again(w, pc) == task' = [task EXCEPT ![w].pc = pc, ![w].obs = task[w].id]

\* A merge has succeeded: the vector of the row is computed anew.
Merged_NoVector(w) == To(w, "fetch")
Merged(w) == To(w, "read")

\* The merge into the candidate; if it fails, the observation is made anew.
Update(w) ==
  /\ task[w].pc = "update"
  /\ \/ /\ merge_into_existing(task[w].obs, NewFacts(w), task[w].title) /\ Merged(w)
        /\ UNCHANGED faults
     \/ /\ ~CanMerge(task[w].obs, task[w].title) /\ Again(w, "persist")
        /\ UNCHANGED <<row, marks, faults>>
     \/ Again(w, "persist") /\ Fault /\ UNCHANGED <<row, marks>>
  /\ UNCHANGED rest

\* persist_and_notify: a title of low value or an echo of what was injected is
\* skipped; without a vector there is no look for similar rows.
persist_and_notify(w) ==
  /\ task[w].pc = "persist"
  /\ \/ Skip(w)
     \/ /\ \/ To(w, "save") /\ Fault
           \/ /\ task' = [task EXCEPT ![w].pc = "save", ![w].vector = TRUE]
              /\ UNCHANGED faults
           \/ /\ \E t \in {i \in Rows : row[i].vector # "none"} :
                   task' = [task EXCEPT ![w].pc = "merge", ![w].obs = t, ![w].back = "save"]
              /\ UNCHANGED faults
        /\ UNCHANGED <<row, marks, rest>>

\* try_dedup_merge: a merge that fails is made up for by a row of its own, with
\* the vector computed before.
AgainWithVector(w) ==
  task' = [task EXCEPT ![w].pc = "save", ![w].obs = task[w].id, ![w].vector = TRUE]
try_dedup_merge(w) ==
  /\ task[w].pc = "merge"
  /\ \/ /\ merge_into_existing(task[w].obs, NewFacts(w), task[w].title) /\ Merged(w)
        /\ UNCHANGED faults
     \/ /\ ~CanMerge(task[w].obs, task[w].title) /\ AgainWithVector(w)
        /\ UNCHANGED <<row, marks, faults>>
     \/ AgainWithVector(w) /\ Fault /\ UNCHANGED <<row, marks>>
  /\ UNCHANGED rest

\* The source has its observation: a message goes on to its tombstone, if the
\* row is another's, and to the knowledge; a request is answered.
Persisted(w, obs) ==
  /\ task' = [task EXCEPT ![w] = [@ EXCEPT !.obs = obs, !.vector = FALSE,
                !.pc = CASE task[w].id \in Memory -> "enrich"
                         [] obs = task[w].id -> "check"
                         [] OTHER -> "bury"]]
  /\ done' = done \cup ({task[w].id} \cap Memory)

\* save_and_notify: one attempt. A title that is taken gets the next number.
save_and_notify(w) ==
  /\ task[w].pc = "save"
  /\ LET i == task[w].id
         exists == Exists(i, task[w].title)
         taken == ~exists /\ ~TitleFree(task[w].title, i)
     IN
     \/ exists /\ Persisted(w, i) /\ UNCHANGED <<row, marks, faults>>
     \/ /\ ~exists /\ save_observation(i, NewFacts(w), task[w].title) /\ UNCHANGED faults
        /\ IF ~task[w].vector THEN Persisted(w, i)
           ELSE To(w, "embed") /\ UNCHANGED done
     \/ /\ taken /\ UNCHANGED <<row, marks, done, faults>>
        /\ IF task[w].title.number + 1 = Tries THEN Drop(w)
           ELSE task' = [task EXCEPT ![w].title.number = @ + 1]
     \/ Drop(w) /\ Fault /\ UNCHANGED <<row, marks, done>>
  /\ UNCHANGED <<known, sweep, saved, history>>

Embed(w) ==
  /\ task[w].pc = "embed" /\ Persisted(w, task[w].obs)
  /\ \/ store_embedding(w, task[w].obs) /\ UNCHANGED faults
     \/ Fault /\ UNCHANGED <<row, lagging>>
  /\ outdated' = outdated \ {w}
  /\ UNCHANGED <<known, sweep, saved, history>>

\* regenerate_embedding: the row is read and its vector computed ...
ReadRow(w) ==
  /\ task[w].pc = "read"
  /\ \/ task[w].obs \in Rows /\ To(w, "store") /\ UNCHANGED <<lagging, faults>>
     \/ task[w].obs \notin Rows /\ To(w, "fetch") /\ UNCHANGED <<lagging, faults>>
     \/ To(w, "fetch") /\ Fault /\ lagging' = lagging \cup {task[w].obs}
  /\ UNCHANGED <<row, outdated, rest>>

\* ... and stored, whatever the row has become by then.
StoreVector(w) ==
  /\ task[w].pc = "store" /\ To(w, "fetch") /\ outdated' = outdated \ {w}
  /\ \/ store_embedding(w, task[w].obs) /\ UNCHANGED faults
     \/ Fault /\ lagging' = lagging \cup {task[w].obs} /\ UNCHANGED row
  /\ UNCHANGED rest

\* The merged row is fetched. If it is gone, the observation is made anew; an
\* enrichment ends there, and goes on with what it knew if it cannot look.
FetchMerged(w) ==
  /\ task[w].pc = "fetch"
  /\ LET i == task[w].obs
         enriched == task[w].back = "check"
     IN
     \/ i \in Rows /\ enriched /\ To(w, "check") /\ UNCHANGED <<done, late, faults>>
     \/ i \in Rows /\ ~enriched /\ Persisted(w, i) /\ UNCHANGED <<late, faults>>
     \/ /\ i \notin Rows /\ UNCHANGED <<done, late, faults>>
        /\ CASE task[w].back = "check" -> Drop(w)
             [] task[w].back = "persist" -> Again(w, "persist")
             [] task[w].back = "save" -> AgainWithVector(w)
     \/ /\ Fault /\ UNCHANGED done
        /\ IF enriched THEN To(w, "check") ELSE Drop(w)
        /\ late' = IF enriched /\ i \notin Rows THEN late \cup {i} ELSE late
  /\ UNCHANGED <<row, known, sweep, saved, marks, dropped>>

\* The tombstone of a message that went into another row; a failure, that of a
\* title which an earlier tombstone has taken included, is only logged.
BuryMessage(w) ==
  /\ task[w].pc = "bury" /\ To(w, "check")
  /\ LET i == task[w].id
         title == MergedInto(task[w].obs)
     IN
     \/ i \notin Rows /\ save_observation(i, {}, title) /\ UNCHANGED faults
     \/ (i \in Rows \/ ~TitleFree(title, i)) /\ UNCHANGED <<row, marks, faults>>
     \/ Fault /\ UNCHANGED <<row, marks>>
  /\ UNCHANGED rest

\* spawn_enrichment: the facts that the LLM finds in a saved text.
Enrich(w) ==
  /\ task[w].pc = "enrich"
  /\ LET i == task[w].obs IN
     \/ /\ Enrichable(i) /\ UNCHANGED faults
        /\ row' = [row EXCEPT ![i].facts = {task[w].id},
                   ![i].vector = IF @ = "none" THEN "none" ELSE "old"]
        /\ Retexted(i)
        /\ task' = [task EXCEPT ![w].pc = "read", ![w].back = "check"]
     \/ /\ task' = [task EXCEPT ![w].pc = "fetch", ![w].back = "check"]
        /\ IF Enrichable(i) THEN Fault ELSE UNCHANGED faults
        /\ UNCHANGED <<row, marks>>
  /\ UNCHANGED rest

\* The end of a task that has seen its source through.
Finish(w) ==
  /\ Drop(w) /\ done' = done \cup {task[w].id}
  /\ saved' = saved \cup ({task[w].id} \cap Message)

\* extract_knowledge: not if some knowledge names the row already ...
CheckKnowledge(w) ==
  /\ task[w].pc = "check"
  /\ \/ task[w].obs \in known /\ Finish(w) /\ UNCHANGED faults
     \/ task[w].obs \notin known /\ To(w, "learn") /\ UNCHANGED <<done, saved, faults>>
     \/ To(w, "learn") /\ Fault /\ UNCHANGED <<done, saved>>
  /\ UNCHANGED <<row, known, sweep, marks, history>>

\* ... and if the LLM finds any. A failure fails the message.
SaveKnowledge(w) ==
  /\ task[w].pc = "learn"
  /\ \/ Finish(w) /\ UNCHANGED <<known, faults>>
     \/ Finish(w) /\ known' = known \cup {task[w].obs} /\ UNCHANGED faults
     \/ Drop(w) /\ Fault /\ UNCHANGED <<known, done, saved>>
  /\ UNCHANGED <<row, sweep, marks, history>>

\* The process of a task dies.
Crash(w) ==
  /\ task[w].pc # "idle" /\ Drop(w) /\ Fault /\ outdated' = outdated \ {w}
  /\ lagging' = IF task[w].pc \in {"read", "store"}
                THEN lagging \cup {task[w].obs} ELSE lagging
  /\ UNCHANGED <<row, rest>>

TaskStep(w) ==
  \/ \E m \in Message : process(w, m)
  \/ \E r \in Memory : save_memory_with_id(w, r)
  \/ compress_and_save(w) \/ Update(w) \/ persist_and_notify(w) \/ try_dedup_merge(w)
  \/ save_and_notify(w) \/ Embed(w) \/ ReadRow(w) \/ StoreVector(w) \/ FetchMerged(w)
  \/ BuryMessage(w) \/ Enrich(w) \/ CheckKnowledge(w) \/ SaveKnowledge(w) \/ Crash(w)

-----------------------------------------------------------------------------
(* The maintenance of the table, and its clients *)

tasks == <<task, done, saved>>

\* run_dedup_sweep: of the rows it has loaded, two with similar vectors.
run_dedup_sweep(w) ==
  /\ sweep[w].pc = "idle"
  /\ \E k, d \in {i \in Rows : row[i].vector # "none"} :
       /\ k # d
       /\ sweep' = [sweep EXCEPT ![w] =
            [NoSweep EXCEPT !.pc = "purge", !.obs = k, !.duplicate = d]]
  /\ UNCHANGED <<row, known, tasks, marks, history, faults>>

\* merge_and_purge locks and reads both rows again. It fails if one is gone, or
\* if by now the duplicate has priority and its title would be there twice.
merge_and_purge(w) ==
  /\ sweep[w].pc = "purge"
  /\ LET k == sweep[w].obs
         d == sweep[w].duplicate
     IN
     \/ /\ {k, d} \subseteq Rows
        /\ row' = [row EXCEPT ![k] = compute_merge(@, row[d].facts, @.title), ![d] = None]
        /\ Retexted(k)
        /\ known' = Repointed(k, d) /\ Vanish(d)
        /\ sweep' = [sweep EXCEPT ![w].pc = "read"]
     \/ sweep' = [sweep EXCEPT ![w] = NoSweep] /\ UNCHANGED <<row, known, marks, late>>
  /\ UNCHANGED <<tasks, dropped, faults>>

\* regenerate_embedding of the row that was kept, or one the backfill found
\* without a vector.
LoadText(w) ==
  /\ \/ sweep[w].pc = "read" /\ sweep[w].obs \in Rows
        /\ sweep' = [sweep EXCEPT ![w].pc = "store"]
     \/ sweep[w].pc = "read" /\ sweep[w].obs \notin Rows
        /\ sweep' = [sweep EXCEPT ![w] = NoSweep]
     \/ sweep[w].pc = "idle" /\ \E i \in Rows :
          /\ row[i].vector = "none"
          /\ sweep' = [sweep EXCEPT ![w] = [NoSweep EXCEPT !.pc = "store", !.obs = i]]
  /\ UNCHANGED <<row, known, tasks, marks, history, faults>>

StoreSwept(w) ==
  /\ sweep[w].pc = "store" /\ sweep' = [sweep EXCEPT ![w] = NoSweep]
  /\ store_embedding(w, sweep[w].obs) /\ outdated' = outdated \ {w}
  /\ UNCHANGED <<known, tasks, history, faults>>

\* A query of a sweep fails, or its process dies.
SweepFails(w) ==
  /\ sweep[w].pc # "idle" /\ Fault /\ sweep' = [sweep EXCEPT ![w] = NoSweep]
  /\ lagging' = IF sweep[w].pc \in {"read", "store"}
                THEN lagging \cup {sweep[w].obs} ELSE lagging
  /\ outdated' = outdated \ {w}
  /\ UNCHANGED <<row, known, tasks, history>>

delete_observation_cascading(i) ==
  /\ i \in Rows /\ Fault
  /\ row' = [row EXCEPT ![i] = None] /\ known' = known \ {i} /\ Vanish(i)
  /\ dropped' = dropped \cup
       (row[i].facts \ UNION {row[j].facts : j \in Rows \ {i}})
  /\ UNCHANGED <<sweep, tasks, marks>>

SweepStep(w) ==
  run_dedup_sweep(w) \/ merge_and_purge(w) \/ LoadText(w) \/ StoreSwept(w) \/ SweepFails(w)

Next ==
  \/ \E w \in Task : TaskStep(w)
  \/ \E w \in Sweep : SweepStep(w)
  \/ \E i \in Id : delete_observation_cascading(i)

Spec == Init /\ [][Next]_vars

-----------------------------------------------------------------------------

\* No interleaving of merges, sweeps and enrichments loses a fact: it is in
\* some row until a client deletes it (merge_into_existing, merge_and_purge,
\* update_observation_metadata).
FactsKept == [][Stored \ Stored' \subseteq dropped']_vars

\* Beside the types: a message that was answered with an observation has left
\* its fact in a row, whichever row that is by now (process, save_and_notify).
SavedIsStored == TypeOK /\ saved \subseteq Stored \cup dropped

\* Knowledge names rows that exist, unless the row went while a task was
\* extracting knowledge from it (merge_and_purge, extract_knowledge).
SourcesExist == known \subseteq Rows \cup late

\* A row's vector is that of its text, or somebody is about to make it so. The
\* exceptions are those that regenerate_embedding leaves: a failure, and a text
\* that changes while a vector of the row is on its way.
VectorsCurrent ==
  \A i \in Rows \ lagging :
    row[i].vector = "old" =>
      \/ \E w \in Task : task[w].pc \in {"read", "store"} /\ task[w].obs = i
      \/ \E w \in Sweep : sweep[w].pc \in {"read", "store"} /\ sweep[w].obs = i
==============================================================================
