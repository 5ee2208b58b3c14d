--------------------------- MODULE ObservationsProofs ---------------------------
(***************************************************************************)
(* Proofs about Observations, for any messages, requests, tasks, sweeps    *)
(* and faults. IInv is the inductive invariant. What a statement does to   *)
(* the table is one predicate (RowsGrow), what a step does to its task or  *)
(* its sweep another (TaskMoves, SweepMoves); every action is shown to     *)
(* Keep the invariant and the facts, and the four theorems rest on that.   *)
(***************************************************************************)
EXTENDS Observations, TLAPS

Pc == {"idle", "llm", "update", "persist", "merge", "save", "embed", "read", "store",
       "fetch", "bury", "enrich", "check", "learn"}
TaskRecord == [pc: Pc, id: Id \cup {None}, obs: Id \cup {None}, title: Title,
               vector: BOOLEAN, back: {"persist", "save", "check"}]

\* Beside its types, a task at work names a source and a row, which is the
\* source's own until the task has found or made it one, and has tries left.
TaskState ==
  {t \in TaskRecord :
     /\ t.pc # "idle" => t.id \in Id /\ t.obs \in Id
     /\ t.pc \in {"llm", "persist", "save", "embed"} => t.obs = t.id
     /\ t.title.number < Tries}

SweepRecord == [pc: {"idle", "purge", "read", "store"}, obs: Id \cup {None},
                duplicate: Id \cup {None}]
SweepState ==
  {s \in SweepRecord :
     /\ s.pc # "idle" => s.obs \in Id
     /\ s.pc = "purge" => s.duplicate \in Id /\ s.duplicate # s.obs}

\* The types of a state.
Typed ==
  /\ row \in [Id -> Row \cup {None}] /\ known \subseteq Id
  /\ task \in [Task -> TaskState] /\ sweep \in [Sweep -> SweepState]
  /\ done \subseteq Id /\ saved \subseteq Message /\ dropped \subseteq Id
  /\ outdated \subseteq Task \cup Sweep /\ lagging \subseteq Id /\ late \subseteq Id
  /\ faults \in 0..MaxFaults

\* The facts that some row has, or that a client has deleted.
Kept == Stored \cup dropped

\* A task whose source has left its fact in some row.
Safe(t) ==
  /\ t.pc \in {"read", "store", "fetch", "embed", "bury", "enrich", "check", "learn"}
  /\ t.id \in Message
  => t.id \in Kept

\* A task past its last look at its row.
Found(t) == t.pc \in {"embed", "bury", "check", "learn"} => t.obs \in Rows \cup late

\* The rows whose vector somebody has to make anew, and those a task or a sweep
\* is about to.
Old == {i \in Rows \ lagging : row[i].vector = "old"}
Reads(t) == IF t.pc \in {"read", "store"} THEN {t.obs} ELSE {}
Read == (UNION {Reads(task[w]) : w \in Task}) \cup (UNION {Reads(sweep[v]) : v \in Sweep})

IInv ==
  /\ Typed
  /\ \A w \in Task : Safe(task[w]) /\ Found(task[w])
  /\ Rows \cap Message \subseteq Kept
  /\ saved \subseteq Kept
  /\ SourcesExist
  /\ Old \subseteq Read

\* What every step is shown to do.
Keeps == IInv' /\ Stored \ Stored' \subseteq dropped'

-----------------------------------------------------------------------------
(* Tasks *)

\* The step of one task: the others stay as they are.
TaskMoves(w, pcs) ==
  /\ task' \in [Task -> TaskState]
  /\ \A v \in Task \ {w} : task'[v] = task[v]
  /\ task'[w].pc \in pcs
  /\ task[w].pc # "idle" /\ task'[w].pc # "idle" => task'[w].id = task[w].id

LEMMA Titles ==
  ASSUME NEW i \in Id, NEW title \in TitlesOf(i)
  PROVE  title \in Title /\ title.number < Tries
BY BoundAssumption DEF TitlesOf, Common, Own, Title

LEMMA NoTaskTyped == NoTask \in TaskState
BY BoundAssumption DEF NoTask, TaskState, TaskRecord, Pc, Common, Title

LEMMA DropMoves ==
  ASSUME Typed, NEW w \in Task, Drop(w)
  PROVE  TaskMoves(w, {"idle"})
BY NoTaskTyped DEF Typed, Drop, TaskMoves, NoTask

LEMMA ToMoves ==
  ASSUME Typed, NEW w \in Task, task[w].pc # "idle", NEW pc \in Pc \ {"idle"}, To(w, pc),
         pc \in {"llm", "persist", "save", "embed"} => task[w].obs = task[w].id
  PROVE  TaskMoves(w, {pc}) /\ task'[w].obs = task[w].obs /\ task'[w].back = task[w].back
BY DEF Typed, To, TaskMoves, TaskState, TaskRecord

LEMMA AgainMoves ==
  ASSUME Typed, NEW w \in Task, task[w].pc # "idle", NEW pc \in Pc \ {"idle"}, Again(w, pc)
  PROVE  TaskMoves(w, {pc}) /\ task'[w].obs = task[w].id
BY DEF Typed, Again, TaskMoves, TaskState, TaskRecord

LEMMA AgainWithVectorMoves ==
  ASSUME Typed, NEW w \in Task, task[w].pc # "idle", AgainWithVector(w)
  PROVE  TaskMoves(w, {"save"}) /\ task'[w].obs = task[w].id
<1> DEFINE new == [task[w] EXCEPT !.pc = "save", !.obs = task[w].id, !.vector = TRUE]
<1>1. task[w] \in TaskState
  BY DEF Typed
<1>2. /\ new \in TaskState
      /\ new.pc = "save" /\ new.obs = task[w].id /\ new.id = task[w].id
  BY <1>1 DEF TaskState, TaskRecord, Pc
<1>3. task' = [task EXCEPT ![w] = new]
  BY DEF AgainWithVector, Typed
<1> HIDE DEF new
<1>. QED
  BY <1>2, <1>3 DEF Typed, TaskMoves

LEMMA PersistedMoves ==
  ASSUME Typed, NEW w \in Task, task[w].pc # "idle", NEW i \in Id, Persisted(w, i)
  PROVE  /\ TaskMoves(w, {"enrich", "check", "bury"}) /\ task'[w].obs = i
         /\ done' \subseteq Id
<1> DEFINE pc == CASE task[w].id \in Memory -> "enrich"
                   [] i = task[w].id -> "check"
                   [] OTHER -> "bury"
<1>1. pc \in {"enrich", "check", "bury"}
  OBVIOUS
<1>2. task' = [task EXCEPT ![w] = [@ EXCEPT !.obs = i, !.vector = FALSE, !.pc = pc]]
  BY DEF Persisted
<1>3. done' \subseteq Id
  BY DEF Persisted, Typed, Id
<1> DEFINE new == [task[w] EXCEPT !.obs = i, !.vector = FALSE, !.pc = pc]
<1> HIDE DEF pc
<1>4. task[w] \in TaskState
  BY DEF Typed
<1>5. /\ new \in TaskState
      /\ new.pc = pc /\ new.obs = i /\ new.id = task[w].id
  BY <1>1, <1>4 DEF TaskState, TaskRecord, Pc
<1>6. task' = [task EXCEPT ![w] = new]
  BY <1>2
<1> HIDE DEF new
<1>. QED
  BY <1>1, <1>3, <1>5, <1>6 DEF Typed, TaskMoves

-----------------------------------------------------------------------------
(* Rows *)

\* What a step leaves of the table, but for the dedup sweep's merge and the
\* deletion: rows and facts stay, `facts` are there, and among the rows whose
\* vector must be made anew there are at most those of `more` beside the old
\* ones, and none of `less`.
RowsGrow(facts, more, less) ==
  /\ row' \in [Id -> Row \cup {None}] /\ lagging' \subseteq Id
  /\ Rows \subseteq Rows' /\ Stored \cup facts \subseteq Stored'
  /\ Old' \subseteq (Old \cup more) \ less

LEMMA NoneIsNoRow == \A new \in Row : new # None
BY NoneAssumption

LEMMA Writing ==
  ASSUME Typed, NEW i \in Id, NEW new \in Row, row' = [row EXCEPT ![i] = new],
         i \in Rows => row[i].facts \subseteq new.facts
  PROVE  /\ row' \in [Id -> Row \cup {None}] /\ Rows' = Rows \cup {i}
         /\ row'[i] = new /\ \A j \in Id \ {i} : row'[j] = row[j]
         /\ Stored \cup new.facts \subseteq Stored'
<1>1. row' \in [Id -> Row \cup {None}] /\ row'[i] = new /\ \A j \in Id \ {i} : row'[j] = row[j]
  BY DEF Typed
<1>2. Rows' = Rows \cup {i}
  BY <1>1, NoneIsNoRow DEF Rows
<1>3. \A j \in Rows : row[j].facts \subseteq row'[j].facts
  BY <1>1 DEF Rows
<1>4. Stored \subseteq Stored'
  BY <1>2, <1>3 DEF Stored
<1>5. new.facts \subseteq Stored'
  BY <1>1, <1>2 DEF Stored
<1>. QED
  BY <1>1, <1>2, <1>4, <1>5

LEMMA UnchangedRows ==
  ASSUME Typed, UNCHANGED row, lagging \subseteq lagging', lagging' \subseteq Id
  PROVE  RowsGrow({}, {}, lagging') /\ Rows' = Rows
BY DEF Typed, RowsGrow, Rows, Stored, Old

LEMMA Saving ==
  ASSUME Typed, NEW i \in Id, NEW facts \in SUBSET Id, NEW title \in Title,
         i \notin Rows, save_observation(i, facts, title)
  PROVE  RowsGrow(facts, {}, {}) /\ Rows' = Rows \cup {i}
<1> DEFINE new == [facts |-> facts, title |-> title, vector |-> "none"]
<1>1. new \in Row
  BY DEF Row, Vector
<1>2. row' = [row EXCEPT ![i] = new] /\ lagging' = lagging \ {i}
  BY DEF save_observation, Retexted
<1>3. new.facts = facts /\ new.vector = "none"
  OBVIOUS
<1> HIDE DEF new
<1>4. /\ row' \in [Id -> Row \cup {None}] /\ Rows' = Rows \cup {i}
      /\ row'[i] = new /\ \A j \in Id \ {i} : row'[j] = row[j]
      /\ Stored \cup new.facts \subseteq Stored'
  BY <1>1, <1>2, Writing
<1>5. Old' \subseteq Old
  BY <1>2, <1>3, <1>4 DEF Old, Rows
<1>. QED
  BY <1>2, <1>3, <1>4, <1>5 DEF RowsGrow, Typed

LEMMA MergedRow ==
  ASSUME NEW old \in Row, NEW facts \in SUBSET Id, NEW title \in Title
  PROVE  /\ compute_merge(old, facts, title) \in Row
         /\ compute_merge(old, facts, title).facts = old.facts \cup facts
BY DEF compute_merge, Row, Vector

LEMMA Merging ==
  ASSUME Typed, NEW i \in Id, NEW facts \in SUBSET Id, NEW title \in Title,
         merge_into_existing(i, facts, title)
  PROVE  RowsGrow(facts, {i}, {}) /\ Rows' = Rows
<1> DEFINE new == compute_merge(row[i], facts, title)
<1>1. i \in Rows /\ row[i] \in Row
  BY DEF Typed, Rows, merge_into_existing, CanMerge
<1>2. new \in Row /\ new.facts = row[i].facts \cup facts
  BY <1>1, MergedRow
<1>3. row' = [row EXCEPT ![i] = new] /\ lagging' = lagging \ {i}
  BY DEF merge_into_existing, Retexted, Typed
<1> HIDE DEF new
<1>4. /\ row' \in [Id -> Row \cup {None}] /\ Rows' = Rows \cup {i}
      /\ row'[i] = new /\ \A j \in Id \ {i} : row'[j] = row[j]
      /\ Stored \cup new.facts \subseteq Stored'
  BY <1>2, <1>3, Writing
<1>5. Old' \subseteq Old \cup {i}
  BY <1>3, <1>4 DEF Old, Rows
<1>. QED
  BY <1>1, <1>2, <1>3, <1>4, <1>5 DEF RowsGrow, Typed

LEMMA Embedding ==
  ASSUME Typed, NEW w, NEW i \in Id, store_embedding(w, i)
  PROVE  RowsGrow({}, {}, {i}) /\ Rows' = Rows
<1>1. CASE i \notin Rows
  <2>1. row' = row /\ lagging' \subseteq Id /\ lagging \ {i} \subseteq lagging'
    BY <1>1 DEF store_embedding, Typed
  <2>. QED
    BY <1>1, <2>1 DEF RowsGrow, Rows, Stored, Old, Typed
<1>2. CASE i \in Rows
  <2> DEFINE vector == IF w \in outdated THEN "old" ELSE "current"
             new == [row[i] EXCEPT !.vector = vector]
  <2>1. row[i] \in Row
    BY <1>2 DEF Typed, Rows
  <2>2. new \in Row /\ new.facts = row[i].facts /\ new.vector = vector
    BY <2>1 DEF Row, Vector
  <2>3. row' = [row EXCEPT ![i] = new]
    BY <1>2 DEF store_embedding
  <2>4. IF w \in outdated THEN lagging' = lagging \cup {i}
        ELSE lagging' = lagging \ {i} /\ new.vector # "old"
    BY <2>2 DEF store_embedding
  <2> HIDE DEF new, vector
  <2>5. /\ row' \in [Id -> Row \cup {None}] /\ Rows' = Rows \cup {i}
        /\ row'[i] = new /\ \A j \in Id \ {i} : row'[j] = row[j]
        /\ Stored \cup new.facts \subseteq Stored'
    BY <2>2, <2>3, Writing
  <2>6. lagging' \subseteq Id /\ lagging \ {i} \subseteq lagging' /\ i \notin Old'
    BY <2>4, <2>5 DEF Old, Typed
  <2>7. Old' \subseteq Old
    BY <2>5, <2>6 DEF Old, Rows
  <2>. QED
    BY <1>2, <2>5, <2>6, <2>7 DEF RowsGrow, Typed
<1>. QED
  BY <1>1, <1>2

LEMMA Enriching ==
  ASSUME Typed, NEW i \in Id, NEW m \in Id, Enrichable(i), Retexted(i),
         row' = [row EXCEPT ![i].facts = {m}, ![i].vector = IF @ = "none" THEN "none" ELSE "old"]
  PROVE  RowsGrow({m}, {i}, {}) /\ Rows' = Rows
<1> DEFINE vector == IF row[i].vector = "none" THEN "none" ELSE "old"
           new == [row[i] EXCEPT !.facts = {m}, !.vector = vector]
<1>1. i \in Rows /\ row[i] \in Row /\ row[i].facts = {}
  BY DEF Typed, Rows, Enrichable
<1>2. vector \in Vector
  BY DEF Vector
<1>3. row' = [row EXCEPT ![i] = new]
  BY DEF Typed
<1> HIDE DEF vector
<1>4. new \in Row /\ new.facts = {m}
  BY <1>1, <1>2 DEF Row
<1> HIDE DEF new
<1>5. /\ row' \in [Id -> Row \cup {None}] /\ Rows' = Rows \cup {i}
      /\ row'[i] = new /\ \A j \in Id \ {i} : row'[j] = row[j]
      /\ Stored \cup new.facts \subseteq Stored'
  BY <1>1, <1>3, <1>4, Writing
<1>6. lagging' = lagging \ {i}
  BY DEF Retexted
<1>7. Old' \subseteq Old \cup {i}
  BY <1>5, <1>6 DEF Old, Rows
<1>. QED
  BY <1>1, <1>4, <1>5, <1>6, <1>7 DEF RowsGrow, Typed

-----------------------------------------------------------------------------
(* What the step of a task has to show, and that it is enough *)

RestTyped ==
  /\ known' \subseteq Id /\ done' \subseteq Id /\ saved' \subseteq Message /\ dropped' \subseteq Id
  /\ outdated' \subseteq Task \cup Sweep /\ late' \subseteq Id /\ faults' \in 0..MaxFaults

LEMMA FaultTyped ==
  ASSUME faults \in 0..MaxFaults, Fault \/ UNCHANGED faults
  PROVE  faults' \in 0..MaxFaults
BY BoundAssumption DEF Fault

LEMMA TaskKeeps ==
  ASSUME IInv, NEW w \in Task, TaskMoves(w, Pc), RestTyped,
         NEW facts, NEW more, NEW less, NEW new,
         RowsGrow(facts, more, less), Rows' = Rows \cup new, new \cap Message \subseteq Kept',
         UNCHANGED <<sweep, dropped>>, late \subseteq late',
         known' \subseteq known \cup Rows' \cup late', saved' \subseteq saved \cup Kept',
         Safe(task[w])', Found(task[w])', more \subseteq Reads(task[w])',
         Reads(task[w]) \cap Rows' \subseteq Reads(task[w])' \cup less
  PROVE  Keeps
<1>1. Kept \subseteq Kept'
  BY DEF RowsGrow, Kept
<1>2. Typed'
  BY DEF IInv, Typed, RestTyped, TaskMoves, RowsGrow
<1>3. ASSUME NEW v \in Task
      PROVE  Safe(task[v])' /\ Found(task[v])'
  <2>1. CASE v = w
    BY <2>1
  <2>2. CASE v # w
    <3>1. task'[v] = task[v]
      BY <2>2 DEF TaskMoves
    <3>2. Safe(task[v]) /\ Found(task[v])
      BY DEF IInv
    <3>. QED
      BY <1>1, <3>1, <3>2 DEF Safe, Found
  <2>. QED
    BY <2>1, <2>2
<1>4. (Rows \cap Message)' \subseteq Kept' /\ saved' \subseteq Kept'
  BY <1>1 DEF IInv
<1>5. SourcesExist'
  BY DEF IInv, SourcesExist
<1>6. Old' \subseteq Read'
  <2> SUFFICES ASSUME NEW i \in Old'
               PROVE  i \in Read'
    OBVIOUS
  <2>0. Reads(task[w])' \subseteq Read'
    BY DEF Read
  <2>1. CASE i \in more
    BY <2>0, <2>1
  <2>2. CASE i \notin more
    <3>1. i \in Old /\ i \notin less /\ i \in Rows'
      BY <2>2 DEF RowsGrow, Old
    <3>2. CASE \E v \in Task : i \in Reads(task[v])
      <4>1. PICK v \in Task : i \in Reads(task[v])
        BY <3>2
      <4>2. CASE v = w
        BY <2>0, <3>1, <4>1, <4>2
      <4>3. CASE v # w
        <5>1. task'[v] = task[v]
          BY <4>3 DEF TaskMoves
        <5>2. i \in Reads(task[v])'
          BY <4>1, <5>1 DEF Reads
        <5>. QED
          BY <5>2 DEF Read
      <4>. QED
        BY <4>2, <4>3
    <3>3. CASE \E v \in Sweep : i \in Reads(sweep[v])
      <4>1. PICK v \in Sweep : i \in Reads(sweep[v])
        BY <3>3
      <4>2. i \in Reads(sweep[v])'
        BY <4>1 DEF Reads
      <4>. QED
        BY <4>2 DEF Read
    <3>. QED
      BY <3>1, <3>2, <3>3 DEF IInv, Read
  <2>. QED
    BY <2>1, <2>2
<1>7. Stored \ Stored' \subseteq dropped'
  BY DEF RowsGrow
<1>. QED
  BY <1>2, <1>3, <1>4, <1>5, <1>6, <1>7 DEF IInv, Keeps

\* A step that leaves the rows alone, of a task that is no reader before it, or
\* leaves its row to others.
LEMMA QuietKeeps ==
  ASSUME IInv, NEW w \in Task, TaskMoves(w, Pc), RestTyped,
         UNCHANGED <<row, sweep, dropped>>,
         lagging \subseteq lagging', lagging' \subseteq Id, late \subseteq late',
         known' \subseteq known \cup Rows' \cup late', saved' \subseteq saved \cup Kept',
         Safe(task[w])', Found(task[w])',
         Reads(task[w]) \cap Rows \subseteq Reads(task[w])' \cup lagging'
  PROVE  Keeps
<1>1. RowsGrow({}, {}, lagging') /\ Rows' = Rows \cup {}
  BY UnchangedRows DEF IInv
<1>. QED
  BY <1>1, TaskKeeps

LEMMA TaskTyped ==
  ASSUME Typed, NEW w \in Task
  PROVE  /\ task[w] \in TaskState /\ task[w].pc \in Pc /\ task[w].title \in Title
         /\ task[w].pc # "idle" => task[w].id \in Id /\ task[w].obs \in Id
         /\ task[w].pc \in {"llm", "persist", "save", "embed"} => task[w].obs = task[w].id
         /\ NewFacts(w) \subseteq Id
         /\ NewFacts(w) \subseteq Kept => (task[w].id \in Message => task[w].id \in Kept)
BY DEF Typed, TaskState, TaskRecord, NewFacts, Id

LEMMA WiderMoves ==
  ASSUME NEW w \in Task, NEW pcs \in SUBSET Pc, TaskMoves(w, pcs)
  PROVE  TaskMoves(w, Pc)
BY DEF TaskMoves

LEMMA ChangeMoves ==
  ASSUME Typed, NEW w \in Task, NEW new \in TaskState, task' = [task EXCEPT ![w] = new],
         "idle" \in {task[w].pc, new.pc} \/ new.id = task[w].id
  PROVE  TaskMoves(w, Pc) /\ task'[w] = new
BY DEF Typed, TaskMoves, TaskState, TaskRecord

-----------------------------------------------------------------------------
(* The steps of a task *)

LEMMA Processes ==
  ASSUME IInv, NEW w \in Task, NEW m \in Message, process(w, m)
  PROVE  Keeps
<1> DEFINE pc == IF m \in Rows THEN "check" ELSE "llm"
           new == [NoTask EXCEPT !.id = m, !.obs = m, !.pc = pc]
<1>1. pc \in Pc \ {"idle"}
  BY DEF Pc
<1>2. /\ Typed /\ task[w].pc = "idle" /\ task' = [task EXCEPT ![w] = new]
      /\ UNCHANGED <<row, marks, rest, faults>>
  BY DEF IInv, process
<1>3. pc = "check" => m \in Rows
  OBVIOUS
<1>4. pc \in {"check", "llm"}
  OBVIOUS
<1> HIDE DEF pc
<1>5. new \in TaskState /\ new.pc = pc /\ new.id = m /\ new.obs = m
  BY <1>1, NoTaskTyped DEF TaskState, TaskRecord, Id, NoTask
<1> HIDE DEF new
<1>6. TaskMoves(w, Pc) /\ task'[w] = new
  BY <1>2, <1>5, ChangeMoves
<1>7. RestTyped
  BY <1>2 DEF Typed, RestTyped, rest, marks, history
<1>8. Safe(task[w])' /\ Found(task[w])'
  BY <1>2, <1>3, <1>4, <1>5, <1>6 DEF IInv, Safe, Found, Kept, Stored, Rows, rest, history
<1>9. Reads(task[w]) = {}
  BY <1>2 DEF Reads
<1>. QED
  BY <1>2, <1>6, <1>7, <1>8, <1>9, QuietKeeps DEF Typed, rest, marks, history

\* A step to where the task has no row yet that matters, or no more.
LEMMA PlainKeeps ==
  ASSUME IInv, NEW w \in Task, RestTyped,
         TaskMoves(w, {"idle", "llm", "update", "persist", "merge", "save"}),
         UNCHANGED <<row, known, sweep, saved, dropped, late>>,
         lagging \subseteq lagging', lagging' \subseteq Id,
         Reads(task[w]) \cap Rows \subseteq lagging'
  PROVE  Keeps
<1>1. TaskMoves(w, Pc)
  BY WiderMoves DEF Pc
<1>2. Safe(task[w])' /\ Found(task[w])'
  BY DEF TaskMoves, Safe, Found
<1>3. known \subseteq known \cup Rows' \cup late'
  OBVIOUS
<1>. QED
  BY <1>1, <1>2, <1>3, QuietKeeps

LEMMA Requests ==
  ASSUME IInv, NEW w \in Task, NEW r \in Memory, save_memory_with_id(w, r)
  PROVE  Keeps
<1>1. /\ Typed /\ task[w].pc = "idle"
      /\ UNCHANGED <<row, marks, rest, faults>>
  BY DEF IInv, save_memory_with_id
<1>2. PICK title \in TitlesOf(r) :
        task' = [task EXCEPT ![w] = [NoTask EXCEPT !.id = r, !.obs = r,
                  !.pc = "persist", !.title = title]]
  BY DEF save_memory_with_id
<1> DEFINE new == [NoTask EXCEPT !.id = r, !.obs = r, !.pc = "persist", !.title = title]
<1>3. r \in Id /\ title \in Title /\ title.number < Tries
  BY Titles DEF Id
<1>4. new \in TaskState /\ new.pc = "persist"
  BY <1>3, NoTaskTyped DEF TaskState, TaskRecord, NoTask, Pc
<1>5. task' = [task EXCEPT ![w] = new]
  BY <1>2
<1> HIDE DEF new
<1>6. TaskMoves(w, {"persist"})
  BY <1>1, <1>4, <1>5, ChangeMoves DEF TaskMoves
<1>7. RestTyped
  BY <1>1 DEF Typed, RestTyped, rest, marks, history
<1>8. Reads(task[w]) = {}
  BY <1>1 DEF Reads
<1>9. TaskMoves(w, {"idle", "llm", "update", "persist", "merge", "save"})
  BY <1>6 DEF TaskMoves
<1>. QED
  BY <1>1, <1>7, <1>8, <1>9, PlainKeeps DEF Typed, rest, marks, history

LEMMA Skips ==
  ASSUME IInv, NEW w \in Task, task[w].pc \notin {"idle", "read", "store"}, Skip(w)
  PROVE  Keeps
<1>1. Typed /\ Drop(w) /\ UNCHANGED <<row, known, sweep, saved, marks, history, faults>>
  BY DEF IInv, Skip
<1>2. task[w].id \in Id
  BY <1>1, TaskTyped
<1>3. RestTyped
  BY <1>1, <1>2 DEF Typed, RestTyped, marks, history, Skip
<1>4. Reads(task[w]) = {}
  BY DEF Reads
<1>5. TaskMoves(w, {"idle", "llm", "update", "persist", "merge", "save"})
  BY <1>1, DropMoves DEF TaskMoves
<1>. QED
  BY <1>1, <1>3, <1>4, <1>5, PlainKeeps DEF Typed, marks, history

\* The steps that fail or go on without a change of the table.
LEMMA Restarts ==
  ASSUME IInv, NEW w \in Task, task[w].pc \notin {"read", "store"},
         TaskMoves(w, {"idle", "llm", "update", "persist", "merge", "save"}),
         UNCHANGED <<row, known, sweep, done, saved, marks, history>>,
         Fault \/ UNCHANGED faults
  PROVE  Keeps
<1>1. Typed /\ Reads(task[w]) = {}
  BY DEF IInv, Reads
<1>2. RestTyped
  BY <1>1, FaultTyped DEF Typed, RestTyped, marks, history
<1>. QED
  BY <1>1, <1>2, PlainKeeps DEF Typed, marks, history

LEMMA Compresses ==
  ASSUME IInv, NEW w \in Task, compress_and_save(w)
  PROVE  Keeps
<1>1. Typed /\ task[w].pc = "llm"
  BY DEF IInv, compress_and_save
<1>2. CASE Skip(w)
  BY <1>1, <1>2, Skips
<1>3. CASE Fail(w)
  <2>1. TaskMoves(w, {"idle", "llm", "update", "persist", "merge", "save"})
    BY <1>1, <1>3, DropMoves DEF Fail, TaskMoves
  <2>. QED
    BY <1>1, <1>3, <2>1, Restarts DEF Fail, rest
<1>4. ASSUME NEW new \in TaskState, new.pc \in {"persist", "update"}, new.id = task[w].id,
             task' = [task EXCEPT ![w] = new], UNCHANGED <<row, marks, rest, faults>>
      PROVE  Keeps
  <2>1. TaskMoves(w, {"idle", "llm", "update", "persist", "merge", "save"})
    BY <1>1, <1>4, ChangeMoves DEF TaskMoves
  <2>. QED
    BY <1>1, <1>4, <2>1, Restarts DEF rest
<1>5. /\ task[w] \in TaskState /\ task[w].id \in Id /\ task[w].obs = task[w].id
      /\ \A title \in TitlesOf(task[w].id) : title \in Title /\ title.number < Tries
  BY <1>1, TaskTyped, Titles
<1>6. ASSUME NEW title \in TitlesOf(task[w].id), UNCHANGED <<row, marks, rest, faults>>,
             task' = [task EXCEPT ![w].pc = "persist", ![w].title = title]
      PROVE  Keeps
  <2> DEFINE new == [task[w] EXCEPT !.pc = "persist", !.title = title]
  <2>1. new \in TaskState /\ new.pc = "persist" /\ new.id = task[w].id
    BY <1>5 DEF TaskState, TaskRecord, Pc
  <2>2. task' = [task EXCEPT ![w] = new]
    BY <1>1, <1>6 DEF Typed
  <2> HIDE DEF new
  <2>. QED
    BY <1>4, <1>6, <2>1, <2>2
<1>7. ASSUME NEW title \in TitlesOf(task[w].id), NEW t \in Rows,
             UNCHANGED <<row, marks, rest, faults>>,
             task' = [task EXCEPT ![w].pc = "update", ![w].title = title,
                                  ![w].obs = t, ![w].back = "persist"]
      PROVE  Keeps
  <2> DEFINE new == [task[w] EXCEPT !.pc = "update", !.title = title,
                                    !.obs = t, !.back = "persist"]
  <2>1. new \in TaskState /\ new.pc = "update" /\ new.id = task[w].id
    BY <1>5 DEF TaskState, TaskRecord, Pc, Rows
  <2>2. task' = [task EXCEPT ![w] = new]
    BY <1>1, <1>7 DEF Typed
  <2> HIDE DEF new
  <2>. QED
    BY <1>4, <1>7, <2>1, <2>2
<1>. QED
  BY <1>1, <1>2, <1>3, <1>6, <1>7 DEF compress_and_save

LEMMA Merges ==
  ASSUME IInv, NEW w \in Task, task[w].pc \in {"update", "merge"},
         merge_into_existing(task[w].obs, NewFacts(w), task[w].title), Merged(w),
         UNCHANGED <<rest, faults>>
  PROVE  Keeps
<1>1. /\ Typed /\ task[w].obs \in Id /\ task[w].title \in Title /\ NewFacts(w) \subseteq Id
      /\ task[w].id \in Id
  BY TaskTyped DEF IInv
<1>2. RowsGrow(NewFacts(w), {task[w].obs}, {}) /\ Rows' = Rows \cup {}
  BY <1>1, Merging
<1>3. TaskMoves(w, {"read"}) /\ task'[w].obs = task[w].obs
  BY <1>1, ToMoves DEF Merged, Pc
<1>4. TaskMoves(w, Pc) /\ task'[w].pc = "read" /\ task'[w].id = task[w].id
  BY <1>3, WiderMoves DEF TaskMoves, Pc
<1>5. outdated' \subseteq Task \cup Sweep
  BY <1>1 DEF Typed, merge_into_existing, Retexted, Holders
<1>6. RestTyped
  BY <1>1, <1>5 DEF Typed, RestTyped, rest, history
<1>7. NewFacts(w) \subseteq Kept'
  BY <1>2 DEF RowsGrow, Kept
<1>8. Safe(task[w])' /\ Found(task[w])'
  BY <1>4, <1>7 DEF Safe, Found, NewFacts
<1>9. Reads(task[w]) = {} /\ Reads(task[w])' = {task[w].obs}
  BY <1>3, <1>4 DEF Reads
<1>. QED
  BY <1>2, <1>4, <1>6, <1>8, <1>9, TaskKeeps DEF rest, history

LEMMA Updates ==
  ASSUME IInv, NEW w \in Task, Update(w)
  PROVE  Keeps
<1>1. Typed /\ task[w].pc = "update" /\ UNCHANGED rest
  BY DEF IInv, Update
<1>2. CASE /\ merge_into_existing(task[w].obs, NewFacts(w), task[w].title) /\ Merged(w)
           /\ UNCHANGED faults
  BY <1>1, <1>2, Merges
<1>3. CASE Again(w, "persist") /\ UNCHANGED <<row, marks>> /\ (Fault \/ UNCHANGED faults)
  <2>1. TaskMoves(w, {"persist"})
    BY <1>1, <1>3, AgainMoves DEF Pc
  <2>2. TaskMoves(w, {"idle", "llm", "update", "persist", "merge", "save"})
    BY <2>1 DEF TaskMoves
  <2>. QED
    BY <1>1, <1>3, <2>2, Restarts DEF rest
<1>. QED
  BY <1>2, <1>3 DEF Update

LEMMA Dedups ==
  ASSUME IInv, NEW w \in Task, try_dedup_merge(w)
  PROVE  Keeps
<1>1. Typed /\ task[w].pc = "merge" /\ UNCHANGED rest
  BY DEF IInv, try_dedup_merge
<1>2. CASE /\ merge_into_existing(task[w].obs, NewFacts(w), task[w].title) /\ Merged(w)
           /\ UNCHANGED faults
  BY <1>1, <1>2, Merges
<1>3. CASE AgainWithVector(w) /\ UNCHANGED <<row, marks>> /\ (Fault \/ UNCHANGED faults)
  <2>1. TaskMoves(w, {"save"})
    BY <1>1, <1>3, AgainWithVectorMoves
  <2>2. TaskMoves(w, {"idle", "llm", "update", "persist", "merge", "save"})
    BY <2>1 DEF TaskMoves
  <2>. QED
    BY <1>1, <1>3, <2>2, Restarts DEF rest
<1>. QED
  BY <1>2, <1>3 DEF try_dedup_merge

LEMMA Persists ==
  ASSUME IInv, NEW w \in Task, persist_and_notify(w)
  PROVE  Keeps
<1>1. Typed /\ task[w].pc = "persist"
  BY DEF IInv, persist_and_notify
<1>2. task[w] \in TaskState /\ task[w].id \in Id /\ task[w].obs = task[w].id
  BY <1>1, TaskTyped
<1>3. CASE Skip(w)
  BY <1>1, <1>3, Skips
<1>4. ASSUME NEW new \in TaskState, new.pc \in {"save", "merge"}, new.id = task[w].id,
             task' = [task EXCEPT ![w] = new], UNCHANGED <<row, marks, rest>>,
             Fault \/ UNCHANGED faults
      PROVE  Keeps
  <2>1. TaskMoves(w, {"idle", "llm", "update", "persist", "merge", "save"})
    BY <1>1, <1>4, ChangeMoves DEF TaskMoves
  <2>. QED
    BY <1>1, <1>4, <2>1, Restarts DEF rest
<1>5. ASSUME To(w, "save"), Fault, UNCHANGED <<row, marks, rest>>
      PROVE  Keeps
  <2> DEFINE new == [task[w] EXCEPT !.pc = "save"]
  <2>1. new \in TaskState /\ new.pc = "save" /\ new.id = task[w].id
    BY <1>2 DEF TaskState, TaskRecord, Pc
  <2>2. task' = [task EXCEPT ![w] = new]
    BY <1>5 DEF To
  <2> HIDE DEF new
  <2>. QED
    BY <1>4, <1>5, <2>1, <2>2
<1>6. ASSUME task' = [task EXCEPT ![w].pc = "save", ![w].vector = TRUE],
             UNCHANGED <<row, marks, rest, faults>>
      PROVE  Keeps
  <2> DEFINE new == [task[w] EXCEPT !.pc = "save", !.vector = TRUE]
  <2>1. new \in TaskState /\ new.pc = "save" /\ new.id = task[w].id
    BY <1>2 DEF TaskState, TaskRecord, Pc
  <2>2. task' = [task EXCEPT ![w] = new]
    BY <1>1, <1>6 DEF Typed
  <2> HIDE DEF new
  <2>. QED
    BY <1>4, <1>6, <2>1, <2>2
<1>7. ASSUME NEW t \in Rows, UNCHANGED <<row, marks, rest, faults>>,
             task' = [task EXCEPT ![w].pc = "merge", ![w].obs = t, ![w].back = "save"]
      PROVE  Keeps
  <2> DEFINE new == [task[w] EXCEPT !.pc = "merge", !.obs = t, !.back = "save"]
  <2>1. new \in TaskState /\ new.pc = "merge" /\ new.id = task[w].id
    BY <1>2 DEF TaskState, TaskRecord, Pc, Rows
  <2>2. task' = [task EXCEPT ![w] = new]
    BY <1>1, <1>7 DEF Typed
  <2> HIDE DEF new
  <2>. QED
    BY <1>4, <1>7, <2>1, <2>2
<1>. QED
  BY <1>3, <1>5, <1>6, <1>7 DEF persist_and_notify

LEMMA Numbered ==
  ASSUME NEW t \in TaskState, t.title.number + 1 # Tries
  PROVE  [t EXCEPT !.title = [t.title EXCEPT !.number = t.title.number + 1]] \in TaskState
<1> DEFINE title == [t.title EXCEPT !.number = t.title.number + 1]
<1>1. t.title \in Title /\ t.title.number < Tries
  BY DEF TaskState, TaskRecord
<1>2. t.title.number \in 0..Tries /\ Tries \in Nat
  BY <1>1, BoundAssumption DEF Title
<1>3. t.title.number + 1 \in 0..Tries /\ t.title.number + 1 < Tries
  BY <1>1, <1>2
<1>4. title \in Title /\ title.number = t.title.number + 1
  BY <1>1, <1>3 DEF Title
<1> HIDE DEF title
<1>5. [t EXCEPT !.title = title] \in TaskState
  BY <1>3, <1>4 DEF TaskState, TaskRecord
<1>. QED
  BY <1>5 DEF title

LEMMA Saves ==
  ASSUME IInv, NEW w \in Task, save_and_notify(w)
  PROVE  Keeps
<1> DEFINE i == task[w].id
<1>1. /\ Typed /\ task[w].pc = "save"
      /\ UNCHANGED <<known, sweep, saved, history>>
  BY DEF IInv, save_and_notify
<1>2. /\ task[w] \in TaskState /\ i \in Id /\ task[w].obs = i /\ NewFacts(w) \in SUBSET Id
      /\ task[w].title \in Title
  BY <1>1, TaskTyped
<1>3. Reads(task[w]) = {}
  BY <1>1 DEF Reads
<1>4. CASE i \in Rows /\ Persisted(w, i) /\ UNCHANGED <<row, marks, faults>>
  <2>1. /\ TaskMoves(w, {"enrich", "check", "bury"}) /\ task'[w].obs = i
        /\ done' \subseteq Id
    BY <1>1, <1>2, <1>4, PersistedMoves
  <2>2. /\ TaskMoves(w, Pc) /\ task'[w].id = i
    BY <1>1, <2>1, WiderMoves DEF TaskMoves, Pc
  <2>3. RestTyped
    BY <1>1, <1>4, <2>1 DEF Typed, RestTyped, marks, history
  <2>4. Safe(task[w])' /\ Found(task[w])'
    BY <1>1, <1>4, <2>1, <2>2 DEF IInv, Safe, Found, Kept, Stored, Rows, history
  <2>. QED
    BY <1>1, <1>3, <1>4, <2>2, <2>3, <2>4, QuietKeeps DEF Typed, marks, history
<1>5. CASE /\ i \notin Rows /\ save_observation(i, NewFacts(w), task[w].title) /\ UNCHANGED faults
           /\ Persisted(w, i) \/ (To(w, "embed") /\ UNCHANGED done)
  <2>1. RowsGrow(NewFacts(w), {}, {}) /\ Rows' = Rows \cup {i}
    BY <1>1, <1>2, <1>5, Saving
  <2>2. /\ TaskMoves(w, {"enrich", "check", "bury", "embed"}) /\ task'[w].obs = i
        /\ done' \subseteq Id
    <3>1. CASE Persisted(w, i)
      BY <1>1, <1>2, <3>1, PersistedMoves DEF TaskMoves
    <3>2. CASE To(w, "embed") /\ UNCHANGED done
      BY <1>1, <1>2, <3>2, ToMoves DEF TaskMoves, Typed, Pc
    <3>. QED
      BY <1>5, <3>1, <3>2
  <2>3. /\ TaskMoves(w, Pc) /\ task'[w].id = i
    BY <1>1, <2>2, WiderMoves DEF TaskMoves, Pc
  <2>4. outdated' \subseteq Task \cup Sweep
    BY <1>1, <1>5 DEF Typed, save_observation, Retexted, Holders
  <2>5. RestTyped
    BY <1>1, <1>5, <2>2, <2>4 DEF Typed, RestTyped, history
  <2>6. NewFacts(w) \subseteq Kept'
    BY <2>1 DEF RowsGrow, Kept
  <2>7. Safe(task[w])' /\ Found(task[w])'
    BY <2>1, <2>2, <2>3, <2>6 DEF Safe, Found, NewFacts
  <2>8. {i} \cap Message \subseteq Kept'
    BY <2>6 DEF NewFacts
  <2>. QED
    BY <1>1, <1>3, <2>1, <2>3, <2>5, <2>7, <2>8, TaskKeeps DEF history
<1>6. CASE Drop(w) /\ UNCHANGED <<row, marks, done>> /\ (Fault \/ UNCHANGED faults)
  <2>1. TaskMoves(w, {"idle", "llm", "update", "persist", "merge", "save"})
    BY <1>1, <1>6, DropMoves DEF TaskMoves
  <2>. QED
    BY <1>1, <1>6, <2>1, Restarts
<1>7. CASE /\ task[w].title.number + 1 # Tries /\ UNCHANGED <<row, marks, done, faults>>
           /\ task' = [task EXCEPT ![w].title.number = @ + 1]
  <2> DEFINE title == [task[w].title EXCEPT !.number = task[w].title.number + 1]
             new == [task[w] EXCEPT !.title = title]
  <2>1. new \in TaskState
    BY <1>2, <1>7, Numbered
  <2>2. new.pc = "save" /\ new.id = i
    BY <1>1, <1>2 DEF TaskState, TaskRecord
  <2>3. task' = [task EXCEPT ![w] = new]
    BY <1>7
  <2> HIDE DEF new
  <2>4. TaskMoves(w, {"idle", "llm", "update", "persist", "merge", "save"})
    BY <1>1, <2>1, <2>2, <2>3, ChangeMoves DEF TaskMoves
  <2>. QED
    BY <1>1, <1>7, <2>4, Restarts
<1>. QED
  BY <1>4, <1>5, <1>6, <1>7 DEF save_and_notify, Exists

LEMMA Embeds ==
  ASSUME IInv, NEW w \in Task, Embed(w)
  PROVE  Keeps
<1> DEFINE i == task[w].obs
<1>1. /\ Typed /\ task[w].pc = "embed" /\ Persisted(w, i)
      /\ outdated' = outdated \ {w} /\ UNCHANGED <<known, sweep, saved, history>>
  BY DEF IInv, Embed
<1>2. i \in Id /\ task[w].id = i
  BY <1>1, TaskTyped
<1>3. Reads(task[w]) = {}
  BY <1>1 DEF Reads
<1>4. /\ TaskMoves(w, {"enrich", "check", "bury"}) /\ task'[w].obs = i
      /\ done' \subseteq Id
  BY <1>1, <1>2, PersistedMoves
<1>5. /\ TaskMoves(w, Pc) /\ task'[w].id = task[w].id
  BY <1>1, <1>4, WiderMoves DEF TaskMoves, Pc
<1>6. (store_embedding(w, i) /\ UNCHANGED faults) \/ (Fault /\ UNCHANGED <<row, lagging>>)
  BY DEF Embed
<1>7. faults' \in 0..MaxFaults
  BY <1>1, <1>6, FaultTyped DEF Typed
<1>8. RestTyped
  BY <1>1, <1>4, <1>7 DEF Typed, RestTyped, history
<1>9. \E less : RowsGrow({}, {}, less) /\ Rows' = Rows \cup {}
  BY <1>1, <1>2, <1>6, Embedding, UnchangedRows DEF Typed
<1>10. Kept \subseteq Kept'
  BY <1>1, <1>9 DEF RowsGrow, Kept, history
<1>11. Safe(task[w])' /\ Found(task[w])'
  BY <1>1, <1>4, <1>5, <1>9, <1>10 DEF IInv, Safe, Found, history
<1>. QED
  BY <1>1, <1>3, <1>5, <1>8, <1>9, <1>11, TaskKeeps DEF history

LEMMA Reading ==
  ASSUME IInv, NEW w \in Task, ReadRow(w)
  PROVE  Keeps
<1> DEFINE i == task[w].obs
<1>1. Typed /\ task[w].pc = "read" /\ UNCHANGED <<row, outdated, rest>>
  BY DEF IInv, ReadRow
<1>2. i \in Id /\ Reads(task[w]) = {i}
  BY <1>1, TaskTyped DEF Reads
<1>3. \/ i \in Rows /\ To(w, "store") /\ UNCHANGED <<lagging, faults>>
      \/ i \notin Rows /\ To(w, "fetch") /\ UNCHANGED <<lagging, faults>>
      \/ To(w, "fetch") /\ Fault /\ lagging' = lagging \cup {i}
  BY DEF ReadRow
<1>4. /\ TaskMoves(w, {"store", "fetch"}) /\ task'[w].obs = i
      /\ To(w, "store") => task'[w].pc = "store"
  BY <1>1, <1>3, ToMoves DEF TaskMoves, Pc
<1>5. TaskMoves(w, Pc) /\ task'[w].id = task[w].id
  BY <1>1, <1>4, WiderMoves DEF TaskMoves, Pc
<1>6. lagging \subseteq lagging' /\ lagging' \subseteq Id /\ faults' \in 0..MaxFaults
  BY <1>1, <1>2, <1>3, FaultTyped DEF Typed
<1>7. RestTyped
  BY <1>1, <1>6 DEF Typed, RestTyped, rest, history
<1>8. Safe(task[w])' /\ Found(task[w])'
  BY <1>1, <1>4, <1>5 DEF IInv, Safe, Found, Kept, Stored, Rows, TaskMoves, rest, history
<1>9. Reads(task[w]) \cap Rows \subseteq Reads(task[w])' \cup lagging'
  BY <1>2, <1>3, <1>4 DEF Reads
<1>. QED
  BY <1>1, <1>5, <1>6, <1>7, <1>8, <1>9, QuietKeeps DEF rest, history

LEMMA Storing ==
  ASSUME IInv, NEW w \in Task, StoreVector(w)
  PROVE  Keeps
<1> DEFINE i == task[w].obs
<1>1. /\ Typed /\ task[w].pc = "store" /\ To(w, "fetch")
      /\ outdated' = outdated \ {w} /\ UNCHANGED rest
  BY DEF IInv, StoreVector
<1>2. i \in Id /\ Reads(task[w]) = {i}
  BY <1>1, TaskTyped DEF Reads
<1>3. \/ store_embedding(w, i) /\ UNCHANGED faults
      \/ Fault /\ lagging' = lagging \cup {i} /\ UNCHANGED row
  BY DEF StoreVector
<1>4. TaskMoves(w, {"fetch"})
  BY <1>1, ToMoves DEF Pc
<1>5. TaskMoves(w, Pc) /\ task'[w].id = task[w].id
  BY <1>1, <1>4, WiderMoves DEF TaskMoves, Pc
<1>6. faults' \in 0..MaxFaults
  BY <1>1, <1>3, FaultTyped DEF Typed
<1>7. RestTyped
  BY <1>1, <1>6 DEF Typed, RestTyped, rest, history
<1>8. \E less : i \in less /\ RowsGrow({}, {}, less) /\ Rows' = Rows \cup {}
  <2>1. CASE store_embedding(w, i)
    BY <1>1, <1>2, <2>1, Embedding
  <2>2. CASE lagging' = lagging \cup {i} /\ UNCHANGED row
    <3>1. lagging \subseteq lagging' /\ lagging' \subseteq Id
      BY <1>1, <1>2, <2>2 DEF Typed
    <3>. QED
      BY <1>1, <2>2, <3>1, UnchangedRows
  <2>. QED
    BY <1>3, <2>1, <2>2
<1>9. Kept \subseteq Kept'
  BY <1>1, <1>8 DEF RowsGrow, Kept, rest, history
<1>10. Safe(task[w])' /\ Found(task[w])'
  BY <1>1, <1>4, <1>5, <1>9 DEF IInv, Safe, Found, TaskMoves
<1>. QED
  BY <1>1, <1>2, <1>5, <1>7, <1>8, <1>10, TaskKeeps DEF rest, history

LEMMA Fetches ==
  ASSUME IInv, NEW w \in Task, FetchMerged(w)
  PROVE  Keeps
<1> DEFINE i == task[w].obs
<1>1. /\ Typed /\ task[w].pc = "fetch"
      /\ UNCHANGED <<row, known, sweep, saved, marks, dropped>>
  BY DEF IInv, FetchMerged
<1>2. i \in Id /\ task[w].id \in Id /\ Reads(task[w]) = {} /\ task[w].back \in {"persist", "save", "check"}
  BY <1>1, TaskTyped DEF Reads, TaskState, TaskRecord
<1>3. CASE (Drop(w) \/ Again(w, "persist") \/ AgainWithVector(w))
           /\ UNCHANGED <<done, late>> /\ (Fault \/ UNCHANGED faults)
  <2>1. TaskMoves(w, {"idle", "llm", "update", "persist", "merge", "save"})
    <3>1. CASE Drop(w)
      BY <1>1, <3>1, DropMoves DEF TaskMoves
    <3>2. CASE Again(w, "persist")
      BY <1>1, <3>2, AgainMoves DEF TaskMoves, Pc
    <3>3. CASE AgainWithVector(w)
      BY <1>1, <3>3, AgainWithVectorMoves DEF TaskMoves
    <3>. QED
      BY <1>3, <3>1, <3>2, <3>3
  <2>. QED
    BY <1>1, <1>3, <2>1, Restarts DEF history
<1>4. ASSUME TaskMoves(w, {"enrich", "check", "bury"}), task'[w].obs = i, done' \subseteq Id,
             late \subseteq late', late' \subseteq Id, i \in Rows \cup late',
             Fault \/ UNCHANGED faults
      PROVE  Keeps
  <2>1. TaskMoves(w, Pc) /\ task'[w].id = task[w].id
    BY <1>1, <1>4, WiderMoves DEF TaskMoves, Pc
  <2>2. RestTyped
    BY <1>1, <1>4, FaultTyped DEF Typed, RestTyped, marks
  <2>3. Safe(task[w])' /\ Found(task[w])'
    BY <1>1, <1>4, <2>1 DEF IInv, Safe, Found, Kept, Stored, Rows
  <2>. QED
    BY <1>1, <1>2, <1>4, <2>1, <2>2, <2>3, QuietKeeps DEF Typed, marks
<1>5. CASE i \in Rows /\ To(w, "check") /\ UNCHANGED <<done, late, faults>>
  <2>1. TaskMoves(w, {"check"}) /\ task'[w].obs = i
    BY <1>1, <1>5, ToMoves DEF Pc
  <2>2. TaskMoves(w, {"enrich", "check", "bury"})
    BY <2>1 DEF TaskMoves
  <2>. QED
    BY <1>1, <1>4, <1>5, <2>1, <2>2 DEF Typed
<1>6. CASE i \in Rows /\ Persisted(w, i) /\ UNCHANGED <<late, faults>>
  <2>1. /\ TaskMoves(w, {"enrich", "check", "bury"}) /\ task'[w].obs = i
        /\ done' \subseteq Id
    BY <1>1, <1>2, <1>6, PersistedMoves
  <2>. QED
    BY <1>1, <1>4, <1>6, <2>1 DEF Typed
<1>7. CASE /\ To(w, "check") /\ Fault /\ UNCHANGED done
           /\ late' = IF i \notin Rows THEN late \cup {i} ELSE late
  <2>1. TaskMoves(w, {"check"}) /\ task'[w].obs = i
    BY <1>1, <1>7, ToMoves DEF Pc
  <2>2. TaskMoves(w, {"enrich", "check", "bury"})
    BY <2>1 DEF TaskMoves
  <2>3. late \subseteq late' /\ late' \subseteq Id /\ i \in Rows \cup late'
    BY <1>1, <1>2, <1>7 DEF Typed
  <2>. QED
    BY <1>1, <1>4, <1>7, <2>1, <2>2, <2>3 DEF Typed
<1>8. \/ i \in Rows /\ To(w, "check") /\ UNCHANGED <<done, late, faults>>
      \/ i \in Rows /\ Persisted(w, i) /\ UNCHANGED <<late, faults>>
      \/ /\ i \notin Rows /\ UNCHANGED <<done, late, faults>>
         /\ CASE task[w].back = "check" -> Drop(w)
              [] task[w].back = "persist" -> Again(w, "persist")
              [] task[w].back = "save" -> AgainWithVector(w)
      \/ /\ Fault /\ UNCHANGED done
         /\ IF task[w].back = "check" THEN To(w, "check") ELSE Drop(w)
         /\ late' = IF task[w].back = "check" /\ i \notin Rows THEN late \cup {i} ELSE late
  BY DEF FetchMerged
<1>. QED
  BY <1>2, <1>3, <1>5, <1>6, <1>7, <1>8

LEMMA Buries ==
  ASSUME IInv, NEW w \in Task, BuryMessage(w)
  PROVE  Keeps
<1> DEFINE i == task[w].id
<1>1. Typed /\ task[w].pc = "bury" /\ To(w, "check") /\ UNCHANGED rest
  BY DEF IInv, BuryMessage
<1>2. i \in Id /\ task[w].obs \in Id /\ Reads(task[w]) = {}
  BY <1>1, TaskTyped DEF Reads
<1>3. TaskMoves(w, {"check"}) /\ task'[w].obs = task[w].obs
  BY <1>1, ToMoves DEF Pc
<1>4. TaskMoves(w, Pc) /\ task'[w].id = i
  BY <1>1, <1>3, WiderMoves DEF TaskMoves, Pc
<1>5. Safe(task[w]) /\ Found(task[w])
  BY DEF IInv
<1>6. CASE i \notin Rows /\ save_observation(i, {}, MergedInto(task[w].obs)) /\ UNCHANGED faults
  <2>1. MergedInto(task[w].obs) \in Title
    BY <1>2, BoundAssumption DEF MergedInto, Title
  <2>2. RowsGrow({}, {}, {}) /\ Rows' = Rows \cup {i}
    BY <1>1, <1>2, <1>6, <2>1, Saving
  <2>3. outdated' \subseteq Task \cup Sweep
    BY <1>1, <1>6 DEF Typed, save_observation, Retexted, Holders
  <2>4. RestTyped
    BY <1>1, <1>6, <2>3 DEF Typed, RestTyped, rest, history
  <2>5. Kept \subseteq Kept'
    BY <1>1, <2>2 DEF RowsGrow, Kept, rest, history
  <2>6. {i} \cap Message \subseteq Kept'
    BY <1>1, <1>5, <2>5 DEF Safe
  <2>7. Safe(task[w])' /\ Found(task[w])'
    BY <1>1, <1>3, <1>4, <1>5, <2>2, <2>6 DEF Safe, Found, rest, history
  <2>. QED
    BY <1>1, <1>2, <1>4, <2>2, <2>4, <2>6, <2>7, TaskKeeps DEF rest, history
<1>7. CASE UNCHANGED <<row, marks>> /\ (Fault \/ UNCHANGED faults)
  <2>1. RestTyped
    BY <1>1, <1>7, FaultTyped DEF Typed, RestTyped, marks, rest, history
  <2>2. Safe(task[w])' /\ Found(task[w])'
    BY <1>1, <1>3, <1>4, <1>5, <1>7 DEF Safe, Found, Kept, Stored, Rows, rest, history
  <2>. QED
    BY <1>1, <1>2, <1>4, <1>7, <2>1, <2>2, QuietKeeps DEF Typed, marks, rest, history
<1>. QED
  BY <1>6, <1>7 DEF BuryMessage

LEMMA Enriches ==
  ASSUME IInv, NEW w \in Task, Enrich(w)
  PROVE  Keeps
<1> DEFINE i == task[w].obs
<1>1. Typed /\ task[w].pc = "enrich" /\ UNCHANGED rest
  BY DEF IInv, Enrich
<1>2. /\ task[w] \in TaskState /\ i \in Id /\ task[w].id \in Id /\ Reads(task[w]) = {}
  BY <1>1, TaskTyped DEF Reads
<1>3. ASSUME NEW pc \in {"read", "fetch"},
             task' = [task EXCEPT ![w].pc = pc, ![w].back = "check"]
      PROVE  /\ TaskMoves(w, Pc) /\ task'[w].pc = pc /\ task'[w].obs = i
             /\ task'[w].id = task[w].id
  <2> DEFINE new == [task[w] EXCEPT !.pc = pc, !.back = "check"]
  <2>1. new \in TaskState /\ new.pc = pc /\ new.id = task[w].id /\ new.obs = i
    BY <1>2 DEF TaskState, TaskRecord, Pc
  <2>2. task' = [task EXCEPT ![w] = new]
    BY <1>1, <1>3 DEF Typed
  <2> HIDE DEF new
  <2>. QED
    BY <1>1, <2>1, <2>2, ChangeMoves
<1>4. CASE /\ Enrichable(i) /\ UNCHANGED faults /\ Retexted(i)
           /\ row' = [row EXCEPT ![i].facts = {task[w].id},
                ![i].vector = IF @ = "none" THEN "none" ELSE "old"]
           /\ task' = [task EXCEPT ![w].pc = "read", ![w].back = "check"]
  <2>1. /\ TaskMoves(w, Pc) /\ task'[w].pc = "read" /\ task'[w].obs = i
        /\ task'[w].id = task[w].id
    BY <1>3, <1>4
  <2>2. RowsGrow({task[w].id}, {i}, {}) /\ Rows' = Rows \cup {}
    BY <1>1, <1>2, <1>4, Enriching
  <2>3. outdated' \subseteq Task \cup Sweep
    BY <1>1, <1>4 DEF Typed, Retexted, Holders
  <2>4. RestTyped
    BY <1>1, <1>4, <2>3 DEF Typed, RestTyped, rest, history
  <2>5. Safe(task[w])' /\ Found(task[w])'
    BY <2>1, <2>2 DEF Safe, Found, RowsGrow, Kept
  <2>6. Reads(task[w])' = {i}
    BY <2>1 DEF Reads
  <2>. QED
    BY <1>1, <1>2, <2>1, <2>2, <2>4, <2>5, <2>6, TaskKeeps DEF rest, history
<1>5. CASE /\ task' = [task EXCEPT ![w].pc = "fetch", ![w].back = "check"]
           /\ Fault \/ UNCHANGED faults
           /\ UNCHANGED <<row, marks>>
  <2>1. /\ TaskMoves(w, Pc) /\ task'[w].pc = "fetch" /\ task'[w].id = task[w].id
    BY <1>3, <1>5
  <2>2. RestTyped
    BY <1>1, <1>5, FaultTyped DEF Typed, RestTyped, rest, marks, history
  <2>3. Safe(task[w])' /\ Found(task[w])'
    BY <1>1, <1>5, <2>1 DEF IInv, Safe, Found, Kept, Stored, Rows, rest, history
  <2>. QED
    BY <1>1, <1>2, <1>5, <2>1, <2>2, <2>3, QuietKeeps DEF Typed, rest, marks, history
<1>. QED
  BY <1>4, <1>5 DEF Enrich

LEMMA Finishes ==
  ASSUME IInv, NEW w \in Task, task[w].pc \in {"check", "learn"}, Finish(w),
         known' \subseteq known \cup {task[w].obs}, task[w].obs \in known \/ task[w].pc = "learn",
         UNCHANGED <<row, sweep, marks, history>>, faults' \in 0..MaxFaults
  PROVE  Keeps
<1>1. /\ Typed /\ task[w].id \in Id /\ task[w].obs \in Id /\ Reads(task[w]) = {}
      /\ Safe(task[w]) /\ Found(task[w])
  BY TaskTyped DEF IInv, Reads
<1>2. /\ Drop(w) /\ done' = done \cup {task[w].id}
      /\ saved' = saved \cup ({task[w].id} \cap Message)
  BY DEF Finish
<1>3. TaskMoves(w, {"idle"})
  BY <1>1, <1>2, DropMoves
<1>4. TaskMoves(w, Pc) /\ Safe(task[w])' /\ Found(task[w])'
  BY <1>3, WiderMoves DEF TaskMoves, Pc, Safe, Found
<1>5. RestTyped
  BY <1>1, <1>2 DEF Typed, RestTyped, marks, history
<1>6. saved' \subseteq saved \cup Kept'
  BY <1>1, <1>2 DEF Safe, Kept, Stored, Rows, history
<1>7. known' \subseteq known \cup Rows' \cup late'
  BY <1>1 DEF Found, Rows, history
<1>. QED
  BY <1>1, <1>4, <1>5, <1>6, <1>7, QuietKeeps DEF Typed, marks, history

LEMMA Checks ==
  ASSUME IInv, NEW w \in Task, CheckKnowledge(w)
  PROVE  Keeps
<1>1. /\ Typed /\ task[w].pc = "check" /\ Reads(task[w]) = {}
      /\ Safe(task[w]) /\ Found(task[w])
      /\ UNCHANGED <<row, known, sweep, marks, history>>
  BY DEF IInv, CheckKnowledge, Reads
<1>2. CASE task[w].obs \in known /\ Finish(w) /\ UNCHANGED faults
  BY <1>1, <1>2, Finishes DEF Typed
<1>3. CASE To(w, "learn") /\ UNCHANGED <<done, saved>> /\ (Fault \/ UNCHANGED faults)
  <2>1. TaskMoves(w, {"learn"}) /\ task'[w].obs = task[w].obs
    BY <1>1, <1>3, ToMoves DEF Pc
  <2>2. TaskMoves(w, Pc) /\ task'[w].id = task[w].id
    BY <1>1, <2>1, WiderMoves DEF TaskMoves, Pc
  <2>3. RestTyped
    BY <1>1, <1>3, FaultTyped DEF Typed, RestTyped, marks, history
  <2>4. Safe(task[w])' /\ Found(task[w])'
    BY <1>1, <2>1, <2>2 DEF Safe, Found, Kept, Stored, Rows, history
  <2>. QED
    BY <1>1, <1>3, <2>2, <2>3, <2>4, QuietKeeps DEF Typed, marks, history
<1>. QED
  BY <1>2, <1>3 DEF CheckKnowledge

LEMMA Learns ==
  ASSUME IInv, NEW w \in Task, SaveKnowledge(w)
  PROVE  Keeps
<1>1. Typed /\ task[w].pc = "learn" /\ UNCHANGED <<row, sweep, marks, history>>
  BY DEF IInv, SaveKnowledge
<1>2. CASE Finish(w) /\ UNCHANGED faults /\ known' \subseteq known \cup {task[w].obs}
  BY <1>1, <1>2, Finishes DEF Typed
<1>3. CASE Drop(w) /\ Fault /\ UNCHANGED <<known, done, saved>>
  <2>1. TaskMoves(w, {"idle", "llm", "update", "persist", "merge", "save"})
    BY <1>1, <1>3, DropMoves DEF TaskMoves
  <2>. QED
    BY <1>1, <1>3, <2>1, Restarts
<1>. QED
  BY <1>2, <1>3 DEF SaveKnowledge

LEMMA Crashes ==
  ASSUME IInv, NEW w \in Task, Crash(w)
  PROVE  Keeps
<1>1. /\ Typed /\ task[w].pc # "idle" /\ Drop(w) /\ Fault /\ outdated' = outdated \ {w}
      /\ lagging' = IF task[w].pc \in {"read", "store"}
                    THEN lagging \cup {task[w].obs} ELSE lagging
      /\ UNCHANGED <<row, rest>>
  BY DEF IInv, Crash
<1>2. task[w].obs \in Id
  BY <1>1, TaskTyped
<1>3. TaskMoves(w, {"idle", "llm", "update", "persist", "merge", "save"})
  BY <1>1, DropMoves DEF TaskMoves
<1>4. lagging \subseteq lagging' /\ lagging' \subseteq Id /\ Reads(task[w]) \subseteq lagging'
  BY <1>1, <1>2 DEF Typed, Reads
<1>5. RestTyped
  BY <1>1, FaultTyped DEF Typed, RestTyped, rest, history
<1>. QED
  BY <1>1, <1>3, <1>4, <1>5, PlainKeeps DEF rest, history

LEMMA TaskInductive ==
  ASSUME IInv, NEW w \in Task, TaskStep(w)
  PROVE  Keeps
BY Processes, Requests, Compresses, Updates, Persists, Dedups, Saves, Embeds, Reading,
   Storing, Fetches, Buries, Enriches, Checks, Learns, Crashes DEF TaskStep

-----------------------------------------------------------------------------
(* The steps of the sweeps and of the clients that delete *)

LEMMA MaintenanceKeeps ==
  ASSUME IInv, Typed', UNCHANGED <<task, saved>>,
         Rows' \subseteq Rows, Stored \ Stored' \subseteq dropped', dropped \subseteq dropped',
         \A v \in Task : Found(task[v])', SourcesExist', Old' \subseteq Read'
  PROVE  Keeps
<1>1. Kept \subseteq Kept'
  BY DEF Kept
<1>2. ASSUME NEW v \in Task
      PROVE  Safe(task[v])'
  <2>1. Safe(task[v])
    BY DEF IInv
  <2>. QED
    BY <1>1, <2>1 DEF Safe
<1>3. (Rows \cap Message)' \subseteq Kept' /\ saved' \subseteq Kept'
  BY <1>1 DEF IInv
<1>. QED
  BY <1>2, <1>3 DEF IInv, Keeps

SweepMoves(w) ==
  /\ sweep' \in [Sweep -> SweepState]
  /\ \A v \in Sweep \ {w} : sweep'[v] = sweep[v]

LEMMA SweepTyped ==
  ASSUME Typed, NEW w \in Sweep
  PROVE  /\ sweep[w] \in SweepState
         /\ sweep[w].pc # "idle" => sweep[w].obs \in Id
         /\ sweep[w].pc = "purge" => sweep[w].duplicate \in Id /\ sweep[w].duplicate # sweep[w].obs
BY DEF Typed, SweepState

LEMMA NoSweepTyped == NoSweep \in SweepState
BY DEF NoSweep, SweepState, SweepRecord

LEMMA SweepChanges ==
  ASSUME Typed, NEW w \in Sweep, NEW new \in SweepState, sweep' = [sweep EXCEPT ![w] = new]
  PROVE  SweepMoves(w) /\ sweep'[w] = new
BY DEF Typed, SweepMoves

LEMMA SweepReads ==
  ASSUME NEW w \in Sweep, SweepMoves(w), UNCHANGED task
  PROVE  Read \subseteq Read' \cup Reads(sweep[w]) /\ Reads(sweep[w])' \subseteq Read'
<1>1. ASSUME NEW v \in Task
      PROVE  Reads(task[v]) = Reads(task[v])'
  BY DEF Reads
<1>2. ASSUME NEW v \in Sweep, v # w
      PROVE  Reads(sweep[v]) = Reads(sweep[v])'
  <2>1. sweep'[v] = sweep[v]
    BY <1>2 DEF SweepMoves
  <2>. QED
    BY <2>1 DEF Reads
<1>. QED
  BY <1>1, <1>2 DEF Read

\* The steps of a sweep that remove no row.
LEMMA SweepKeeps ==
  ASSUME IInv, NEW w \in Sweep, SweepMoves(w), NEW less,
         RowsGrow({}, {}, less), Rows' = Rows, UNCHANGED <<known, tasks, history>>,
         outdated' \subseteq Task \cup Sweep, faults' \in 0..MaxFaults,
         Reads(sweep[w]) \cap Rows \subseteq Reads(sweep[w])' \cup less
  PROVE  Keeps
<1>1. Typed'
  BY DEF IInv, Typed, SweepMoves, RowsGrow, tasks, history
<1>2. ASSUME NEW v \in Task
      PROVE  Found(task[v])'
  <2>1. Found(task[v])
    BY DEF IInv
  <2>. QED
    BY <2>1 DEF Found, tasks, history
<1>3. SourcesExist'
  BY DEF IInv, SourcesExist, history
<1>4. Old' \subseteq Read'
  <2>1. Read \subseteq Read' \cup Reads(sweep[w]) /\ Reads(sweep[w])' \subseteq Read'
    BY SweepReads DEF tasks
  <2>2. Old' \subseteq Old /\ Old' \cap less = {} /\ Old' \subseteq Rows
    BY DEF RowsGrow, Old
  <2>. QED
    BY <2>1, <2>2 DEF IInv
<1>. QED
  BY <1>1, <1>2, <1>3, <1>4, MaintenanceKeeps DEF RowsGrow, tasks, history

LEMMA Sweeps ==
  ASSUME IInv, NEW w \in Sweep, run_dedup_sweep(w)
  PROVE  Keeps
<1>1. /\ Typed /\ sweep[w].pc = "idle"
      /\ UNCHANGED <<row, known, tasks, marks, history, faults>>
  BY DEF IInv, run_dedup_sweep
<1>2. PICK k, d \in Rows :
        /\ k # d
        /\ sweep' = [sweep EXCEPT ![w] =
             [NoSweep EXCEPT !.pc = "purge", !.obs = k, !.duplicate = d]]
  BY DEF run_dedup_sweep
<1>3. [NoSweep EXCEPT !.pc = "purge", !.obs = k, !.duplicate = d] \in SweepState
  BY <1>2 DEF NoSweep, SweepState, SweepRecord, Rows
<1>4. SweepMoves(w)
  BY <1>1, <1>2, <1>3, SweepChanges
<1>5. RowsGrow({}, {}, lagging') /\ Rows' = Rows
  BY <1>1, UnchangedRows DEF Typed, marks
<1>6. Reads(sweep[w]) = {}
  BY <1>1 DEF Reads
<1>. QED
  BY <1>1, <1>4, <1>5, <1>6, SweepKeeps DEF Typed, marks

LEMMA Loads ==
  ASSUME IInv, NEW w \in Sweep, LoadText(w)
  PROVE  Keeps
<1>1. Typed /\ UNCHANGED <<row, known, tasks, marks, history, faults>>
  BY DEF IInv, LoadText
<1>2. RowsGrow({}, {}, lagging') /\ Rows' = Rows
  BY <1>1, UnchangedRows DEF Typed, marks
<1>3. SweepMoves(w) /\ Reads(sweep[w]) \cap Rows \subseteq Reads(sweep[w])'
  <2>1. CASE /\ sweep[w].pc = "read" /\ sweep[w].obs \in Rows
             /\ sweep' = [sweep EXCEPT ![w].pc = "store"]
    <3>1. [sweep[w] EXCEPT !.pc = "store"] \in SweepState
      BY <1>1, <2>1, SweepTyped DEF SweepState, SweepRecord
    <3>2. sweep' = [sweep EXCEPT ![w] = [sweep[w] EXCEPT !.pc = "store"]]
      BY <2>1
    <3>3. SweepMoves(w) /\ sweep'[w] = [sweep[w] EXCEPT !.pc = "store"]
      BY <1>1, <3>1, <3>2, SweepChanges
    <3>4. sweep'[w].pc = "store" /\ sweep'[w].obs = sweep[w].obs
      BY <1>1, <3>3, SweepTyped DEF SweepState, SweepRecord
    <3>. QED
      BY <2>1, <3>3, <3>4 DEF Reads
  <2>2. CASE /\ sweep[w].pc = "read" /\ sweep[w].obs \notin Rows
             /\ sweep' = [sweep EXCEPT ![w] = NoSweep]
    BY <1>1, <2>2, NoSweepTyped, SweepChanges DEF Reads
  <2>3. CASE sweep[w].pc = "idle" /\ \E i \in Rows :
          /\ row[i].vector = "none"
          /\ sweep' = [sweep EXCEPT ![w] = [NoSweep EXCEPT !.pc = "store", !.obs = i]]
    <3>1. PICK i \in Rows :
            sweep' = [sweep EXCEPT ![w] = [NoSweep EXCEPT !.pc = "store", !.obs = i]]
      BY <2>3
    <3>2. [NoSweep EXCEPT !.pc = "store", !.obs = i] \in SweepState
      BY DEF NoSweep, SweepState, SweepRecord, Rows
    <3>3. SweepMoves(w)
      BY <1>1, <3>1, <3>2, SweepChanges
    <3>. QED
      BY <2>3, <3>3 DEF Reads
  <2>. QED
    BY <2>1, <2>2, <2>3 DEF LoadText
<1>. QED
  BY <1>1, <1>2, <1>3, SweepKeeps DEF Typed, marks

LEMMA SweptStores ==
  ASSUME IInv, NEW w \in Sweep, StoreSwept(w)
  PROVE  Keeps
<1>1. /\ Typed /\ sweep[w].pc = "store" /\ sweep' = [sweep EXCEPT ![w] = NoSweep]
      /\ store_embedding(w, sweep[w].obs) /\ outdated' = outdated \ {w}
      /\ UNCHANGED <<known, tasks, history, faults>>
  BY DEF IInv, StoreSwept
<1>2. sweep[w].obs \in Id /\ Reads(sweep[w]) = {sweep[w].obs}
  BY <1>1, SweepTyped DEF Reads
<1>3. RowsGrow({}, {}, {sweep[w].obs}) /\ Rows' = Rows
  BY <1>1, <1>2, Embedding
<1>4. SweepMoves(w)
  BY <1>1, NoSweepTyped, SweepChanges
<1>. QED
  BY <1>1, <1>2, <1>3, <1>4, SweepKeeps DEF Typed

LEMMA SweepStops ==
  ASSUME IInv, NEW w \in Sweep, SweepFails(w)
  PROVE  Keeps
<1>1. /\ Typed /\ sweep[w].pc # "idle" /\ Fault /\ sweep' = [sweep EXCEPT ![w] = NoSweep]
      /\ lagging' = IF sweep[w].pc \in {"read", "store"}
                    THEN lagging \cup {sweep[w].obs} ELSE lagging
      /\ outdated' = outdated \ {w} /\ UNCHANGED <<row, known, tasks, history>>
  BY DEF IInv, SweepFails
<1>2. lagging \subseteq lagging' /\ lagging' \subseteq Id /\ Reads(sweep[w]) \subseteq lagging'
  BY <1>1, SweepTyped DEF Typed, Reads
<1>3. RowsGrow({}, {}, lagging') /\ Rows' = Rows
  BY <1>1, <1>2, UnchangedRows
<1>4. SweepMoves(w)
  BY <1>1, NoSweepTyped, SweepChanges
<1>5. faults' \in 0..MaxFaults
  BY <1>1, FaultTyped DEF Typed
<1>. QED
  BY <1>1, <1>2, <1>3, <1>4, <1>5, SweepKeeps DEF Typed

\* A row that goes leaves a task that may still learn from it in late.
LEMMA Vanishing ==
  ASSUME IInv, NEW i \in Id, Rows' = Rows \ {i}, Vanish(i), UNCHANGED task
  PROVE  /\ \A v \in Task : Found(task[v])'
         /\ late \subseteq late' /\ late' \subseteq Id
<1>1. late \subseteq late' /\ late' \subseteq Id
  BY DEF Vanish, IInv, Typed
<1>2. ASSUME NEW v \in Task, task[v].pc \in {"embed", "bury", "check", "learn"}
      PROVE  task[v].obs \in Rows' \cup late'
  <2>1. task[v].obs \in Rows \cup late
    BY <1>2 DEF IInv, Found
  <2>2. CASE task[v].obs = i
    BY <1>2, <2>2 DEF Vanish
  <2>. QED
    BY <1>1, <2>1, <2>2
<1>. QED
  BY <1>1, <1>2 DEF Found

LEMMA Purges ==
  ASSUME IInv, NEW w \in Sweep, merge_and_purge(w)
  PROVE  Keeps
<1> DEFINE k == sweep[w].obs
           d == sweep[w].duplicate
           new == compute_merge(row[k], row[d].facts, row[k].title)
<1>1. /\ Typed /\ sweep[w].pc = "purge" /\ UNCHANGED <<tasks, dropped, faults>>
      /\ Reads(sweep[w]) = {}
  BY DEF IInv, merge_and_purge, Reads
<1>2. k \in Id /\ d \in Id /\ k # d /\ sweep[w] \in SweepState
  BY <1>1, SweepTyped
<1>3. CASE sweep' = [sweep EXCEPT ![w] = NoSweep] /\ UNCHANGED <<row, known, marks, late>>
  <2>1. RowsGrow({}, {}, lagging') /\ Rows' = Rows
    BY <1>1, <1>3, UnchangedRows DEF Typed, marks
  <2>2. SweepMoves(w)
    BY <1>1, <1>3, NoSweepTyped, SweepChanges
  <2>. QED
    BY <1>1, <1>3, <2>1, <2>2, SweepKeeps DEF Typed, marks, history
<1>4. CASE /\ {k, d} \subseteq Rows
           /\ row' = [row EXCEPT ![k] = compute_merge(@, row[d].facts, @.title), ![d] = None]
           /\ Retexted(k)
           /\ known' = Repointed(k, d) /\ Vanish(d)
           /\ sweep' = [sweep EXCEPT ![w].pc = "read"]
  <2>1. row[k] \in Row /\ row[d] \in Row
    BY <1>1, <1>2, <1>4 DEF Typed, Rows
  <2>2. new \in Row /\ new.facts = row[k].facts \cup row[d].facts
    BY <2>1, MergedRow DEF Row
  <2>3. row' = [row EXCEPT ![k] = new, ![d] = None]
    BY <1>4
  <2> HIDE DEF new
  <2>4. /\ row' \in [Id -> Row \cup {None}] /\ row'[k] = new /\ row'[d] = None
        /\ \A j \in Id \ {k, d} : row'[j] = row[j]
    BY <1>1, <1>2, <2>2, <2>3 DEF Typed
  <2>5. Rows' = Rows \ {d}
    BY <1>2, <1>4, <2>2, <2>4, NoneIsNoRow DEF Rows
  <2>6. Stored \subseteq Stored'
    <3>1. \A j \in Rows \ {k, d} : row[j].facts \subseteq Stored'
      BY <2>4, <2>5 DEF Stored, Rows
    <3>2. new.facts \subseteq Stored'
      BY <1>2, <1>4, <2>4, <2>5 DEF Stored
    <3>. QED
      BY <2>2, <3>1, <3>2 DEF Stored
  <2>7. lagging' = lagging \ {k} /\ outdated' \subseteq Task \cup Sweep
    BY <1>1, <1>4 DEF Retexted, Holders, Typed
  <2>8. Old' \subseteq Old \cup {k}
    BY <2>4, <2>5, <2>7 DEF Old, Rows
  <2>9. SweepMoves(w) /\ Reads(sweep[w])' = {k}
    <3>1. [sweep[w] EXCEPT !.pc = "read"] \in SweepState
      BY <1>2 DEF SweepState, SweepRecord
    <3>2. sweep' = [sweep EXCEPT ![w] = [sweep[w] EXCEPT !.pc = "read"]]
      BY <1>4
    <3>3. SweepMoves(w) /\ sweep'[w] = [sweep[w] EXCEPT !.pc = "read"]
      BY <1>1, <3>1, <3>2, SweepChanges
    <3>4. sweep'[w].pc = "read" /\ sweep'[w].obs = k
      BY <1>2, <3>3 DEF SweepState, SweepRecord
    <3>. QED
      BY <3>3, <3>4 DEF Reads
  <2>10. Old' \subseteq Read'
    BY <1>1, <2>8, <2>9, SweepReads DEF IInv, tasks
  <2>11. /\ \A v \in Task : Found(task[v])'
         /\ late \subseteq late' /\ late' \subseteq Id
    BY <1>1, <1>2, <1>4, <2>5, Vanishing DEF tasks
  <2>12. known' \subseteq Id /\ known' \subseteq (known \ {d}) \cup {k}
    BY <1>1, <1>2, <1>4 DEF Repointed, Typed
  <2>13. SourcesExist'
    BY <1>2, <1>4, <2>5, <2>11, <2>12 DEF IInv, SourcesExist
  <2>14. Typed'
    BY <1>1, <2>4, <2>7, <2>9, <2>11, <2>12 DEF Typed, SweepMoves, tasks
  <2>. QED
    BY <1>1, <2>5, <2>6, <2>10, <2>11, <2>13, <2>14, MaintenanceKeeps DEF tasks
<1>. QED
  BY <1>3, <1>4 DEF merge_and_purge

LEMMA Deletes ==
  ASSUME IInv, NEW i \in Id, delete_observation_cascading(i)
  PROVE  Keeps
<1> DEFINE others == UNION {row[j].facts : j \in Rows \ {i}}
<1>1. /\ Typed /\ i \in Rows /\ Fault /\ row' = [row EXCEPT ![i] = None]
      /\ known' = known \ {i} /\ Vanish(i)
      /\ dropped' = dropped \cup (row[i].facts \ others)
      /\ UNCHANGED <<sweep, tasks, marks>>
  BY DEF IInv, delete_observation_cascading
<1>2. /\ row' \in [Id -> Row \cup {None}] /\ row'[i] = None
      /\ \A j \in Id \ {i} : row'[j] = row[j]
  BY <1>1 DEF Typed
<1>3. Rows' = Rows \ {i}
  BY <1>2 DEF Rows
<1>4. Stored = row[i].facts \cup others /\ Stored' = others
  BY <1>1, <1>2, <1>3 DEF Stored, Rows
<1>5. Old' \subseteq Old /\ Read' = Read
  BY <1>1, <1>2, <1>3 DEF Old, Read, Reads, Rows, marks, tasks
<1>6. /\ \A v \in Task : Found(task[v])'
      /\ late \subseteq late' /\ late' \subseteq Id
  BY <1>1, <1>3, Vanishing DEF tasks
<1>7. SourcesExist'
  BY <1>1, <1>3, <1>6 DEF IInv, SourcesExist
<1>8. dropped' \subseteq Id /\ faults' \in 0..MaxFaults
  BY <1>1, FaultTyped DEF Typed, Rows, Row
<1>9. Typed'
  BY <1>1, <1>2, <1>6, <1>8 DEF Typed, tasks, marks
<1>10. Stored \ Stored' \subseteq dropped'
  BY <1>1, <1>4
<1>11. Old' \subseteq Read'
  BY <1>5 DEF IInv
<1>12. UNCHANGED <<task, saved>> /\ Rows' \subseteq Rows /\ dropped \subseteq dropped'
  BY <1>1, <1>3 DEF tasks
<1>. QED
  BY <1>6, <1>7, <1>9, <1>10, <1>11, <1>12, MaintenanceKeeps

LEMMA Stutters ==
  ASSUME IInv, UNCHANGED vars
  PROVE  Keeps
<1>1. Typed'
  BY DEF IInv, Typed, vars
<1>2. Rows' = Rows /\ Stored' = Stored /\ Kept' = Kept /\ Old' = Old /\ Read' = Read
  BY DEF Rows, Stored, Kept, Old, Read, Reads, vars
<1>3. ASSUME NEW v \in Task
      PROVE  Safe(task[v])' /\ Found(task[v])'
  BY <1>2 DEF IInv, Safe, Found, vars
<1>. QED
  BY <1>1, <1>2, <1>3 DEF IInv, Keeps, SourcesExist, vars

-----------------------------------------------------------------------------
(* The theorems *)

LEMMA Starts == Init => IInv
<1> SUFFICES ASSUME Init
             PROVE  IInv
  OBVIOUS
<1>1. Typed
  BY NoTaskTyped, NoSweepTyped, BoundAssumption DEF Init, Typed
<1>2. Rows = {}
  BY DEF Init, Rows
<1>3. \A w \in Task : Safe(task[w]) /\ Found(task[w])
  BY DEF Init, Safe, Found, NoTask
<1>. QED
  BY <1>1, <1>2, <1>3 DEF Init, IInv, SourcesExist, Old

LEMMA Steps == IInv /\ [Next]_vars => Keeps
BY TaskInductive, Sweeps, Purges, Loads, SweptStores, SweepStops, Deletes, Stutters
   DEF Next, SweepStep

LEMMA Inductive == Spec => []IInv
<1>1. IInv /\ [Next]_vars => IInv'
  BY Steps DEF Keeps
<1>. QED
  BY Starts, <1>1, PTL DEF Spec

\* No interleaving of merges, sweeps, enrichments and deletions loses a fact
\* that no client has deleted (merge_into_existing, merge_and_purge,
\* update_observation_metadata).
THEOREM NoFactLost == Spec => FactsKept
<1>1. IInv /\ [Next]_vars => [Stored \ Stored' \subseteq dropped']_vars
  BY Steps DEF Keeps
<1>. QED
  BY Inductive, <1>1, PTL DEF Spec, FactsKept

\* A message that was answered with an observation has left its fact in some
\* row, unless a client deleted it (process, save_and_notify).
THEOREM AnswersStored == Spec => []SavedIsStored
<1>1. IInv => TypeOK
  <2> SUFFICES ASSUME IInv
               PROVE  TypeOK
    OBVIOUS
  <2>1. \A w \in Task : task[w] \in TaskRecord
    BY DEF IInv, Typed, TaskState
  <2>2. \A w \in Sweep : sweep[w] \in SweepRecord
    BY DEF IInv, Typed, SweepState
  <2>. QED
    BY <2>1, <2>2 DEF IInv, Typed, TypeOK, TaskRecord, SweepRecord, Pc
<1>2. IInv => SavedIsStored
  BY <1>1 DEF IInv, SavedIsStored, Kept
<1>. QED
  BY Inductive, <1>2, PTL

\* Knowledge names rows that exist, or that went while a task was extracting
\* knowledge from them (merge_and_purge, extract_knowledge).
THEOREM KnowledgeHasSources == Spec => []SourcesExist
<1>1. IInv => SourcesExist
  BY DEF IInv
<1>. QED
  BY Inductive, <1>1, PTL

\* A row whose vector is not that of its text is about to get a new one, but
\* for the rows where that has failed (regenerate_embedding).
THEOREM VectorsFollow == Spec => []VectorsCurrent
<1>1. IInv => VectorsCurrent
  BY DEF IInv, VectorsCurrent, Old, Read, Reads
<1>. QED
  BY Inductive, <1>1, PTL
================================================================================
