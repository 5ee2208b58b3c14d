------------------------ MODULE ContextInjectionProofs ------------------------
(***************************************************************************)
(* Proofs about ContextInjection, for any rows, similarities, sessions,    *)
(* requests, checks and limits. That echoes are stopped rests on what the  *)
(* table of injections keeps while a check is on its way: what is due to   *)
(* be recognized stays injected, stored and with its vector (DueKept).     *)
(* That a topic is shown once is a matter of the union-find alone: of the  *)
(* forest it keeps, and of what its trees have to do with the chains of    *)
(* similar rows.                                                           *)
(***************************************************************************)
EXTENDS ContextInjection, FiniteSetTheorems, NaturalsInduction, SequenceTheorems,
        WellFoundedInduction, TLAPS

\* What was shown to a session in the last 24 hours is on record.
Known == \A p \in heard : injected[p[1]][p[2]] = "fresh"

\* The foreign key of injected_observations.
ForeignKey == \A s \in Session, x \in Obs : injected[s][x] # "no" => x \in Stored

\* The observations of the checks are new ones, each in one check.
Distinct ==
  \A w \in Check :
    /\ check[w].pc = "idle" => check[w] = NoCheck
    /\ check[w].pc # "idle" => /\ check[w].obs \in Obs \ Stored
                               /\ \A v \in Check \ {w} : check[v].obs # check[w].obs
    /\ check[w].pc \in {"ids", "vectors"} => check[w].session \in Session

\* What a check must recognize stays on record, and is among the ids it read.
DueKept ==
  \A w \in Check : check[w].pc \in {"ids", "vectors"} =>
    \A y \in due[w] : /\ injected[check[w].session][y] = "fresh" /\ y \in Stored /\ row[y].vector
                      /\ check[w].pc = "vectors" /\ w \notin excused => y \in check[w].ids

Rows == [Obs -> [noise: 0..4, time: Obs \cup {0}, vector: BOOLEAN]]
Marks == [Session -> [Obs -> {"no", "fresh", "old"}]]
Requests == [Request -> [pc: {"idle", "dedup", "record"},
               session: Session \cup {None}, linked: SUBSET Obs, shown: SUBSET Obs,
               read: SUBSET [id: Obs, noise: 0..4, time: Obs]]]
Checks == [Check -> [pc: {"idle", "ids", "vectors", "save"},
             session: Session \cup {None}, obs: Obs \cup {0}, ids: SUBSET Obs]]

LEMMA Typed ==
  /\ TypeOK <=> /\ row \in Rows /\ injected \in Marks /\ request \in Requests
                /\ check \in Checks /\ heard \subseteq Session \X Obs
                /\ due \in [Check -> SUBSET Obs] /\ excused \subseteq Check
                /\ faults \in 0..MaxFaults
  /\ TypeOK' <=> /\ row' \in Rows /\ injected' \in Marks /\ request' \in Requests
                 /\ check' \in Checks /\ heard' \subseteq Session \X Obs
                 /\ due' \in [Check -> SUBSET Obs] /\ excused' \subseteq Check
                 /\ faults' \in 0..MaxFaults
BY DEF TypeOK, Rows, Marks, Requests, Checks

-----------------------------------------------------------------------------
(* Types *)

LEMMA Counted == ASSUME faults \in 0..MaxFaults, Fault \/ UNCHANGED faults
                 PROVE  faults' \in 0..MaxFaults
BY LimitAssumption DEF Fault


\* The actions of a request.
LEMMA RequestTypes ==
  ASSUME TypeOK, NEW r \in Request, get_context_for_project(r) \/ Abandon(r) \/
         save_injected_observations(r)
  PROVE  TypeOK'
<1>. USE Typed
<1>1. [request EXCEPT ![r] = NoRequest] \in Requests
  BY DEF Requests, NoRequest
<1>2. CASE get_context_for_project(r)
  <2>1. PICK s \in Session \cup {None}, N \in SUBSET Stored :
          request' = [request EXCEPT ![r] =
             [NoRequest EXCEPT !.pc = "dedup", !.session = s,
              !.read = {[id |-> x, noise |-> row[x].noise, time |-> row[x].time] : x \in N}]]
    BY <1>2 DEF get_context_for_project
  <2> DEFINE R == {[id |-> x, noise |-> row[x].noise, time |-> row[x].time] : x \in N}
  <2>2. R \in SUBSET [id: Obs, noise: 0..4, time: Obs]
    BY DEF Stored, Rows
  <2>3. request' = [request EXCEPT ![r] =
          [NoRequest EXCEPT !.pc = "dedup", !.session = s, !.read = R]]
    BY <2>1
  <2> HIDE DEF R
  <2>4. request' \in Requests
    BY <2>2, <2>3 DEF Requests, NoRequest
  <2>. QED
    BY <1>2, <2>4 DEF get_context_for_project, table, history
<1>3. CASE Abandon(r)
  BY <1>1, <1>3, Counted DEF Abandon, Answer, table, history
<1>4. CASE save_injected_observations(r)
  <2>1. request' \in Requests /\ faults' \in 0..MaxFaults
    BY <1>1, <1>4, Counted DEF save_injected_observations, Answer
  <2>2. injected' \in Marks /\ heard' \subseteq Session \X Obs
    <3>1. request[r].session \in Session \cup {None} /\ request[r].shown \subseteq Obs
      BY DEF Requests
    <3>2. ASSUME NEW s \in Session, NEW X \in SUBSET Obs PROVE Recorded(s, X) \in Marks
      BY DEF Recorded, Marks
    <3>3. injected' \in Marks
      BY <1>4, <3>1, <3>2 DEF save_injected_observations
    <3>4. heard' \subseteq Session \X Obs
      BY <1>4, <3>1 DEF save_injected_observations
    <3>. QED
      BY <3>3, <3>4
  <2>. QED
    BY <1>4, <2>1, <2>2 DEF save_injected_observations
<1>. QED
  BY <1>2, <1>3, <1>4

\* The actions of a check.
LEMMA CheckTypes ==
  ASSUME TypeOK, NEW w \in Check, CheckStep(w)
  PROVE  TypeOK'
<1>. USE Typed
<1>1. CASE Begin(w)
  <2>1. PICK s \in Session \cup {None}, x \in Obs \ Stored, pc \in {"save", "ids"} :
          check' = [check EXCEPT ![w] = NewCheck(pc, s, x)]
    BY <1>1 DEF Begin
  <2>2. check' \in Checks
    BY <2>1 DEF Checks, NewCheck
  <2>3. due' \in [Check -> SUBSET Obs] /\ excused' \subseteq Check
    BY <1>1 DEF Begin, Stored
  <2>4. faults' \in 0..MaxFaults
    BY <1>1, Counted DEF Begin
  <2>. QED
    BY <1>1, <2>2, <2>3, <2>4 DEF Begin, table
<1>2. CASE ReadIds(w)
  <2>1. check' \in Checks
    BY <1>2 DEF ReadIds, Goto, PassUnchecked, Checks
  <2>2. due' \in [Check -> SUBSET Obs] /\ excused' \subseteq Check
    BY <1>2 DEF ReadIds, PassUnchecked
  <2>3. faults' \in 0..MaxFaults
    BY <1>2, Counted DEF ReadIds, PassUnchecked
  <2>. QED
    BY <1>2, <2>1, <2>2, <2>3 DEF ReadIds, table
<1>3. CASE ReadVectors(w)
  <2>1. check' \in Checks
    BY <1>3 DEF ReadVectors, Goto, Drop, NoCheck, NewCheck, PassUnchecked, Checks
  <2>2. due' \in [Check -> SUBSET Obs] /\ excused' \subseteq Check
    BY <1>3 DEF ReadVectors, PassUnchecked, Drop
  <2>3. faults' \in 0..MaxFaults
    BY <1>3, Counted DEF ReadVectors, PassUnchecked
  <2>. QED
    BY <1>3, <2>1, <2>2, <2>3 DEF ReadVectors, table
<1>4. CASE Save(w)
  <2>1. check' \in Checks
    BY <1>4 DEF Save, Drop, NoCheck, NewCheck, Checks
  <2>2. due' \in [Check -> SUBSET Obs] /\ excused' \subseteq Check
    BY <1>4 DEF Save, Drop
  <2>3. PICK vector \in BOOLEAN :
          row' = [row EXCEPT ![check[w].obs] = Made(check[w].obs, vector)]
    BY <1>4 DEF Save
  <2>4. row' \in Rows
    BY <2>3, IdAssumption DEF Rows, Made
  <2>5. faults' \in 0..MaxFaults
    BY <1>4, Counted DEF Save
  <2>. QED
    BY <1>4, <2>1, <2>2, <2>4, <2>5 DEF Save
<1>. QED
  BY <1>1, <1>2, <1>3, <1>4 DEF CheckStep

\* What changes the rows and the records beside them.
Elsewhere ==
  \/ \E k, d \in Obs : merge_and_purge(k, d)
  \/ \E x \in Obs : delete_observation_cascading(x) \/ run_embedding_backfill(x)
  \/ clear_embeddings
  \/ \E s \in Session, x \in Obs : Age(s, x)
  \/ cleanup_old_injections

LEMMA NoLongerDue ==
  ASSUME due \in [Check -> SUBSET Obs], NEW X, NoLonger(X)
  PROVE  due' \in [Check -> SUBSET Obs] /\ \A w \in Check : due'[w] = due[w] \ X
BY DEF NoLonger

LEMMA ElsewhereTypes ==
  ASSUME TypeOK, Elsewhere
  PROVE  TypeOK'
<1>. USE Typed
<1>1. ASSUME NEW k \in Obs, NEW d \in Obs, merge_and_purge(k, d)
      PROVE  TypeOK'
  <2>1. row' \in Rows
    <3> DEFINE t == IF row[d].time > row[k].time THEN row[d].time ELSE row[k].time
    <3>1. t \in Obs \cup {0}
      BY DEF Rows
    <3>2. row' = [row EXCEPT ![d] = NoRow, ![k].time = t]
      BY <1>1 DEF merge_and_purge
    <3> HIDE DEF t
    <3>3. [row EXCEPT ![d] = NoRow] \in Rows
      BY DEF Rows, NoRow
    <3>. QED
      BY <3>1, <3>2, <3>3 DEF Rows
  <2>2. injected' \in Marks
    BY <1>1 DEF merge_and_purge, Repointed, Marks
  <2>3. heard' \subseteq Session \X Obs
    <3>1. \A p \in heard' : p \in heard \/ \E s \in Session : p = <<s, k>>
      BY <1>1 DEF merge_and_purge
    <3>. QED
      BY <3>1
  <2>. QED
    BY <1>1, <2>1, <2>2, <2>3, NoLongerDue DEF merge_and_purge, work
<1>2. ASSUME NEW x \in Obs, delete_observation_cascading(x)
      PROVE  TypeOK'
  <2>1. row' \in Rows
    BY <1>2 DEF delete_observation_cascading, Rows, NoRow
  <2>2. injected' \in Marks
    BY <1>2 DEF delete_observation_cascading, Forget, Marks
  <2>3. faults' \in 0..MaxFaults
    BY <1>2, Counted DEF delete_observation_cascading
  <2>. QED
    BY <1>2, <2>1, <2>2, <2>3, NoLongerDue DEF delete_observation_cascading, Forget, work
<1>3. ASSUME NEW x \in Obs, run_embedding_backfill(x)
      PROVE  TypeOK'
  BY <1>3 DEF run_embedding_backfill, Rows, work, history
<1>4. CASE clear_embeddings
  <2>1. row' \in Rows
    BY <1>4 DEF clear_embeddings, Rows
  <2>. QED
    BY <1>4, <2>1, NoLongerDue, Counted DEF clear_embeddings, work
<1>5. ASSUME NEW s \in Session, NEW x \in Obs, Age(s, x)
      PROVE  TypeOK'
  <2>1. injected' \in Marks
    BY <1>5 DEF Age, Marks
  <2>. QED
    BY <1>5, <2>1 DEF Age, work
<1>6. CASE cleanup_old_injections
  <2>1. injected' \in Marks
    BY <1>6 DEF cleanup_old_injections, CleanedUp, Marks
  <2>. QED
    BY <1>6, <2>1 DEF cleanup_old_injections, work, history
<1>. QED
  BY <1>1, <1>2, <1>3, <1>4, <1>5, <1>6 DEF Elsewhere

-----------------------------------------------------------------------------
(* Echoes *)

Echoes == Known /\ ForeignKey /\ Distinct /\ DueKept /\ IsFiniteSet(Stored)

\* The rows stay finite in number: each step adds one at most.
LEMMA RowsFinite ==
  ASSUME IsFiniteSet(Stored), NEW x, Stored' \subseteq Stored \cup {x}
  PROVE  IsFiniteSet(Stored')
BY FS_AddElement, FS_Subset

LEMMA RequestKeepsEchoes ==
  ASSUME TypeOK, Echoes, EchoesStopped, NEW r \in Request, RequestStep(r) \/ Abandon(r)
  PROVE  Echoes' /\ EchoesStopped'
<1>. USE Typed
<1>1. UNCHANGED <<row, check, due, excused>>
  BY DEF RequestStep, get_context_for_project, Dedup, save_injected_observations, Abandon, table,
         history
<1>2. EchoesStopped' /\ Distinct' /\ IsFiniteSet(Stored')
  BY <1>1 DEF Echoes, EchoesStopped, Distinct, Stored
<1>3. CASE UNCHANGED <<injected, heard>>
  BY <1>1, <1>2, <1>3 DEF Echoes, Known, ForeignKey, DueKept, Stored
<1>4. ASSUME NEW s \in Session, NEW X \in SUBSET Stored, injected' = Recorded(s, X),
             heard' = heard \cup {p \in {s} \X X : injected[s][p[2]] # "old"}
      PROVE  Echoes' /\ EchoesStopped'
  <2>1. \A z \in Session, x \in Obs :
          injected'[z][x] = IF z = s /\ x \in X /\ injected[z][x] = "no" THEN "fresh"
                            ELSE injected[z][x]
    BY <1>4 DEF Recorded, Marks
  <2>2. Known'
    <3>1. SUFFICES ASSUME NEW p \in heard' PROVE injected'[p[1]][p[2]] = "fresh"
      BY DEF Known
    <3>2. CASE p \in heard
      BY <2>1, <3>2 DEF Echoes, Known
    <3>3. CASE p \in {s} \X X /\ injected[s][p[2]] # "old"
      <4>1. p[1] = s /\ p[2] \in X /\ p[2] \in Obs
        BY <3>3 DEF Stored
      <4>2. injected[s][p[2]] \in {"no", "fresh"}
        BY <3>3, <4>1 DEF Marks
      <4>. QED
        BY <2>1, <4>1, <4>2
    <3>. QED
      BY <1>4, <3>1, <3>2, <3>3
  <2>3. ForeignKey'
    BY <1>1, <2>1 DEF Echoes, ForeignKey, Stored
  <2>4. DueKept'
    BY <1>1, <2>1 DEF Echoes, DueKept, Distinct, Stored
  <2>. QED
    BY <1>2, <2>2, <2>3, <2>4 DEF Echoes
<1>5. \/ UNCHANGED <<injected, heard>>
      \/ \E s \in Session, X \in SUBSET Stored :
           /\ injected' = Recorded(s, X)
           /\ heard' = heard \cup {p \in {s} \X X : injected[s][p[2]] # "old"}
  <2>1. CASE save_injected_observations(r)
    BY <2>1 DEF save_injected_observations, Requests
  <2>2. CASE ~save_injected_observations(r)
    BY <2>2 DEF RequestStep, get_context_for_project, Dedup, Abandon, table, history
  <2>. QED
    BY <2>1, <2>2
<1>. QED
  BY <1>3, <1>4, <1>5

\* Each check sees to its own affairs.
LEMMA OthersWait ==
  ASSUME TypeOK, NEW w \in Check, CheckStep(w)
  PROVE  /\ UNCHANGED <<injected, heard>>
         /\ \A v \in Check \ {w} : /\ check'[v] = check[v] /\ due'[v] = due[v]
                                   /\ v \in excused' <=> v \in excused
<1>. USE Typed
<1>1. UNCHANGED <<injected, heard>>
  BY DEF CheckStep, Begin, ReadIds, ReadVectors, Save, table
<1>2. /\ check' = [check EXCEPT ![w] = check'[w]]
      /\ due' = [due EXCEPT ![w] = due'[w]]
  <2>1. CASE Begin(w)
    BY <2>1 DEF Begin, Checks
  <2>2. CASE ReadIds(w)
    BY <2>2 DEF ReadIds, Goto, PassUnchecked, Checks
  <2>3. CASE ReadVectors(w)
    BY <2>3 DEF ReadVectors, Goto, Drop, PassUnchecked, Checks
  <2>4. CASE Save(w)
    BY <2>4 DEF Save, Drop, Checks
  <2>. QED
    BY <2>1, <2>2, <2>3, <2>4 DEF CheckStep
<1>3. excused' \in {excused, excused \cup {w}, excused \ {w}}
  BY DEF CheckStep, Begin, ReadIds, ReadVectors, Save, Goto, Drop, PassUnchecked
<1>. QED
  BY <1>1, <1>2, <1>3 DEF Checks

\* What holds of each check separately.
OwnSound(w) ==
  /\ check[w].pc = "idle" => check[w] = NoCheck
  /\ check[w].pc # "idle" => check[w].obs \in Obs \ Stored
  /\ check[w].pc \in {"ids", "vectors"} => check[w].session \in Session
OwnDue(w) ==
  check[w].pc \in {"ids", "vectors"} =>
    \A y \in due[w] : /\ injected[check[w].session][y] = "fresh" /\ y \in Stored /\ row[y].vector
                      /\ check[w].pc = "vectors" /\ w \notin excused => y \in check[w].ids
OwnStopped(w) ==
  (InjectionThreshold > 0 /\ w \notin excused /\ check[w].pc = "save" /\ check[w].session # None) =>
    \A y \in due[w] : Similarity[check[w].obs][y] < InjectionThreshold
Apart == \A v, w \in Check : v # w /\ check[w].pc # "idle" => check[v].obs # check[w].obs

LEMMA Owners ==
  /\ Distinct <=> Apart /\ \A w \in Check : OwnSound(w)
  /\ Distinct' <=> Apart' /\ \A w \in Check : OwnSound(w)'
  /\ DueKept <=> \A w \in Check : OwnDue(w)
  /\ DueKept' <=> \A w \in Check : OwnDue(w)'
  /\ EchoesStopped <=> \A w \in Check : OwnStopped(w)
  /\ EchoesStopped' <=> \A w \in Check : OwnStopped(w)'
BY DEF Distinct, Apart, OwnSound, DueKept, OwnDue, EchoesStopped, OwnStopped

LEMMA BeginKeepsEchoes ==
  ASSUME TypeOK, Echoes, EchoesStopped, NEW w \in Check, Begin(w)
  PROVE  Echoes' /\ EchoesStopped'
<1>. USE Typed
<1>1. PICK s \in Session \cup {None}, x \in Obs \ Stored, pc \in {"save", "ids"} :
        /\ check' = [check EXCEPT ![w] = NewCheck(pc, s, x)]
        /\ \A v \in Check : check[v].obs # x
        /\ \/ /\ due' = [due EXCEPT ![w] = {y \in Stored : <<s, y>> \in heard /\ row[y].vector}]
              /\ pc = IF s = None \/ InjectionThreshold <= 0 THEN "save" ELSE "ids"
           \/ pc = "save" /\ w \in excused'
  BY DEF Begin
<1>2. /\ check'[w] = NewCheck(pc, s, x)
      /\ check'[w].pc = pc /\ check'[w].session = s /\ check'[w].obs = x
  BY <1>1 DEF Checks, NewCheck
<1>3. UNCHANGED <<row, injected, heard>> /\ Stored' = Stored
  BY DEF Begin, table, Stored
<1>4. /\ \A v \in Check : OwnSound(v) /\ OwnDue(v) /\ OwnStopped(v)
      /\ Apart /\ Known /\ ForeignKey /\ IsFiniteSet(Stored)
  BY Owners DEF Echoes
<1>5. /\ UNCHANGED <<injected, heard>>
      /\ \A v \in Check \ {w} : /\ check'[v] = check[v] /\ due'[v] = due[v]
                                /\ v \in excused' <=> v \in excused
  BY OthersWait DEF CheckStep
<1>6. Apart'
  BY <1>1, <1>2, <1>4, <1>5 DEF Apart
<1>7. ASSUME NEW v \in Check \ {w} PROVE OwnSound(v)' /\ OwnDue(v)' /\ OwnStopped(v)'
  BY <1>3, <1>4, <1>5 DEF OwnSound, OwnDue, OwnStopped
<1>8. OwnSound(w)'
  BY <1>1, <1>2, <1>3 DEF OwnSound
<1>9. OwnDue(w)'
  <2>1. SUFFICES ASSUME pc = "ids", NEW y \in due'[w]
                 PROVE  injected[s][y] = "fresh" /\ y \in Stored /\ row[y].vector
    BY <1>2, <1>3 DEF OwnDue
  <2>2. y \in Stored /\ <<s, y>> \in heard /\ row[y].vector
    BY <1>1, <2>1
  <2>. QED
    BY <1>4, <2>2 DEF Known
<1>10. OwnStopped(w)'
  <2>1. pc = "save" /\ w \notin excused' => s = None \/ InjectionThreshold <= 0
    BY <1>1
  <2>. QED
    BY <1>2, <2>1, SimilarityAssumption DEF OwnStopped
<1>. QED
  BY <1>3, <1>4, <1>6, <1>7, <1>8, <1>9, <1>10, Owners DEF Echoes, Known, ForeignKey

LEMMA ReadsKeepEchoes ==
  ASSUME TypeOK, Echoes, EchoesStopped, NEW w \in Check, ReadIds(w) \/ ReadVectors(w)
  PROVE  Echoes' /\ EchoesStopped'
<1>. USE Typed
<1>1. UNCHANGED <<row, injected, heard>> /\ Stored' = Stored
  BY DEF ReadIds, ReadVectors, table, Stored
<1>2. /\ \A v \in Check : OwnSound(v) /\ OwnDue(v) /\ OwnStopped(v)
      /\ Apart /\ Known /\ ForeignKey /\ IsFiniteSet(Stored)
  BY Owners DEF Echoes
<1>3. /\ \A v \in Check \ {w} : /\ check'[v] = check[v] /\ due'[v] = due[v]
                                /\ v \in excused' <=> v \in excused
  BY OthersWait DEF CheckStep
<1>4. ASSUME NEW v \in Check \ {w} PROVE OwnSound(v)' /\ OwnDue(v)' /\ OwnStopped(v)'
  BY <1>1, <1>2, <1>3 DEF OwnSound, OwnDue, OwnStopped
<1>5. check[w].pc \in {"ids", "vectors"} /\ check[w].session \in Session
  BY <1>2 DEF ReadIds, ReadVectors, OwnSound
<1>6. \/ check'[w].obs = check[w].obs /\ check'[w].session = check[w].session /\ check'[w].pc # "idle"
      \/ check'[w] = NoCheck
  BY DEF ReadIds, ReadVectors, Goto, Drop, PassUnchecked, Checks
<1>7. Apart'
  BY <1>2, <1>3, <1>5, <1>6, IdAssumption DEF Apart, NoCheck, NewCheck, OwnSound
<1>8. OwnSound(w)'
  BY <1>1, <1>2, <1>5, <1>6 DEF OwnSound, NoCheck, NewCheck
<1>9. OwnDue(w)' /\ OwnStopped(w)'
  <2>1. CASE ReadIds(w)
    <3> DEFINE ids == {x \in Obs : injected[check[w].session][x] # "no"}
    <3>1. due'[w] \subseteq ids /\ due'[w] = due[w]
      BY <1>2, <2>1 DEF ReadIds, PassUnchecked, OwnDue
    <3>2. CASE ids = {} /\ Goto(w, "save")
      BY <3>1, <3>2 DEF Goto, Checks, OwnDue, OwnStopped
    <3>3. ASSUME NEW kept \in SUBSET ids,
                 check' = [check EXCEPT ![w].pc = "vectors", ![w].ids = kept],
                 w \in excused' \/ Cardinality(kept) = Cardinality(ids)
          PROVE  OwnDue(w)' /\ OwnStopped(w)'
      <4>1. check'[w].pc = "vectors" /\ check'[w].ids = kept /\ check'[w].session = check[w].session
        BY <3>3 DEF Checks
      <4>2. w \in excused' \/ kept = ids
        <5>1. IsFiniteSet(ids)
          BY <1>2, <1>5, FS_Subset DEF ForeignKey
        <5>. QED
          BY <3>3, <5>1, FS_Subset
      <4>3. ASSUME NEW y \in due[w]
            PROVE  injected[check[w].session][y] = "fresh" /\ y \in Stored /\ row[y].vector
        BY <1>2, <1>5, <4>3 DEF OwnDue
      <4>. QED
        BY <1>1, <3>1, <4>1, <4>2, <4>3 DEF OwnDue, OwnStopped
    <3>4. CASE PassUnchecked(w)
      BY <3>4 DEF PassUnchecked, Goto, Checks, OwnDue, OwnStopped
    <3>. QED
      BY <2>1, <3>2, <3>3, <3>4 DEF ReadIds
  <2>2. CASE ReadVectors(w)
    <3>1. CASE PassUnchecked(w)
      BY <3>1 DEF PassUnchecked, Goto, Checks, OwnDue, OwnStopped
    <3>2. CASE Drop(w)
      BY <3>2 DEF Drop, NoCheck, NewCheck, Checks, OwnDue, OwnStopped
    <3>3. CASE /\ ~\E y \in check[w].ids \cap Stored : row[y].vector /\ IsEcho(check[w].obs, y)
               /\ Goto(w, "save") /\ UNCHANGED <<due, excused>>
      <4>1. check'[w].pc = "save" /\ check'[w].obs = check[w].obs /\ check[w].obs \in Obs
        BY <1>2, <1>5, <3>3 DEF Goto, Checks, OwnSound
      <4>2. ASSUME w \notin excused, NEW y \in due[w]
            PROVE  Similarity[check[w].obs][y] < InjectionThreshold
        <5>1. y \in check[w].ids /\ y \in Stored /\ row[y].vector
          BY <1>2, <2>2, <4>2 DEF ReadVectors, OwnDue
        <5>2. ~IsEcho(check[w].obs, y) /\ Similarity[check[w].obs][y] \in Int
          BY <3>3, <4>1, <5>1, SimilarityAssumption DEF Stored
        <5>. QED
          BY <5>2, SimilarityAssumption DEF IsEcho
      <4>. QED
        BY <3>3, <4>1, <4>2 DEF OwnDue, OwnStopped
    <3>. QED
      BY <2>2, <3>1, <3>2, <3>3 DEF ReadVectors
  <2>. QED
    BY <2>1, <2>2
<1>. QED
  BY <1>1, <1>2, <1>4, <1>7, <1>8, <1>9, Owners, OthersWait DEF Echoes, Known, ForeignKey

LEMMA SaveKeepsEchoes ==
  ASSUME TypeOK, Echoes, EchoesStopped, NEW w \in Check, Save(w)
  PROVE  Echoes' /\ EchoesStopped'
<1>. USE Typed
<1> DEFINE x == check[w].obs
<1>1. PICK vector \in BOOLEAN : row' = [row EXCEPT ![x] = Made(x, vector)]
  BY DEF Save
<1>2. /\ \A v \in Check : OwnSound(v) /\ OwnDue(v) /\ OwnStopped(v)
      /\ Apart /\ Known /\ ForeignKey /\ IsFiniteSet(Stored)
  BY Owners DEF Echoes
<1>3. check[w].pc = "save" /\ x \in Obs \ Stored
  BY <1>2 DEF Save, OwnSound
<1>4. Stored' = Stored \cup {x} /\ \A y \in Stored : row'[y] = row[y]
  BY <1>1, <1>3, IdAssumption DEF Stored, Rows, Made
<1>5. /\ UNCHANGED <<injected, heard>>
      /\ \A v \in Check \ {w} : /\ check'[v] = check[v] /\ due'[v] = due[v]
                                /\ v \in excused' <=> v \in excused
  BY OthersWait DEF CheckStep
<1>6. check'[w] = NoCheck
  BY DEF Save, Drop, Checks
<1>7. IsFiniteSet(Stored')
  BY <1>2, <1>4, RowsFinite
<1>8. Apart'
  BY <1>2, <1>3, <1>5, <1>6, IdAssumption DEF Apart, NoCheck, NewCheck, OwnSound
<1>9. ASSUME NEW v \in Check \ {w} PROVE OwnSound(v)' /\ OwnDue(v)' /\ OwnStopped(v)'
  <2>1. check[v].pc # "idle" => check[v].obs # x
    BY <1>2, <1>3 DEF Apart
  <2>2. OwnSound(v)'
    BY <1>2, <1>4, <1>5, <2>1 DEF OwnSound
  <2>3. OwnDue(v)'
    BY <1>2, <1>4, <1>5 DEF OwnDue
  <2>4. OwnStopped(v)'
    BY <1>2, <1>5 DEF OwnStopped
  <2>. QED
    BY <2>2, <2>3, <2>4
<1>10. OwnSound(w)' /\ OwnDue(w)' /\ OwnStopped(w)'
  BY <1>6 DEF OwnSound, OwnDue, OwnStopped, NoCheck, NewCheck
<1>11. ForeignKey'
  BY <1>2, <1>4, <1>5 DEF ForeignKey
<1>. QED
  BY <1>2, <1>5, <1>7, <1>8, <1>9, <1>10, <1>11, Owners DEF Echoes, Known

\* Whatever changes beside the checks: no row is added, and no check is due more.
LEMMA LessIsDue ==
  ASSUME TypeOK, Echoes, EchoesStopped, UNCHANGED <<check, excused>>, Stored' \subseteq Stored,
         \A w \in Check : due'[w] \subseteq due[w]
  PROVE  Distinct' /\ EchoesStopped' /\ IsFiniteSet(Stored')
BY FS_Subset DEF Echoes, Distinct, EchoesStopped

LEMMA MergeKeepsEchoes ==
  ASSUME TypeOK, Echoes, EchoesStopped, NEW k \in Obs, NEW d \in Obs, merge_and_purge(k, d)
  PROVE  Echoes' /\ EchoesStopped'
<1>. USE Typed
<1>1. k \in Stored /\ d \in Stored /\ k # d /\ UNCHANGED <<check, excused>>
  BY DEF merge_and_purge, work
<1>2. /\ row'[d] = NoRow /\ row'[k].time # 0 /\ row'[k].vector = row[k].vector
      /\ \A x \in Obs \ {k, d} : row'[x] = row[x]
  <2> DEFINE t == IF row[d].time > row[k].time THEN row[d].time ELSE row[k].time
  <2>1. row' = [row EXCEPT ![d] = NoRow, ![k].time = t] /\ t # 0
    BY <1>1 DEF merge_and_purge, Stored
  <2> HIDE DEF t
  <2>. QED
    BY <1>1, <2>1 DEF Rows
<1>3. Stored' = Stored \ {d}
  BY <1>1, <1>2 DEF Stored, NoRow
<1>4. \A s \in Session, x \in Obs :
        injected'[s][x] = IF x = d THEN "no"
                          ELSE IF x = k /\ injected[s][k] = "no" /\ injected[s][d] # "no" THEN "fresh"
                          ELSE injected[s][x]
  BY <1>1 DEF merge_and_purge, Repointed, Marks
<1>5. \A w \in Check : due'[w] = due[w] \ {d}
  BY NoLongerDue DEF merge_and_purge
<1>6. Distinct' /\ EchoesStopped' /\ IsFiniteSet(Stored')
  BY <1>1, <1>3, <1>5, LessIsDue
<1>7. Known'
  <2>1. SUFFICES ASSUME NEW p \in heard' PROVE injected'[p[1]][p[2]] = "fresh"
    BY DEF Known
  <2>2. CASE p \in heard /\ p[2] # d
    <3>1. p[1] \in Session /\ p[2] \in Obs /\ injected[p[1]][p[2]] = "fresh"
      BY <2>2 DEF Echoes, Known
    <3>. QED
      BY <1>4, <2>2, <3>1
  <2>3. ASSUME NEW s \in Session, <<s, d>> \in heard, injected[s][k] # "old", p = <<s, k>>
        PROVE  injected'[p[1]][p[2]] = "fresh"
    <3>1. injected[s][d] = "fresh"
      BY <2>3 DEF Echoes, Known
    <3>2. injected[s][k] \in {"no", "fresh"}
      BY <2>3 DEF Marks
    <3>. QED
      BY <1>1, <1>4, <2>3, <3>1, <3>2
  <2>. QED
    BY <2>1, <2>2, <2>3 DEF merge_and_purge
<1>8. ForeignKey'
  BY <1>1, <1>3, <1>4 DEF Echoes, ForeignKey
<1>9. DueKept'
  <2>1. SUFFICES ASSUME NEW w \in Check, check[w].pc \in {"ids", "vectors"}, NEW y \in due'[w]
                 PROVE  /\ injected'[check[w].session][y] = "fresh" /\ y \in Stored' /\ row'[y].vector
                        /\ check[w].pc = "vectors" /\ w \notin excused => y \in check[w].ids
    BY <1>1 DEF DueKept
  <2>2. y # d /\ y \in due[w] /\ y \in Obs /\ check[w].session \in Session
    BY <1>5, <2>1 DEF Echoes, Distinct
  <2>3. /\ injected[check[w].session][y] = "fresh" /\ y \in Stored /\ row[y].vector
        /\ check[w].pc = "vectors" /\ w \notin excused => y \in check[w].ids
    BY <2>1, <2>2 DEF Echoes, DueKept
  <2>. QED
    BY <1>2, <1>3, <1>4, <2>2, <2>3
<1>. QED
  BY <1>6, <1>7, <1>8, <1>9 DEF Echoes

LEMMA DeleteKeepsEchoes ==
  ASSUME TypeOK, Echoes, EchoesStopped, NEW x \in Obs, delete_observation_cascading(x)
  PROVE  Echoes' /\ EchoesStopped'
<1>. USE Typed
<1>1. UNCHANGED <<check, excused>> /\ heard' = {p \in heard : p[2] # x}
  BY DEF delete_observation_cascading, work, Forget
<1>2. Stored' = Stored \ {x} /\ \A y \in Obs \ {x} : row'[y] = row[y]
  BY DEF delete_observation_cascading, Stored, NoRow, Rows
<1>3. \A s \in Session, y \in Obs : injected'[s][y] = IF y = x THEN "no" ELSE injected[s][y]
  BY DEF delete_observation_cascading, Forget, Marks
<1>4. \A w \in Check : due'[w] = due[w] \ {x}
  BY NoLongerDue DEF delete_observation_cascading, Forget
<1>5. Distinct' /\ EchoesStopped' /\ IsFiniteSet(Stored')
  BY <1>1, <1>2, <1>4, LessIsDue
<1>6. Known'
  BY <1>1, <1>3 DEF Echoes, Known
<1>7. ForeignKey'
  BY <1>2, <1>3 DEF Echoes, ForeignKey
<1>8. DueKept'
  BY <1>1, <1>2, <1>3, <1>4 DEF Echoes, Distinct, DueKept
<1>. QED
  BY <1>5, <1>6, <1>7, <1>8 DEF Echoes

\* What leaves the records as they are.
LEMMA VectorsKeepEchoes ==
  ASSUME TypeOK, Echoes, EchoesStopped,
         clear_embeddings \/ \E x \in Obs : run_embedding_backfill(x)
  PROVE  Echoes' /\ EchoesStopped'
<1>. USE Typed
<1>1. UNCHANGED <<injected, check, heard, excused>>
  BY DEF clear_embeddings, run_embedding_backfill, work, history
<1>2. Stored' = Stored
  BY DEF clear_embeddings, run_embedding_backfill, Stored, Rows
<1>3. \A w \in Check : /\ due'[w] \subseteq due[w]
                       /\ \A y \in due'[w] : row[y].vector => row'[y].vector
  <2>1. CASE clear_embeddings
    BY <2>1, NoLongerDue DEF clear_embeddings
  <2>2. ASSUME NEW x \in Obs, run_embedding_backfill(x)
        PROVE  \A w \in Check : /\ due'[w] \subseteq due[w]
                                /\ \A y \in due'[w] : row[y].vector => row'[y].vector
    BY <2>2 DEF run_embedding_backfill, history, Rows
  <2>. QED
    BY <2>1, <2>2
<1>4. Distinct' /\ EchoesStopped' /\ IsFiniteSet(Stored')
  BY <1>1, <1>2, <1>3, LessIsDue
<1>5. Known' /\ ForeignKey' /\ DueKept'
  BY <1>1, <1>2, <1>3 DEF Echoes, Known, ForeignKey, DueKept
<1>. QED
  BY <1>4, <1>5 DEF Echoes

LEMMA AgesKeepEchoes ==
  ASSUME TypeOK, Echoes, EchoesStopped,
         cleanup_old_injections \/ \E s \in Session, x \in Obs : Age(s, x)
  PROVE  Echoes' /\ EchoesStopped'
<1>. USE Typed
<1>1. UNCHANGED <<row, check, excused>> /\ Stored' = Stored
  BY DEF cleanup_old_injections, Age, work, history, Stored
<1>2. CASE cleanup_old_injections
  <2>1. UNCHANGED <<heard, due>>
    BY <1>2 DEF cleanup_old_injections, history
  <2>2. \A s \in Session, x \in Obs :
          injected'[s][x] = IF injected[s][x] = "old" THEN "no" ELSE injected[s][x]
    BY <1>2 DEF cleanup_old_injections, CleanedUp
  <2>3. Distinct' /\ EchoesStopped' /\ IsFiniteSet(Stored')
    BY <1>1, <2>1, LessIsDue
  <2>4. Known' /\ ForeignKey'
    BY <1>1, <2>1, <2>2 DEF Echoes, Known, ForeignKey
  <2>5. DueKept'
    BY <1>1, <2>1, <2>2 DEF Echoes, Distinct, DueKept
  <2>. QED
    BY <2>3, <2>4, <2>5 DEF Echoes
<1>3. ASSUME NEW s \in Session, NEW x \in Obs, Age(s, x)
      PROVE  Echoes' /\ EchoesStopped'
  <2>1. \A z \in Session, y \in Obs :
          injected'[z][y] = IF z = s /\ y = x THEN "old" ELSE injected[z][y]
    BY <1>3 DEF Age, Marks
  <2>2. heard' = heard \ {<<s, x>>}
    BY <1>3 DEF Age
  <2>3. \A w \in Check : due'[w] = IF check[w].session = s THEN due[w] \ {x} ELSE due[w]
    BY <1>3 DEF Age
  <2>4. Distinct' /\ EchoesStopped' /\ IsFiniteSet(Stored')
    BY <1>1, <2>3, LessIsDue
  <2>5. Known'
    <3>1. SUFFICES ASSUME NEW p \in heard' PROVE injected'[p[1]][p[2]] = "fresh"
      BY DEF Known
    <3>2. /\ p[1] \in Session /\ p[2] \in Obs /\ injected[p[1]][p[2]] = "fresh"
          /\ p = <<p[1], p[2]>> /\ p # <<s, x>>
      BY <2>2, <3>1 DEF Echoes, Known
    <3>. QED
      BY <2>1, <3>2
  <2>6. ForeignKey'
    BY <1>1, <1>3, <2>1 DEF Age, Echoes, ForeignKey
  <2>7. DueKept'
    <3>1. SUFFICES ASSUME NEW w \in Check, check[w].pc \in {"ids", "vectors"}, NEW y \in due'[w]
                   PROVE  /\ injected'[check[w].session][y] = "fresh" /\ y \in Stored /\ row[y].vector
                          /\ check[w].pc = "vectors" /\ w \notin excused => y \in check[w].ids
      BY <1>1 DEF DueKept
    <3>2. /\ y \in due[w] /\ y \in Obs /\ check[w].session \in Session
          /\ ~(check[w].session = s /\ y = x)
      BY <2>3, <3>1 DEF Echoes, Distinct
    <3>3. /\ injected[check[w].session][y] = "fresh" /\ y \in Stored /\ row[y].vector
          /\ check[w].pc = "vectors" /\ w \notin excused => y \in check[w].ids
      BY <3>1, <3>2 DEF Echoes, DueKept
    <3>. QED
      BY <2>1, <3>2, <3>3
  <2>. QED
    BY <2>4, <2>5, <2>6, <2>7 DEF Echoes
<1>. QED
  BY <1>2, <1>3

-----------------------------------------------------------------------------
(* Loops *)

LEMMA LeastNumber ==
  ASSUME NEW T \in SUBSET Nat, T # {}
  PROVE  \E n \in T : \A m \in T : n <= m
<1>1. PICK n \in T : \A m \in T : <<m, n>> \notin OpToRel(<, Nat)
  BY WFMin, NatLessThanWellFounded
<1>2. \A m \in T : ~(m < n)
  BY <1>1 DEF OpToRel
<1>. QED
  BY <1>2

\* What holds before a loop, and after a turn if it held before it, holds after
\* each turn.
LEMMA LoopKeeps ==
  ASSUME NEW n \in Nat, NEW T, 0 \in T, \A k \in 1..n : k - 1 \in T => k \in T
  PROVE  \A k \in 0..n : k \in T
<1> DEFINE Bad == (0..n) \ T
<1>1. SUFFICES ASSUME Bad # {} PROVE FALSE
  OBVIOUS
<1>2. Bad \in SUBSET Nat
  OBVIOUS
<1>3. PICK k \in Bad : \A m \in Bad : k <= m
  <2> HIDE DEF Bad
  <2>. QED
    BY <1>1, <1>2, LeastNumber
<1>4. k # 0 /\ k \in 1..n
  BY <1>3
<1>5. k - 1 \in 0..n /\ ~(k <= k - 1)
  BY <1>4
<1>6. k - 1 \in T
  BY <1>3, <1>5
<1>. QED
  BY <1>3, <1>4, <1>6

\* The states of a loop: of before its first turn, and after each.
Runs(g, n, p0, f) == g = [k \in 0..n |-> IF k = 0 THEN p0 ELSE f[k][g[k - 1]]]

LEMMA LoopRuns ==
  ASSUME NEW n \in Nat, NEW P, NEW p0 \in P, NEW f \in [1..n -> [P -> P]]
  PROVE  \E g \in [0..n -> P] : Runs(g, n, p0, f)
<1> DEFINE Some(m) == \E g \in [0..m -> P] : Runs(g, m, p0, f)
           T == {m \in 0..n : Some(m)}
<1>1. 0 \in T
  <2> DEFINE g == [k \in 0..0 |-> p0]
  <2>1. g \in [0..0 -> P] /\ Runs(g, 0, p0, f)
    BY DEF Runs
  <2>. QED
    BY <2>1
<1>2. ASSUME NEW m \in 1..n, m - 1 \in T PROVE m \in T
  <2>1. PICK g \in [0..(m - 1) -> P] : Runs(g, m - 1, p0, f)
    BY <1>2
  <2> DEFINE h == [k \in 0..m |-> IF k = 0 THEN p0 ELSE f[k][g[k - 1]]]
  <2>2. \A k \in 0..(m - 1) : g[k] = IF k = 0 THEN p0 ELSE f[k][g[k - 1]]
    BY <2>1 DEF Runs
  <2>3. \A k \in 0..(m - 1) : h[k] = g[k]
    BY <2>2
  <2>4. h \in [0..m -> P]
    BY <2>1
  <2>5. \A k \in 0..m : h[k] = IF k = 0 THEN p0 ELSE f[k][h[k - 1]]
    <3>1. SUFFICES ASSUME NEW k \in 0..m, k # 0 PROVE h[k] = f[k][h[k - 1]]
      OBVIOUS
    <3>2. k - 1 \in 0..(m - 1)
      BY <3>1
    <3>3. h[k - 1] = g[k - 1] /\ h[k] = f[k][g[k - 1]]
      BY <2>3, <3>1, <3>2
    <3> HIDE DEF h
    <3>. QED
      BY <3>3
  <2>6. Runs(h, m, p0, f)
    <3> HIDE DEF h
    <3>. QED
      BY <2>4, <2>5 DEF Runs
  <2>. QED
    BY <2>4, <2>6
<1>3. n \in T
  <2> HIDE DEF T
  <2>1. \A k \in 0..n : k \in T
    BY <1>1, <1>2, LoopKeeps
  <2>. QED
    BY <2>1
<1>. QED
  BY <1>3

-----------------------------------------------------------------------------
(* The union-find *)

Parents(n) == [1..n -> 1..n]

LEMMA ParentsLen == ASSUME NEW n \in Nat, NEW parent \in Parents(n)
                    PROVE  Len(parent) = n
BY DEF Parents

Ups(up, n, parent, i) == up = [k \in 0..n |-> IF k = 0 THEN i ELSE parent[up[k - 1]]]

LEMMA FindSteps ==
  ASSUME NEW n \in Nat, NEW parent \in Parents(n), NEW i \in 1..n
  PROVE  \E up \in [0..n -> 1..n] :
           /\ up[0] = i /\ \A k \in 1..n : up[k] = parent[up[k - 1]]
           /\ Find(parent, i) = up[n]
<1>1. \E up : Ups(up, n, parent, i)
  <2> DEFINE f == [k \in 1..n |-> parent]
  <2>1. PICK g \in [0..n -> 1..n] : Runs(g, n, i, f)
    BY LoopRuns DEF Parents
  <2>2. \A k \in 1..n : f[k][g[k - 1]] = parent[g[k - 1]]
    OBVIOUS
  <2>3. Ups(g, n, parent, i)
    BY <2>1, <2>2 DEF Ups, Runs
  <2>. QED
    BY <2>3
<1> DEFINE up == CHOOSE up : Ups(up, n, parent, i)
<1>2. Find(parent, i) = up[n]
  BY ParentsLen DEF Find, Ups
<1>3. Ups(up, n, parent, i)
  BY <1>1
<1> HIDE DEF up
<1>4. up[0] = i /\ \A k \in 1..n : up[k] = parent[up[k - 1]]
  BY <1>3 DEF Ups
<1>5. up \in [0..n -> 1..n]
  <2> DEFINE T == {k \in 0..n : up[k] \in 1..n}
  <2>1. 0 \in T
    BY <1>4
  <2>2. ASSUME NEW k \in 1..n, k - 1 \in T PROVE k \in T
    <3>1. up[k - 1] \in 1..n /\ up[k] = parent[up[k - 1]] /\ k \in 0..n
      BY <1>4, <2>2
    <3>2. parent[up[k - 1]] \in 1..n
      BY <3>1 DEF Parents
    <3>. QED
      BY <3>1, <3>2
  <2>3. \A k \in 0..n : k \in T
    <3> HIDE DEF T
    <3>. QED
      BY <2>1, <2>2, LoopKeeps
  <2>4. up = [k \in 0..n |-> up[k]]
    BY <1>3 DEF Ups
  <2>. QED
    BY <2>3, <2>4
<1>. QED
  BY <1>2, <1>4, <1>5

\* Trees over 1..n: rep is the root of each, dist how far away it is. There are as
\* few roots as some node is far.
Roots(n, parent) == {x \in 1..n : parent[x] = x}
Forest(n, parent, dist, rep) ==
  /\ parent \in Parents(n) /\ dist \in [1..n -> Nat] /\ rep \in [1..n -> 1..n]
  /\ \A x \in 1..n :
       /\ parent[x] = x => dist[x] = 0 /\ rep[x] = x
       /\ parent[x] # x => dist[parent[x]] = dist[x] - 1 /\ rep[parent[x]] = rep[x]
       /\ parent[rep[x]] = rep[x]
       /\ dist[x] + Cardinality(Roots(n, parent)) <= n

LEMMA RootsFinite ==
  ASSUME NEW n \in Nat, NEW parent
  PROVE  IsFiniteSet(Roots(n, parent)) /\ Cardinality(Roots(n, parent)) \in Nat
<1>1. IsFiniteSet(1..n) /\ Roots(n, parent) \subseteq 1..n
  BY FS_Interval DEF Roots
<1>. QED
  BY <1>1, FS_Subset, FS_CardinalityType

LEMMA ForestNodes ==
  ASSUME NEW n \in Nat, NEW parent, NEW dist, NEW rep, Forest(n, parent, dist, rep),
         NEW x \in 1..n
  PROVE  /\ parent[x] \in 1..n /\ rep[x] \in 1..n
         /\ dist[x] \in Nat /\ dist[parent[x]] \in Nat
         /\ parent[x] = x => dist[x] = 0 /\ rep[x] = x
         /\ parent[x] # x => dist[parent[x]] = dist[x] - 1 /\ rep[parent[x]] = rep[x]
         /\ parent[rep[x]] = rep[x] /\ rep[rep[x]] = rep[x] /\ dist[rep[x]] = 0
         /\ dist[x] + Cardinality(Roots(n, parent)) <= n
<1>1. parent[x] \in 1..n /\ rep[x] \in 1..n /\ dist[x] \in Nat
  BY DEF Forest, Parents
<1>2. dist[parent[x]] \in Nat
  BY <1>1 DEF Forest
<1>3. /\ parent[x] = x => dist[x] = 0 /\ rep[x] = x
      /\ parent[x] # x => dist[parent[x]] = dist[x] - 1 /\ rep[parent[x]] = rep[x]
      /\ dist[x] + Cardinality(Roots(n, parent)) <= n
      /\ parent[rep[x]] = rep[x]
  BY DEF Forest
<1>4. rep[rep[x]] = rep[x] /\ dist[rep[x]] = 0
  BY <1>1, <1>3 DEF Forest
<1>. QED
  BY <1>1, <1>2, <1>3, <1>4

LEMMA FindsRoot ==
  ASSUME NEW n \in Nat, NEW parent, NEW dist, NEW rep, Forest(n, parent, dist, rep),
         NEW i \in 1..n
  PROVE  Find(parent, i) = rep[i]
<1>1. parent \in Parents(n)
  BY DEF Forest
<1>2. PICK up \in [0..n -> 1..n] :
         /\ up[0] = i /\ \A k \in 1..n : up[k] = parent[up[k - 1]]
         /\ Find(parent, i) = up[n]
  BY <1>1, FindSteps
<1> DEFINE T == {k \in 0..n : rep[up[k]] = rep[i] /\ dist[up[k]] <= n - k}
<1>3. 0 \in T
  <2>1. Cardinality(Roots(n, parent)) \in Nat /\ dist[i] \in Nat
    BY RootsFinite, ForestNodes
  <2>2. dist[i] <= n
    BY <2>1, ForestNodes
  <2>3. up[0] = i
    BY <1>2
  <2>4. dist[up[0]] <= n - 0
    BY <2>1, <2>2, <2>3
  <2>. QED
    BY <2>3, <2>4
<1>4. ASSUME NEW k \in 1..n, k - 1 \in T PROVE k \in T
  <2> DEFINE x == up[k - 1]
  <2>1. x \in 1..n /\ up[k] = parent[x] /\ rep[x] = rep[i] /\ dist[x] <= n - (k - 1)
    BY <1>2, <1>4
  <2>2. k \in 0..n
    OBVIOUS
  <2> HIDE DEF x
  <2>3. rep[parent[x]] = rep[x] /\ dist[parent[x]] <= n - k
    <3>1. x \in 1..n
      BY <2>1
    <3>4. /\ dist[x] \in Nat
          /\ parent[x] = x => dist[x] = 0
          /\ parent[x] # x => dist[parent[x]] = dist[x] - 1 /\ rep[parent[x]] = rep[x]
      BY <3>1, ForestNodes
    <3>5. dist[x] <= n - (k - 1)
      BY <2>1
    <3>2. CASE parent[x] = x
      <4>1. dist[x] = 0
        BY <3>2, <3>4
      <4>. QED
        BY <3>2, <4>1
    <3>3. CASE parent[x] # x
      <4>1. dist[parent[x]] = dist[x] - 1 /\ rep[parent[x]] = rep[x]
        BY <3>3, <3>4
      <4>. QED
        BY <3>5, <3>4, <4>1
    <3>. QED
      BY <3>2, <3>3
  <2>. QED
    BY <2>1, <2>2, <2>3
<1>5. n \in T
  <2> HIDE DEF T
  <2>1. \A k \in 0..n : k \in T
    BY <1>3, <1>4, LoopKeeps
  <2>. QED
    BY <2>1
<1> DEFINE y == up[n]
<1>6. rep[y] = rep[i] /\ dist[y] <= 0 /\ y \in 1..n
  BY <1>5
<1> HIDE DEF y
<1>7. rep[y] = y
  <2>0. y \in 1..n /\ dist[y] <= 0
    BY <1>6
  <2>1. /\ dist[y] \in Nat /\ dist[parent[y]] \in Nat
        /\ parent[y] = y => rep[y] = y
        /\ parent[y] # y => dist[parent[y]] = dist[y] - 1
    BY <2>0, ForestNodes
  <2>2. dist[y] \in Nat /\ dist[y] = 0
    BY <2>0, <2>1
  <2>3. parent[y] # y => dist[parent[y]] = 0 - 1
    BY <2>1, <2>2
  <2>4. parent[y] = y
    BY <2>1, <2>3
  <2>. QED
    BY <2>1, <2>4
<1>. QED
  BY <1>2, <1>6, <1>7 DEF y

LEMMA FindTyped ==
  ASSUME NEW n \in Nat, NEW parent \in Parents(n), NEW i \in 1..n, NEW j \in 1..n
  PROVE  Find(parent, i) \in 1..n /\ Union(parent, i, j) \in Parents(n)
<1>1. ASSUME NEW k \in 1..n PROVE Find(parent, k) \in 1..n
  <2>1. PICK up \in [0..n -> 1..n] :
           /\ up[0] = k /\ \A m \in 1..n : up[m] = parent[up[m - 1]]
           /\ Find(parent, k) = up[n]
    BY FindSteps
  <2>. QED
    BY <2>1
<1>. QED
  BY <1>1 DEF Union, Parents

\* A union joins two trees.
Join(n, rep, i, j) == [x \in 1..n |-> IF rep[x] = rep[j] THEN rep[i] ELSE rep[x]]

LEMMA UnionJoins ==
  ASSUME NEW n \in Nat, NEW parent, NEW dist, NEW rep, Forest(n, parent, dist, rep),
         NEW i \in 1..n, NEW j \in 1..n
  PROVE  \E further : Forest(n, Union(parent, i, j), further, Join(n, rep, i, j))
<1> DEFINE q == Union(parent, i, j)
           a == rep[i]
           b == rep[j]
           joined == [x \in 1..n |-> IF rep[x] = b THEN a ELSE rep[x]]
<1>1. q = [parent EXCEPT ![b] = a]
  <2>1. Find(parent, i) = a /\ Find(parent, j) = b
    BY FindsRoot
  <2>. QED
    BY <2>1 DEF Union
<1>2. /\ a \in 1..n /\ b \in 1..n /\ parent[a] = a /\ parent[b] = b
      /\ rep[a] = a /\ rep[b] = b /\ dist[a] = 0 /\ dist[b] = 0
      /\ parent \in [1..n -> 1..n]
  <2>1. a \in 1..n /\ b \in 1..n
    BY ForestNodes
  <2>. QED
    BY <2>1, ForestNodes DEF Forest, Parents
<1>0. joined = Join(n, rep, i, j)
  BY DEF Join
<1>3. CASE a = b
  <2>1. q = parent
    BY <1>1, <1>2, <1>3
  <2>2. joined = rep
    BY <1>3 DEF Forest
  <2>3. Forest(n, q, dist, joined)
    BY <2>1, <2>2
  <2>. QED
    BY <1>0, <2>3
<1>4. CASE a # b
  <2> DEFINE further == [x \in 1..n |-> IF rep[x] = b THEN dist[x] + 1 ELSE dist[x]]
  <2>1. Roots(n, q) = Roots(n, parent) \ {b} /\ b \in Roots(n, parent)
    BY <1>1, <1>2, <1>4 DEF Roots
  <2>2. Cardinality(Roots(n, q)) = Cardinality(Roots(n, parent)) - 1
    BY <2>1, RootsFinite, FS_RemoveElement
  <2>3. q \in Parents(n)
    BY <1>1, <1>2 DEF Parents
  <2>4. further \in [1..n -> Nat] /\ joined \in [1..n -> 1..n]
    <3>1. \A x \in 1..n : dist[x] \in Nat /\ dist[x] + 1 \in Nat /\ rep[x] \in 1..n
      BY ForestNodes
    <3>. QED
      BY <1>2, <3>1
  <2>5. \A x \in 1..n : /\ q[x] = IF x = b THEN a ELSE parent[x]
                        /\ further[x] = IF rep[x] = b THEN dist[x] + 1 ELSE dist[x]
                        /\ joined[x] = IF rep[x] = b THEN a ELSE rep[x]
    BY <1>1, <1>2
  <2>6. ASSUME NEW x \in 1..n
        PROVE  /\ q[x] = x => further[x] = 0 /\ joined[x] = x
               /\ q[x] # x => further[q[x]] = further[x] - 1 /\ joined[q[x]] = joined[x]
               /\ q[joined[x]] = joined[x]
               /\ further[x] + Cardinality(Roots(n, q)) <= n
    <3> HIDE DEF q, a, b, joined, further
    <3>1. /\ parent[x] \in 1..n /\ rep[x] \in 1..n
          /\ dist[x] \in Nat /\ dist[parent[x]] \in Nat
          /\ parent[x] = x => dist[x] = 0 /\ rep[x] = x
          /\ parent[x] # x => dist[parent[x]] = dist[x] - 1 /\ rep[parent[x]] = rep[x]
          /\ parent[rep[x]] = rep[x]
          /\ dist[x] + Cardinality(Roots(n, parent)) <= n
      BY ForestNodes
    <3>2. /\ q[x] = IF x = b THEN a ELSE parent[x]
          /\ further[x] = IF rep[x] = b THEN dist[x] + 1 ELSE dist[x]
          /\ joined[x] = IF rep[x] = b THEN a ELSE rep[x]
      BY <2>5
    <3>3. q[x] = x => further[x] = 0 /\ joined[x] = x
      BY <1>2, <1>4, <3>1, <3>2
    <3>4. q[x] # x => further[q[x]] = further[x] - 1 /\ joined[q[x]] = joined[x]
      <4>1. CASE x = b
        <5>1. q[x] = a /\ further[a] = 0 /\ joined[a] = a
          BY <1>2, <1>4, <2>5, <3>2, <4>1
        <5>2. further[x] = 1 /\ joined[x] = a
          BY <1>2, <3>2, <4>1
        <5>. QED
          BY <5>1, <5>2
      <4>2. CASE x # b
        <5>1. /\ q[x] = parent[x]
              /\ further[parent[x]] = IF rep[parent[x]] = b THEN dist[parent[x]] + 1 ELSE dist[parent[x]]
              /\ joined[parent[x]] = IF rep[parent[x]] = b THEN a ELSE rep[parent[x]]
          BY <2>5, <3>1, <4>2
        <5>. QED
          BY <3>1, <3>2, <5>1
      <4>. QED
        BY <4>1, <4>2
    <3>5. q[joined[x]] = joined[x]
      BY <1>2, <1>4, <2>5, <3>1, <3>2
    <3>6. further[x] + Cardinality(Roots(n, q)) <= n
      <4> DEFINE c == Cardinality(Roots(n, parent))
      <4>1. c \in Nat /\ Cardinality(Roots(n, q)) = c - 1
        BY <2>2, RootsFinite
      <4>2. dist[x] + c <= n
        BY <3>1
      <4> HIDE DEF c
      <4>. QED
        BY <3>1, <3>2, <4>1, <4>2
    <3>. QED
      BY <3>3, <3>4, <3>5, <3>6
  <2>7. Forest(n, q, further, joined)
    BY <2>3, <2>4, <2>6 DEF Forest
  <2>. QED
    BY <1>0, <2>7
<1>. QED
  BY <1>3, <1>4

\* What the forest says of the links E, of all the links D: those of E are within
\* trees, and a tree is on one side of every set that no link of D leaves.
Whole(D, S) == \A p \in D : p[1] \in S <=> p[2] \in S
Partition(n, parent, rep, E, D) ==
  /\ \E dist : Forest(n, parent, dist, rep)
  /\ \A p \in E : rep[p[1]] = rep[p[2]]
  /\ \A S \in SUBSET (1..n) : Whole(D, S) => \A x \in 1..n : x \in S <=> rep[x] \in S
Merged(n, parent, E, D) == \E rep : Partition(n, parent, rep, E, D)

LEMMA UnionMerges ==
  ASSUME NEW n \in Nat, NEW D \in SUBSET ((1..n) \X (1..n)), NEW E \in SUBSET D, NEW parent,
         Merged(n, parent, E, D), NEW i \in 1..n, NEW j \in 1..n, <<i, j>> \in D
  PROVE  Merged(n, Union(parent, i, j), E \cup {<<i, j>>}, D)
<1>1. PICK rep : Partition(n, parent, rep, E, D)
  BY DEF Merged
<1>2. PICK dist : Forest(n, parent, dist, rep)
  BY <1>1 DEF Partition
<1> DEFINE a == rep[i]
           b == rep[j]
           joined == Join(n, rep, i, j)
<1>3. \E further : Forest(n, Union(parent, i, j), further, joined)
  BY <1>2, UnionJoins
<1>4. \A x \in 1..n : joined[x] = IF rep[x] = b THEN a ELSE rep[x]
  BY DEF Join
<1>5. a \in 1..n /\ b \in 1..n /\ rep[a] = a
  BY <1>2, ForestNodes
<1>6. ASSUME NEW p \in E \cup {<<i, j>>} PROVE joined[p[1]] = joined[p[2]]
  <2>1. p[1] \in 1..n /\ p[2] \in 1..n
    OBVIOUS
  <2>2. p \in E => rep[p[1]] = rep[p[2]]
    BY <1>1 DEF Partition
  <2> HIDE DEF joined
  <2>3. CASE p \in E
    BY <1>4, <2>1, <2>2, <2>3
  <2>4. CASE p = <<i, j>>
    BY <1>4, <2>4
  <2>. QED
    BY <2>3, <2>4
<1>7. ASSUME NEW S \in SUBSET (1..n), Whole(D, S), NEW x \in 1..n
      PROVE  x \in S <=> joined[x] \in S
  <2>1. \A y \in 1..n : y \in S <=> rep[y] \in S
    BY <1>1, <1>7 DEF Partition
  <2>2. i \in S <=> j \in S
    BY <1>7 DEF Whole
  <2>3. a \in S <=> b \in S
    BY <2>1, <2>2
  <2>4. x \in S <=> rep[x] \in S
    BY <2>1
  <2>5. joined[x] = IF rep[x] = b THEN a ELSE rep[x]
    BY <1>4
  <2> HIDE DEF joined, a, b
  <2>. QED
    BY <2>3, <2>4, <2>5
<1> HIDE DEF joined, a, b
<1>8. Partition(n, Union(parent, i, j), joined, E \cup {<<i, j>>}, D)
  BY <1>3, <1>6, <1>7 DEF Partition
<1>. QED
  BY <1>8 DEF Merged

LEMMA MergedParents ==
  ASSUME NEW n \in Nat, NEW parent, NEW E, NEW D, Merged(n, parent, E, D)
  PROVE  parent \in Parents(n)
BY DEF Merged, Partition, Forest

After(after, n, i, parent, linked) ==
  after = [j \in 0..n |->
             IF j = 0 THEN parent
             ELSE IF <<i, j>> \in linked THEN Union(after[j - 1], i, j) ELSE after[j - 1]]

\* The turns of the inner loop.
Turns(after, n, i, parent, linked) ==
  /\ Compared(i, parent, linked) = after[n] /\ after[0] = parent
  /\ \A j \in 1..n : after[j] = IF <<i, j>> \in linked THEN Union(after[j - 1], i, j)
                                ELSE after[j - 1]
LEMMA ComparedSteps ==
  ASSUME NEW n \in Nat, NEW D, NEW i \in 1..n, NEW parent \in Parents(n)
  PROVE  \E after \in [0..n -> Parents(n)] : Turns(after, n, i, parent, D)
<1>1. \E after \in [0..n -> Parents(n)] : After(after, n, i, parent, D)
  <2> DEFINE f == [j \in 1..n |-> [q \in Parents(n) |->
                     IF <<i, j>> \in D THEN Union(q, i, j) ELSE q]]
  <2>1. f \in [1..n -> [Parents(n) -> Parents(n)]]
    BY FindTyped
  <2>2. PICK g \in [0..n -> Parents(n)] : Runs(g, n, parent, f)
    <3> HIDE DEF f
    <3>. QED
      BY <2>1, LoopRuns
  <2>3. \A j \in 0..n : j # 0 => f[j][g[j - 1]] = IF <<i, j>> \in D THEN Union(g[j - 1], i, j) ELSE g[j - 1]
    OBVIOUS
  <2>4. \A j \in 0..n : g[j] = IF j = 0 THEN parent
             ELSE IF <<i, j>> \in D THEN Union(g[j - 1], i, j) ELSE g[j - 1]
    <3> HIDE DEF f
    <3>. QED
      BY <2>2, <2>3 DEF Runs
  <2>5. After(g, n, i, parent, D)
    BY <2>4 DEF After
  <2>. QED
    BY <2>5
<1> DEFINE after == CHOOSE after : After(after, n, i, parent, D)
<1>2. Compared(i, parent, D) = after[n]
  BY ParentsLen DEF Compared, After
<1>3. After(after, n, i, parent, D)
  BY <1>1
<1>4. PICK g \in [0..n -> Parents(n)] : After(g, n, i, parent, D)
  BY <1>1
<1> HIDE DEF after
<1> DEFINE T == {j \in 0..n : after[j] = g[j]}
<1>5. 0 \in T
  BY <1>3, <1>4 DEF After
<1>6. \A j \in 1..n : j - 1 \in T => j \in T
  BY <1>3, <1>4 DEF After
<1>7. \A j \in 0..n : after[j] = g[j]
  <2>1. \A j \in 0..n : j \in T
    <3> HIDE DEF T
    <3>. QED
      BY <1>5, <1>6, LoopKeeps
  <2>. QED
    BY <2>1
<1>8. g[n] = after[n] /\ g[0] = parent
  BY <1>4, <1>7 DEF After
<1>9. \A j \in 1..n : g[j] = IF <<i, j>> \in D THEN Union(g[j - 1], i, j) ELSE g[j - 1]
  BY <1>4 DEF After
<1>. QED
  BY <1>2, <1>8, <1>9 DEF Turns

LEMMA ComparedMerges ==
  ASSUME NEW n \in Nat, NEW D \in SUBSET ((1..n) \X (1..n)), NEW i \in 1..n, NEW parent,
         Merged(n, parent, {p \in D : p[1] < i}, D)
  PROVE  Merged(n, Compared(i, parent, D), {p \in D : p[1] <= i}, D)
<1>0. parent \in Parents(n)
  BY MergedParents
<1>9. PICK after \in [0..n -> Parents(n)] : Turns(after, n, i, parent, D)
  BY <1>0, ComparedSteps
<1>1. /\ Compared(i, parent, D) = after[n] /\ after[0] = parent
      /\ \A j \in 1..n : after[j] = IF <<i, j>> \in D THEN Union(after[j - 1], i, j)
                                    ELSE after[j - 1]
  BY <1>9 DEF Turns
<1> DEFINE E(j) == {p \in D : p[1] < i \/ (p[1] = i /\ p[2] <= j)}
           T == {j \in 0..n : Merged(n, after[j], E(j), D)}
<1>4. 0 \in T
  <2>1. after[0] = parent
    BY <1>1
  <2>2. E(0) = {p \in D : p[1] < i}
    <3>1. \A p \in D : p[2] \in 1..n
      OBVIOUS
    <3>. QED
      BY <3>1
  <2>3. Merged(n, after[0], E(0), D)
    <3> HIDE DEF E
    <3>. QED
      BY <2>1, <2>2
  <2>. QED
    BY <2>3
<1>5. ASSUME NEW j \in 1..n, j - 1 \in T PROVE j \in T
  <2>1. Merged(n, after[j - 1], E(j - 1), D)
    BY <1>5
  <2>2. after[j] = IF <<i, j>> \in D THEN Union(after[j - 1], i, j) ELSE after[j - 1]
    BY <1>1
  <2>3. E(j) = IF <<i, j>> \in D THEN E(j - 1) \cup {<<i, j>>} ELSE E(j - 1)
    <3>1. \A p \in D : p[1] \in 1..n /\ p[2] \in 1..n /\ p = <<p[1], p[2]>>
      OBVIOUS
    <3>2. \A p \in D : p[1] = i /\ p[2] <= j <=> (p[1] = i /\ p[2] <= j - 1) \/ p = <<i, j>>
      BY <3>1
    <3>. QED
      BY <3>2
  <2>4. E(j - 1) \in SUBSET D
    OBVIOUS
  <2>5. Merged(n, after[j], E(j), D)
    <3> HIDE DEF E
    <3>. QED
      BY <2>1, <2>2, <2>3, <2>4, UnionMerges
  <2>. QED
    BY <2>5
<1>6. n \in T
  <2> HIDE DEF T
  <2>1. \A j \in 0..n : j \in T
    BY <1>4, <1>5, LoopKeeps
  <2>. QED
    BY <2>1
<1>7. E(n) = {p \in D : p[1] <= i}
  <2>1. \A p \in D : p[1] \in 1..n /\ p[2] \in 1..n
    OBVIOUS
  <2>. QED
    BY <2>1
<1>. QED
  BY <1>1, <1>6, <1>7

Upto(upto, n, linked) ==
  upto = [i \in 0..n |->
            IF i = 0 THEN [k \in 1..n |-> k] ELSE Compared(i, upto[i - 1], linked)]

\* Each row is a tree at first.
Alone(n) == [k \in 1..n |-> k]

LEMMA AloneMerges ==
  ASSUME NEW n \in Nat, NEW D
  PROVE  Merged(n, Alone(n), {}, D)
<1> DEFINE id == Alone(n)
           dist == [k \in 1..n |-> 0]
<1>1. id \in Parents(n) /\ \A k \in 1..n : id[k] = k
  BY DEF Alone, Parents
<1>2. dist \in [1..n -> Nat] /\ \A k \in 1..n : dist[k] = 0
  OBVIOUS
<1> HIDE DEF id, dist
<1>3. Cardinality(Roots(n, id)) = n
  <2>1. Roots(n, id) = 1..n
    BY <1>1 DEF Roots
  <2>. QED
    BY <2>1, FS_Interval
<1>4. Forest(n, id, dist, id)
  BY <1>1, <1>2, <1>3 DEF Forest, Parents
<1>5. Partition(n, id, id, {}, D)
  BY <1>1, <1>4 DEF Partition
<1>. QED
  BY <1>5 DEF Merged, id

LEMMA JoinedMerges ==
  ASSUME NEW n \in Nat, NEW D \in SUBSET ((1..n) \X (1..n))
  PROVE  Merged(n, Joined(n, D), D, D)
<1> DEFINE id == Alone(n)
<1>0. id \in Parents(n)
  BY DEF Alone, Parents
<1>1. \E upto : Upto(upto, n, D)
  <2> DEFINE f == [i \in 1..n |-> [q \in Parents(n) |-> Compared(i, q, D)]]
  <2>1. \A i \in 1..n, q \in Parents(n) : Compared(i, q, D) \in Parents(n)
    <3>1. SUFFICES ASSUME NEW i \in 1..n, NEW q \in Parents(n)
                   PROVE  Compared(i, q, D) \in Parents(n)
      OBVIOUS
    <3>2. PICK after \in [0..n -> Parents(n)] : Turns(after, n, i, q, D)
      BY ComparedSteps
    <3>. QED
      BY <3>2 DEF Turns
  <2>2. f \in [1..n -> [Parents(n) -> Parents(n)]]
    BY <2>1
  <2>3. PICK g \in [0..n -> Parents(n)] : Runs(g, n, id, f)
    <3> HIDE DEF f, id
    <3>. QED
      BY <1>0, <2>2, LoopRuns
  <2>4. \A i \in 0..n : i # 0 => f[i][g[i - 1]] = Compared(i, g[i - 1], D)
    OBVIOUS
  <2>5. \A i \in 0..n : g[i] = IF i = 0 THEN id ELSE Compared(i, g[i - 1], D)
    <3> HIDE DEF f, id
    <3>. QED
      BY <2>3, <2>4 DEF Runs
  <2>6. Upto(g, n, D)
    BY <2>5 DEF Upto, Alone
  <2>. QED
    BY <2>6
<1> DEFINE upto == CHOOSE upto : Upto(upto, n, D)
<1>2. Joined(n, D) = upto[n]
  BY DEF Joined, Upto
<1>3. Upto(upto, n, D)
  BY <1>1
<1> HIDE DEF upto
<1> DEFINE E(i) == {p \in D : p[1] <= i}
           T == {i \in 0..n : Merged(n, upto[i], E(i), D)}
<1>4. 0 \in T
  <2>1. upto[0] = Alone(n)
    BY <1>3 DEF Upto, Alone
  <2>2. E(0) = {}
    <3>1. \A p \in D : p[1] \in 1..n
      OBVIOUS
    <3>. QED
      BY <3>1
  <2>3. Merged(n, Alone(n), {}, D)
    BY AloneMerges
  <2>4. Merged(n, upto[0], E(0), D)
    <3> HIDE DEF E
    <3>. QED
      BY <2>1, <2>2, <2>3
  <2>. QED
    BY <2>4
<1>5. ASSUME NEW i \in 1..n, i - 1 \in T PROVE i \in T
  <2>1. Merged(n, upto[i - 1], E(i - 1), D)
    BY <1>5
  <2>2. E(i - 1) = {p \in D : p[1] < i}
    <3>1. \A p \in D : p[1] \in 1..n
      OBVIOUS
    <3>. QED
      BY <3>1
  <2>3. upto[i] = Compared(i, upto[i - 1], D)
    BY <1>3 DEF Upto
  <2>4. Merged(n, upto[i - 1], {p \in D : p[1] < i}, D)
    BY <2>1, <2>2
  <2>5. Merged(n, upto[i], {p \in D : p[1] <= i}, D)
    BY <2>3, <2>4, ComparedMerges
  <2>. QED
    BY <2>5
<1>6. n \in T
  <2> HIDE DEF T
  <2>1. \A i \in 0..n : i \in T
    BY <1>4, <1>5, LoopKeeps
  <2>. QED
    BY <2>1
<1>7. E(n) = D
  <2>1. \A p \in D : p[1] \in 1..n
    OBVIOUS
  <2>. QED
    BY <2>1
<1>. QED
  BY <1>2, <1>6, <1>7

-----------------------------------------------------------------------------
(* Topics *)

Snapshot == [id: Obs, noise: 0..4, time: Obs]
Once(S) == IsFiniteSet(S) /\ \A x, y \in S : x.id = y.id => x = y
Ids(S) == {x.id : x \in S}

LEMMA ListedRows ==
  ASSUME NEW S, IsFiniteSet(S), NEW rows \in Listed(S)
  PROVE  /\ Cardinality(S) \in Nat /\ rows \in [1..Cardinality(S) -> S]
         /\ Len(rows) = Cardinality(S) /\ Range(rows) = S
         /\ \A i, j \in 1..Cardinality(S) : rows[i] = rows[j] => i = j
         /\ \A x \in S : \E k \in 1..Cardinality(S) : rows[k] = x
<1> DEFINE n == Cardinality(S)
<1>1. n \in Nat
  BY FS_CardinalityType
<1>2. rows \in [1..n -> S] /\ \A i, j \in 1..n : i # j => rows[i] # rows[j]
  BY DEF Listed, SetToSeqs
<1>3. rows \in Injection(1..n, S)
  BY <1>2 DEF Injection, IsInjective
<1>4. IsFiniteSet(1..n) /\ Cardinality(1..n) = n
  BY <1>1, FS_Interval
<1>5. rows \in Surjection(1..n, S)
  BY <1>3, <1>4, FS_Injection
<1>6. \A x \in S : \E k \in 1..n : rows[k] = x
  BY <1>5 DEF Surjection
<1>7. Len(rows) = n
  BY <1>1, <1>2
<1>8. Range(rows) = S
  BY <1>2, <1>6 DEF Range
<1>. QED
  BY <1>1, <1>2, <1>6, <1>7, <1>8

\* A finite number of rows has one that none is prior to.
LEMMA LatestExists ==
  ASSUME NEW S \in SUBSET Snapshot, IsFiniteSet(S), S # {}
  PROVE  \E x \in S : \A y \in S : y.time <= x.time
<1> DEFINE Later(x) == {y \in S : y.time > x.time}
           N == {Cardinality(Later(x)) : x \in S}
<1>1. \A x \in S : IsFiniteSet(Later(x)) /\ Cardinality(Later(x)) \in Nat
  BY FS_Subset, FS_CardinalityType
<1>2. N \in SUBSET Nat /\ N # {}
  BY <1>1
<1>3. PICK m \in N : \A k \in N : m <= k
  <2> HIDE DEF N
  <2>. QED
    BY <1>2, LeastNumber
<1>4. PICK x \in S : m = Cardinality(Later(x))
  BY <1>3
<1>5. SUFFICES ASSUME NEW y \in S, ~(y.time <= x.time) PROVE FALSE
  OBVIOUS
<1>6. x.time \in Nat /\ y.time \in Nat /\ \A z \in S : z.time \in Nat
  BY IdAssumption DEF Snapshot
<1>7. Later(y) \subseteq Later(x) /\ y \in Later(x) /\ y \notin Later(y)
  BY <1>5, <1>6
<1>8. Cardinality(Later(y)) < Cardinality(Later(x))
  <2>1. /\ IsFiniteSet(Later(x)) /\ Cardinality(Later(x)) \in Nat
        /\ IsFiniteSet(Later(y)) /\ Cardinality(Later(y)) \in Nat
    BY <1>1
  <2> HIDE DEF Later
  <2>2. /\ Cardinality(Later(y)) <= Cardinality(Later(x))
        /\ Cardinality(Later(x)) = Cardinality(Later(y)) => Later(x) = Later(y)
    BY <1>7, <2>1, FS_Subset
  <2>. QED
    BY <1>7, <2>1, <2>2
<1>9. Cardinality(Later(y)) \in N
  OBVIOUS
<1>10. m <= Cardinality(Later(y)) /\ m \in Nat /\ Cardinality(Later(y)) \in Nat
  BY <1>1, <1>2, <1>3, <1>9
<1> HIDE DEF Later, N
<1>. QED
  BY <1>4, <1>8, <1>10

LEMMA BestExists ==
  ASSUME NEW S \in SUBSET Snapshot, IsFiniteSet(S), S # {}
  PROVE  Best(S) \in S /\ \A y \in S : is_metadata_higher_priority(Best(S), y)
<1> DEFINE N == {x.noise : x \in S}
<1>1. N \in SUBSET Nat /\ N # {}
  BY DEF Snapshot
<1>2. PICK m \in N : \A k \in N : m <= k
  <2> HIDE DEF N
  <2>. QED
    BY <1>1, LeastNumber
<1> DEFINE T == {x \in S : x.noise = m}
<1>3. T \in SUBSET Snapshot /\ IsFiniteSet(T) /\ T # {}
  BY <1>2, FS_Subset
<1>4. PICK x \in T : \A y \in T : y.time <= x.time
  <2> HIDE DEF T
  <2>. QED
    BY <1>3, LatestExists
<1>5. ASSUME NEW y \in S PROVE is_metadata_higher_priority(x, y)
  <2>1. x.noise = m /\ m <= y.noise /\ m \in Nat /\ y.noise \in Nat
    BY <1>1, <1>2, <1>4
  <2>2. x.time \in Nat /\ y.time \in Nat
    BY <1>4, IdAssumption DEF Snapshot
  <2>3. y.noise = m => y.time <= x.time
    BY <1>4
  <2> HIDE DEF N, T
  <2>. QED
    BY <2>1, <2>2, <2>3 DEF is_metadata_higher_priority
<1>6. \E z \in S : \A y \in S : is_metadata_higher_priority(z, y)
  BY <1>4, <1>5
<1>. QED
  BY <1>6 DEF Best

\* Two rows are in one tree if a chain of similar rows connects them, and only then.
LEMMA TreesAreTopics ==
  ASSUME NEW S \in SUBSET Snapshot, Once(S), NEW rows \in Listed(S), NEW V \in SUBSET Ids(S),
         NEW parent, NEW rep,
         Partition(Cardinality(S), parent, rep, Links(rows, V), Links(rows, V)),
         NEW i \in 1..Cardinality(S), NEW j \in 1..Cardinality(S)
  PROVE  <<rows[i].id, rows[j].id>> \in Connected(Ids(S), V) <=> rep[i] = rep[j]
<1> DEFINE n == Cardinality(S)
           D == Links(rows, V)
           id(k) == rows[k].id
<1>1. /\ n \in Nat /\ rows \in [1..n -> S] /\ Len(rows) = n
      /\ \A x \in S : \E k \in 1..n : rows[k] = x
  BY ListedRows DEF Once
<1>2. /\ \A k \in 1..n : id(k) \in Ids(S) /\ id(k) \in Obs
      /\ \A x \in Ids(S) : \E k \in 1..n : id(k) = x
      /\ \A k, l \in 1..n : id(k) = id(l) => rows[k] = rows[l]
  BY <1>1 DEF Once, Ids, Snapshot
<1>3. \A k, l \in 1..n : id(k) = id(l) => k = l
  BY <1>2, ListedRows DEF Once
<1>4. \A k, l \in 1..n : <<k, l>> \in D <=>
         k < l /\ id(k) \in V /\ id(l) \in V /\ Alike(id(k), id(l))
  BY <1>1 DEF Links
<1>5. \A p \in D : p[1] \in 1..n /\ p[2] \in 1..n /\ p = <<p[1], p[2]>>
  BY <1>1 DEF Links
<1>6. \A x, y \in Obs : Alike(x, y) <=> Alike(y, x)
  BY SimilarityAssumption DEF Alike
<1> HIDE DEF D, id, n
<1>7. ASSUME rep[i] = rep[j], NEW X \in SUBSET Ids(S), id(i) \in X, Closed(X, V)
      PROVE  id(j) \in X
  <2> DEFINE K == {k \in 1..n : id(k) \in X}
  <2>1. Whole(D, K)
    <3>1. SUFFICES ASSUME NEW p \in D PROVE p[1] \in K <=> p[2] \in K
      BY DEF Whole
    <3>2. p[1] \in 1..n /\ p[2] \in 1..n /\ <<p[1], p[2]>> \in D
      BY <1>5
    <3>3. id(p[1]) \in V /\ id(p[2]) \in V /\ Alike(id(p[1]), id(p[2]))
      BY <1>4, <3>2
    <3>4. Alike(id(p[2]), id(p[1]))
      BY <1>2, <1>6, <3>2, <3>3
    <3>5. id(p[1]) \in X <=> id(p[2]) \in X
      BY <1>7, <3>3, <3>4 DEF Closed
    <3>. QED
      BY <3>2, <3>5
  <2>2. \A k \in 1..n : k \in K <=> rep[k] \in K
    BY <2>1 DEF Partition, D, n
  <2>3. i \in K
    BY <1>7 DEF n
  <2>4. i \in 1..n /\ j \in 1..n
    BY DEF n
  <2>5. j \in K
    <3> HIDE DEF K
    <3>. QED
      BY <1>7, <2>2, <2>3, <2>4
  <2>. QED
    BY <2>5
<1>8. ASSUME <<id(i), id(j)>> \in Connected(Ids(S), V)
      PROVE  rep[i] = rep[j]
  <2> DEFINE X == {id(k) : k \in {l \in 1..n : rep[l] = rep[i]}}
  <2>0. i \in 1..n /\ j \in 1..n
    BY DEF n
  <2>1. X \in SUBSET Ids(S) /\ id(i) \in X
    BY <1>2, <2>0
  <2>2. Closed(X, V)
    <3>1. SUFFICES ASSUME NEW x \in X \cap V, NEW y \in V, Alike(x, y) PROVE y \in X
      BY DEF Closed
    <3>2. PICK k \in 1..n : x = id(k) /\ rep[k] = rep[i]
      OBVIOUS
    <3>3. PICK l \in 1..n : y = id(l)
      BY <1>2
    <3>4. Alike(id(k), id(l)) /\ Alike(id(l), id(k)) /\ id(k) \in V /\ id(l) \in V
      BY <1>2, <1>6, <3>1, <3>2, <3>3
    <3>5. k = l \/ <<k, l>> \in D \/ <<l, k>> \in D
      BY <1>4, <3>4
    <3>6. \A p \in D : rep[p[1]] = rep[p[2]]
      BY DEF Partition, D
    <3>7. rep[k] = rep[l]
      BY <3>5, <3>6
    <3>. QED
      BY <3>2, <3>3, <3>7
  <2>3. id(j) \in X
    <3> HIDE DEF X
    <3>. QED
      BY <1>8, <2>1, <2>2 DEF Connected
  <2>4. PICK k \in 1..n : id(j) = id(k) /\ rep[k] = rep[i]
    BY <2>3
  <2>5. j = k
    BY <1>3, <2>0, <2>4
  <2>. QED
    BY <2>4, <2>5
<1>9. i \in 1..n /\ j \in 1..n
  BY DEF n
<1>10. id(i) \in Ids(S) /\ id(j) \in Ids(S)
  BY <1>2, <1>9
<1>11. rep[i] = rep[j] => <<id(i), id(j)>> \in Connected(Ids(S), V)
  BY <1>7, <1>10 DEF Connected
<1>12. <<id(i), id(j)>> \in Connected(Ids(S), V) <=> rep[i] = rep[j]
  BY <1>8, <1>11
<1>. QED
  BY <1>12 DEF id

Tree(rows, rep, n, k) == {rows[j] : j \in {l \in 1..n : rep[l] = rep[k]}}

LEMMA GroupsAreTrees ==
  ASSUME NEW S \in SUBSET Snapshot, Once(S), NEW rows \in Listed(S), NEW V \in SUBSET Ids(S)
  PROVE  \E parent, rep :
           /\ Partition(Cardinality(S), parent, rep, Links(rows, V), Links(rows, V))
           /\ Groups(rows, V) = {Tree(rows, rep, Cardinality(S), k) : k \in 1..Cardinality(S)}
<1> DEFINE n == Cardinality(S)
           D == Links(rows, V)
           parent == Joined(n, D)
<1>1. n \in Nat /\ Len(rows) = n
  BY ListedRows DEF Once
<1>2. D \in SUBSET ((1..n) \X (1..n))
  BY <1>1 DEF Links
<1>3. PICK rep : Partition(n, parent, rep, D, D)
  <2> HIDE DEF D, n
  <2>. QED
    BY <1>1, <1>2, JoinedMerges DEF Merged
<1>4. PICK dist : Forest(n, parent, dist, rep)
  BY <1>3 DEF Partition
<1>5. \A k \in 1..n : Find(parent, k) = rep[k]
  <2> HIDE DEF parent, n
  <2>. QED
    BY <1>1, <1>4, FindsRoot
<1>6. Groups(rows, V) = {Tree(rows, rep, n, k) : k \in 1..n}
  <2> DEFINE group(k) == {j \in 1..n : Find(parent, j) = Find(parent, k)}
  <2>1. Groups(rows, V) = {{rows[j] : j \in group(k)} : k \in 1..n}
    BY <1>1 DEF Groups
  <2>2. \A k \in 1..n : group(k) = {l \in 1..n : rep[l] = rep[k]}
    <3> HIDE DEF parent, n
    <3>. QED
      BY <1>5
  <2>3. \A k \in 1..n : {rows[j] : j \in group(k)} = Tree(rows, rep, n, k)
    <3> HIDE DEF group
    <3>. QED
      BY <2>2 DEF Tree
  <2> HIDE DEF group, n
  <2>. QED
    BY <2>1, <2>3
<1>. QED
  BY <1>3, <1>6

LEMMA TreeBest ==
  ASSUME NEW S \in SUBSET Snapshot, Once(S), NEW rows \in Listed(S), NEW rep,
         NEW k \in 1..Cardinality(S)
  PROVE  \E l \in 1..Cardinality(S) :
           /\ rep[l] = rep[k] /\ rows[l] = Best(Tree(rows, rep, Cardinality(S), k))
           /\ is_metadata_higher_priority(rows[l], rows[k])
<1> DEFINE n == Cardinality(S)
           T == Tree(rows, rep, n, k)
<1>1. n \in Nat /\ rows \in [1..n -> S]
  BY ListedRows DEF Once
<1>2. T \in SUBSET S /\ rows[k] \in T
  BY <1>1 DEF Tree
<1>3. T \in SUBSET Snapshot /\ IsFiniteSet(T) /\ T # {}
  BY <1>2, FS_Subset DEF Once
<1>4. Best(T) \in T /\ is_metadata_higher_priority(Best(T), rows[k])
  <2> HIDE DEF T
  <2>. QED
    BY <1>2, <1>3, BestExists
<1>5. PICK l \in 1..n : rep[l] = rep[k] /\ Best(T) = rows[l]
  BY <1>4 DEF Tree
<1>. QED
  BY <1>4, <1>5

\* What is left of the rows are rows.
LEMMA DeduplicatedRows ==
  ASSUME NEW S \in SUBSET Snapshot, Once(S), NEW rows \in Listed(S), NEW V \in SUBSET Ids(S)
  PROVE  deduplicate_by_embedding(rows, V) \in SUBSET S
<1>1. Range(rows) = S /\ Len(rows) = Cardinality(S) /\ rows \in [1..Cardinality(S) -> S]
  BY ListedRows DEF Once
<1>2. CASE Len(rows) <= 1 \/ DedupThreshold <= 0
  BY <1>1, <1>2 DEF deduplicate_by_embedding
<1>3. CASE ~(Len(rows) <= 1 \/ DedupThreshold <= 0)
  <2>1. PICK parent, rep :
          Groups(rows, V) = {Tree(rows, rep, Cardinality(S), k) : k \in 1..Cardinality(S)}
    BY GroupsAreTrees
  <2>2. deduplicate_by_embedding(rows, V) = {Best(G) : G \in Groups(rows, V)}
    BY <1>3 DEF deduplicate_by_embedding
  <2>3. ASSUME NEW G \in Groups(rows, V) PROVE Best(G) \in S
    <3>1. PICK k \in 1..Cardinality(S) : G = Tree(rows, rep, Cardinality(S), k)
      BY <2>1
    <3>2. PICK l \in 1..Cardinality(S) : rows[l] = Best(Tree(rows, rep, Cardinality(S), k))
      BY TreeBest
    <3>. QED
      BY <1>1, <3>1, <3>2
  <2>. QED
    BY <2>2, <2>3
<1>. QED
  BY <1>2, <1>3

\* One row stands for the topic of a row.
Stands(z, x, S, shown, V) ==
  /\ {y \in shown : <<x.id, y>> \in Connected(Ids(S), V)} = {z.id}
  /\ is_metadata_higher_priority(z, x)

LEMMA TopicOnce ==
  ASSUME NEW S \in SUBSET Snapshot, Once(S), NEW rows \in Listed(S), NEW V \in SUBSET Ids(S),
         DedupThreshold > 0, NEW x \in S
  PROVE  \E z \in S : Stands(z, x, S, Ids(deduplicate_by_embedding(rows, V)), V)
<1> DEFINE n == Cardinality(S)
           kept == deduplicate_by_embedding(rows, V)
<1>1. /\ n \in Nat /\ rows \in [1..n -> S] /\ Len(rows) = n /\ Range(rows) = S
      /\ \A y \in S : \E k \in 1..n : rows[k] = y
  BY ListedRows DEF Once
<1>2. PICK k \in 1..n : rows[k] = x
  BY <1>1
<1>3. CASE n <= 1
  <2>1. kept = S
    BY <1>1, <1>3 DEF deduplicate_by_embedding
  <2>2. \A y \in S : y = x
    <3>1. SUFFICES ASSUME NEW y \in S PROVE y = x
      OBVIOUS
    <3>2. PICK l \in 1..n : rows[l] = y
      BY <1>1
    <3>3. l = k
      BY <1>1, <1>3
    <3>. QED
      BY <1>2, <3>2, <3>3
  <2>3. Ids(kept) = {x.id}
    BY <2>1, <2>2 DEF Ids
  <2>4. <<x.id, x.id>> \in Connected(Ids(S), V)
    BY DEF Connected, Ids
  <2>5. is_metadata_higher_priority(x, x)
    <3>1. x \in Snapshot
      OBVIOUS
    <3>2. x.noise \in Int /\ x.time \in Obs
      BY <3>1 DEF Snapshot
    <3>3. x.time \in Nat
      BY <3>2, IdAssumption
    <3>. QED
      BY <3>2, <3>3 DEF is_metadata_higher_priority
  <2>6. {y \in {x.id} : <<x.id, y>> \in Connected(Ids(S), V)} = {x.id}
    BY <2>4
  <2>7. Stands(x, x, S, Ids(kept), V)
    <3> HIDE DEF kept
    <3>. QED
      BY <2>3, <2>5, <2>6 DEF Stands
  <2>. QED
    BY <2>7
<1>4. CASE n > 1
  <2>1. PICK parent, rep :
          /\ Partition(n, parent, rep, Links(rows, V), Links(rows, V))
          /\ Groups(rows, V) = {Tree(rows, rep, n, l) : l \in 1..n}
    BY GroupsAreTrees
  <2>2. kept = {Best(G) : G \in Groups(rows, V)}
    <3>1. ~(Len(rows) <= 1 \/ DedupThreshold <= 0)
      BY <1>1, <1>4, SimilarityAssumption
    <3>. QED
      BY <3>1 DEF deduplicate_by_embedding
  <2>3. kept = {Best(Tree(rows, rep, n, l)) : l \in 1..n}
    BY <2>1, <2>2
  <2>4. PICK l \in 1..n : /\ rep[l] = rep[k] /\ rows[l] = Best(Tree(rows, rep, n, k))
                          /\ is_metadata_higher_priority(rows[l], x)
    BY <1>2, TreeBest
  <2>5. \A i, j \in 1..n : <<rows[i].id, rows[j].id>> \in Connected(Ids(S), V) <=> rep[i] = rep[j]
    BY <2>1, TreesAreTopics
  <2>6. rows[l].id \in Ids(kept) /\ <<x.id, rows[l].id>> \in Connected(Ids(S), V)
    <3>1. rows[l] \in kept
      BY <2>3, <2>4
    <3>2. <<rows[k].id, rows[l].id>> \in Connected(Ids(S), V)
      BY <2>4, <2>5
    <3> HIDE DEF kept
    <3>. QED
      BY <1>2, <3>1, <3>2 DEF Ids
  <2>7. ASSUME NEW y \in Ids(kept), <<x.id, y>> \in Connected(Ids(S), V)
        PROVE  y = rows[l].id
    <3>1. PICK m \in 1..n : y = Best(Tree(rows, rep, n, m)).id
      BY <2>3 DEF Ids
    <3>2. PICK o \in 1..n : rep[o] = rep[m] /\ rows[o] = Best(Tree(rows, rep, n, m))
      BY TreeBest
    <3>3. <<rows[k].id, rows[o].id>> \in Connected(Ids(S), V)
      BY <1>2, <2>7, <3>1, <3>2
    <3>4. rep[m] = rep[k]
      BY <2>5, <3>2, <3>3
    <3>5. Tree(rows, rep, n, m) = Tree(rows, rep, n, k)
      BY <3>4 DEF Tree
    <3>. QED
      BY <2>4, <3>1, <3>5
  <2>8. Stands(rows[l], x, S, Ids(kept), V)
    <3> HIDE DEF kept
    <3>. QED
      BY <2>4, <2>6, <2>7 DEF Stands
  <2>. QED
    BY <1>1, <2>8
<1>. QED
  BY <1>1, <1>3, <1>4

-----------------------------------------------------------------------------
(* Requests *)

\* A row is read once by a request.
ReadOnce == \A r \in Request : Once(request[r].read)

\* The rows of a request are a finite number of different ones.
LEMMA DedupShows ==
  ASSUME TypeOK, ReadOnce, NEW r \in Request, Dedup(r)
  PROVE  LET S == request[r].read IN
         \E rows \in Listed(S), V \in SUBSET Ids(S) :
           /\ V \in SUBSET Obs /\ Ids(deduplicate_by_embedding(rows, V)) \in SUBSET Obs
           /\ request' = [request EXCEPT ![r].pc = "record", ![r].linked = V,
                            ![r].shown = Ids(deduplicate_by_embedding(rows, V))]
<1>. USE Typed
<1> DEFINE S == request[r].read
<1>1. S \in SUBSET Snapshot /\ Once(S)
  BY DEF Requests, Snapshot, ReadOnce
<1>2. PICK rows \in Listed(S) :
        LET withVector == {x.id : x \in S} \cap {x \in Stored : row[x].vector}
            kept == deduplicate_by_embedding(rows, withVector)
        IN  request' = [request EXCEPT ![r].pc = "record", ![r].linked = withVector,
                          ![r].shown = {x.id : x \in kept}]
  BY DEF Dedup
<1> DEFINE V == {x.id : x \in S} \cap {x \in Stored : row[x].vector}
<1>3. V \in SUBSET Ids(S) /\ V \in SUBSET Obs
  BY DEF Ids, Stored
<1>4. deduplicate_by_embedding(rows, V) \in SUBSET S
  <2> HIDE DEF S, V
  <2>. QED
    BY <1>1, <1>3, DeduplicatedRows
<1>5. Ids(deduplicate_by_embedding(rows, V)) \in SUBSET Obs
  <2> HIDE DEF V, S
  <2>. QED
    BY <1>1, <1>4 DEF Ids, Snapshot
<1>6. request' = [request EXCEPT ![r].pc = "record", ![r].linked = V,
                    ![r].shown = Ids(deduplicate_by_embedding(rows, V))]
  BY <1>2 DEF Ids
<1>. QED
  BY <1>3, <1>5, <1>6

LEMMA DedupTypes ==
  ASSUME TypeOK, ReadOnce, NEW r \in Request, Dedup(r)
  PROVE  TypeOK'
<1>. USE Typed
<1>1. PICK V \in SUBSET Obs, W \in SUBSET Obs :
        request' = [request EXCEPT ![r].pc = "record", ![r].linked = V, ![r].shown = W]
  BY DedupShows
<1>2. ASSUME NEW q \in Requests
      PROVE  /\ [q EXCEPT ![r].pc = "record"] \in Requests
             /\ [q EXCEPT ![r].linked = V] \in Requests
             /\ [q EXCEPT ![r].shown = W] \in Requests
  BY DEF Requests
<1> DEFINE one == [request EXCEPT ![r].pc = "record"]
           two == [one EXCEPT ![r].linked = V]
<1>3. one \in Requests
  BY <1>2
<1>4. two \in Requests
  <2> HIDE DEF one
  <2>. QED
    BY <1>2, <1>3
<1>5. [two EXCEPT ![r].shown = W] \in Requests
  <2> HIDE DEF two
  <2>. QED
    BY <1>2, <1>4
<1>6. request' = [two EXCEPT ![r].shown = W]
  BY <1>1 DEF Requests
<1>. QED
  BY <1>5, <1>6 DEF Dedup, table, history

\* A topic is shown once, as it was said of the rows of one request.
TopicsOf(S, shown, V) == \A x \in S : \E z \in S : Stands(z, x, S, shown, V)
Topics == DedupThreshold > 0 =>
  \A r \in Request : request[r].pc = "record" =>
    TopicsOf(request[r].read, request[r].shown, request[r].linked)

ShownOnce(S, shown, V) ==
  LET X == {x.id : x \in S}
      topic == Connected(X, V)
      as(i) == CHOOSE x \in S : x.id = i
  IN  /\ \A x \in X : Cardinality({y \in shown : <<x, y>> \in topic}) = 1
      /\ \A x \in X, y \in shown : <<x, y>> \in topic =>
           is_metadata_higher_priority(as(y), as(x))

LEMMA OneStands ==
  ASSUME NEW S, Once(S), NEW shown, NEW V, TopicsOf(S, shown, V)
  PROVE  ShownOnce(S, shown, V)
<1> DEFINE X == {x.id : x \in S}
           topic == Connected(X, V)
           as(i) == CHOOSE x \in S : x.id = i
<1>1. X = Ids(S)
  BY DEF Ids
<1>2. \A x \in S : as(x.id) = x
  BY DEF Once
<1>3. ASSUME NEW i \in X
      PROVE  \E z \in S : /\ {y \in shown : <<i, y>> \in topic} = {z.id}
                          /\ is_metadata_higher_priority(z, as(i))
  <2>1. PICK x \in S : x.id = i
    OBVIOUS
  <2>2. PICK z \in S : Stands(z, x, S, shown, V)
    BY DEF TopicsOf
  <2>3. as(i) = x
    BY <1>2, <2>1
  <2> HIDE DEF as
  <2>. QED
    BY <1>1, <2>1, <2>2, <2>3 DEF Stands
<1>4. ASSUME NEW i \in X PROVE Cardinality({y \in shown : <<i, y>> \in topic}) = 1
  <2>1. PICK z \in S : {y \in shown : <<i, y>> \in topic} = {z.id}
    BY <1>3
  <2> HIDE DEF topic
  <2>. QED
    BY <2>1, FS_Singleton
<1>5. ASSUME NEW i \in X, NEW y \in shown, <<i, y>> \in topic
      PROVE  is_metadata_higher_priority(as(y), as(i))
  <2>1. PICK z \in S : /\ {u \in shown : <<i, u>> \in topic} = {z.id}
                       /\ is_metadata_higher_priority(z, as(i))
    BY <1>3
  <2>2. y = z.id
    <3> HIDE DEF topic, as
    <3>. QED
      BY <1>5, <2>1
  <2>3. as(y) = z
    BY <1>2, <2>2
  <2> HIDE DEF as
  <2>. QED
    BY <2>1, <2>3
<1>. QED
  BY <1>4, <1>5 DEF ShownOnce

LEMMA TopicsShown ==
  ASSUME TypeOK, ReadOnce, Topics
  PROVE  OnePerTopic
<1>1. SUFFICES ASSUME DedupThreshold > 0, NEW r \in Request, request[r].pc = "record"
               PROVE  ShownOnce(request[r].read, request[r].shown, request[r].linked)
  BY DEF OnePerTopic, ShownOnce
<1>2. Once(request[r].read) /\ TopicsOf(request[r].read, request[r].shown, request[r].linked)
  BY <1>1 DEF ReadOnce, Topics
<1>. QED
  BY <1>2, OneStands

-----------------------------------------------------------------------------
(* What the steps of the requests keep of it *)

\* Rows of different ids, as a query reads them, are a finite number of rows.
LEMMA ReadFinite ==
  ASSUME TypeOK, NEW N \in SUBSET Stored, IsFiniteSet(N)
  PROVE  Once({[id |-> x, noise |-> row[x].noise, time |-> row[x].time] : x \in N})
<1> DEFINE f == [x \in N |-> [id |-> x, noise |-> row[x].noise, time |-> row[x].time]]
           R == {[id |-> x, noise |-> row[x].noise, time |-> row[x].time] : x \in N}
<1>1. f \in Surjection(N, R)
  BY DEF Surjection
<1>2. IsFiniteSet(R)
  <2> HIDE DEF f, R
  <2>. QED
    BY <1>1, FS_Surjection
<1>3. \A x, y \in R : x.id = y.id => x = y
  OBVIOUS
<1>. QED
  BY <1>2, <1>3 DEF Once

LEMMA ReadsRows ==
  ASSUME NEW r, get_context_for_project(r)
  PROVE  \E s \in Session \cup {None}, N \in SUBSET Stored :
           request' = [request EXCEPT ![r] =
             [NoRequest EXCEPT !.pc = "dedup", !.session = s,
              !.read = {[id |-> x, noise |-> row[x].noise, time |-> row[x].time] : x \in N}]]
BY DEF get_context_for_project

LEMMA NothingRead ==
  Once({})
BY FS_EmptySet DEF Once

LEMMA RequestKeepsTopics ==
  ASSUME TypeOK, ReadOnce, Topics, IsFiniteSet(Stored), NEW r \in Request,
         RequestStep(r) \/ Abandon(r)
  PROVE  ReadOnce' /\ Topics'
<1>. USE Typed
<1>1. CASE get_context_for_project(r)
  <2>1. PICK s \in Session \cup {None}, N \in SUBSET Stored :
           request' = [request EXCEPT ![r] =
             [NoRequest EXCEPT !.pc = "dedup", !.session = s,
              !.read = {[id |-> x, noise |-> row[x].noise, time |-> row[x].time] : x \in N}]]
    BY <1>1, ReadsRows
  <2> DEFINE R == {[id |-> x, noise |-> row[x].noise, time |-> row[x].time] : x \in N}
  <2>2. Once(R)
    BY ReadFinite, FS_Subset
  <2>3. request' = [request EXCEPT ![r] = [NoRequest EXCEPT !.pc = "dedup", !.session = s, !.read = R]]
    BY <2>1
  <2> HIDE DEF R
  <2>4. /\ request'[r].pc = "dedup" /\ request'[r].read = R
        /\ \A q \in Request \ {r} : request'[q] = request[q]
    BY <2>3 DEF Requests, NoRequest
  <2>. QED
    BY <2>2, <2>4 DEF ReadOnce, Topics
<1>2. CASE Dedup(r)
  <2> DEFINE S == request[r].read
  <2>1. PICK rows \in Listed(S), V \in SUBSET Ids(S) :
          request' = [request EXCEPT ![r].pc = "record", ![r].linked = V,
                        ![r].shown = Ids(deduplicate_by_embedding(rows, V))]
    BY <1>2, DedupShows
  <2> DEFINE W == Ids(deduplicate_by_embedding(rows, V))
  <2>2. S \in SUBSET Snapshot /\ Once(S)
    BY DEF Requests, Snapshot, ReadOnce
  <2>3. DedupThreshold > 0 => TopicsOf(S, W, V)
    <3> HIDE DEF S
    <3>. QED
      BY <2>2, TopicOnce DEF TopicsOf
  <2> HIDE DEF W
  <2>4. /\ request'[r].read = S /\ request'[r].shown = W /\ request'[r].linked = V
        /\ \A q \in Request \ {r} : request'[q] = request[q]
    BY <2>1 DEF Requests, W
  <2>5. ReadOnce'
    BY <2>4 DEF ReadOnce
  <2>6. Topics'
    <3> HIDE DEF S
    <3>. QED
      BY <2>3, <2>4 DEF Topics
  <2>. QED
    BY <2>5, <2>6
<1>3. CASE save_injected_observations(r) \/ Abandon(r)
  <2>1. request' = [request EXCEPT ![r] = NoRequest]
    BY <1>3 DEF save_injected_observations, Abandon, Answer
  <2>2. /\ request'[r] = NoRequest
        /\ \A q \in Request \ {r} : request'[q] = request[q]
    BY <2>1 DEF Requests
  <2>3. request'[r].pc = "idle" /\ request'[r].read = {}
    BY <2>2 DEF NoRequest
  <2>. QED
    BY <2>2, <2>3, NothingRead DEF ReadOnce, Topics
<1>. QED
  BY <1>1, <1>2, <1>3 DEF RequestStep

-----------------------------------------------------------------------------
(* The invariant *)

IInv == TypeOK /\ Echoes /\ EchoesStopped /\ ReadOnce /\ Topics

LEMMA Initially == Init => IInv
<1>. SUFFICES ASSUME Init PROVE IInv
  OBVIOUS
<1>1. TypeOK
  <2>1. row \in Rows
    BY IdAssumption DEF Init, Rows, Made, NoRow
  <2>2. injected \in Marks
    BY DEF Init, Marks
  <2>3. request \in Requests
    BY DEF Init, Requests, NoRequest
  <2>4. check \in Checks
    BY DEF Init, Checks, NoCheck, NewCheck
  <2>. QED
    BY <2>1, <2>2, <2>3, <2>4, Typed, LimitAssumption DEF Init
<1>2. Stored \subseteq FirstObs
  BY IdAssumption DEF Init, Stored, NoRow
<1>3. Echoes /\ EchoesStopped
  <2>1. IsFiniteSet(Stored)
    BY <1>2, IdAssumption, FS_Subset
  <2>2. Known /\ ForeignKey
    BY DEF Init, Known, ForeignKey
  <2>3. \A w \in Check : check[w] = NoCheck /\ check[w].pc = "idle"
    BY DEF Init, NoCheck, NewCheck
  <2>. QED
    BY <2>1, <2>2, <2>3 DEF Echoes, Distinct, DueKept, EchoesStopped
<1>4. ReadOnce /\ Topics
  <2>1. \A r \in Request : request[r].pc = "idle" /\ request[r].read = {}
    BY DEF Init, NoRequest
  <2>. QED
    BY <2>1, NothingRead DEF ReadOnce, Topics
<1>. QED
  BY <1>1, <1>3, <1>4 DEF IInv

LEMMA OthersKeepTopics ==
  ASSUME ReadOnce, Topics, UNCHANGED request
  PROVE  ReadOnce' /\ Topics'
BY DEF ReadOnce, Topics

LEMMA ElsewhereKeepsEchoes ==
  ASSUME TypeOK, Echoes, EchoesStopped, Elsewhere
  PROVE  Echoes' /\ EchoesStopped'
<1>1. ASSUME NEW k \in Obs, NEW d \in Obs, merge_and_purge(k, d)
      PROVE  Echoes' /\ EchoesStopped'
  BY <1>1, MergeKeepsEchoes
<1>2. ASSUME NEW x \in Obs, delete_observation_cascading(x)
      PROVE  Echoes' /\ EchoesStopped'
  BY <1>2, DeleteKeepsEchoes
<1>3. CASE clear_embeddings \/ \E x \in Obs : run_embedding_backfill(x)
  BY <1>3, VectorsKeepEchoes
<1>4. CASE cleanup_old_injections \/ \E s \in Session, x \in Obs : Age(s, x)
  BY <1>4, AgesKeepEchoes
<1>. QED
  BY <1>1, <1>2, <1>3, <1>4 DEF Elsewhere

LEMMA ElsewhereRequests ==
  ASSUME Elsewhere
  PROVE  UNCHANGED request
BY DEF Elsewhere, merge_and_purge, delete_observation_cascading, clear_embeddings,
       run_embedding_backfill, Age, cleanup_old_injections, work

LEMMA StepKeeps == IInv /\ [Next]_vars => IInv'
<1>. SUFFICES ASSUME IInv, [Next]_vars PROVE IInv'
  OBVIOUS
<1>0. TypeOK /\ Echoes /\ EchoesStopped /\ ReadOnce /\ Topics /\ IsFiniteSet(Stored)
  BY DEF IInv, Echoes
<1>1. ASSUME NEW r \in Request, RequestStep(r) \/ Abandon(r) PROVE IInv'
  <2>1. TypeOK'
    BY <1>0, <1>1, RequestTypes, DedupTypes DEF RequestStep
  <2>2. Echoes' /\ EchoesStopped'
    BY <1>0, <1>1, RequestKeepsEchoes
  <2>3. ReadOnce' /\ Topics'
    BY <1>0, <1>1, RequestKeepsTopics
  <2>. QED
    BY <2>1, <2>2, <2>3 DEF IInv
<1>2. ASSUME NEW w \in Check, CheckStep(w) PROVE IInv'
  <2>1. TypeOK'
    BY <1>0, <1>2, CheckTypes
  <2>2. Echoes' /\ EchoesStopped'
    BY <1>0, <1>2, BeginKeepsEchoes, ReadsKeepEchoes, SaveKeepsEchoes DEF CheckStep
  <2>3. UNCHANGED request
    BY <1>2 DEF CheckStep, Begin, ReadIds, ReadVectors, Save
  <2>. QED
    BY <1>0, <2>1, <2>2, <2>3, OthersKeepTopics DEF IInv
<1>3. CASE Elsewhere
  <2>1. TypeOK'
    BY <1>0, <1>3, ElsewhereTypes
  <2>2. Echoes' /\ EchoesStopped'
    BY <1>0, <1>3, ElsewhereKeepsEchoes
  <2>3. UNCHANGED request
    BY <1>3, ElsewhereRequests
  <2>. QED
    BY <1>0, <2>1, <2>2, <2>3, OthersKeepTopics DEF IInv
<1>4. CASE UNCHANGED vars
  <2>1. UNCHANGED <<row, injected, request, check, heard, due, excused, faults>>
    BY <1>4 DEF vars, table, history
  <2>2. TypeOK'
    BY <1>0, <2>1, Typed
  <2>3. Echoes' /\ EchoesStopped'
    BY <1>0, <2>1 DEF Echoes, Known, ForeignKey, Distinct, DueKept, Stored, EchoesStopped
  <2>. QED
    BY <1>0, <2>1, <2>2, <2>3, OthersKeepTopics DEF IInv
<1>. QED
  BY <1>1, <1>2, <1>3, <1>4 DEF Next, Elsewhere

LEMMA Invariant == Spec => []IInv
<1>1. Init => IInv
  BY Initially
<1>2. IInv /\ [Next]_vars => IInv'
  BY StepKeeps
<1>. QED
  BY <1>1, <1>2, PTL DEF Spec

\* The types of the tables, the requests and the checks.
THEOREM ContextTyped == Spec => []TypeOK
<1>1. IInv => TypeOK
  BY DEF IInv
<1>. QED
  BY <1>1, Invariant, PTL

\* What a session was shown in the last 24 hours does not come back into the memory
\* by way of that session (is_echo_of_injected, and what else changes the record of
\* what was shown), whatever the similarities and however many sessions, requests and
\* checks there are.
THEOREM NoEcho == Spec => []EchoesStopped
<1>1. IInv => EchoesStopped
  BY DEF IInv
<1>. QED
  BY <1>1, Invariant, PTL

\* deduplicate_by_embedding shows one row of each chain of similar rows, the best
\* one: its two loops of unions compute the connected parts, for any number of rows
\* and whatever changes the vectors between the two queries.
THEOREM TopicShownOnce == Spec => []OnePerTopic
<1>1. IInv => OnePerTopic
  BY TopicsShown DEF IInv
<1>. QED
  BY <1>1, Invariant, PTL

=============================================================================
