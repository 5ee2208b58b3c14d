---------------------------- MODULE ContextInjection ----------------------------
(***************************************************************************)
(* What a session is shown when it asks for context, and how its echo is   *)
(* kept out of the memory: the rows shown are recorded as injected into    *)
(* the session, and an observation that the session brings in later is     *)
(* dropped if its vector is like that of an injected row. Sweeps, clients  *)
(* and clean-ups change the rows and the records between any two queries.  *)
(*                                                                         *)
(* Abstractions: there is one project and an embedding provider. The       *)
(* similarity of two vectors is that of their ids, and the numbers of the  *)
(* ids are the order in which they were made. An injection is fresh or     *)
(* more than 24 hours old. The merge of a new observation into an old one  *)
(* is in Observations, and what else the answer holds (knowledge) is in    *)
(* Retrieval. heard, due and excused are history variables. Definitions    *)
(* named X_Y are slips of X; nothing uses them.                            *)
(***************************************************************************)
EXTENDS Integers, FiniteSets, Sequences, SequencesExt

CONSTANTS
  Obs,               \* observations by number
  FirstObs,          \* those there are at the start
  Session, Request, Check, \* sessions; concurrent requests and echo checks
  None,              \* no session or observation
  NoiseOf,           \* the noise level of each: 0 (critical) to 4 (negligible)
  Similarity,        \* of the vectors of each two ids
  DedupThreshold,    \* what search takes for duplicates
  InjectionThreshold,\* what is an echo
  ObsLimit,          \* the limit of the request
  MaxInjectedIds,    \* MAX_INJECTED_IDS
  MaxFaults          \* the bound on failures, deletions and lost clients

ASSUME IdAssumption ==
  /\ Obs \subseteq Nat \ {0} /\ FirstObs \subseteq Obs /\ IsFiniteSet(FirstObs)
  /\ None \notin Session /\ NoiseOf \in [Obs -> 0..4]
ASSUME SimilarityAssumption ==
  /\ Similarity \in [Obs -> [Obs -> Int]]
  /\ \A x, y \in Obs : Similarity[x][y] = Similarity[y][x]
  /\ DedupThreshold \in Int /\ InjectionThreshold \in Int
ASSUME LimitAssumption ==
  /\ ObsLimit \in Nat \ {0} /\ MaxInjectedIds \in Nat \ {0}
  /\ MaxFaults \in Nat

VARIABLES
  row,      \* observations: noise, time and whether there is a vector
  injected, \* injected_observations: per session and id, "no", "fresh" or "old"
  request,  \* per request: next step, session, rows as they were read, ids shown
  check,    \* per check: next step, session, observation, ids
  heard,    \* history: <<s, x>>, x was shown to s in the last 24 hours
  due,      \* history: per check, what it must recognize
  excused,  \* history: checks that failed open, or met more ids than the cap
  faults

table == <<row, injected>>
history == <<heard, due, excused>>
vars == <<table, request, check, history, faults>>

NoRow == [noise |-> 0, time |-> 0, vector |-> FALSE]
NoRequest == [pc |-> "idle", session |-> None, read |-> {}, linked |-> {}, shown |-> {}]
NewCheck(pc, s, x) == [pc |-> pc, session |-> s, obs |-> x, ids |-> {}]
NoCheck == NewCheck("idle", None, 0)

TypeOK ==
  /\ row \in [Obs -> [noise: 0..4, time: Obs \cup {0}, vector: BOOLEAN]]
  /\ injected \in [Session -> [Obs -> {"no", "fresh", "old"}]]
  /\ request \in [Request -> [pc: {"idle", "dedup", "record"},
       session: Session \cup {None}, linked: SUBSET Obs, shown: SUBSET Obs,
       read: SUBSET [id: Obs, noise: 0..4, time: Obs]]]
  /\ check \in [Check -> [pc: {"idle", "ids", "vectors", "save"},
       session: Session \cup {None}, obs: Obs \cup {0}, ids: SUBSET Obs]]
  /\ heard \subseteq Session \X Obs /\ due \in [Check -> SUBSET Obs]
  /\ excused \subseteq Check /\ faults \in 0..MaxFaults

Stored == {x \in Obs : row[x].time # 0}
Made(x, vector) == [noise |-> NoiseOf[x], time |-> x, vector |-> vector]

Init ==
  /\ row = [x \in Obs |-> IF x \in FirstObs THEN Made(x, TRUE) ELSE NoRow]
  /\ injected = [s \in Session |-> [x \in Obs |-> "no"]]
  /\ request = [r \in Request |-> NoRequest]
  /\ check = [w \in Check |-> NoCheck]
  /\ heard = {} /\ due = [w \in Check |-> {}] /\ excused = {} /\ faults = 0

Fault == faults < MaxFaults /\ faults' = faults + 1

-----------------------------------------------------------------------------
(* Duplicates among the rows of a request *)

Alike(x, y) == Similarity[x][y] > DedupThreshold

\* The noise level decides, then the time.
is_metadata_higher_priority(x, y) ==
  x.noise < y.noise \/ (x.noise = y.noise /\ x.time >= y.time)

\* A union-find over the rows: all pairs in turn, each root that differs is put
\* below the other. That find also halves the paths it walks, which moves no root,
\* is left out.
Find(parent, i) ==
  LET up[k \in 0..Len(parent)] == IF k = 0 THEN i ELSE parent[up[k - 1]]
  IN  up[Len(parent)]

Union_NoRoots(parent, i, j) == [parent EXCEPT ![j] = i]
Union(parent, i, j) == [parent EXCEPT ![Find(parent, j)] = Find(parent, i)]

\* Row i and each row after it.
Compared(i, parent, linked) ==
  LET after[j \in 0..Len(parent)] ==
        IF j = 0 THEN parent
        ELSE IF <<i, j>> \in linked THEN Union(after[j - 1], i, j) ELSE after[j - 1]
  IN  after[Len(parent)]

Joined(n, linked) ==
  LET upto[i \in 0..n] ==
        IF i = 0 THEN [k \in 1..n |-> k] ELSE Compared(i, upto[i - 1], linked)
  IN  upto[n]

Links(rows, withVector) ==
  {p \in (1..Len(rows)) \X (1..Len(rows)) :
     /\ p[1] < p[2] /\ {rows[p[1]].id, rows[p[2]].id} \subseteq withVector
     /\ Alike(rows[p[1]].id, rows[p[2]].id)}

Groups(rows, withVector) ==
  LET parent == Joined(Len(rows), Links(rows, withVector))
      group(k) == {j \in 1..Len(rows) : Find(parent, j) = Find(parent, k)}
  IN  {{rows[j] : j \in group(k)} : k \in 1..Len(rows)}

Best(S) == CHOOSE x \in S : \A y \in S : is_metadata_higher_priority(x, y)

deduplicate_by_embedding(rows, withVector) ==
  IF Len(rows) <= 1 \/ DedupThreshold <= 0 THEN Range(rows)
  ELSE {Best(S) : S \in Groups(rows, withVector)}

-----------------------------------------------------------------------------
(* A request for context *)

Step(r, pc) == request[r].pc = pc
Answer(r) == request' = [request EXCEPT ![r] = NoRequest]

\* get_context_for_project: the newest rows that are not noise.
get_context_for_project(r) ==
  /\ Step(r, "idle")
  /\ \E s \in Session \cup {None} :
       LET fit == {x \in Stored : row[x].noise < 3}
           newest == {x \in fit : Cardinality({y \in fit : row[y].time > row[x].time}) < ObsLimit}
       IN  request' = [request EXCEPT ![r] =
             [NoRequest EXCEPT !.pc = "dedup", !.session = s,
              !.read = {[id |-> x, noise |-> row[x].noise, time |-> row[x].time] : x \in newest}]]
  /\ UNCHANGED <<table, check, history, faults>>

\* Newest first; rows of the same time come in any order.
Listed(S) ==
  {rows \in SetToSeqs(S) :
     \A i, j \in 1..Cardinality(S) : i < j => rows[i].time >= rows[j].time}

\* The vectors are read by another query, from the rows as they are by then.
Dedup(r) ==
  /\ Step(r, "dedup")
  /\ \E rows \in Listed(request[r].read) :
       LET withVector == {x.id : x \in request[r].read} \cap {x \in Stored : row[x].vector}
           kept == deduplicate_by_embedding(rows, withVector)
       IN  request' = [request EXCEPT ![r].pc = "record", ![r].linked = withVector,
                         ![r].shown = {x.id : x \in kept}]
  /\ UNCHANGED <<table, check, history, faults>>

\* ON CONFLICT DO NOTHING: a record that is there keeps its time.
Recorded(s, X) ==
  [injected EXCEPT ![s] = [x \in Obs |-> IF x \in X /\ @[x] = "no" THEN "fresh" ELSE @[x]]]

\* One transaction; a row that is gone by now fails it for all (foreign key). A
\* failure is only logged, and the rows are shown all the same.
save_injected_observations(r) ==
  /\ Step(r, "record") /\ Answer(r)
  /\ LET s == request[r].session
         X == request[r].shown
     IN
     \/ /\ s # None /\ X \subseteq Stored
        /\ injected' = Recorded(s, X)
        /\ heard' = heard \cup {p \in {s} \X X : injected[s][p[2]] # "old"}
        /\ UNCHANGED faults
     \/ (s = None \/ ~(X \subseteq Stored)) /\ UNCHANGED <<injected, heard, faults>>
     \/ Fault /\ UNCHANGED <<injected, heard>>
  /\ UNCHANGED <<row, check, due, excused>>

\* The client is gone, or a query of the rows fails: an empty answer or none.
Abandon(r) ==
  /\ request[r].pc # "idle" /\ Answer(r) /\ Fault
  /\ UNCHANGED <<table, check, history>>

-----------------------------------------------------------------------------
(* The check of a new observation *)

\* persist_and_notify: the observation x of session s. A save_memory request has
\* no session. Without a vector of x there is nothing to compare.
Begin(w) ==
  /\ check[w].pc = "idle"
  /\ \E s \in Session \cup {None}, x \in Obs \ Stored :
       /\ \A v \in Check : check[v].obs # x
       /\ \/ /\ check' = [check EXCEPT ![w] =
                 NewCheck(IF s = None \/ InjectionThreshold <= 0 THEN "save" ELSE "ids", s, x)]
             /\ due' = [due EXCEPT ![w] = {y \in Stored : <<s, y>> \in heard /\ row[y].vector}]
             /\ UNCHANGED <<excused, faults>>
          \/ /\ check' = [check EXCEPT ![w] = NewCheck("save", s, x)]
             /\ excused' = excused \cup {w} /\ Fault /\ UNCHANGED due
  /\ UNCHANGED <<table, request, heard>>

Goto(w, pc) == check' = [check EXCEPT ![w].pc = pc]
Drop(w) == /\ check' = [check EXCEPT ![w] = NoCheck]
           /\ due' = [due EXCEPT ![w] = {}] /\ excused' = excused \ {w}

\* A query that fails lets the observation pass.
PassUnchecked(w) ==
  Goto(w, "save") /\ Fault /\ excused' = excused \cup {w} /\ UNCHANGED due

\* is_echo_of_injected: the ids injected into the session. The query has no
\* order: of more than the cap, any may be the last ones.
ReadIds(w) ==
  /\ check[w].pc = "ids"
  /\ LET ids == {x \in Obs : injected[check[w].session][x] # "no"}
         cut == Cardinality(ids) > MaxInjectedIds
     IN
     \/ ids = {} /\ Goto(w, "save") /\ UNCHANGED <<due, excused, faults>>
     \/ /\ ids # {}
        /\ \E kept \in SUBSET ids :
             /\ Cardinality(kept) = IF cut THEN MaxInjectedIds ELSE Cardinality(ids)
             /\ check' = [check EXCEPT ![w].pc = "vectors", ![w].ids = kept]
        /\ excused' = IF cut THEN excused \cup {w} ELSE excused
        /\ UNCHANGED <<due, faults>>
     \/ PassUnchecked(w)
  /\ UNCHANGED <<table, request, heard>>

\* The vectors of those ids, as far as the rows are there and have one.
IsEcho(x, y) == Similarity[x][y] >= InjectionThreshold

ReadVectors(w) ==
  /\ check[w].pc = "vectors"
  /\ \/ /\ IF \E y \in check[w].ids \cap Stored : row[y].vector /\ IsEcho(check[w].obs, y)
           THEN Drop(w)
           ELSE Goto(w, "save") /\ UNCHANGED <<due, excused>>
        /\ UNCHANGED faults
     \/ PassUnchecked(w)
  /\ UNCHANGED <<table, request, heard>>

\* The row is written, and its vector by a query that may fail.
Save(w) ==
  /\ check[w].pc = "save" /\ Drop(w)
  /\ \E vector \in BOOLEAN :
       /\ row' = [row EXCEPT ![check[w].obs] = Made(check[w].obs, vector)]
       /\ IF vector THEN UNCHANGED faults ELSE Fault
  /\ UNCHANGED <<injected, request, heard>>

-----------------------------------------------------------------------------
(* What else changes the rows *)

work == <<request, check>>
NoLonger(X) == due' = [w \in Check |-> due[w] \ X]

\* The sessions that were shown the duplicate have been shown the keeper.
Repointed_Not(k, d) == [s \in Session |-> [injected[s] EXCEPT ![d] = "no"]]
Repointed(k, d) ==
  [s \in Session |-> [injected[s] EXCEPT ![d] = "no",
     ![k] = IF @ = "no" /\ injected[s][d] # "no" THEN "fresh" ELSE @]]

\* run_dedup_sweep: two rows that are alike, the one of higher priority kept.
merge_and_purge(k, d) ==
  /\ {k, d} \subseteq Stored /\ k # d
  /\ row[k].vector /\ row[d].vector /\ Alike(k, d)
  /\ is_metadata_higher_priority(row[k], row[d])
  /\ row' = [row EXCEPT ![d] = NoRow,
                        ![k].time = IF row[d].time > @ THEN row[d].time ELSE @]
  /\ injected' = Repointed(k, d)
  /\ heard' = {p \in heard : p[2] # d} \cup
       {<<s, k>> : s \in {z \in Session : <<z, d>> \in heard /\ injected[z][k] # "old"}}
  /\ NoLonger({d}) /\ UNCHANGED <<work, excused, faults>>

\* ON DELETE CASCADE.
Forget(x) ==
  /\ injected' = [s \in Session |-> [injected[s] EXCEPT ![x] = "no"]]
  /\ heard' = {p \in heard : p[2] # x} /\ NoLonger({x})

delete_observation_cascading(x) ==
  /\ x \in Stored /\ Fault
  /\ row' = [row EXCEPT ![x] = NoRow] /\ Forget(x)
  /\ UNCHANGED <<work, excused>>

clear_embeddings ==
  /\ \E x \in Stored : row[x].vector
  /\ row' = [x \in Obs |-> [row[x] EXCEPT !.vector = FALSE]]
  /\ NoLonger(Obs) /\ Fault /\ UNCHANGED <<injected, work, heard, excused>>

run_embedding_backfill(x) ==
  /\ x \in Stored /\ ~row[x].vector /\ row' = [row EXCEPT ![x].vector = TRUE]
  /\ UNCHANGED <<injected, work, history, faults>>

\* 24 hours have passed since x was first injected into s.
Age(s, x) ==
  /\ injected[s][x] = "fresh" /\ injected' = [injected EXCEPT ![s][x] = "old"]
  /\ heard' = heard \ {<<s, x>>}
  /\ due' = [w \in Check |-> IF check[w].session = s THEN due[w] \ {x} ELSE due[w]]
  /\ UNCHANGED <<row, work, excused, faults>>

CleanedUp ==
  [s \in Session |-> [x \in Obs |-> IF injected[s][x] = "old" THEN "no" ELSE injected[s][x]]]
cleanup_old_injections ==
  /\ \E s \in Session, x \in Obs : injected[s][x] = "old"
  /\ injected' = CleanedUp
  /\ UNCHANGED <<row, work, history, faults>>

RequestStep(r) ==
  \/ get_context_for_project(r) \/ Dedup(r) \/ save_injected_observations(r)
CheckStep(w) == Begin(w) \/ ReadIds(w) \/ ReadVectors(w) \/ Save(w)

Next ==
  \/ \E r \in Request : RequestStep(r) \/ Abandon(r)
  \/ \E w \in Check : CheckStep(w)
  \/ \E k, d \in Obs : merge_and_purge(k, d)
  \/ \E x \in Obs : delete_observation_cascading(x) \/ run_embedding_backfill(x)
  \/ clear_embeddings
  \/ \E s \in Session, x \in Obs : Age(s, x)
  \/ cleanup_old_injections

Spec == Init /\ [][Next]_vars

-----------------------------------------------------------------------------

\* What a session brings in is not saved if it is like something the session was
\* shown in the last 24 hours, whatever merges, deletions and clean-ups come in
\* between. Excused are checks that failed open or met more ids than the cap;
\* not due is what changed during the check (save_injected_observations,
\* merge_and_purge, is_echo_of_injected).
EchoesStopped ==
  InjectionThreshold > 0 =>
    \A w \in Check \ excused :
      check[w].pc = "save" /\ check[w].session # None =>
        \A y \in due[w] : Similarity[check[w].obs][y] < InjectionThreshold

\* The reference for deduplicate_by_embedding: of the rows that a chain of
\* similar rows connects exactly one is shown, and none of them is less noise,
\* or as much and newer. A chain leads from x to y if no set of rows with x and
\* without y is closed under similarity.
Closed(S, linked) == \A x \in S \cap linked, y \in linked : Alike(x, y) => y \in S
Connected(X, linked) ==
  {p \in X \X X : \A S \in SUBSET X : p[1] \in S /\ Closed(S, linked) => p[2] \in S}
OnePerTopic ==
  /\ TypeOK
  /\ DedupThreshold > 0 => \A r \in Request : request[r].pc = "record" =>
       LET X == {x.id : x \in request[r].read}
           topic == Connected(X, request[r].linked)
           as(i) == CHOOSE x \in request[r].read : x.id = i
       IN  /\ \A x \in X : Cardinality({y \in request[r].shown : <<x, y>> \in topic}) = 1
           /\ \A x \in X, y \in request[r].shown : <<x, y>> \in topic =>
                is_metadata_higher_priority(as(y), as(x))

=============================================================================
