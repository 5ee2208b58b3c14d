------------------------------- MODULE Retrieval -------------------------------
(***************************************************************************)
(* What the read endpoints answer: the timeline around an observation, the *)
(* searches and their fallbacks, and the knowledge chosen for a context.   *)
(* Each answer is put together from several queries, between which rows    *)
(* are inserted, merged and deleted, and the choice of knowledge depends   *)
(* on the uses that earlier answers count, in a task of their own.         *)
(*                                                                         *)
(* Abstractions: the number of an observation is the time it was made at,  *)
(* and is used again once its row is gone. A query is given by the scores  *)
(* of the rows: 0 where the filters, the words or the missing vector leave *)
(* a row out, else a positive number, to which one scale and one shift per *)
(* list bring the code's ranks and similarities without a change of order  *)
(* or of what normalization makes of them; its rounding is left out.       *)
(* Confidence is in Knowledge: here knowledge is listed in one of several  *)
(* orders. touched is a history variable.                                  *)
(* Definitions named X_Y are slips of X; nothing uses them.                *)
(***************************************************************************)
EXTENDS Integers, FiniteSets, Sequences, SequencesExt

CONSTANTS
  Obs, FirstObs,   \* observations by number; those there are at the start
  Request,         \* concurrent requests
  None,            \* no result yet
  Twins,           \* pairs that the sweep takes for duplicates
  Before, After,   \* the rows a timeline asks for on each side
  Query,           \* searches
  Text, AllWords,  \* per search and row: its rank for any of the words, for all of them
  Vector,          \* per search and row: its similarity
  Keywords,        \* per search: the number of its keywords,
  Overlap,         \* and per row how many of them it has
  Limit,           \* the limit of a search
  MaxQueryLimit,   \* MAX_QUERY_LIMIT
  Entry,           \* knowledge, by number in the order of creation
  Listing,         \* the places it is listed at, as confidence comes and goes
  OfProject,       \* entries with the project among their source_projects
  ContextLimit,    \* how many a context shows
  Day,             \* the days on which requests come
  MaxUsage,        \* uses beyond this are not told apart
  MaxFaults        \* the bound on failed queries and deletions

ASSUME IdAssumption ==
  /\ Obs \subseteq Nat \ {0} /\ FirstObs \subseteq Obs /\ IsFiniteSet(FirstObs)
  /\ \A T \in Twins : T \subseteq Obs /\ Cardinality(T) = 2
  /\ Entry \subseteq Nat /\ OfProject \subseteq Entry /\ Day \subseteq Nat
ASSUME ListingAssumption ==
  \A place \in Listing :
    /\ place \in [Entry -> 1..Cardinality(Entry)]
    /\ \A d, e \in Entry : place[d] = place[e] => d = e
ASSUME ScoreAssumption ==
  /\ {Text, AllWords, Vector, Overlap} \subseteq [Query -> [Obs -> Nat]]
  /\ Keywords \in [Query -> Nat \ {0}]
ASSUME LimitAssumption ==
  /\ {Before, After, Limit, MaxUsage, MaxFaults} \subseteq Nat
  /\ MaxQueryLimit \in Nat \ {0} /\ Cardinality(Entry) <= MaxQueryLimit
  /\ ContextLimit \in Nat /\ ContextLimit >= 4

VARIABLES
  time,     \* observations.created_at, 0 if there is no such row
  usage,    \* global_knowledge.usage_count
  request,  \* per request: next step and what it has read so far
  touched,  \* history: per request, rows inserted, moved or deleted since it began
  faults

vars == <<time, usage, request, touched, faults>>

NoRequest ==
  [pc |-> "idle", kind |-> "timeline", anchor |-> 0, at |-> 0, before |-> None, after |-> None,
   query |-> None, text |-> {}, rows |-> <<>>, ids |-> {}]

Reading == {"timeline", "semantic", "text", "vector", "plain", "shown"}
TypeOK ==
  /\ time \in [Obs -> Obs \cup {0}] /\ usage \in [Entry -> 0..MaxUsage]
  /\ request \in [Request ->
       [pc: Reading \cup {"idle", "count"},
        kind: {"timeline", "hybrid", "filtered", "semantic", "knowledge"},
        anchor: Obs \cup {0}, at: Obs \cup {0},
        before: {None} \cup SUBSET Obs, after: {None} \cup SUBSET Obs,
        query: {None} \cup Query, text: SUBSET Obs, rows: Seq(Obs), ids: SUBSET Entry]]
  /\ touched \in [Request -> SUBSET Obs] /\ faults \in 0..MaxFaults
  /\ \A x, y \in Obs : time[x] = time[y] /\ time[x] # 0 => x = y

Stored == {x \in Obs : time[x] # 0}

Init ==
  /\ time = [x \in Obs |-> IF x \in FirstObs THEN x ELSE 0]
  /\ usage = [e \in Entry |-> 0]
  /\ request = [r \in Request |-> NoRequest]
  /\ touched = [r \in Request |-> {}] /\ faults = 0

Fault == faults < MaxFaults /\ faults' = faults + 1
At(r, pc) == request[r].pc = pc
Answer(r) == /\ request' = [request EXCEPT ![r] = NoRequest]
             /\ touched' = [touched EXCEPT ![r] = {}]

AtMost(n, m) == IF n < m THEN n ELSE m
normalize_limit(n) == AtMost(n, MaxQueryLimit)

-----------------------------------------------------------------------------
(* The timeline: an anchor, then the rows on either side by two queries *)

Latest(S, n) == {x \in S : Cardinality({y \in S : time[y] > time[x]}) < n}
Earliest(S, n) == {x \in S : Cardinality({y \in S : time[y] < time[x]}) < n}

\* With a lower bound only, the rows next to it. All come back latest first.
get_timeline(from, to, limit) ==
  LET fit == {x \in Stored : (from = 0 \/ time[x] >= from) /\ (to = 0 \/ time[x] <= to)}
  IN  IF from # 0 /\ to = 0 THEN Earliest(fit, normalize_limit(limit))
      ELSE Latest(fit, normalize_limit(limit))

\* One row more than asked for is read, as the anchor is among them.
Read_NoSpare(n) == n
Read(n) == n + 1

Shown(rows, anchor, n) == Latest(rows \ {anchor}, n)

\* unified_timeline: the anchor is named by the client or found by a search.
unified_timeline(r) ==
  /\ At(r, "idle")
  /\ \E x \in Stored :
       request' = [request EXCEPT ![r] =
         [NoRequest EXCEPT !.pc = "timeline", !.anchor = x, !.at = time[x]]]
  /\ UNCHANGED <<time, usage, touched, faults>>

\* A query that fails for good leaves its side empty; if the database is not
\* available the whole answer is empty and degraded.
Side(r, before, after) ==
  request' = [request EXCEPT ![r] =
    [@ EXCEPT !.before = before, !.after = after,
              !.pc = IF None \in {before, after} THEN "timeline" ELSE "shown"]]

Unjudged(r) == touched' = [touched EXCEPT ![r] = Obs]

BeforeQuery(r) ==
  /\ At(r, "timeline") /\ request[r].before = None
  /\ \/ /\ LET rows == get_timeline(0, request[r].at, Read(Before))
           IN  Side(r, Shown(rows, request[r].anchor, Before), request[r].after)
        /\ UNCHANGED <<touched, faults>>
     \/ Side(r, {}, request[r].after) /\ Fault /\ Unjudged(r)
  /\ UNCHANGED <<time, usage>>

AfterQuery(r) ==
  /\ At(r, "timeline") /\ request[r].after = None
  /\ \/ /\ LET rows == get_timeline(request[r].at, 0, Read(After))
           IN  Side(r, request[r].before, Shown(rows, request[r].anchor, After))
        /\ UNCHANGED <<touched, faults>>
     \/ Side(r, request[r].before, {}) /\ Fault /\ Unjudged(r)
  /\ UNCHANGED <<time, usage>>

TimelineFails(r) == At(r, "timeline") /\ Answer(r) /\ Fault /\ UNCHANGED <<time, usage>>

-----------------------------------------------------------------------------
(* Searches *)

Among(S, score) == {x \in S : score[x] > 0}

\* ORDER BY score DESC LIMIT n, of which ties leave several.
Top(S, score, n) ==
  {T \in SUBSET S : /\ Cardinality(T) = AtMost(n, Cardinality(S))
                    /\ \A x \in T, y \in S \ T : score[x] >= score[y]}

\* Normalized, the score of a row is its Share of the Spread of the list; a list
\* of equal scores has all of them at 1, and who is not on it has 0.
Span(T, score) == {score[x] : x \in T}
Even(T, score) == \A x, y \in T : score[x] = score[y]
Spread(T, score) ==
  IF Even(T, score) THEN 1 ELSE Max(Span(T, score)) - Min(Span(T, score))
Share(T, score, x) ==
  IF x \notin T THEN 0
  ELSE IF Even(T, score) THEN 1 ELSE score[x] - Min(Span(T, score))

\* By the total, ties in any order, cut at the limit.
Ranked(T, total) ==
  LET n == AtMost(normalize_limit(Limit), Cardinality(T))
  IN  {s \in [1..n -> T] :
         /\ \A i, j \in 1..n : i < j => s[i] # s[j] /\ total[s[i]] >= total[s[j]]
         /\ \A i \in 1..n, x \in T \ Range(s) : total[s[i]] >= total[x]}

\* Half of each list's normalized score, as multiples of one fraction.
Weight_TextOnly(t, v) == t
Weight(t, v) == t + v
merge_and_rank(q, texts, vectors) ==
  Ranked(texts \cup vectors,
    [x \in texts \cup vectors |->
       Weight(Share(texts, Text[q], x) * Spread(vectors, Vector[q]),
              Share(vectors, Vector[q], x) * Spread(texts, Text[q]))])

Show(r, rows) == request' = [request EXCEPT ![r] = [@ EXCEPT !.pc = "shown", !.rows = rows]]

\* Without an embedding of the query, words only.
Search(r) ==
  /\ At(r, "idle")
  /\ \E q \in Query, kind \in {"hybrid", "filtered", "semantic"}, embedded \in BOOLEAN :
       request' = [request EXCEPT ![r] =
         [NoRequest EXCEPT !.query = q, !.kind = kind,
            !.pc = IF ~embedded THEN "plain"
                   ELSE IF kind = "semantic" THEN "semantic" ELSE "text"]]
  /\ UNCHANGED <<time, usage, touched, faults>>

\* If there are no rows with a vector, the search goes on as a hybrid one.
semantic_search(r) ==
  /\ At(r, "semantic")
  /\ LET q == request[r].query
         fit == Among(Stored, Vector[q])
     IN  IF fit = {} THEN request' = [request EXCEPT ![r] = [@ EXCEPT !.pc = "text"]]
         ELSE \E T \in Top(fit, Vector[q], Limit) :
                \E rows \in Ranked(T, Vector[q]) : Show(r, rows)
  /\ UNCHANGED <<time, usage, touched, faults>>

\* hybrid_search_v2: the words by one query, the vectors by another.
TextQuery(r) ==
  /\ At(r, "text")
  /\ LET q == request[r].query
     IN  \E T \in Top(Among(Stored, Text[q]), Text[q], 3 * Limit) :
           request' = [request EXCEPT ![r] = [@ EXCEPT !.pc = "vector", !.text = T]]
  /\ UNCHANGED <<time, usage, touched, faults>>

VectorQuery(r) ==
  /\ At(r, "vector")
  /\ LET q == request[r].query
     IN  \E T \in Top(Among(Stored, Vector[q]), Vector[q], 3 * Limit) :
           \E rows \in merge_and_rank(q, request[r].text, T) : Show(r, rows)
  /\ UNCHANGED <<time, usage, touched, faults>>

\* hybrid_search: 70% words, 30% the part of the query's keywords that the row
\* has, as multiples of one fraction; with filters: words only.
PlainQuery(r) ==
  /\ At(r, "plain")
  /\ LET q == request[r].query
         words == AllWords[q]
         filtered == request[r].kind = "filtered"
         n == IF filtered THEN Limit ELSE 2 * Limit
     IN  \E T \in Top(Among(Stored, words), words, n) :
           LET total(x) == IF filtered THEN words[x]
                           ELSE 7 * (Share(T, words, x) * Keywords[q])
                                + 3 * (Overlap[q][x] * Spread(T, words))
           IN  \E rows \in Ranked(T, [x \in T |-> total(x)]) : Show(r, rows)
  /\ UNCHANGED <<time, usage, touched, faults>>

\* A search with vectors that fails is done again by words, but for one that
\* semantic_search found nothing for.
QueryFails(r) ==
  /\ request[r].pc \in {"semantic", "text", "vector", "plain"} /\ Fault
  /\ IF At(r, "plain") \/ (request[r].kind = "semantic" /\ ~At(r, "semantic"))
     THEN Answer(r)
     ELSE /\ request' = [request EXCEPT ![r] = [@ EXCEPT !.pc = "plain", !.text = {}]]
          /\ UNCHANGED touched
  /\ UNCHANGED <<time, usage>>

Reply(r) == At(r, "shown") /\ Answer(r) /\ UNCHANGED <<time, usage, faults>>

-----------------------------------------------------------------------------
(* The knowledge of a context *)

AtLeast1(n) == IF n = 0 THEN 1 ELSE n

\* The first n of S beside those selected, as far as there is room.
Take(S, position, n, selected) ==
  LET room == AtMost(n, ContextLimit - Cardinality(selected))
  IN  selected \cup {e \in S : position[e] < room}

OfTheProject(place, listed, selected) ==
  LET fit == listed \cap OfProject
      position == [e \in fit |-> Cardinality({d \in fit : place[d] < place[e]})]
  IN  Take(fit, position, AtLeast1((ContextLimit * 2) \div 5), selected)

Recent(listed, selected) ==
  LET rest == listed \ selected
      position == [e \in rest |-> Cardinality({d \in rest : d > e})]
  IN  Take(rest, position, AtLeast1(ContextLimit \div 5), selected)

Proven(place, listed, selected) ==
  LET used == {e \in listed \ selected : usage[e] > 0}
      before(d, e) == usage[d] > usage[e] \/ (usage[d] = usage[e] /\ place[d] < place[e])
      position == [e \in used |-> Cardinality({d \in used : before(d, e)})]
  IN  Take(used, position, AtLeast1(ContextLimit \div 5), selected)

\* Never used, and another one first every day.
Unseen(place, listed, selected, day) ==
  LET unseen == {e \in listed \ selected : usage[e] = 0}
      position == [e \in unseen |-> Cardinality({d \in unseen : place[d] < place[e]})]
      turned == [e \in unseen |-> (position[e] - day) % Cardinality(unseen)]
  IN  Take(unseen, turned, ContextLimit, selected)

Backfilled(place, listed, selected) ==
  LET rest == listed \ selected
      position == [e \in rest |-> Cardinality({d \in rest : place[d] < place[e]})]
  IN  Take(rest, position, ContextLimit, selected)

select_relevant_knowledge(place, listed, day) ==
  LET tier1 == OfTheProject(place, listed, {})
      tier2 == Recent(listed, tier1)
      tier3 == Proven(place, listed, tier2)
      tier4 == Unseen(place, listed, tier3, day)
  IN  Backfilled(place, listed, tier4)

fetch_relevant_knowledge(r) ==
  /\ At(r, "idle")
  /\ \E place \in Listing, day \in Day :
       LET listed == {e \in Entry : place[e] <= normalize_limit(1000)}
       IN  request' = [request EXCEPT ![r] =
             [NoRequest EXCEPT !.pc = "count", !.kind = "knowledge",
                !.ids = select_relevant_knowledge(place, listed, day)]]
  /\ UNCHANGED <<time, usage, touched, faults>>

\* A task of its own, whose failure is only logged.
Counted_First(ids) ==
  [e \in Entry |-> IF e \in ids /\ \A d \in ids : d >= e
                  THEN AtMost(usage[e] + 1, MaxUsage) ELSE usage[e]]
Counted(ids) == [e \in Entry |-> IF e \in ids THEN AtMost(usage[e] + 1, MaxUsage) ELSE usage[e]]
update_knowledge_usage_batch(r) ==
  /\ At(r, "count") /\ Answer(r)
  /\ usage' = Counted(request[r].ids) /\ UNCHANGED <<time, faults>>

UsageFails(r) == At(r, "count") /\ Answer(r) /\ Fault /\ UNCHANGED <<time, usage>>

-----------------------------------------------------------------------------
(* What changes the rows *)

Touch(X) ==
  touched' = [r \in Request |-> IF request[r].pc \in Reading THEN touched[r] \cup X ELSE {}]

Insert(x) ==
  /\ x \notin Stored /\ \A y \in Stored : time[y] # x
  /\ time' = [time EXCEPT ![x] = x]
  /\ Touch({x}) /\ UNCHANGED <<usage, request, faults>>

\* The duplicate's row goes, and its time goes to the keeper if it is later.
Merged(k, d) == [time EXCEPT ![d] = 0, ![k] = IF time[d] > @ THEN time[d] ELSE @]
merge_and_purge(k, d) ==
  /\ {k, d} \subseteq Stored /\ {k, d} \in Twins
  /\ time' = Merged(k, d)
  /\ Touch({k, d}) /\ UNCHANGED <<usage, request, faults>>

\* A new observation of what a row says already: the row takes its time if later.
merge_into_existing(k, x) ==
  /\ k \in Stored /\ x \notin Stored /\ {k, x} \in Twins
  /\ \A y \in Stored : time[y] # x
  /\ time' = [time EXCEPT ![k] = IF x > @ THEN x ELSE @]
  /\ Touch({k}) /\ UNCHANGED <<usage, request, faults>>

Delete(x) ==
  /\ x \in Stored /\ time' = [time EXCEPT ![x] = 0]
  /\ Touch({x}) /\ Fault /\ UNCHANGED <<usage, request>>

TimelineStep(r) == unified_timeline(r) \/ BeforeQuery(r) \/ AfterQuery(r) \/ TimelineFails(r)
SearchStep(r) ==
  \/ Search(r) \/ semantic_search(r) \/ TextQuery(r) \/ VectorQuery(r) \/ PlainQuery(r)
  \/ QueryFails(r)
KnowledgeStep(r) ==
  fetch_relevant_knowledge(r) \/ update_knowledge_usage_batch(r) \/ UsageFails(r)

Next ==
  \/ \E r \in Request : TimelineStep(r) \/ SearchStep(r) \/ KnowledgeStep(r) \/ Reply(r)
  \/ \E x \in Obs : Insert(x) \/ Delete(x)
  \/ \E k, d \in Obs : merge_and_purge(k, d) \/ merge_into_existing(k, d)

Spec == Init /\ [][Next]_vars

RunOn(r) ==
  \/ BeforeQuery(r) \/ AfterQuery(r) \/ semantic_search(r) \/ TextQuery(r) \/ VectorQuery(r)
  \/ PlainQuery(r) \/ Reply(r) \/ update_knowledge_usage_batch(r)

\* Requests are run to their end, and sessions keep asking for context.
Fairness ==
  \A r \in Request : WF_vars(RunOn(r)) /\ SF_vars(fetch_relevant_knowledge(r))
FairSpec == Spec /\ Fairness

-----------------------------------------------------------------------------

\* A timeline has no gaps: a row that nothing touched while it was put together
\* is left out only if its side is full of rows nearer to the anchor, unless the
\* anchor itself was moved or deleted; the sides do not mix, and the anchor is on
\* neither. A side is full one short of the limit of all queries (unified_timeline).
Full(n) == AtMost(n, MaxQueryLimit - 1)
TimelineComplete ==
  \A r \in Request : (At(r, "shown") /\ request[r].kind = "timeline") =>
    LET at == request[r].at
        a == request[r].anchor
        calm == Obs \ touched[r]
        before == request[r].before
        after == request[r].after
    IN  /\ a \notin before \cup after
        /\ \A x \in calm \cap before : time[x] < at
        /\ \A x \in calm \cap after : time[x] > at
        /\ a \in calm => \A y \in (calm \cap Stored) \ {a} :
             /\ time[y] < at /\ y \notin before =>
                  /\ Cardinality(before) = Full(Before)
                  /\ \A x \in calm \cap before : time[x] > time[y]
             /\ time[y] > at /\ y \notin after =>
                  /\ Cardinality(after) = Full(After)
                  /\ \A x \in calm \cap after : time[x] < time[y]

\* Beside the types: a row that every list of the query puts above another one
\* comes before it, unless one of them was touched meanwhile, however the scores
\* of the lists are normalized and weighed, and wherever the lists are cut
\* (merge_and_rank, hybrid_search, semantic_search).
Beats(x, y, score) == score[y] > 0 => score[x] > score[y]
Better(r, x, y) ==
  LET q == request[r].query
  IN  /\ Beats(x, y, Text[q]) /\ Beats(x, y, AllWords[q]) /\ Beats(x, y, Vector[q])
      /\ Overlap[q][x] >= Overlap[q][y]
BestFirst ==
  /\ TypeOK
  /\ \A r \in Request : (At(r, "shown") /\ request[r].query # None) =>
       LET rows == request[r].rows
       IN  \A x \in Stored \ touched[r], j \in 1..Len(rows) :
             rows[j] \notin touched[r] /\ Better(r, x, rows[j]) =>
               \E i \in 1..(j - 1) : rows[i] = x

\* No entry is left out for ever, however popular others are: each is used in the
\* end (select_relevant_knowledge, update_knowledge_usage_batch).
EveryEntryIsUsed == <>(\A e \in Entry : usage[e] > 0)

================================================================================
