------------------------- MODULE InfiniteMemoryProofs -------------------------
(***************************************************************************)
(* Proofs about InfiniteMemory, for any number of runs, events, summaries  *)
(* and faults: two runs work on one row, and a row is counted twice, only  *)
(* after an overrun lease; the calls of the LLM about a row are bounded;   *)
(* the counts agree with what a reader finds; and the module implements    *)
(* Digest.                                                                 *)
(***************************************************************************)
EXTENDS InfiniteMemory, FiniteSetTheorems, TLAPS

\* What the constants' assumptions give.
LEMMA TopBound == Top \in 1..3
  BY WidthAssumption DEF Top

Fields == {"level", "session", "ts", "parent", "lease", "retries", "count"}

\* The fields of every row and of every run.
RowShape == \A x \in Stored : DOMAIN rows[x] = Fields /\ rows[x].retries \in Nat
RunShape ==
  /\ DOMAIN run = Run
  /\ \A r \in Run : /\ DOMAIN run[r] = {"level", "sessions", "batch"}
                    /\ run[r].level \in Levels
                    /\ run[r].level = Top => run[r].batch = {}

\* A row a run holds is leased and has no parent.
BatchesHeld ==
  \A r \in Run : \A x \in run[r].batch :
    /\ x \in Stored
    /\ x \notin overrun => rows[x].lease = "held" /\ rows[x].parent = NoParent

\* A row that was summarized has a parent.
CoveredLinked ==
  /\ DOMAIN covers = Stored \cap Summary
  /\ \A s \in DOMAIN covers : \A x \in covers[s] :
       x \in Stored /\ rows[x].parent # NoParent

IInv ==
  /\ RowShape /\ RunShape
  /\ BatchesHeld /\ CoveredLinked
  /\ Exclusive /\ CountedOnce

-----------------------------------------------------------------------------

LEMMA InitInv == Init => IInv
  BY TopBound, LimitAssumption DEF Init, IInv, RowShape, RunShape, BatchesHeld, CoveredLinked,
     Exclusive, CountedOnce, Stored, Empty, Idle, Levels

\* The windows of a batch are parts of it, and none is empty.
LEMMA BucketPart ==
  ASSUME NEW S, NEW level, NEW B \in Buckets(S, level)
  PROVE  B \subseteq S /\ B # {}
  BY DEF Buckets

LEMMA Fresh ==
  ASSUME Summary \ Stored # {}
  PROVE  FreshSummary \in Summary \ Stored /\ FreshSummary # NoParent
  BY IdAssumption DEF FreshSummary, NoParent

\* A claim: the run that claims takes rows that nobody holds, or whose lease
\* was overrun.
LEMMA ClaimInv ==
  ASSUME IInv, NEW r \in Run, NEW S \in SUBSET Stored, run[r].batch = {},
         NEW level, \A x \in S : Claimable(x, level),
         rows' = Claimed(S), DOMAIN run' = Run,
         \A q \in Run \ {r} : run'[q] = run[q],
         DOMAIN run'[r] = {"level", "sessions", "batch"},
         run'[r].batch = S, run'[r].level \in Levels, run'[r].level # Top,
         UNCHANGED <<covers, overrun>>
  PROVE  IInv'
<1> USE DEF IInv
<1>1. /\ Stored' = Stored
      /\ \A x \in Stored : /\ DOMAIN rows'[x] = Fields
                           /\ rows'[x].retries = rows[x].retries
                           /\ rows'[x].parent = rows[x].parent
                           /\ x \in S => rows'[x].lease = "held"
                           /\ x \notin S => rows'[x] = rows[x]
  BY DEF Claimed, Stored, RowShape, Fields
<1>2. RowShape'
  BY <1>1 DEF RowShape
<1>3. RunShape'
  BY DEF RunShape
<1>4. \A q \in Run \ {r} : \A x \in run[q].batch : x \in S => x \in overrun
  BY DEF BatchesHeld, Claimable
<1>5. BatchesHeld'
  BY <1>1, <1>4 DEF BatchesHeld, Claimable
<1>6. CoveredLinked'
  BY <1>1 DEF CoveredLinked
<1>7. Exclusive'
  BY <1>4 DEF Exclusive
<1>8. CountedOnce'
  BY <1>1 DEF CountedOnce
<1> QED
  BY <1>2, <1>3, <1>5, <1>6, <1>7, <1>8

\* A run is done with a window: whatever it wrote, it wrote to rows of the
\* window, and rows that it did not overrun belong to it alone.
LEMMA HandledInv ==
  ASSUME IInv, NEW r \in Run, NEW B, B \subseteq run[r].batch,
         Handled(r, B), UNCHANGED overrun,
         Stored \subseteq Stored', RowShape',
         \A x \in Stored \ B : rows'[x] = rows[x],
         CoveredLinked', CountedOnce'
  PROVE  IInv'
<1> USE DEF IInv
<1>1. RunShape'
  BY DEF RunShape, Handled
<1>2. \A q \in Run : /\ run'[q].batch = IF q = r THEN run[q].batch \ B
                                        ELSE run[q].batch
  BY DEF RunShape, Handled
<1>3. \A q \in Run : \A x \in run'[q].batch : x \notin B \/ x \in overrun
  BY <1>2 DEF Exclusive
<1>4. BatchesHeld'
  <2> SUFFICES ASSUME NEW q \in Run, NEW x \in run'[q].batch
               PROVE  /\ x \in Stored'
                      /\ x \notin overrun => /\ rows'[x].lease = "held"
                                             /\ rows'[x].parent = NoParent
    BY DEF BatchesHeld
  <2>1. x \in run[q].batch /\ x \in Stored
    BY <1>2 DEF BatchesHeld
  <2> QED
    BY <1>3, <2>1 DEF BatchesHeld
<1>5. Exclusive'
  BY <1>2 DEF Exclusive
<1> QED
  BY <1>1, <1>4, <1>5

LEMMA StoreInv ==
  ASSUME IInv, NEW e \in Event, store_infinite_event(e)
  PROVE  IInv'
<1> USE DEF IInv
<1>1. /\ Stored' = Stored \cup {e} /\ e \notin Stored /\ e \notin Summary
      /\ \A x \in Stored : rows'[x] = rows[x]
      /\ DOMAIN rows'[e] = Fields /\ rows'[e].retries = 0
  <2>1. e \notin Stored /\ e \notin Summary
    BY IdAssumption DEF store_infinite_event
  <2>2. Stored' = Stored \cup {e}
    BY DEF store_infinite_event, Stored
  <2>3. \A x \in Stored : rows'[x] = rows[x]
    BY <2>1 DEF store_infinite_event
  <2>4. rows'[e] = [level |-> 0, session |-> SessionOf[e], ts |-> now,
                    parent |-> NoParent, lease |-> "free", retries |-> 0,
                    count |-> 1]
    BY DEF store_infinite_event
  <2> QED
    BY <2>1, <2>2, <2>3, <2>4 DEF Fields
<1>2. UNCHANGED <<run, covers, overrun>>
  BY DEF store_infinite_event
<1>3. RowShape' /\ RunShape'
  BY <1>1, <1>2 DEF RowShape, RunShape
<1>4. BatchesHeld'
  BY <1>1, <1>2 DEF BatchesHeld
<1>5. CoveredLinked'
  BY <1>1, <1>2 DEF CoveredLinked
<1>6. Exclusive' /\ CountedOnce'
  BY <1>1, <1>2 DEF Exclusive, CountedOnce
<1> QED
  BY <1>3, <1>4, <1>5, <1>6

LEMMA StartInv ==
  ASSUME IInv, NEW r \in Run, Start(r)
  PROVE  IInv'
<1> DEFINE S == get_unsummarized_infinite_events
<1>1. S \in SUBSET Stored /\ \A x \in S : Claimable(x, 0)
  BY DEF get_unsummarized_infinite_events
<1>2. run[r].batch = {}
  BY DEF Start, IInv, RunShape
<1>3. Top # 0
  BY TopBound
<1>4. /\ rows' = Claimed(S) /\ UNCHANGED <<covers, overrun>>
      /\ DOMAIN run' = Run /\ \A q \in Run \ {r} : run'[q] = run[q]
      /\ run'[r] = [level |-> 0, sessions |-> {}, batch |-> S]
  BY DEF Start, IInv, RunShape
<1>5. 0 \in Levels
  BY TopBound DEF Levels
<1> QED
  BY <1>1, <1>2, <1>3, <1>4, <1>5, ClaimInv

LEMMA ClaimSessionInv ==
  ASSUME IInv, NEW r \in Run, ClaimSession(r)
  PROVE  IInv'
<1> PICK s \in run[r].sessions :
      /\ run[r].level < Top /\ run[r].batch = {}
      /\ LET S == IF run[r].level = 1 THEN get_unaggregated_5min_for_session(s)
                  ELSE get_unaggregated_hour_for_session(s)
         IN /\ rows' = Claimed(S)
            /\ run' = [run EXCEPT ![r].sessions = @ \ {s}, ![r].batch = S]
      /\ UNCHANGED <<now, covers, overrun, faults>>
  BY DEF ClaimSession
<1> DEFINE S == IF run[r].level = 1 THEN get_unaggregated_5min_for_session(s)
                ELSE get_unaggregated_hour_for_session(s)
<1>1. /\ S \in SUBSET Stored
      /\ \A x \in S : Claimable(x, IF run[r].level = 1 THEN 1 ELSE 2)
  BY DEF get_unaggregated_5min_for_session, get_unaggregated_hour_for_session
<1>2. /\ rows' = Claimed(S) /\ UNCHANGED <<covers, overrun>>
      /\ DOMAIN run' = Run /\ \A q \in Run \ {r} : run'[q] = run[q]
      /\ DOMAIN run'[r] = {"level", "sessions", "batch"}
      /\ run'[r].level = run[r].level /\ run'[r].batch = S
  BY DEF IInv, RunShape
<1>3. run[r].level \in Levels /\ run[r].level # Top
  BY TopBound DEF IInv, RunShape, Levels
<1> HIDE DEF S
<1> QED
  BY <1>1, <1>2, <1>3, ClaimInv

\* The summary that a window gets: a row with all fields, never tried yet.
LEMMA CreatedShape ==
  ASSUME IInv, NEW r \in Run, NEW B \in Buckets(run[r].batch, run[r].level)
  PROVE  /\ DOMAIN Created(B, run[r].level) = Fields
         /\ Created(B, run[r].level).retries = 0
<1>1. run[r].batch # {}
  BY BucketPart
<1>2. run[r].level \in Levels /\ run[r].level # Top
  BY <1>1 DEF IInv, RunShape
<1>3. run[r].level \in {0, 1, 2}
  BY <1>2, TopBound DEF Levels
<1> QED
  BY <1>3 DEF Created, create_5min_summary, create_hour_summary, create_day_summary,
     SummaryOf, Fields

\* A summary is made from rows that, but for overruns, no summary was made
\* from before.
LEMMA CoverInv ==
  ASSUME IInv, NEW r \in Run, NEW B, B \subseteq run[r].batch,
         NEW s \in Summary \ Stored, s # NoParent, Covered(B, s),
         Stored' = Stored \cup {s}, UNCHANGED overrun,
         \A x \in B : rows'[x].parent = s,
         \A x \in Stored \ B : rows'[x] = rows[x]
  PROVE  CoveredLinked' /\ CountedOnce'
<1> USE DEF IInv
<1>1. DOMAIN covers = Stored \cap Summary
  BY DEF CoveredLinked
<1>2. /\ DOMAIN covers' = Stored' \cap Summary
      /\ covers'[s] = B
      /\ \A t \in Stored \cap Summary : covers'[t] = covers[t]
  BY <1>1 DEF Covered
<1>3. \A x \in B : x \in Stored /\ x # s
  BY DEF BatchesHeld
<1>4. CoveredLinked'
  BY <1>2, <1>3 DEF CoveredLinked
<1>5. \A t \in Stored \cap Summary : covers[t] \cap B \subseteq overrun
  BY DEF CoveredLinked, BatchesHeld
<1>6. CountedOnce'
  BY <1>2, <1>5 DEF CountedOnce
<1> QED
  BY <1>4, <1>6

LEMMA CompressInv ==
  ASSUME IInv, NEW r \in Run, Compress(r)
  PROVE  IInv'
<1> PICK B \in Buckets(run[r].batch, run[r].level) :
      /\ Summary \ Stored # {}
      /\ rows' = Summarized(B, run[r].level, FreshSummary)
      /\ Covered(B, FreshSummary) /\ Handled(r, B)
      /\ UNCHANGED <<now, overrun, faults>>
  BY DEF Compress
<1> DEFINE s == FreshSummary
<1>1. B \subseteq run[r].batch /\ B \subseteq Stored
  BY BucketPart DEF IInv, BatchesHeld
<1>2. s \in Summary \ Stored /\ s # NoParent
  BY Fresh
<1>3. Stored' = Stored \cup {s}
  BY DEF Summarized, Stored
<1>4. rows'[s] = Created(B, run[r].level)
  BY DEF Summarized
<1>5. \A x \in Stored : rows'[x] = Linked(B, s)[x]
  BY <1>2 DEF Summarized
<1>6. \A x \in Stored : DOMAIN rows[x] = Fields /\ rows[x].retries \in Nat
  BY DEF IInv, RowShape
<1>7. /\ \A x \in B : /\ DOMAIN rows'[x] = Fields /\ rows'[x].parent = s
                      /\ rows'[x].retries = rows[x].retries
      /\ \A x \in Stored \ B : rows'[x] = rows[x]
  BY <1>1, <1>5, <1>6 DEF Linked, Fields
<1>8. DOMAIN rows'[s] = Fields /\ rows'[s].retries = 0
  BY <1>4, CreatedShape
<1> HIDE DEF s
<1>9. RowShape'
  BY <1>3, <1>6, <1>7, <1>8 DEF RowShape
<1>10. CoveredLinked' /\ CountedOnce'
  BY <1>1, <1>2, <1>3, <1>7, CoverInv DEF s
<1> QED
  BY <1>1, <1>3, <1>6, <1>7, <1>8, <1>9, <1>10, HandledInv

LEMMA AnswerLostInv ==
  ASSUME IInv, NEW r \in Run, AnswerLost(r)
  PROVE  IInv'
<1>0. PICK B \in Buckets(run[r].batch, run[r].level) :
      /\ Summary \ Stored # {}
      /\ Handled(r, B)
      /\ rows' = [x \in Stored \cup {FreshSummary} |->
                    IF x \in B
                    THEN [Released(B, TRUE)[x] EXCEPT !.parent = FreshSummary]
                    ELSE Summarized(B, run[r].level, FreshSummary)[x]]
      /\ Covered(B, FreshSummary)
      /\ UNCHANGED <<now, overrun>>
  BY DEF AnswerLost
<1> DEFINE s == FreshSummary
<1>1. B \subseteq run[r].batch /\ B \subseteq Stored
  BY BucketPart DEF IInv, BatchesHeld
<1>2. s \in Summary \ Stored /\ s # NoParent
  BY <1>0, Fresh
<1>3. Stored' = Stored \cup {s}
  BY <1>0 DEF Stored
<1>4. rows'[s] = Created(B, run[r].level)
  BY <1>0, <1>1, <1>2 DEF Summarized
<1>6. \A x \in Stored : DOMAIN rows[x] = Fields /\ rows[x].retries \in Nat
  BY DEF IInv, RowShape
<1>5. \A x \in B : /\ rows'[x] = [Released(B, TRUE)[x] EXCEPT !.parent = s]
                   /\ Released(B, TRUE)[x] =
                        [rows[x] EXCEPT !.lease = "held", !.retries = @ + 1]
  BY <1>0, <1>1 DEF Released
<1>7. /\ \A x \in B : /\ DOMAIN rows'[x] = Fields /\ rows'[x].parent = s
                      /\ rows'[x].retries = rows[x].retries + 1
      /\ \A x \in Stored \ B : rows'[x] = rows[x]
  <2>1. \A x \in B : /\ DOMAIN rows'[x] = Fields /\ rows'[x].parent = s
                     /\ rows'[x].retries = rows[x].retries + 1
    <3> SUFFICES ASSUME NEW x \in B
                 PROVE  /\ DOMAIN rows'[x] = Fields /\ rows'[x].parent = s
                        /\ rows'[x].retries = rows[x].retries + 1
      OBVIOUS
    <3> DEFINE row == [rows[x] EXCEPT !.lease = "held", !.retries = @ + 1]
    <3>1. rows'[x] = [row EXCEPT !.parent = s]
      BY <1>5
    <3>2. DOMAIN rows[x] = Fields
      BY <1>1, <1>6
    <3>3. DOMAIN row = Fields /\ row.retries = rows[x].retries + 1
      BY <3>2 DEF Fields
    <3> HIDE DEF s, row
    <3> QED
      BY <3>1, <3>3 DEF Fields
  <2>2. \A x \in Stored \ B : rows'[x] = rows[x]
    BY <1>0, <1>2 DEF Summarized, Linked
  <2> QED
    BY <2>1, <2>2
<1>8. DOMAIN rows'[s] = Fields /\ rows'[s].retries = 0
  BY <1>4, CreatedShape
<1> HIDE DEF s
<1>11. \A x \in B : /\ rows'[x].retries \in Nat
                    /\ rows'[x].retries <= rows[x].retries + 1
  BY <1>1, <1>6, <1>7
<1>9. RowShape'
  <2> SUFFICES ASSUME NEW x \in Stored \cup {s}
               PROVE  DOMAIN rows'[x] = Fields /\ rows'[x].retries \in Nat
    BY <1>3 DEF RowShape
  <2>1. CASE x \in B
    BY <2>1, <1>7, <1>11
  <2>2. CASE x \in Stored \ B
    BY <2>2, <1>6, <1>7
  <2>3. CASE x = s
    BY <2>3, <1>8
  <2> QED
    BY <2>1, <2>2, <2>3
<1>10. CoveredLinked' /\ CountedOnce'
  BY <1>0, <1>1, <1>2, <1>3, <1>7, CoverInv DEF s
<1> QED
  BY <1>0, <1>1, <1>3, <1>7, <1>8, <1>9, <1>10, <1>11, HandledInv

\* A release, after a failure or for a later run.
LEMMA ReleaseInv ==
  ASSUME IInv, NEW r \in Run, NEW B \in Buckets(run[r].batch, run[r].level),
         NEW increment_retry \in BOOLEAN,
         rows' = Released(B, increment_retry), Handled(r, B),
         UNCHANGED <<covers, overrun>>
  PROVE  IInv'
<1>1. B \subseteq run[r].batch /\ B \subseteq Stored
  BY BucketPart DEF IInv, BatchesHeld
<1>2. Stored' = Stored
  BY DEF Released, Stored
<1>3. \A x \in Stored : DOMAIN rows[x] = Fields /\ rows[x].retries \in Nat
  BY DEF IInv, RowShape
<1>4. /\ \A x \in Stored \ B : rows'[x] = rows[x]
      /\ \A x \in B : /\ DOMAIN rows'[x] = Fields
                      /\ rows'[x].retries \in {rows[x].retries, rows[x].retries + 1}
                      /\ rows'[x].parent = rows[x].parent
  BY <1>1, <1>3 DEF Released, Fields
<1>5. \A x \in B : rows'[x].retries <= rows[x].retries + 1 /\ rows'[x].retries \in Nat
  BY <1>1, <1>3, <1>4
<1>6. RowShape'
  BY <1>2, <1>3, <1>4, <1>5 DEF RowShape
<1>7. \A x \in Stored : rows'[x].parent = rows[x].parent
  BY <1>4
<1>8. CoveredLinked'
  BY <1>2, <1>7 DEF CoveredLinked, IInv
<1>9. CountedOnce'
  BY <1>2 DEF CountedOnce, IInv
<1> QED
  BY <1>1, <1>2, <1>4, <1>5, <1>6, <1>8, <1>9, HandledInv

LEMMA ReleaseFailsInv ==
  ASSUME IInv, NEW r \in Run, ReleaseFails(r)
  PROVE  IInv'
<1> PICK B \in Buckets(run[r].batch, run[r].level) :
      Handled(r, B) /\ UNCHANGED <<rows, now, covers, overrun>>
  BY DEF ReleaseFails
<1>1. B \subseteq run[r].batch /\ B \subseteq Stored
  BY BucketPart DEF IInv, BatchesHeld
<1>2. Stored' = Stored
  BY DEF Stored
<1>3. RowShape' /\ CoveredLinked' /\ CountedOnce'
  BY <1>2 DEF IInv, RowShape, CoveredLinked, CountedOnce
<1> QED
  BY <1>1, <1>2, <1>3, HandledInv

\* A run that goes on without a batch, or drops the one it has.
LEMMA DropInv ==
  ASSUME IInv, NEW r \in Run, UNCHANGED <<rows, covers, overrun>>,
         DOMAIN run' = Run, \A q \in Run \ {r} : run'[q] = run[q],
         DOMAIN run'[r] = {"level", "sessions", "batch"},
         run'[r].level \in Levels, run'[r].batch = {}
  PROVE  IInv'
<1>1. Stored' = Stored
  BY DEF Stored
<1>2. RowShape' /\ CoveredLinked' /\ CountedOnce'
  BY <1>1 DEF IInv, RowShape, CoveredLinked, CountedOnce
<1>3. RunShape'
  BY DEF IInv, RunShape
<1>4. BatchesHeld'
  BY <1>1 DEF IInv, BatchesHeld
<1>5. Exclusive'
  BY DEF IInv, Exclusive
<1> QED
  BY <1>2, <1>3, <1>4, <1>5 DEF IInv

LEMMA NextLevelInv ==
  ASSUME IInv, NEW r \in Run, NextLevel(r)
  PROVE  IInv'
<1>1. run[r].level \in Levels /\ DOMAIN run = Run
  BY DEF IInv, RunShape
<1>2. UNCHANGED <<rows, covers, overrun>>
  BY DEF NextLevel
<1>3. /\ DOMAIN run' = Run /\ \A q \in Run \ {r} : run'[q] = run[q]
      /\ \/ run'[r] = Idle
         \/ run'[r] = [level |-> run[r].level + 1, batch |-> {},
              sessions |-> IF run[r].level + 1 = 1
                           THEN get_sessions_with_unaggregated_5min
                           ELSE get_sessions_with_unaggregated_hour]
  BY <1>1 DEF NextLevel
<1>4. run[r].level + 1 \in Levels /\ Top \in Levels
  BY <1>1, TopBound DEF NextLevel, Levels
<1>5. /\ DOMAIN run'[r] = {"level", "sessions", "batch"}
      /\ run'[r].level \in Levels /\ run'[r].batch = {}
  BY <1>3, <1>4 DEF Idle
<1> QED
  BY <1>2, <1>3, <1>5, DropInv

LEMMA AbortInv ==
  ASSUME IInv, NEW r \in Run, Abort(r)
  PROVE  IInv'
<1>1. /\ UNCHANGED <<rows, covers, overrun>>
      /\ DOMAIN run' = Run /\ \A q \in Run \ {r} : run'[q] = run[q]
      /\ run'[r] = Idle
  BY DEF Abort, IInv, RunShape
<1>2. Top \in Levels
  BY TopBound DEF Levels
<1> QED
  BY <1>1, <1>2, DropInv DEF Idle

\* A lease that runs out while a run holds the row is an overrun.
LEMMA OverInv ==
  ASSUME IInv, NEW x \in Id, Over(x)
  PROVE  IInv'
<1> USE DEF IInv
<1>1. /\ Stored' = Stored /\ x \in Stored
      /\ \A y \in Stored \ {x} : rows'[y] = rows[y]
      /\ rows'[x] = [rows[x] EXCEPT !.lease = "over"]
      /\ UNCHANGED <<run, covers>>
      /\ overrun \subseteq overrun' /\ (x \in Held => x \in overrun')
  BY DEF Over, Stored
<1>2. \A y \in Stored : /\ DOMAIN rows'[y] = Fields
                        /\ rows'[y].retries = rows[y].retries
                        /\ rows'[y].parent = rows[y].parent
  BY <1>1 DEF RowShape, Fields
<1>3. RowShape' /\ RunShape'
  BY <1>1, <1>2 DEF RowShape, RunShape
<1>4. BatchesHeld'
  <2> SUFFICES ASSUME NEW r \in Run, NEW y \in run[r].batch
               PROVE  /\ y \in Stored'
                      /\ y \notin overrun' => /\ rows'[y].lease = "held"
                                              /\ rows'[y].parent = NoParent
    BY <1>1 DEF BatchesHeld
  <2>1. CASE y = x
    BY <1>1, <2>1 DEF Held
  <2>2. CASE y # x
    BY <1>1, <2>2 DEF BatchesHeld
  <2> QED
    BY <2>1, <2>2
<1>5. CoveredLinked'
  BY <1>1, <1>2 DEF CoveredLinked
<1>6. Exclusive' /\ CountedOnce'
  BY <1>1, <1>2 DEF Exclusive, CountedOnce
<1> QED
  BY <1>3, <1>4, <1>5, <1>6

-----------------------------------------------------------------------------

\* Every step keeps the invariant.
LEMMA NextInv == IInv /\ [Next]_vars => IInv'
<1> SUFFICES ASSUME IInv, [Next]_vars PROVE IInv'
  OBVIOUS
<1>1. ASSUME NEW e \in Event, store_infinite_event(e) PROVE IInv'
  BY <1>1, StoreInv
<1>2. ASSUME NEW r \in Run, Step(r) PROVE IInv'
  <2>1. CASE Start(r)
    BY <2>1, StartInv
  <2>2. CASE Compress(r)
    BY <2>2, CompressInv
  <2>3. CASE CompressFails(r)
    BY <2>3, ReleaseInv DEF CompressFails
  <2>4. CASE ReleaseFails(r)
    BY <2>4, ReleaseFailsInv
  <2>5. CASE AnswerLost(r)
    BY <2>5, AnswerLostInv
  <2>6. CASE NotYet(r)
    BY <2>6, ReleaseInv DEF NotYet
  <2>7. CASE NextLevel(r)
    BY <2>7, NextLevelInv
  <2>8. CASE ClaimSession(r)
    BY <2>8, ClaimSessionInv
  <2> QED
    BY <1>2, <2>1, <2>2, <2>3, <2>4, <2>5, <2>6, <2>7, <2>8 DEF Step
<1>3. ASSUME NEW r \in Run, Abort(r) PROVE IInv'
  BY <1>3, AbortInv
<1>4. CASE UNCHANGED <<rows, run, covers, overrun>>
  BY <1>4 DEF IInv, RowShape, RunShape, BatchesHeld, CoveredLinked, Exclusive,
     CountedOnce, Stored
<1>5. ASSUME NEW x \in Id, Over(x) PROVE IInv'
  BY <1>5, OverInv
<1> QED
  BY <1>1, <1>2, <1>3, <1>4, <1>5 DEF Next, Tick, vars

\* The types of the rows and runs, and who holds, covers and counts which row,
\* are right in every reachable state: leases and parents are the reason.
THEOREM LeasesHold == Spec => []IInv
<1> QED
  BY InitInv, NextInv, PTL DEF Spec

\* No two runs work on a row whose lease was not overrun.
THEOREM WorkIsExclusive == Spec => []Exclusive
<1>1. IInv => Exclusive
  BY DEF IInv
<1> QED
  BY <1>1, LeasesHold, PTL

\* Nothing is counted twice at any level, unless its lease was overrun.
THEOREM RowsCountedOnce == Spec => []CountedOnce
<1>1. IInv => CountedOnce
  BY DEF IInv
<1> QED
  BY <1>1, LeasesHold, PTL

-----------------------------------------------------------------------------
(* The calls of the LLM *)

Attempts == tries \in [Id -> Nat] /\ lapses \in Nat

LEMMA AttemptsTyped ==
  ASSUME Attempts, [Next]_vars
  PROVE  Attempts'
<1>1. CASE UNCHANGED attempts
  BY <1>1 DEF Attempts, attempts
<1>2. ASSUME NEW B, Tried(B), Lapse \/ UNCHANGED lapses
      PROVE  Attempts'
  BY <1>2 DEF Attempts, Tried, Lapse
<1>3. ASSUME NEW r \in Run, Step(r) \/ Abort(r)
      PROVE  Attempts'
  <2>1. CASE Start(r) \/ NotYet(r) \/ NextLevel(r) \/ ClaimSession(r)
    BY <1>1, <2>1 DEF Start, NotYet, NextLevel, ClaimSession, attempts
  <2>2. CASE Compress(r) \/ CompressFails(r) \/ ReleaseFails(r) \/ AnswerLost(r)
    BY <1>2, <2>2 DEF Compress, CompressFails, ReleaseFails, AnswerLost
  <2>3. CASE Abort(r)
    BY <1>2, <2>3 DEF Abort, Lapse, Attempts
  <2> QED
    BY <1>3, <2>1, <2>2, <2>3 DEF Step
<1>4. ASSUME NEW x \in Id, Over(x)
      PROVE  Attempts'
  BY <1>4 DEF Over, Lapse, Attempts
<1> QED
  BY <1>1, <1>3, <1>4 DEF Next, Tick, store_infinite_event, vars, attempts

\* The runs that will ask about a row, and the calls made or about to be made.
Holders(x) == {r \in Run : x \in run[r].batch}
Asked(x) == tries[x] + Cardinality(Holders(x))

Retries(x) == IF x \in Stored THEN rows[x].retries ELSE 0

\* One call of those may be without a count: the one that made the summary, or
\* the one of the run that holds the lease.
Uncounted(x) ==
  /\ x \in Stored
  /\ rows[x].parent # NoParent \/ (rows[x].lease = "held" /\ Holders(x) # {})

RowCalls(x) ==
  /\ IsFiniteSet(Holders(x))
  /\ Asked(x) <= Retries(x) + lapses + (IF Uncounted(x) THEN 1 ELSE 0)
  /\ Asked(x) <= RetryLimit + lapses

CallsInv == Attempts /\ \A x \in Id : RowCalls(x)

LEMMA CallsTyped ==
  ASSUME IInv, CallsInv, NEW x \in Id
  PROVE  /\ tries[x] \in Nat /\ lapses \in Nat /\ Retries(x) \in Nat /\ Asked(x) \in Nat
         /\ IsFiniteSet(Holders(x)) /\ Cardinality(Holders(x)) \in Nat
BY FS_CardinalityType DEF IInv, RowShape, CallsInv, Attempts, RowCalls, Asked, Retries

LEMMA Slack ==
  ASSUME NEW a \in Nat, NEW b \in Nat, NEW t \in Nat, NEW u \in Nat, NEW l \in Nat,
         NEW m \in Nat, NEW n \in Nat, NEW c \in {0, 1}, NEW d \in {0, 1},
         a <= t + l + c, a <= n + l, b <= a, l <= m,
         t + l + 1 <= u + m \/ (t + l <= u + m /\ (d = 1 \/ c = 0 \/ b < a))
  PROVE  b <= u + m + d /\ b <= n + m
OBVIOUS

\* A step that lets no run take the row adds no call to those about to be made; if
\* it takes the place of the one uncounted call, it counts one or is a lapse.
LEMMA CallsKept ==
  ASSUME IInv, IInv', CallsInv, Attempts', NEW x \in Id,
         IsFiniteSet(Holders(x)'), Asked(x)' \in Nat, Asked(x)' <= Asked(x),
         lapses <= lapses', Retries(x)' \in Nat,
         \/ Retries(x) + lapses + 1 <= Retries(x)' + lapses'
         \/ /\ Retries(x) + lapses <= Retries(x)' + lapses'
            /\ Uncounted(x)' \/ ~Uncounted(x) \/ Asked(x)' < Asked(x)
  PROVE  RowCalls(x)'
<1> DEFINE c == IF Uncounted(x) THEN 1 ELSE 0
           d == IF Uncounted(x)' THEN 1 ELSE 0
<1>1. /\ Asked(x) \in Nat /\ Retries(x) \in Nat
      /\ lapses \in Nat /\ lapses' \in Nat /\ RetryLimit \in Nat
  BY CallsTyped, LimitAssumption DEF Attempts
<1>2. c \in {0, 1} /\ d \in {0, 1}
  OBVIOUS
<1>3. Asked(x) <= Retries(x) + lapses + c /\ Asked(x) <= RetryLimit + lapses
  BY DEF CallsInv, RowCalls
<1>4. \/ Retries(x) + lapses + 1 <= Retries(x)' + lapses'
      \/ /\ Retries(x) + lapses <= Retries(x)' + lapses'
         /\ d = 1 \/ c = 0 \/ Asked(x)' < Asked(x)
  OBVIOUS
<1> HIDE DEF c, d
<1>5. /\ Asked(x)' <= Retries(x)' + lapses' + d
      /\ Asked(x)' <= RetryLimit + lapses'
  BY <1>1, <1>2, <1>3, <1>4, Slack
<1> QED
  BY <1>5 DEF RowCalls, d

\* Nothing happens to the row: neither its row nor who holds it.
LEMMA RowUntouched ==
  ASSUME IInv, IInv', CallsInv, Attempts', NEW x \in Id,
         tries'[x] = tries[x], lapses <= lapses', Holders(x)' = Holders(x),
         x \in Stored => /\ x \in Stored' /\ rows'[x].retries = rows[x].retries
                         /\ rows'[x].lease = rows[x].lease
                         /\ rows'[x].parent = rows[x].parent,
         x \in Stored' \ Stored => rows'[x].retries = 0
  PROVE  RowCalls(x)'
<1>1. Asked(x)' = Asked(x) /\ IsFiniteSet(Holders(x)')
  BY CallsTyped DEF Asked
<1>2. Retries(x)' = Retries(x) /\ (Uncounted(x) => Uncounted(x)')
  BY DEF Retries, Uncounted
<1> QED
  BY <1>1, <1>2, CallsTyped, CallsKept DEF Attempts

\* A run that drops a row and asks about it or not.
LEMMA DroppedBy ==
  ASSUME IInv, CallsInv, Attempts', NEW x \in Id, NEW r \in Run, x \in run[r].batch,
         x \notin run'[r].batch, \A q \in Run \ {r} : x \in run'[q].batch <=> x \in run[q].batch
  PROVE  /\ IsFiniteSet(Holders(x)') /\ Asked(x)' \in Nat
         /\ tries'[x] = tries[x] + 1 => Asked(x)' = Asked(x)
         /\ tries'[x] = tries[x] => Asked(x)' < Asked(x)
<1>1. r \in Holders(x) /\ Holders(x)' = Holders(x) \ {r}
  BY DEF Holders
<1>2. IsFiniteSet(Holders(x)) /\ Cardinality(Holders(x)) \in Nat
  BY CallsTyped
<1>3. /\ IsFiniteSet(Holders(x)') /\ Cardinality(Holders(x)') = Cardinality(Holders(x)) - 1
      /\ Cardinality(Holders(x)') \in Nat
  BY <1>1, <1>2, FS_RemoveElement, FS_CardinalityType
<1>4. tries[x] \in Nat /\ tries'[x] \in Nat
  BY CallsTyped DEF Attempts
<1> QED
  BY <1>2, <1>3, <1>4 DEF Asked

\* Of the rows of the batch, those of the window are dropped.
LEMMA HandledHolders ==
  ASSUME IInv, NEW r \in Run, NEW B, B \subseteq run[r].batch, Handled(r, B), NEW x \in Id
  PROVE  /\ x \notin B => Holders(x)' = Holders(x)
         /\ x \in B => /\ x \in run[r].batch /\ x \notin run'[r].batch
                       /\ \A q \in Run \ {r} : x \in run'[q].batch <=> x \in run[q].batch
<1>1. /\ run'[r].batch = run[r].batch \ B
      /\ \A q \in Run \ {r} : run'[q] = run[q]
  BY DEF IInv, RunShape, Handled
<1> QED
  BY <1>1 DEF Holders

\* A window that is done with: its rows were asked about, and counted, linked or
\* left to a lapse; or they were not.
LEMMA WindowCalls ==
  ASSUME IInv, IInv', CallsInv, Attempts', NEW r \in Run, NEW B, B \subseteq run[r].batch,
         Handled(r, B), lapses <= lapses', Stored \subseteq Stored',
         \A x \in Id \ B : tries'[x] = tries[x],
         \A x \in Stored \ B : rows'[x] = rows[x],
         \A x \in Stored' \ Stored : rows'[x].retries = 0,
         \A x \in B \cap Id :
                      \/ tries'[x] = tries[x] /\ rows'[x].retries = rows[x].retries
                      \/ /\ tries'[x] = tries[x] + 1
                         /\ \/ rows'[x].retries = rows[x].retries + 1
                            \/ rows'[x].retries = rows[x].retries /\ lapses + 1 <= lapses'
                            \/ rows'[x].retries = rows[x].retries /\ rows'[x].parent # NoParent
  PROVE  CallsInv'
<1> SUFFICES ASSUME NEW x \in Id PROVE RowCalls(x)'
  BY DEF CallsInv
<1>1. CASE x \notin B
  BY <1>1, HandledHolders, RowUntouched
<1>2. CASE x \in B
  <2>1. x \in Stored /\ x \in Stored'
    BY <1>2 DEF IInv, BatchesHeld
  <2>2. /\ IsFiniteSet(Holders(x)') /\ Asked(x)' \in Nat
        /\ tries'[x] = tries[x] + 1 => Asked(x)' = Asked(x)
        /\ tries'[x] = tries[x] => Asked(x)' < Asked(x)
    BY <1>2, HandledHolders, DroppedBy
  <2>3. Retries(x) = rows[x].retries /\ Retries(x)' = rows'[x].retries
    BY <2>1 DEF Retries
  <2>4. /\ Retries(x) \in Nat /\ Retries(x)' \in Nat /\ lapses \in Nat /\ lapses' \in Nat
        /\ Asked(x) \in Nat
    BY <2>1, <2>3, CallsTyped DEF IInv, RowShape, Attempts
  <2>5. CASE tries'[x] = tries[x] /\ rows'[x].retries = rows[x].retries
    BY <2>2, <2>3, <2>4, <2>5, CallsKept
  <2>6. CASE tries'[x] = tries[x] + 1 /\ rows'[x].retries = rows[x].retries + 1
    BY <2>2, <2>3, <2>4, <2>6, CallsKept
  <2>7. CASE tries'[x] = tries[x] + 1 /\ rows'[x].retries = rows[x].retries /\ lapses + 1 <= lapses'
    BY <2>2, <2>3, <2>4, <2>7, CallsKept
  <2>8. CASE /\ tries'[x] = tries[x] + 1 /\ rows'[x].retries = rows[x].retries
             /\ rows'[x].parent # NoParent
    <3>1. Uncounted(x)'
      BY <2>1, <2>8 DEF Uncounted
    <3> QED
      BY <2>2, <2>3, <2>4, <2>8, <3>1, CallsKept
  <2> QED
    BY <1>2, <2>5, <2>6, <2>7, <2>8
<1> QED
  BY <1>1, <1>2

LEMMA TriedRows ==
  ASSUME Attempts, NEW B, Tried(B)
  PROVE  /\ \A x \in Id \ B : tries'[x] = tries[x]
         /\ \A x \in B \cap Id : tries'[x] = tries[x] + 1
BY DEF Attempts, Tried

\* What linking and releasing do to the fields of a row.
LEMMA LinkedFields ==
  ASSUME IInv, NEW B, B \subseteq Stored, NEW s, NEW x \in B
  PROVE  /\ Linked(B, s)[x].retries = rows[x].retries
         /\ Linked(B, s)[x].parent = s
BY DEF IInv, RowShape, Fields, Linked

LEMMA ReleasedFields ==
  ASSUME IInv, NEW B, B \subseteq Stored, NEW increment_retry \in BOOLEAN, NEW x \in B
  PROVE  Released(B, increment_retry)[x].retries =
           rows[x].retries + (IF increment_retry THEN 1 ELSE 0)
<1>1. DOMAIN rows[x] = Fields /\ rows[x].retries \in Nat /\ x \in Stored
  BY DEF IInv, RowShape
<1>2. CASE increment_retry
  BY <1>1, <1>2 DEF Released, Fields
<1>3. CASE ~increment_retry
  BY <1>1, <1>3 DEF Released, Fields
<1> QED
  BY <1>2, <1>3

LEMMA WindowDone ==
  ASSUME IInv, IInv', CallsInv, Attempts', NEW r \in Run,
         Compress(r) \/ CompressFails(r) \/ ReleaseFails(r) \/ AnswerLost(r) \/ NotYet(r)
  PROVE  CallsInv'
<1>0. Attempts /\ lapses \in Nat /\ \A B \in Buckets(run[r].batch, run[r].level) :
        B \subseteq run[r].batch /\ B \subseteq Stored
  <2>1. \A B \in Buckets(run[r].batch, run[r].level) : B \subseteq run[r].batch
    BY BucketPart
  <2>2. run[r].batch \subseteq Stored
    BY DEF IInv, BatchesHeld
  <2> QED
    BY <2>1, <2>2 DEF CallsInv, Attempts
<1>1. CASE Compress(r)
  <2>1. PICK B \in Buckets(run[r].batch, run[r].level) :
          /\ Summary \ Stored # {}
          /\ rows' = Summarized(B, run[r].level, FreshSummary)
          /\ Handled(r, B) /\ Tried(B) /\ UNCHANGED lapses
    BY <1>1 DEF Compress
  <2>2. /\ FreshSummary \in Summary \ Stored /\ FreshSummary # NoParent
        /\ Stored' = Stored \cup {FreshSummary}
    BY <2>1, Fresh DEF Summarized, Stored
  <2>3. rows'[FreshSummary].retries = 0
    BY <2>1, <2>2, CreatedShape DEF Summarized
  <2>4. \A x \in Stored : rows'[x] = Linked(B, FreshSummary)[x]
    BY <2>1, <2>2 DEF Summarized
  <2>5. \A x \in Stored \ B : rows'[x] = rows[x]
    BY <2>4 DEF Linked
  <2>6. \A x \in B : rows'[x].retries = rows[x].retries /\ rows'[x].parent # NoParent
    BY <1>0, <2>1, <2>2, <2>4, LinkedFields
  <2> QED
    BY <1>0, <2>1, <2>2, <2>3, <2>5, <2>6, TriedRows, WindowCalls
<1>2. CASE CompressFails(r)
  <2>1. PICK B \in Buckets(run[r].batch, run[r].level) :
          rows' = Released(B, TRUE) /\ Handled(r, B) /\ Tried(B) /\ UNCHANGED lapses
    BY <1>2 DEF CompressFails
  <2>2. Stored' = Stored /\ \A x \in Stored \ B : rows'[x] = rows[x]
    BY <2>1 DEF Released, Stored
  <2>3. \A x \in B : rows'[x].retries = rows[x].retries + 1
    BY <1>0, <2>1, ReleasedFields
  <2>4. /\ \A x \in Id \ B : tries'[x] = tries[x]
        /\ \A x \in B \cap Id : tries'[x] = tries[x] + 1 /\ rows'[x].retries = rows[x].retries + 1
    BY <1>0, <2>1, <2>3, TriedRows
  <2>5. Handled(r, B) /\ lapses <= lapses' /\ B \subseteq run[r].batch
    BY <1>0, <2>1
  <2> QED
    BY <2>2, <2>4, <2>5, WindowCalls
<1>3. CASE ReleaseFails(r)
  <2>1. PICK B \in Buckets(run[r].batch, run[r].level) :
          rows' = rows /\ Handled(r, B) /\ Tried(B) /\ lapses' = lapses + 1
    BY <1>3 DEF ReleaseFails, Lapse
  <2>2. Stored' = Stored
    BY <2>1 DEF Stored
  <2> QED
    BY <1>0, <2>1, <2>2, TriedRows, WindowCalls
<1>4. CASE AnswerLost(r)
  <2>1. PICK B \in Buckets(run[r].batch, run[r].level) :
          /\ Summary \ Stored # {}
          /\ Handled(r, B) /\ Tried(B) /\ UNCHANGED lapses
          /\ rows' = [x \in Stored \cup {FreshSummary} |->
                        IF x \in B
                        THEN [Released(B, TRUE)[x] EXCEPT !.parent = FreshSummary]
                        ELSE Summarized(B, run[r].level, FreshSummary)[x]]
    BY <1>4 DEF AnswerLost
  <2>2. FreshSummary \in Summary \ Stored /\ Stored' = Stored \cup {FreshSummary}
    BY <2>1, Fresh DEF Stored
  <2>3. rows'[FreshSummary].retries = 0
    BY <1>0, <2>1, <2>2, CreatedShape DEF Summarized
  <2>4. \A x \in Stored \ B : rows'[x] = rows[x]
    BY <2>1, <2>2 DEF Summarized, Linked
  <2>5. ASSUME NEW x \in B
        PROVE  rows'[x].retries = rows[x].retries + 1
    <3>1. rows'[x] = [Released(B, TRUE)[x] EXCEPT !.parent = FreshSummary]
      BY <1>0, <2>1
    <3>2. rows'[x].retries = Released(B, TRUE)[x].retries
      BY <3>1
    <3> QED
      BY <1>0, <3>2, ReleasedFields
  <2>6. /\ \A x \in Id \ B : tries'[x] = tries[x]
        /\ \A x \in B \cap Id : tries'[x] = tries[x] + 1 /\ rows'[x].retries = rows[x].retries + 1
    BY <1>0, <2>1, <2>5, TriedRows
  <2>7. Handled(r, B) /\ lapses <= lapses' /\ B \subseteq run[r].batch
    BY <1>0, <2>1
  <2> QED
    BY <2>2, <2>3, <2>4, <2>6, <2>7, WindowCalls
<1>5. CASE NotYet(r)
  <2>1. PICK B \in Buckets(run[r].batch, run[r].level) :
          rows' = Released(B, FALSE) /\ Handled(r, B) /\ UNCHANGED attempts
    BY <1>5 DEF NotYet, attempts
  <2>2. Stored' = Stored /\ \A x \in Stored \ B : rows'[x] = rows[x]
    BY <2>1 DEF Released, Stored
  <2>3. \A x \in B : rows'[x].retries = rows[x].retries
    <3>1. \A x \in B : rows'[x].retries = rows[x].retries + 0
      BY <1>0, <2>1, ReleasedFields
    <3> QED
      BY <1>0, <3>1 DEF IInv, RowShape
  <2>4. UNCHANGED <<tries, lapses>>
    BY <2>1 DEF attempts
  <2>5. Handled(r, B) /\ lapses <= lapses' /\ B \subseteq run[r].batch
    BY <1>0, <2>1, <2>4
  <2> QED
    BY <2>2, <2>3, <2>4, <2>5, WindowCalls
<1> QED
  BY <1>1, <1>2, <1>3, <1>4, <1>5

\* A claim takes rows with a try left that nobody has the lease of.
LEMMA ClaimCalls ==
  ASSUME IInv, IInv', CallsInv, NEW r \in Run, NEW S \in SUBSET Stored, run[r].batch = {},
         NEW level, \A x \in S : Claimable(x, level), rows' = Claimed(S),
         \A q \in Run \ {r} : run'[q] = run[q], run'[r].batch = S, UNCHANGED attempts
  PROVE  CallsInv'
<1>1. Attempts'
  BY DEF CallsInv, Attempts, attempts
<1>2. /\ Stored' = Stored
      /\ \A x \in Stored \ S : rows'[x] = rows[x]
      /\ \A x \in S : rows'[x] = [rows[x] EXCEPT !.lease = "held"]
  BY DEF Claimed, Stored
<1>3. \A x \in S : DOMAIN rows[x] = Fields
  BY DEF IInv, RowShape
<1>4. \A x \in S : rows'[x].retries = rows[x].retries /\ rows'[x].lease = "held"
  BY <1>2, <1>3 DEF Fields
<1> SUFFICES ASSUME NEW x \in Id PROVE RowCalls(x)'
  BY <1>1 DEF CallsInv
<1>5. CASE x \notin S
  <2>1. Holders(x)' = Holders(x)
    BY <1>5 DEF Holders
  <2> QED
    BY <1>1, <1>2, <1>5, <2>1, CallsTyped, RowUntouched DEF attempts
<1>6. CASE x \in S
  <2>1. r \notin Holders(x) /\ Holders(x)' = Holders(x) \cup {r}
    BY <1>6 DEF Holders
  <2>2. IsFiniteSet(Holders(x)) /\ Cardinality(Holders(x)) \in Nat
    BY CallsTyped
  <2>3. IsFiniteSet(Holders(x)') /\ Cardinality(Holders(x)') = Cardinality(Holders(x)) + 1
    BY <2>1, <2>2, FS_AddElement
  <2>4. tries'[x] = tries[x] /\ lapses' = lapses /\ tries[x] \in Nat /\ lapses \in Nat
    BY CallsTyped DEF attempts
  <2>5. Asked(x)' = Asked(x) + 1 /\ Asked(x) \in Nat
    BY <2>2, <2>3, <2>4 DEF Asked
  <2>6. /\ rows[x].retries \in Nat /\ rows[x].retries < RetryLimit /\ RetryLimit \in Nat
        /\ ~Uncounted(x) /\ Retries(x) = rows[x].retries /\ Retries(x)' = rows[x].retries
    BY <1>2, <1>4, <1>6, LimitAssumption DEF Claimable, Uncounted, Retries, IInv, RowShape
  <2>7. Asked(x) <= rows[x].retries + lapses
    <3>1. Asked(x) <= Retries(x) + lapses + 0
      BY <2>6 DEF CallsInv, RowCalls
    <3> QED
      BY <2>4, <2>6, <3>1
  <2>8. Uncounted(x)'
    BY <1>2, <1>4, <1>6, <2>1 DEF Uncounted
  <2>9. /\ Asked(x)' <= Retries(x)' + lapses' + 1
        /\ Asked(x)' <= RetryLimit + lapses'
    BY <2>4, <2>5, <2>6, <2>7
  <2> QED
    BY <2>3, <2>8, <2>9 DEF RowCalls
<1> QED
  BY <1>5, <1>6

\* A run that ends early drops its batch; it is a lapse.
LEMMA AbortCalls ==
  ASSUME IInv, IInv', CallsInv, Attempts', NEW r \in Run, Abort(r)
  PROVE  CallsInv'
<1>1. /\ UNCHANGED rows /\ lapses' = lapses + 1 /\ lapses \in Nat
      /\ run' = [run EXCEPT ![r] = Idle]
  BY DEF Abort, Lapse, CallsInv, Attempts
<1>2. Stored' = Stored
  BY <1>1 DEF Stored
<1>3. run'[r].batch = {} /\ \A q \in Run \ {r} : run'[q] = run[q]
  BY <1>1 DEF IInv, RunShape, Idle
<1>4. \A x \in Id : \/ tries'[x] = tries[x]
                    \/ x \in run[r].batch /\ tries'[x] = tries[x] + 1
  <2>1. CASE UNCHANGED tries
    BY <2>1
  <2>2. ASSUME NEW B \in Buckets(run[r].batch, run[r].level), Tried(B)
        PROVE  \A x \in Id : \/ tries'[x] = tries[x]
                             \/ x \in run[r].batch /\ tries'[x] = tries[x] + 1
    BY <2>2, BucketPart, TriedRows DEF CallsInv
  <2> QED
    BY <2>1, <2>2 DEF Abort
<1> SUFFICES ASSUME NEW x \in Id PROVE RowCalls(x)'
  BY DEF CallsInv
<1>5. Retries(x)' = Retries(x) /\ Retries(x) \in Nat /\ Asked(x) \in Nat
  BY <1>1, <1>2, CallsTyped DEF Retries
<1>6. IsFiniteSet(Holders(x)') /\ Asked(x)' \in Nat /\ Asked(x)' <= Asked(x)
  <2>1. CASE x \in run[r].batch
    BY <1>3, <1>4, <1>5, <2>1, DroppedBy
  <2>2. CASE x \notin run[r].batch
    <3>1. Holders(x)' = Holders(x) /\ tries'[x] = tries[x]
      BY <1>3, <1>4, <2>2 DEF Holders
    <3>2. Asked(x)' = Asked(x)
      BY <3>1 DEF Asked
    <3> QED
      BY <1>5, <3>1, <3>2, CallsTyped
  <2> QED
    BY <2>1, <2>2
<1> QED
  BY <1>1, <1>5, <1>6, CallsKept

\* A lease that runs out under a run is a lapse; else nobody is about to ask.
LEMMA OverCalls ==
  ASSUME IInv, IInv', CallsInv, Attempts', NEW y \in Id, Over(y)
  PROVE  CallsInv'
<1>1. /\ UNCHANGED <<run, tries>> /\ Stored' = Stored /\ y \in Stored
      /\ rows[y].parent = NoParent
      /\ \A x \in Stored \ {y} : rows'[x] = rows[x]
      /\ rows'[y] = [rows[y] EXCEPT !.lease = "over"]
      /\ lapses' = IF y \in Held THEN lapses + 1 ELSE lapses
  BY DEF Over, Lapse, Stored
<1>2. rows'[y].retries = rows[y].retries /\ lapses \in Nat /\ lapses <= lapses'
  BY <1>1 DEF IInv, RowShape, Fields, CallsInv, Attempts
<1> SUFFICES ASSUME NEW x \in Id PROVE RowCalls(x)'
  BY DEF CallsInv
<1>3. Holders(x)' = Holders(x)
  BY <1>1 DEF Holders
<1>4. CASE x # y
  BY <1>1, <1>2, <1>3, <1>4, RowUntouched
<1>5. CASE x = y
  <2>1. /\ Asked(x)' = Asked(x) /\ Retries(x)' = Retries(x)
        /\ IsFiniteSet(Holders(x)') /\ Asked(x) \in Nat /\ Retries(x) \in Nat
    BY <1>1, <1>2, <1>3, <1>5, CallsTyped DEF Asked, Retries
  <2>2. y \notin Held => ~Uncounted(x)
    BY <1>1, <1>5 DEF Held, Holders, Uncounted
  <2> QED
    BY <1>1, <1>2, <2>1, <2>2, CallsKept
<1> QED
  BY <1>4, <1>5

\* Steps that move neither rows nor batches.
LEMMA QuietCalls ==
  ASSUME IInv, IInv', CallsInv, UNCHANGED <<rows, attempts>>,
         \A q \in Run : run'[q].batch = run[q].batch
  PROVE  CallsInv'
<1>1. Attempts' /\ lapses' = lapses /\ tries' = tries /\ Stored' = Stored /\ lapses \in Nat
  BY DEF CallsInv, Attempts, attempts, Stored
<1> SUFFICES ASSUME NEW x \in Id PROVE RowCalls(x)'
  BY <1>1 DEF CallsInv
<1>2. Holders(x)' = Holders(x)
  BY DEF Holders
<1> QED
  BY <1>1, <1>2, RowUntouched

LEMMA StoreCalls ==
  ASSUME IInv, IInv', CallsInv, NEW e \in Event, store_infinite_event(e)
  PROVE  CallsInv'
<1>1. /\ UNCHANGED <<run, attempts>> /\ Stored' = Stored \cup {e} /\ e \notin Stored
      /\ rows'[e].retries = 0 /\ \A x \in Stored : rows'[x] = rows[x]
  BY DEF store_infinite_event, Stored
<1>2. Attempts' /\ lapses' = lapses /\ tries' = tries /\ lapses \in Nat
  BY <1>1 DEF CallsInv, Attempts, attempts
<1> SUFFICES ASSUME NEW x \in Id PROVE RowCalls(x)'
  BY <1>2 DEF CallsInv
<1>3. Holders(x)' = Holders(x)
  BY <1>1 DEF Holders
<1> QED
  BY <1>1, <1>2, <1>3, RowUntouched

LEMMA CallsInductive == Spec => [](IInv /\ CallsInv)
<1>1. Init => IInv /\ CallsInv
  <2> SUFFICES ASSUME Init PROVE CallsInv
    BY InitInv
  <2>1. Attempts
    BY DEF Init, Attempts
  <2>2. ASSUME NEW x \in Id PROVE RowCalls(x)
    <3>1. Holders(x) = {} /\ Stored = {}
      BY DEF Init, Holders, Idle, Stored, Empty
    <3>2. Asked(x) = 0 /\ Retries(x) = 0 /\ IsFiniteSet(Holders(x)) /\ ~Uncounted(x)
      BY <3>1, FS_EmptySet DEF Init, Asked, Retries, Uncounted
    <3> QED
      BY <3>2, LimitAssumption DEF Init, RowCalls
  <2> QED
    BY <2>1, <2>2 DEF CallsInv
<1>2. ASSUME IInv, CallsInv, [Next]_vars PROVE IInv' /\ CallsInv'
  <2>1. IInv' /\ Attempts'
    BY <1>2, NextInv, AttemptsTyped DEF CallsInv
  <2>2. ASSUME NEW r \in Run, Start(r) PROVE CallsInv'
    <3> DEFINE S == get_unsummarized_infinite_events
    <3>1. S \in SUBSET Stored /\ \A x \in S : Claimable(x, 0)
      BY DEF get_unsummarized_infinite_events
    <3>2. /\ run[r].batch = {} /\ rows' = Claimed(S) /\ UNCHANGED attempts
          /\ run'[r].batch = S /\ \A q \in Run \ {r} : run'[q] = run[q]
      BY <1>2, <2>2 DEF Start, IInv, RunShape
    <3> HIDE DEF S
    <3> QED
      BY <1>2, <2>1, <3>1, <3>2, ClaimCalls
  <2>3. ASSUME NEW r \in Run, ClaimSession(r) PROVE CallsInv'
    <3>1. PICK s \in run[r].sessions :
          /\ run[r].batch = {}
          /\ LET S == IF run[r].level = 1 THEN get_unaggregated_5min_for_session(s)
                      ELSE get_unaggregated_hour_for_session(s)
             IN /\ rows' = Claimed(S)
                /\ run' = [run EXCEPT ![r].sessions = @ \ {s}, ![r].batch = S]
          /\ UNCHANGED attempts
      BY <2>3 DEF ClaimSession, attempts
    <3> DEFINE S == IF run[r].level = 1 THEN get_unaggregated_5min_for_session(s)
                    ELSE get_unaggregated_hour_for_session(s)
    <3>2. /\ S \in SUBSET Stored
          /\ \A x \in S : Claimable(x, IF run[r].level = 1 THEN 1 ELSE 2)
      BY DEF get_unaggregated_5min_for_session, get_unaggregated_hour_for_session
    <3>3. /\ rows' = Claimed(S) /\ run'[r].batch = S
          /\ \A q \in Run \ {r} : run'[q] = run[q]
      BY <1>2, <3>1 DEF IInv, RunShape
    <3> HIDE DEF S
    <3> QED
      BY <1>2, <2>1, <3>1, <3>2, <3>3, ClaimCalls
  <2>4. ASSUME NEW r \in Run, NextLevel(r) PROVE CallsInv'
    <3>1. UNCHANGED <<rows, attempts>> /\ run'[r].batch = {} /\ run[r].batch = {}
      BY <1>2, <2>4 DEF NextLevel, IInv, RunShape, Idle, attempts
    <3>2. \A q \in Run \ {r} : run'[q] = run[q]
      BY <1>2, <2>4 DEF NextLevel, IInv, RunShape
    <3> QED
      BY <1>2, <2>1, <3>1, <3>2, QuietCalls
  <2>5. ASSUME NEW r \in Run, Step(r) \/ Abort(r) PROVE CallsInv'
    BY <1>2, <2>1, <2>2, <2>3, <2>4, <2>5, WindowDone, AbortCalls DEF Step
  <2>6. CASE Tick \/ UNCHANGED vars
    BY <1>2, <2>1, <2>6, QuietCalls DEF Tick, vars, attempts
  <2> QED
    BY <1>2, <2>1, <2>5, <2>6, StoreCalls, OverCalls DEF Next
<1> QED
  BY <1>1, <1>2, InitInv, PTL DEF Spec

\* However runs overlap, fail, crash and lose answers: the LLM is asked RetryLimit
\* times at most about a row, and once more for each lapse. Every call is counted
\* in retry_count, or is the one that made the summary or that a lapse hides.
THEOREM CallsBounded == Spec => []TriesBounded
<1>1. IInv /\ CallsInv => TriesBounded
  <2> SUFFICES ASSUME IInv, CallsInv, NEW x \in Id PROVE tries[x] <= RetryLimit + lapses
    BY DEF TriesBounded
  <2>1. /\ tries[x] \in Nat /\ lapses \in Nat /\ Cardinality(Holders(x)) \in Nat
        /\ RetryLimit \in Nat
    BY CallsTyped, LimitAssumption
  <2>2. tries[x] + Cardinality(Holders(x)) <= RetryLimit + lapses
    BY DEF CallsInv, RowCalls, Asked
  <2> QED
    BY <2>1, <2>2
<1> QED
  BY <1>1, CallsInductive, PTL
-----------------------------------------------------------------------------
(* Sums over finite sets *)

\* A set of naturals has a least one, a set of finite sets a smallest one: the
\* forms in which induction is used below.
LEMMA LeastNumber ==
  ASSUME NEW T \in SUBSET Nat, T # {}
  PROVE  \E n \in T : \A m \in T : n <= m
<1>1. PICK n \in T : \A m \in T : <<m, n>> \notin OpToRel(<, Nat)
  BY WFMin, NatLessThanWellFounded
<1>2. \A m \in T : ~(m < n)
  BY <1>1 DEF OpToRel
<1>. QED
  BY <1>2

LEMMA SmallestSubset ==
  ASSUME NEW S, IsFiniteSet(S), NEW T \in SUBSET SUBSET S, T # {}
  PROVE  \E X \in T : \A Y \in T : Y \subseteq X => Y = X
<1>1. IsWellFoundedOn(StrictSubsetOrdering(S), SUBSET S)
  BY FS_StrictSubsetOrderingWellFounded, FS_FiniteSubsetsOfFinite
<1>2. PICK X \in T : \A Y \in T : <<Y, X>> \notin StrictSubsetOrdering(S)
  BY <1>1, WFMin
<1>. QED
  BY <1>2 DEF StrictSubsetOrdering

\* The event_count that create_hour_summary and create_day_summary add up.
TotalCount(R, S) == MapThenSumSet(LAMBDA x : R[x].count, S)
Chosen(s) == CHOOSE x \in s : TRUE

\* One step of the sum.
AddsUp(R, iter, s) ==
  iter[s] = IF s = {} THEN 0 ELSE R[Chosen(s)].count + iter[s \ {Chosen(s)}]
Adds(R, iter, S) ==
  iter = [s \in SUBSET S |->
            IF s = {} THEN 0 ELSE R[Chosen(s)].count + iter[s \ {Chosen(s)}]]

LEMMA SumExists ==
  ASSUME NEW R, NEW S, IsFiniteSet(S)
  PROVE  \E iter : Adds(R, iter, S)
<1> DEFINE Upto(n, g) == \A s \in SUBSET S : Cardinality(s) <= n => AddsUp(R, g, s)
<1> DEFINE Bad == {n \in Nat : ~ \E g : Upto(n, g)}
<1>0. \A s \in SUBSET S : IsFiniteSet(s) /\ Cardinality(s) \in Nat /\ (Cardinality(s) = 0 <=> s = {})
  BY FS_Subset, FS_CardinalityType, FS_EmptySet
<1>1. Bad = {}
  <2>1. SUFFICES ASSUME Bad # {} PROVE FALSE
    OBVIOUS
  <2>2. PICK n \in Bad : \A m \in Bad : n <= m
    <3>1. Bad \in SUBSET Nat
      OBVIOUS
    <3> HIDE DEF Bad
    <3>. QED
      BY <2>1, <3>1, LeastNumber
  <2>3. n # 0
    <3>1. SUFFICES ASSUME n = 0 PROVE FALSE
      OBVIOUS
    <3> DEFINE g == [s \in SUBSET S |-> 0]
    <3>2. Upto(0, g)
      BY <1>0 DEF AddsUp
    <3>. QED
      BY <3>1, <3>2, <2>2
  <2>4. n \in Nat /\ n - 1 \in Nat /\ ~(n <= n - 1)
    BY <2>2, <2>3
  <2>5. PICK g : Upto(n - 1, g)
    BY <2>2, <2>4
  <2> DEFINE h == [s \in SUBSET S |->
                     IF s = {} THEN 0 ELSE R[Chosen(s)].count + g[s \ {Chosen(s)}]]
  <2>6. Upto(n, h)
    <3>1. SUFFICES ASSUME NEW s \in SUBSET S, Cardinality(s) <= n PROVE AddsUp(R, h, s)
      OBVIOUS
    <3>2. CASE s = {}
      BY <3>2 DEF AddsUp
    <3>3. CASE s # {}
      <4> DEFINE t == s \ {Chosen(s)}
      <4>1. Chosen(s) \in s
        BY <3>3 DEF Chosen
      <4>2. t \in SUBSET S /\ Cardinality(t) = Cardinality(s) - 1
        BY <4>1, <1>0, FS_RemoveElement
      <4>3. Cardinality(t) <= n - 1
        BY <4>2, <3>1, <2>4, <1>0
      <4>4. AddsUp(R, g, t)
        BY <4>2, <4>3, <2>5
      <4>5. h[t] = g[t]
        BY <4>2, <4>4 DEF AddsUp
      <4>6. h[s] = R[Chosen(s)].count + g[t]
        BY <3>3
      <4> HIDE DEF h
      <4>. QED
        BY <3>3, <4>5, <4>6 DEF AddsUp
    <3>. QED
      BY <3>2, <3>3
  <2>. QED
    BY <2>2, <2>6
<1>2. PICK g : Upto(Cardinality(S), g)
  BY <1>0, <1>1
<1> DEFINE iter == [s \in SUBSET S |-> g[s]]
<1>3. \A s \in SUBSET S : AddsUp(R, g, s)
  BY <1>2, <1>0, FS_Subset
<1>4. \A s \in SUBSET S : iter[s] = IF s = {} THEN 0 ELSE R[Chosen(s)].count + iter[s \ {Chosen(s)}]
  BY <1>3 DEF AddsUp
<1>. QED
  BY <1>4 DEF Adds

LEMMA SumSteps ==
  ASSUME NEW R, NEW S, IsFiniteSet(S)
  PROVE  \E iter : iter[S] = TotalCount(R, S) /\ \A s \in SUBSET S : AddsUp(R, iter, s)
<1> DEFINE iter == CHOOSE iter : Adds(R, iter, S)
<1>1. Adds(R, iter, S)
  BY SumExists
<1>2. TotalCount(R, S) = iter[S]
  BY DEF TotalCount, MapThenSumSet, MapThenFoldSet, Adds, Chosen
<1> HIDE DEF iter
<1>3. \A s \in SUBSET S : AddsUp(R, iter, s)
  BY <1>1 DEF Adds, AddsUp
<1>. QED
  BY <1>2, <1>3

\* The sum is the number of what it counts, if that is kept apart.
LEMMA SumOfParts ==
  ASSUME NEW R, NEW S, IsFiniteSet(S), NEW part,
         \A x \in S : IsFiniteSet(part[x]) /\ Cardinality(part[x]) = R[x].count,
         \A x, y \in S : x # y => part[x] \cap part[y] = {}
  PROVE  /\ IsFiniteSet(UNION {part[x] : x \in S})
         /\ Cardinality(UNION {part[x] : x \in S}) = TotalCount(R, S)
<1>1. PICK iter : iter[S] = TotalCount(R, S) /\ \A s \in SUBSET S : AddsUp(R, iter, s)
  BY SumSteps
<1> DEFINE Whole(s) == UNION {part[x] : x \in s}
<1> DEFINE Good(s) == IsFiniteSet(Whole(s)) /\ Cardinality(Whole(s)) = iter[s]
<1> DEFINE Bad == {s \in SUBSET S : ~Good(s)}
<1>2. Bad = {}
  <2>1. SUFFICES ASSUME Bad # {} PROVE FALSE
    OBVIOUS
  <2>2. PICK s \in Bad : \A t \in Bad : t \subseteq s => t = s
    <3>1. Bad \in SUBSET SUBSET S
      OBVIOUS
    <3> HIDE DEF Bad
    <3>. QED
      BY <2>1, <3>1, SmallestSubset
  <2>3. s \in SUBSET S
    BY <2>2
  <2>4. CASE s = {}
    <3>1. Whole(s) = {}
      BY <2>4
    <3>2. iter[s] = 0
      BY <1>1, <2>3, <2>4 DEF AddsUp
    <3>. QED
      BY <3>1, <3>2, <2>2, FS_EmptySet
  <2>5. CASE s # {}
    <3> DEFINE c == Chosen(s)
    <3> DEFINE t == s \ {c}
    <3>1. c \in s /\ c \in S /\ t \in SUBSET S /\ t \subseteq s /\ t # s
      BY <2>3, <2>5 DEF Chosen
    <3>2. Good(t)
      BY <2>2, <3>1
    <3>3. iter[s] = R[c].count + iter[t]
      BY <1>1, <2>3, <2>5 DEF AddsUp
    <3> HIDE DEF c
    <3>4. Whole(s) = part[c] \cup Whole(t)
      BY <3>1
    <3>5. part[c] \cap Whole(t) = {}
      BY <3>1
    <3>6. IsFiniteSet(part[c]) /\ Cardinality(part[c]) = R[c].count
      BY <3>1
    <3>7. IsFiniteSet(part[c] \cup Whole(t))
          /\ Cardinality(part[c] \cup Whole(t)) = Cardinality(part[c]) + Cardinality(Whole(t)) - Cardinality(part[c] \cap Whole(t))
      BY <3>2, <3>6, FS_Union
    <3>8. Cardinality(part[c]) \in Nat /\ Cardinality(Whole(t)) \in Nat /\ Cardinality({}) = 0
      BY <3>2, <3>6, FS_CardinalityType, FS_EmptySet
    <3> HIDE DEF Whole, t
    <3>9. Cardinality(part[c] \cup Whole(t)) = R[c].count + iter[t]
      <4> DEFINE a == Cardinality(part[c])
      <4> DEFINE b == Cardinality(Whole(t))
      <4>1. a = R[c].count /\ b = iter[t] /\ a \in Nat /\ b \in Nat
        BY <3>2, <3>6, <3>8
      <4>2. Cardinality(part[c] \cup Whole(t)) = a + b - 0
        BY <3>5, <3>7, <3>8
      <4> HIDE DEF a, b
      <4>. QED
        BY <4>1, <4>2
    <3>10. Good(s)
      BY <3>3, <3>4, <3>7, <3>9
    <3>. QED
      BY <2>2, <3>10
  <2>. QED
    BY <2>4, <2>5
<1>3. S \in SUBSET S /\ S \notin Bad
  BY <1>2
<1>4. Good(S)
  BY <1>3
<1>. QED
  BY <1>1, <1>4

\* The sum depends on the counts alone, and is a number.
LEMMA SumOfCounts ==
  ASSUME NEW R, NEW Q, NEW S, IsFiniteSet(S),
         \A x \in S : R[x].count \in Nat /\ Q[x].count = R[x].count
  PROVE  TotalCount(R, S) \in Nat /\ TotalCount(Q, S) = TotalCount(R, S)
<1>1. PICK i : i[S] = TotalCount(R, S) /\ \A s \in SUBSET S : AddsUp(R, i, s)
  BY SumSteps
<1>2. PICK j : j[S] = TotalCount(Q, S) /\ \A s \in SUBSET S : AddsUp(Q, j, s)
  BY SumSteps
<1> DEFINE Bad == {s \in SUBSET S : ~(i[s] \in Nat /\ j[s] = i[s])}
<1>3. Bad = {}
  <2>1. SUFFICES ASSUME Bad # {} PROVE FALSE
    OBVIOUS
  <2>2. PICK s \in Bad : \A t \in Bad : t \subseteq s => t = s
    <3>1. Bad \in SUBSET SUBSET S
      OBVIOUS
    <3> HIDE DEF Bad
    <3>. QED
      BY <2>1, <3>1, SmallestSubset
  <2>3. s # {}
    <3>1. AddsUp(R, i, {}) /\ AddsUp(Q, j, {})
      BY <1>1, <1>2
    <3>2. i[{}] = 0 /\ j[{}] = 0
      BY <3>1 DEF AddsUp
    <3>3. {} \notin Bad
      BY <3>2
    <3>. QED
      BY <3>3
  <2> DEFINE c == Chosen(s)
  <2> DEFINE t == s \ {c}
  <2>4. c \in s /\ c \in S /\ t \in SUBSET S /\ t \subseteq s /\ t # s
    BY <2>2, <2>3 DEF Chosen
  <2>5. i[t] \in Nat /\ j[t] = i[t]
    BY <2>2, <2>4
  <2>6. i[s] = R[c].count + i[t] /\ j[s] = Q[c].count + j[t]
    BY <1>1, <1>2, <2>2, <2>3 DEF AddsUp
  <2> HIDE DEF c, t
  <2>. QED
    BY <2>2, <2>4, <2>5, <2>6
<1>4. S \in SUBSET S /\ S \notin Bad
  BY <1>3
<1>. QED
  BY <1>1, <1>2, <1>4

-----------------------------------------------------------------------------
(* The counts *)

RowType ==
  [level: Levels, session: Session, ts: Nat, parent: Summary \cup {NoParent},
   lease: Lease, retries: Nat, count: Nat]
RunType == [level: Levels, sessions: SUBSET Session, batch: SUBSET Id]

\* Events are on level 0, summaries one above the rows they were made from, and
\* a run has rows of the level it works on.
Levelled ==
  /\ \A x \in Stored : rows[x].level = 0 <=> x \in Event
  /\ \A s \in Stored \cap Summary : \A x \in covers[s] : rows[x].level + 1 = rows[s].level
  /\ \A r \in Run : /\ \A x \in run[r].batch : rows[x].level = run[r].level
                    /\ run[r].level = 0 => run[r].sessions = {}

\* The parent of a row was made from it; it is its parent still, but for overruns.
Parented ==
  /\ \A x \in Stored : rows[x].parent # NoParent =>
       rows[x].parent \in Stored \cap Summary /\ x \in covers[rows[x].parent]
  /\ \A s \in Stored \cap Summary : \A x \in covers[s] \ overrun : rows[x].parent = s

\* A count is a number of events, or the sum of such counts.
CountsSum ==
  \A s \in Stored \cap Summary :
    rows[s].count = IF rows[s].level = 1 THEN Cardinality(covers[s])
                    ELSE TotalCount(rows, covers[s])

CountInv == IInv /\ TypeOK /\ IsFiniteSet(Stored) /\ Levelled /\ Parented /\ CountsSum

LEMMA RowsTyped ==
  ASSUME CountInv, NEW x \in Stored
  PROVE  x \in Id /\ rows[x] \in RowType
  BY DEF CountInv, TypeOK, RowType

LEMMA CoversFinite ==
  ASSUME CountInv, NEW s \in Stored \cap Summary
  PROVE  covers[s] \subseteq Stored /\ IsFiniteSet(covers[s])
<1>1. covers[s] \subseteq Stored
  BY DEF CountInv, IInv, CoveredLinked
<1>. QED
  BY <1>1, FS_Subset DEF CountInv

\* What a step may do to a run: it has rows of its level, and sessions above
\* level 0 only.
RunsFit ==
  /\ run' \in [Run -> RunType]
  /\ \A r \in Run : /\ \A x \in run'[r].batch : x \in Stored /\ rows[x].level = run'[r].level
                    /\ run'[r].level = 0 => run'[r].sessions = {}

\* The row is as it was but for its lease and its retries.
SameRow(x) ==
  /\ rows'[x] \in RowType
  /\ rows'[x].level = rows[x].level /\ rows'[x].parent = rows[x].parent
  /\ rows'[x].count = rows[x].count

LEMMA SameRowsCount ==
  ASSUME CountInv, IInv', Attempts', RunsFit, Stored' = Stored, \A x \in Stored : SameRow(x),
         covers' = covers, overrun \subseteq overrun', overrun' \subseteq Id,
         now' \in Nat, faults' \in Nat
  PROVE  CountInv'
<1>1. TypeOK'
  BY DEF CountInv, TypeOK, Attempts, RunsFit, RunType, SameRow, RowType
<1>2. Levelled'
  BY CoversFinite DEF CountInv, Levelled, SameRow, RunsFit
<1>3. Parented'
  BY CoversFinite DEF CountInv, Parented, SameRow
<1>4. ASSUME NEW s \in Stored \cap Summary
      PROVE  TotalCount(rows', covers[s]) = TotalCount(rows, covers[s])
  <2>1. \A x \in covers[s] : rows[x].count \in Nat /\ rows'[x].count = rows[x].count
    BY CoversFinite, RowsTyped DEF SameRow, RowType
  <2>. QED
    BY <2>1, CoversFinite, SumOfCounts
<1>5. CountsSum'
  BY <1>4 DEF CountInv, CountsSum, SameRow
<1>. QED
  BY <1>1, <1>2, <1>3, <1>5 DEF CountInv

LEMMA StoreCount ==
  ASSUME CountInv, IInv', Attempts', NEW e \in Event, store_infinite_event(e)
  PROVE  CountInv'
<1>1. e \notin Stored /\ e \notin Summary /\ e \in Id
  BY IdAssumption DEF store_infinite_event, Id
<1>2. /\ Stored' = Stored \cup {e}
      /\ \A x \in Stored : rows'[x] = rows[x]
      /\ rows'[e] = [level |-> 0, session |-> SessionOf[e], ts |-> now,
                     parent |-> NoParent, lease |-> "free", retries |-> 0, count |-> 1]
      /\ UNCHANGED <<run, now, covers, overrun, faults>>
  BY <1>1 DEF store_infinite_event, Stored
<1>3. rows'[e] \in RowType /\ rows'[e].level = 0 /\ rows'[e].parent = NoParent
  BY <1>2, TopBound, IdAssumption DEF RowType, Levels, Lease, CountInv, TypeOK
<1>4. Stored' \cap Summary = Stored \cap Summary
  BY <1>1, <1>2
<1>5. TypeOK'
  BY <1>1, <1>2, <1>3, <1>4 DEF CountInv, TypeOK, Attempts, RowType
<1>6. IsFiniteSet(Stored')
  BY <1>2, FS_AddElement DEF CountInv
<1>7. Levelled'
  <2>1. \A r \in Run : run[r].batch \subseteq Stored
    BY DEF CountInv, IInv, BatchesHeld
  <2>. QED
    BY <1>2, <1>3, <1>4, <2>1, CoversFinite DEF CountInv, Levelled
<1>8. Parented'
  BY <1>2, <1>3, <1>4, CoversFinite DEF CountInv, Parented
<1>9. ASSUME NEW s \in Stored \cap Summary
      PROVE  TotalCount(rows', covers[s]) = TotalCount(rows, covers[s])
  <2>1. \A x \in covers[s] : rows[x].count \in Nat /\ rows'[x].count = rows[x].count
    BY <1>2, CoversFinite, RowsTyped DEF RowType
  <2>. QED
    BY <2>1, CoversFinite, SumOfCounts
<1>10. CountsSum'
  BY <1>2, <1>4, <1>9 DEF CountInv, CountsSum
<1>. QED
  BY <1>5, <1>6, <1>7, <1>8, <1>10 DEF CountInv

\* The summary a window gets is typed, one level up, and counts what the window
\* counts.
LEMMA CreatedCounts ==
  ASSUME CountInv, NEW r \in Run, NEW B \in Buckets(run[r].batch, run[r].level)
  PROVE  /\ Created(B, run[r].level) \in RowType
         /\ Created(B, run[r].level).level = run[r].level + 1
         /\ Created(B, run[r].level).parent = NoParent
         /\ Created(B, run[r].level).count =
              IF run[r].level = 0 THEN Cardinality(B) ELSE TotalCount(rows, B)
<1>1. B \subseteq Stored /\ B # {} /\ run[r].batch # {}
  BY BucketPart DEF CountInv, IInv, BatchesHeld
<1>2. run[r].level \in Levels /\ run[r].level # Top
  BY <1>1 DEF CountInv, IInv, RunShape
<1>3. run[r].level \in {0, 1, 2} /\ run[r].level + 1 \in Levels
  BY <1>2, TopBound DEF Levels
<1>4. IsFiniteSet(B) /\ Cardinality(B) \in Nat
  BY <1>1, FS_Subset, FS_CardinalityType DEF CountInv
<1>5. TotalCount(rows, B) \in Nat
  <2>1. \A x \in B : rows[x].count \in Nat /\ rows[x].count = rows[x].count
    BY <1>1, RowsTyped DEF RowType
  <2>. QED
    BY <1>4, <2>1, SumOfCounts
<1>6. First(B) \in Nat
  <2> DEFINE T == {rows[x].ts : x \in B}
  <2>1. T \in SUBSET Nat /\ T # {}
    BY <1>1, RowsTyped DEF RowType
  <2> HIDE DEF T
  <2>2. \E n \in T : \A m \in T : n <= m
    BY <2>1, LeastNumber
  <2>3. Min(T) \in T
    BY <2>2 DEF Min
  <2>. QED
    BY <2>1, <2>3 DEF First, T
<1>7. rows[CHOOSE y \in B : TRUE].session \in Session
  BY <1>1, RowsTyped DEF RowType
<1> DEFINE count == IF run[r].level = 0 THEN Cardinality(B) ELSE TotalCount(rows, B)
<1>8. Created(B, run[r].level) = SummaryOf(B, run[r].level + 1, count)
  BY <1>3 DEF Created, create_5min_summary, create_hour_summary, create_day_summary, TotalCount
<1>9. count \in Nat
  BY <1>4, <1>5
<1> HIDE DEF count
<1>10. SummaryOf(B, run[r].level + 1, count) \in RowType
  BY <1>3, <1>6, <1>7, <1>9 DEF SummaryOf, RowType, Lease
<1>. QED
  BY <1>8, <1>10 DEF SummaryOf, count

\* The window B of run r has been summarized: the new row is linked to all of B.
LEMMA SummaryCount ==
  ASSUME CountInv, IInv', Attempts', RunsFit, NEW r \in Run,
         NEW B \in Buckets(run[r].batch, run[r].level),
         NEW s \in Summary \ Stored, Stored' = Stored \cup {s},
         rows'[s] = Created(B, run[r].level),
         \A x \in B : /\ rows'[x] \in RowType /\ rows'[x].parent = s
                      /\ rows'[x].level = rows[x].level /\ rows'[x].count = rows[x].count,
         \A x \in Stored \ B : rows'[x] = rows[x],
         Covered(B, s), overrun' = overrun, now' \in Nat, faults' \in Nat
  PROVE  CountInv'
<1>1. B \subseteq Stored /\ B \subseteq run[r].batch
  BY BucketPart DEF CountInv, IInv, BatchesHeld
<1>2. /\ \A t \in Stored \cap Summary : covers'[t] = covers[t]
      /\ covers'[s] = B /\ DOMAIN covers' = Stored' \cap Summary
  BY DEF Covered, CountInv, IInv, CoveredLinked
<1>3. s \in Id /\ s \notin Event /\ s # NoParent
  BY IdAssumption DEF Id, NoParent
<1>4. /\ rows'[s] \in RowType /\ rows'[s].level = run[r].level + 1
      /\ rows'[s].parent = NoParent
      /\ rows'[s].count = IF run[r].level = 0 THEN Cardinality(B) ELSE TotalCount(rows, B)
  BY CreatedCounts
<1>5. \A x \in Stored : /\ rows'[x] \in RowType /\ rows'[x].level = rows[x].level
                        /\ rows'[x].count = rows[x].count
  BY RowsTyped
<1>6. run[r].level \in Nat
  BY TopBound DEF CountInv, TypeOK, Levels
<1>7. TypeOK'
  <2>1. covers' \in [Stored' \cap Summary -> SUBSET Id]
    <3>1. covers' = [x \in Stored' \cap Summary |-> IF x = s THEN B ELSE covers[x]]
      BY DEF Covered, CountInv, IInv, CoveredLinked
    <3>. QED
      BY <1>1, <3>1 DEF CountInv, TypeOK
  <2>. QED
    BY <1>3, <1>4, <1>5, <2>1 DEF CountInv, TypeOK, Attempts, RunsFit, RunType, RowType
<1>8. IsFiniteSet(Stored')
  BY FS_AddElement DEF CountInv
<1>9. Levelled'
  <2>1. \A x \in Stored' : rows'[x].level = 0 <=> x \in Event
    BY <1>3, <1>4, <1>5, <1>6 DEF CountInv, Levelled
  <2>2. \A x \in B : rows'[x].level + 1 = rows'[s].level
    BY <1>1, <1>4, <1>5 DEF CountInv, Levelled
  <2>3. \A t \in Stored \cap Summary : \A x \in covers[t] : rows'[x].level + 1 = rows'[t].level
    BY <1>5, CoversFinite DEF CountInv, Levelled
  <2>. QED
    BY <1>2, <1>5, <2>1, <2>2, <2>3 DEF Levelled, RunsFit
<1>10. Parented'
  <2>1. ASSUME NEW x \in Stored', rows'[x].parent # NoParent
        PROVE  rows'[x].parent \in Stored' \cap Summary /\ x \in covers'[rows'[x].parent]
    <3>1. CASE x \in B
      BY <1>2, <3>1
    <3>2. CASE x \in Stored \ B
      BY <1>2, <2>1, <3>2 DEF CountInv, Parented
    <3>. QED
      BY <1>4, <2>1, <3>1, <3>2
  <2>2. ASSUME NEW t \in Stored \cap Summary, NEW x \in covers[t] \ overrun
        PROVE  rows'[x].parent = t
    <3>1. rows[x].parent = t /\ x \in Stored
      BY <2>2, CoversFinite DEF CountInv, Parented
    <3>2. t # NoParent
      BY IdAssumption DEF NoParent
    <3>3. x \notin B
      BY <1>1, <2>2, <3>1, <3>2 DEF CountInv, IInv, BatchesHeld
    <3>. QED
      BY <3>1, <3>3
  <2>. QED
    BY <1>2, <2>1, <2>2 DEF Parented
<1>11. CountsSum'
  <2>1. ASSUME NEW S, S \subseteq Stored
        PROVE  TotalCount(rows', S) = TotalCount(rows, S)
    <3>1. IsFiniteSet(S)
      BY <2>1, FS_Subset DEF CountInv
    <3>2. \A x \in S : rows[x].count \in Nat /\ rows'[x].count = rows[x].count
      BY <1>5, <2>1, RowsTyped DEF RowType
    <3>. QED
      BY <3>1, <3>2, SumOfCounts
  <2>2. rows'[s].count = IF rows'[s].level = 1 THEN Cardinality(covers'[s])
                         ELSE TotalCount(rows', covers'[s])
    BY <1>1, <1>2, <1>4, <1>6, <2>1
  <2>3. ASSUME NEW t \in Stored \cap Summary
        PROVE  rows'[t].count = IF rows'[t].level = 1 THEN Cardinality(covers'[t])
                                ELSE TotalCount(rows', covers'[t])
    BY <1>2, <1>5, <2>1, CoversFinite DEF CountInv, CountsSum
  <2>. QED
    BY <2>2, <2>3 DEF CountsSum
<1>. QED
  BY <1>7, <1>8, <1>9, <1>10, <1>11 DEF CountInv

\* A run is done with a window, or has nothing in hand.
LEMMA HandledFits ==
  ASSUME CountInv, NEW r \in Run, NEW B, Handled(r, B)
  PROVE  RunsFit
<1>1. run \in [Run -> RunType]
  BY DEF CountInv, TypeOK, RunType
<1> DEFINE rest == run[r].batch \ B
<1>2. rest \in SUBSET Id /\ rest \subseteq run[r].batch
  BY <1>1 DEF RunType
<1>3. run' = [run EXCEPT ![r] = [run[r] EXCEPT !.batch = rest]]
  BY <1>1 DEF Handled
<1> HIDE DEF rest
<1> DEFINE new == [run[r] EXCEPT !.batch = rest]
<1>4. /\ new \in RunType /\ new.batch = rest /\ new.level = run[r].level
      /\ new.sessions = run[r].sessions
  BY <1>1, <1>2 DEF RunType
<1> HIDE DEF new
<1>5. run' = [run EXCEPT ![r] = new]
  BY <1>3 DEF new
<1>6. \A q \in Run : /\ run'[q].batch \subseteq run[q].batch /\ run'[q].level = run[q].level
                     /\ run'[q].sessions = run[q].sessions
  BY <1>1, <1>2, <1>4, <1>5
<1>7. \A q \in Run : run[q].batch \subseteq Stored
  BY DEF CountInv, IInv, BatchesHeld
<1>. QED
  BY <1>1, <1>4, <1>5, <1>6, <1>7 DEF RunsFit, CountInv, Levelled

LEMMA RunFits ==
  ASSUME CountInv, NEW r \in Run, NEW new \in RunType, run' = [run EXCEPT ![r] = new],
         \A x \in new.batch : x \in Stored /\ rows[x].level = new.level,
         new.level = 0 => new.sessions = {}
  PROVE  RunsFit
<1>1. run \in [Run -> RunType]
  BY DEF CountInv, TypeOK, RunType
<1>2. \A q \in Run : run[q].batch \subseteq Stored
  BY DEF CountInv, IInv, BatchesHeld
<1>. QED
  BY <1>1, <1>2 DEF RunsFit, CountInv, Levelled

LEMMA SameRun ==
  ASSUME CountInv, run' = run
  PROVE  RunsFit
<1>1. \A q \in Run : run[q].batch \subseteq Stored
  BY DEF CountInv, IInv, BatchesHeld
<1>. QED
  BY <1>1 DEF RunsFit, CountInv, TypeOK, RunType, Levelled

\* Claims and releases leave all but leases and retries alone.
LEMMA ClaimedSame ==
  ASSUME CountInv, NEW S, rows' = Claimed(S)
  PROVE  Stored' = Stored /\ \A x \in Stored : SameRow(x)
<1>1. Stored' = Stored
  BY DEF Claimed, Stored
<1>2. ASSUME NEW x \in Stored PROVE SameRow(x)
  <2>1. rows[x] \in RowType
    BY RowsTyped
  <2>2. rows'[x] = rows[x] \/ rows'[x] = [rows[x] EXCEPT !.lease = "held"]
    BY DEF Claimed
  <2>. QED
    BY <2>1, <2>2 DEF SameRow, RowType, Lease
<1>. QED
  BY <1>1, <1>2

LEMMA RetriedRow ==
  ASSUME NEW row \in RowType
  PROVE  LET new == [row EXCEPT !.lease = "held", !.retries = row.retries + 1]
         IN  /\ new \in RowType /\ new.level = row.level
             /\ new.parent = row.parent /\ new.count = row.count
<1> DEFINE more == row.retries + 1
<1>1. more \in Nat
  BY DEF RowType
<1> HIDE DEF more
<1> DEFINE new == [row EXCEPT !.lease = "held", !.retries = more]
<1>2. /\ new \in RowType /\ new.level = row.level
      /\ new.parent = row.parent /\ new.count = row.count
  BY <1>1 DEF RowType, Lease
<1>. QED
  BY <1>2 DEF more

LEMMA ReleasedRow ==
  ASSUME NEW row \in RowType, NEW B, NEW increment_retry \in BOOLEAN,
         NEW x \in B \cap Stored, row = rows[x]
  PROVE  /\ Released(B, increment_retry)[x] \in RowType
         /\ Released(B, increment_retry)[x].level = row.level
         /\ Released(B, increment_retry)[x].parent = row.parent
         /\ Released(B, increment_retry)[x].count = row.count
<1>1. CASE increment_retry
  <2>1. Released(B, increment_retry)[x] =
          [row EXCEPT !.lease = "held", !.retries = row.retries + 1]
    BY <1>1 DEF Released
  <2>. QED
    BY <2>1, RetriedRow
<1>2. CASE ~increment_retry
  <2>1. Released(B, increment_retry)[x] = [row EXCEPT !.lease = "free"]
    BY <1>2 DEF Released
  <2>. QED
    BY <2>1 DEF RowType, Lease
<1>. QED
  BY <1>1, <1>2

LEMMA ReleasedSame ==
  ASSUME CountInv, NEW B, NEW increment_retry \in BOOLEAN, rows' = Released(B, increment_retry)
  PROVE  Stored' = Stored /\ \A x \in Stored : SameRow(x)
<1>1. Stored' = Stored
  BY DEF Released, Stored
<1>2. ASSUME NEW x \in Stored PROVE SameRow(x)
  <2>1. CASE x \in B
    BY <2>1, RowsTyped, ReleasedRow DEF SameRow
  <2>2. CASE x \notin B
    <3>1. rows'[x] = rows[x]
      BY <2>2 DEF Released
    <3>. QED
      BY <3>1, RowsTyped DEF SameRow
  <2>. QED
    BY <2>1, <2>2
<1>. QED
  BY <1>1, <1>2

LEMMA FaultTyped ==
  ASSUME CountInv, Fault \/ UNCHANGED faults
  PROVE  faults' \in Nat
  BY DEF CountInv, TypeOK, Fault

LEMMA StartCount ==
  ASSUME CountInv, IInv', Attempts', NEW r \in Run, Start(r)
  PROVE  CountInv'
<1> DEFINE S == get_unsummarized_infinite_events
<1> DEFINE new == [level |-> 0, sessions |-> {}, batch |-> S]
<1>1. S \subseteq Stored /\ \A x \in S : rows[x].level = 0
  BY DEF get_unsummarized_infinite_events, Claimable
<1>2. new \in RunType /\ run' = [run EXCEPT ![r] = new]
  BY <1>1, TopBound DEF RunType, Levels, Start, CountInv, TypeOK
<1>3. RunsFit
  BY <1>1, <1>2, RunFits
<1>4. Stored' = Stored /\ \A x \in Stored : SameRow(x)
  BY ClaimedSame DEF Start
<1>5. UNCHANGED <<now, covers, overrun, faults>>
  BY DEF Start
<1>. QED
  BY <1>3, <1>4, <1>5, SameRowsCount DEF CountInv, TypeOK

LEMMA ClaimSessionCount ==
  ASSUME CountInv, IInv', Attempts', NEW r \in Run, ClaimSession(r)
  PROVE  CountInv'
<1>1. PICK s \in run[r].sessions :
      /\ run[r].level < Top
      /\ LET S == IF run[r].level = 1 THEN get_unaggregated_5min_for_session(s)
                  ELSE get_unaggregated_hour_for_session(s)
         IN /\ rows' = Claimed(S)
            /\ run' = [run EXCEPT ![r].sessions = @ \ {s}, ![r].batch = S]
      /\ UNCHANGED <<now, covers, overrun, faults>>
  BY DEF ClaimSession
<1> DEFINE S == IF run[r].level = 1 THEN get_unaggregated_5min_for_session(s)
                ELSE get_unaggregated_hour_for_session(s)
<1>2. run \in [Run -> RunType] /\ run[r].level \in Levels
  BY DEF CountInv, TypeOK, RunType
<1>3. run[r].level # 0
  BY <1>1 DEF CountInv, Levelled
<1>4. run[r].level \in {1, 2}
  BY <1>1, <1>2, <1>3, TopBound DEF Levels
<1>5. S \subseteq Stored /\ \A x \in S : rows[x].level = run[r].level
  BY <1>4 DEF get_unaggregated_5min_for_session, get_unaggregated_hour_for_session, Claimable
<1> DEFINE rest == run[r].sessions \ {s}
<1>6. rows' = Claimed(S) /\ run' = [run EXCEPT ![r] = [run[r] EXCEPT !.sessions = rest, !.batch = S]]
  BY <1>1, <1>2
<1>7. S \in SUBSET Id /\ rest \in SUBSET Session
  BY <1>2, <1>5 DEF RunType, CountInv, TypeOK
<1> HIDE DEF S, rest
<1> DEFINE new == [run[r] EXCEPT !.sessions = rest, !.batch = S]
<1>8. new \in RunType /\ new.batch = S /\ new.level = run[r].level
  BY <1>2, <1>7 DEF RunType
<1> HIDE DEF new
<1>9. run' = [run EXCEPT ![r] = new]
  BY <1>6 DEF new
<1>10. RunsFit
  BY <1>3, <1>5, <1>8, <1>9, RunFits
<1>11. Stored' = Stored /\ \A x \in Stored : SameRow(x)
  BY <1>6, ClaimedSame
<1>. QED
  BY <1>1, <1>10, <1>11, SameRowsCount DEF CountInv, TypeOK

LEMMA RunMovesCount ==
  ASSUME CountInv, IInv', Attempts', NEW r \in Run, NextLevel(r) \/ Abort(r)
  PROVE  CountInv'
<1>1. run[r] \in RunType /\ UNCHANGED <<rows, now, covers, overrun>> /\ faults' \in Nat
  BY FaultTyped DEF CountInv, TypeOK, RunType, NextLevel, Abort, Lapse
<1>2. Top \in Levels /\ Top # 0
  BY TopBound DEF Levels
<1>3. RunsFit
  <2>1. CASE run' = [run EXCEPT ![r] = Idle]
    <3>1. Idle \in RunType /\ Idle.batch = {} /\ Idle.level # 0
      BY <1>2 DEF RunType, Idle
    <3>. QED
      BY <2>1, <3>1, RunFits
  <2>2. CASE NextLevel(r) /\ run[r].level + 1 # Top
    <3> DEFINE X == IF run[r].level + 1 = 1 THEN get_sessions_with_unaggregated_5min
                    ELSE get_sessions_with_unaggregated_hour
    <3> DEFINE new == [level |-> run[r].level + 1, batch |-> {}, sessions |-> X]
    <3>1. X \subseteq Session
      BY RowsTyped DEF RowType, get_sessions_with_unaggregated_5min,
         get_sessions_with_unaggregated_hour
    <3>2. run[r].level + 1 \in Levels /\ run[r].level + 1 # 0
      BY <1>1, <2>2, TopBound DEF NextLevel, Levels, RunType
    <3>3. new \in RunType
      BY <3>1, <3>2 DEF RunType
    <3>4. run' = [run EXCEPT ![r] = new]
      BY <2>2 DEF NextLevel
    <3> HIDE DEF X
    <3>. QED
      BY <3>2, <3>3, <3>4, RunFits
  <2>. QED
    BY <2>1, <2>2 DEF NextLevel, Abort
<1>4. Stored' = Stored /\ \A x \in Stored : SameRow(x)
  BY <1>1, RowsTyped DEF Stored, SameRow
<1>. QED
  BY <1>1, <1>3, <1>4, SameRowsCount DEF CountInv, TypeOK

LEMMA ReleasesCount ==
  ASSUME CountInv, IInv', Attempts', NEW r \in Run, CompressFails(r) \/ ReleaseFails(r) \/ NotYet(r)
  PROVE  CountInv'
<1>1. PICK B \in Buckets(run[r].batch, run[r].level) :
        /\ Handled(r, B) /\ UNCHANGED <<now, covers, overrun>>
        /\ rows' = rows \/ \E increment_retry \in BOOLEAN : rows' = Released(B, increment_retry)
  BY DEF CompressFails, ReleaseFails, NotYet
<1>2. faults' \in Nat
  <2>1. Fault \/ UNCHANGED faults
    BY DEF CompressFails, ReleaseFails, NotYet, Lapse
  <2>. QED
    BY <2>1, FaultTyped
<1>3. RunsFit
  BY <1>1, HandledFits
<1>4. Stored' = Stored /\ \A x \in Stored : SameRow(x)
  <2>1. CASE rows' = rows
    BY <2>1, RowsTyped DEF Stored, SameRow
  <2>2. CASE rows' # rows
    BY <1>1, <2>2, ReleasedSame
  <2>. QED
    BY <2>1, <2>2
<1>. QED
  BY <1>1, <1>2, <1>3, <1>4, SameRowsCount DEF CountInv, TypeOK

\* Linked to its summary, with or without the release that follows a lost answer.
LEMMA LinkedRow ==
  ASSUME NEW row \in RowType, NEW s \in Summary
  PROVE  /\ [row EXCEPT !.parent = s] \in RowType
         /\ [row EXCEPT !.parent = s].parent = s
         /\ [row EXCEPT !.parent = s].level = row.level
         /\ [row EXCEPT !.parent = s].count = row.count
  BY DEF RowType

LEMMA CompressCount ==
  ASSUME CountInv, IInv', Attempts', NEW r \in Run, Compress(r)
  PROVE  CountInv'
<1>1. PICK B \in Buckets(run[r].batch, run[r].level) :
        /\ Summary \ Stored # {}
        /\ rows' = Summarized(B, run[r].level, FreshSummary)
        /\ Covered(B, FreshSummary) /\ Handled(r, B)
        /\ UNCHANGED <<now, overrun, faults>>
  BY DEF Compress
<1> DEFINE s == FreshSummary
<1>2. s \in Summary \ Stored
  BY <1>1, Fresh
<1>3. B \subseteq Stored
  BY BucketPart DEF CountInv, IInv, BatchesHeld
<1>4. /\ Stored' = Stored \cup {s} /\ rows'[s] = Created(B, run[r].level)
      /\ \A x \in B : rows'[x] = [rows[x] EXCEPT !.parent = s]
      /\ \A x \in Stored \ B : rows'[x] = rows[x]
  BY <1>1, <1>2, <1>3 DEF Summarized, Linked, Stored
<1> HIDE DEF s
<1>5. ASSUME NEW x \in B
      PROVE  /\ rows'[x] \in RowType /\ rows'[x].parent = s
             /\ rows'[x].level = rows[x].level /\ rows'[x].count = rows[x].count
  <2>1. rows[x] \in RowType /\ s \in Summary
    BY <1>2, <1>3, RowsTyped
  <2>2. rows'[x] = [rows[x] EXCEPT !.parent = s]
    BY <1>4
  <2>. QED
    BY <2>1, <2>2, LinkedRow
<1>6. RunsFit
  BY <1>1, HandledFits
<1>7. Covered(B, s) /\ overrun' = overrun /\ now' \in Nat /\ faults' \in Nat
  BY <1>1 DEF s, CountInv, TypeOK
<1>. QED
  BY <1>2, <1>4, <1>5, <1>6, <1>7, SummaryCount

LEMMA AnswerLostCount ==
  ASSUME CountInv, IInv', Attempts', NEW r \in Run, AnswerLost(r)
  PROVE  CountInv'
<1>1. PICK B \in Buckets(run[r].batch, run[r].level) :
        /\ Summary \ Stored # {}
        /\ Fault /\ Handled(r, B)
        /\ rows' = [x \in Stored \cup {FreshSummary} |->
                      IF x \in B
                      THEN [Released(B, TRUE)[x] EXCEPT !.parent = FreshSummary]
                      ELSE Summarized(B, run[r].level, FreshSummary)[x]]
        /\ Covered(B, FreshSummary)
        /\ UNCHANGED <<now, overrun>>
  BY DEF AnswerLost
<1> DEFINE s == FreshSummary
<1>2. s \in Summary \ Stored
  BY <1>1, Fresh
<1>3. B \subseteq Stored
  BY BucketPart DEF CountInv, IInv, BatchesHeld
<1>4. /\ Stored' = Stored \cup {s} /\ rows'[s] = Created(B, run[r].level)
      /\ \A x \in B : rows'[x] = [Released(B, TRUE)[x] EXCEPT !.parent = s]
      /\ \A x \in Stored \ B : rows'[x] = rows[x]
  <2>1. Stored' = Stored \cup {s}
    BY <1>1 DEF Stored
  <2>2. rows'[s] = Created(B, run[r].level)
    BY <1>1, <1>2, <1>3 DEF Summarized
  <2>3. \A x \in B : rows'[x] = [Released(B, TRUE)[x] EXCEPT !.parent = s]
    BY <1>1, <1>3
  <2>4. \A x \in Stored \ B : rows'[x] = rows[x]
    BY <1>1, <1>2 DEF Summarized, Linked
  <2>. QED
    BY <2>1, <2>2, <2>3, <2>4
<1> HIDE DEF s
<1>5. ASSUME NEW x \in B
      PROVE  /\ rows'[x] \in RowType /\ rows'[x].parent = s
             /\ rows'[x].level = rows[x].level /\ rows'[x].count = rows[x].count
  <2> DEFINE row == Released(B, TRUE)[x]
  <2>1. row \in RowType /\ row.level = rows[x].level /\ row.count = rows[x].count
    <3>1. x \in Stored /\ rows[x] \in RowType
      BY <1>3, RowsTyped
    <3>2. row = [rows[x] EXCEPT !.lease = "held", !.retries = rows[x].retries + 1]
      BY <3>1 DEF Released
    <3> HIDE DEF row
    <3>. QED
      BY <3>1, <3>2, RetriedRow
  <2>2. rows'[x] = [row EXCEPT !.parent = s]
    BY <1>4
  <2> HIDE DEF row
  <2>. QED
    BY <1>2, <2>1, <2>2, LinkedRow
<1>6. RunsFit
  BY <1>1, HandledFits
<1>7. Covered(B, s) /\ overrun' = overrun /\ now' \in Nat /\ faults' \in Nat
  BY <1>1, FaultTyped DEF s, CountInv, TypeOK
<1>. QED
  BY <1>2, <1>4, <1>5, <1>6, <1>7, SummaryCount

LEMMA TimeCount ==
  ASSUME CountInv, IInv', Attempts', Tick \/ \E x \in Id : Over(x)
  PROVE  CountInv'
<1>1. run' = run /\ covers' = covers /\ now' \in Nat /\ faults' \in Nat
  BY DEF Tick, Over, Lapse, Fault, CountInv, TypeOK
<1>2. overrun \subseteq overrun' /\ overrun' \subseteq Id
  BY DEF Tick, Over, CountInv, TypeOK
<1>3. Stored' = Stored /\ \A x \in Stored : SameRow(x)
  <2>1. CASE rows' = rows
    BY <2>1, RowsTyped DEF Stored, SameRow
  <2>2. ASSUME NEW x \in Id, Over(x)
        PROVE  Stored' = Stored /\ \A y \in Stored : SameRow(y)
    <3>1. Stored' = Stored /\ rows' = [rows EXCEPT ![x] = [rows[x] EXCEPT !.lease = "over"]]
      BY <2>2 DEF Over, Stored
    <3>2. \A y \in Stored : rows'[y] = rows[y] \/ rows'[y] = [rows[y] EXCEPT !.lease = "over"]
      BY <3>1 DEF Stored
    <3>3. ASSUME NEW y \in Stored PROVE SameRow(y)
      <4>1. rows[y] \in RowType
        BY RowsTyped
      <4>. QED
        BY <3>2, <4>1 DEF SameRow, RowType, Lease
    <3>. QED
      BY <3>1, <3>3
  <2>. QED
    BY <2>1, <2>2 DEF Tick
<1>4. RunsFit
  BY <1>1, SameRun
<1>. QED
  BY <1>1, <1>2, <1>3, <1>4, SameRowsCount

LEMMA StutterCount ==
  ASSUME CountInv, IInv', Attempts', UNCHANGED vars
  PROVE  CountInv'
<1>1. Stored' = Stored /\ \A x \in Stored : SameRow(x)
  BY RowsTyped DEF Stored, SameRow, vars
<1>. QED
  BY <1>1, SameRun, SameRowsCount DEF CountInv, TypeOK, vars

LEMMA CountInductive == Spec => []CountInv
<1>1. Init => CountInv
  <2>1. SUFFICES ASSUME Init PROVE CountInv
    OBVIOUS
  <2>2. IInv
    BY <2>1, InitInv
  <2>3. Stored = {} /\ IsFiniteSet(Stored)
    BY <2>1, FS_EmptySet DEF Init, Stored, Empty
  <2>4. Idle \in RunType /\ Top # 0
    BY TopBound DEF Idle, RunType, Levels
  <2>5. TypeOK
    BY <2>1, <2>3, <2>4 DEF Init, TypeOK, RunType, Empty
  <2>6. Levelled /\ Parented /\ CountsSum
    BY <2>1, <2>3, <2>4 DEF Init, Levelled, Parented, CountsSum, Idle
  <2>. QED
    BY <2>2, <2>3, <2>5, <2>6 DEF CountInv
<1>2. ASSUME CountInv, [Next]_vars PROVE CountInv'
  <2>1. IInv'
    BY <1>2, NextInv DEF CountInv
  <2>2. Attempts'
    BY <1>2, AttemptsTyped DEF CountInv, TypeOK, Attempts
  <2>3. ASSUME NEW r \in Run, Step(r) \/ Abort(r) PROVE CountInv'
    BY <1>2, <2>1, <2>2, <2>3, StartCount, ClaimSessionCount, RunMovesCount, ReleasesCount,
       CompressCount, AnswerLostCount DEF Step
  <2>. QED
    BY <1>2, <2>1, <2>2, <2>3, StoreCount, TimeCount, StutterCount DEF Next
<1>. QED
  BY <1>1, <1>2, PTL DEF Spec

\* What a reader finds: the children of a summary are the rows it was made from.
LEMMA Children ==
  ASSUME CountInv, NEW s \in Stored \cap Summary, covers[s] \cap overrun = {},
         NEW level, rows[s].level = level + 1, level \in Nat
  PROVE  {x \in Stored : rows[x].level = level /\ rows[x].parent = s} = covers[s]
<1>1. s # NoParent
  BY IdAssumption DEF NoParent
<1>2. \A x \in Stored : rows[x].parent = s => x \in covers[s]
  BY <1>1 DEF CountInv, Parented
<1>3. \A x \in covers[s] : x \in Stored /\ rows[x].parent = s
  BY CoversFinite DEF CountInv, Parented
<1>4. \A x \in covers[s] : rows[x].level = level
  BY <1>3, RowsTyped, TopBound DEF CountInv, Levelled, RowType, Levels
<1>. QED
  BY <1>2, <1>3, <1>4

LEMMA FiveMinutes ==
  ASSUME CountInv, NEW s \in Stored \cap Summary, rows[s].level = 1, covers[s] \cap overrun = {}
  PROVE  /\ get_infinite_events_by_summary_id(s) = covers[s]
         /\ IsFiniteSet(covers[s]) /\ Cardinality(covers[s]) = rows[s].count
<1>1. get_infinite_events_by_summary_id(s) = covers[s]
  BY Children DEF get_infinite_events_by_summary_id
<1>. QED
  BY <1>1, CoversFinite DEF CountInv, CountsSum

LEMMA Hours ==
  ASSUME CountInv, NEW s \in Stored \cap Summary, rows[s].level = 2,
         MadeFrom(covers[s]) \cap overrun = {}
  PROVE  /\ get_5min_summaries_by_hour_id(s) = covers[s]
         /\ IsFiniteSet(EventsOfHours({s})) /\ Cardinality(EventsOfHours({s})) = rows[s].count
         /\ \A t \in covers[s] : t \in Stored \cap Summary /\ rows[t].level = 1
<1>1. covers[s] \cap overrun = {} /\ \A t \in covers[s] \cap Summary : covers[t] \cap overrun = {}
  BY DEF MadeFrom
<1>2. get_5min_summaries_by_hour_id(s) = covers[s]
  BY <1>1, Children DEF get_5min_summaries_by_hour_id
<1>3. ASSUME NEW t \in covers[s] PROVE t \in Stored \cap Summary /\ rows[t].level = 1
  <2>1. t \in Stored /\ rows[t].level = 1
    BY <1>2 DEF get_5min_summaries_by_hour_id
  <2>. QED
    BY <2>1, RowsTyped DEF CountInv, Levelled, Id
<1> DEFINE part == [t \in covers[s] |-> get_infinite_events_by_summary_id(t)]
<1>4. \A t \in covers[s] : IsFiniteSet(part[t]) /\ Cardinality(part[t]) = rows[t].count
  BY <1>1, <1>3, FiveMinutes
<1>5. \A t, u \in covers[s] : t # u => part[t] \cap part[u] = {}
  BY DEF get_infinite_events_by_summary_id
<1>6. EventsOfHours({s}) = UNION {part[t] : t \in covers[s]}
  BY <1>2 DEF EventsOfHours, EventsOf5min
<1> HIDE DEF part
<1>7. /\ IsFiniteSet(EventsOfHours({s}))
      /\ Cardinality(EventsOfHours({s})) = TotalCount(rows, covers[s])
  <2>1. IsFiniteSet(covers[s])
    BY CoversFinite
  <2>2. /\ IsFiniteSet(UNION {part[t] : t \in covers[s]})
        /\ Cardinality(UNION {part[t] : t \in covers[s]}) = TotalCount(rows, covers[s])
    BY <1>4, <1>5, <2>1, SumOfParts
  <2>. QED
    BY <1>6, <2>2
<1>8. rows[s].count = TotalCount(rows, covers[s])
  BY DEF CountInv, CountsSum
<1>. QED
  BY <1>2, <1>3, <1>7, <1>8

LEMMA Days ==
  ASSUME CountInv, NEW s \in Stored \cap Summary, rows[s].level = 3,
         Sources(s) \cap overrun = {}
  PROVE  Cardinality(EventsOfHours(get_hour_summaries_by_day_id(s))) = rows[s].count
<1>1. /\ covers[s] \cap overrun = {}
      /\ \A h \in covers[s] \cap Summary : MadeFrom(covers[h]) \cap overrun = {}
  BY DEF Sources, MadeFrom
<1>2. get_hour_summaries_by_day_id(s) = covers[s]
  <2>1. rows[s].level = 2 + 1 /\ 2 \in Nat
    OBVIOUS
  <2>2. {x \in Stored : rows[x].level = 2 /\ rows[x].parent = s} = covers[s]
    BY <1>1, <2>1, Children
  <2>. QED
    BY <2>2 DEF get_hour_summaries_by_day_id
<1>3. ASSUME NEW h \in covers[s] PROVE h \in Stored \cap Summary /\ rows[h].level = 2
  <2>1. h \in Stored /\ rows[h].level = 2
    BY <1>2 DEF get_hour_summaries_by_day_id
  <2>. QED
    BY <2>1, RowsTyped DEF CountInv, Levelled, Id
<1> DEFINE part == [h \in covers[s] |-> EventsOfHours({h})]
<1>4. \A h \in covers[s] : IsFiniteSet(part[h]) /\ Cardinality(part[h]) = rows[h].count
  BY <1>1, <1>3, Hours
<1>5. \A h, k \in covers[s] : h # k => part[h] \cap part[k] = {}
  BY DEF EventsOfHours, EventsOf5min, get_infinite_events_by_summary_id,
     get_5min_summaries_by_hour_id
<1>6. EventsOfHours(covers[s]) = UNION {part[h] : h \in covers[s]}
  <2>1. \A h \in covers[s] :
          part[h] = UNION {get_infinite_events_by_summary_id(t) : t \in get_5min_summaries_by_hour_id(h)}
    BY DEF EventsOfHours, EventsOf5min
  <2>2. EventsOfHours(covers[s]) =
          UNION {get_infinite_events_by_summary_id(t) :
                   t \in UNION {get_5min_summaries_by_hour_id(h) : h \in covers[s]}}
    BY DEF EventsOfHours, EventsOf5min
  <2> HIDE DEF part
  <2>. QED
    BY <2>1, <2>2
<1> HIDE DEF part
<1>7. Cardinality(EventsOfHours(covers[s])) = TotalCount(rows, covers[s])
  <2>1. IsFiniteSet(covers[s])
    BY CoversFinite
  <2>2. Cardinality(UNION {part[h] : h \in covers[s]}) = TotalCount(rows, covers[s])
    BY <1>4, <1>5, <2>1, SumOfParts
  <2>. QED
    BY <1>6, <2>2
<1>8. rows[s].count = TotalCount(rows, covers[s])
  BY DEF CountInv, CountsSum
<1>. QED
  BY <1>2, <1>7, <1>8

(* For any numbers of runs, events and summaries: the event_count of a     *)
(* summary is the number of events found by drilling down from it, through *)
(* retries, crashes and lost answers, unless a lease below was overrun.    *)
THEOREM CountsAreRight == Spec => []CountsAgree
<1>1. ASSUME CountInv, NEW s \in Stored \cap Summary, Sources(s) \cap overrun = {}
      PROVE  rows[s].count = Cardinality(EventsBelow(s))
  <2>1. rows[s].level \in {1, 2, 3}
    BY <1>1, RowsTyped, IdAssumption, TopBound DEF CountInv, Levelled, RowType, Levels
  <2>2. CASE rows[s].level = 1
    <3>1. covers[s] \cap overrun = {}
      BY <1>1 DEF Sources, MadeFrom
    <3>2. EventsBelow(s) = get_infinite_events_by_summary_id(s)
      BY <2>2 DEF EventsBelow, EventsOf5min
    <3>. QED
      BY <1>1, <2>2, <3>1, <3>2, FiveMinutes
  <2>3. CASE rows[s].level = 2
    <3>1. MadeFrom(covers[s]) \cap overrun = {}
      BY <1>1 DEF Sources, MadeFrom
    <3>2. EventsBelow(s) = EventsOfHours({s})
      BY <2>3 DEF EventsBelow
    <3>. QED
      BY <1>1, <2>3, <3>1, <3>2, Hours
  <2>4. CASE rows[s].level = 3
    <3>1. EventsBelow(s) = EventsOfHours(get_hour_summaries_by_day_id(s))
      BY <2>4 DEF EventsBelow
    <3>. QED
      BY <1>1, <2>4, <3>1, Days
  <2>. QED
    BY <2>1, <2>2, <2>3, <2>4
<1>2. CountInv => CountsAgree
  BY <1>1 DEF CountInv, IInv, CountsAgree
<1>. QED
  BY <1>2, CountInductive, PTL

-----------------------------------------------------------------------------
(* The refinement of Digest *)

\* Whatever is done to the lease, the retries and the parent of a row, a reader
\* sees the same item.
Seen(row) == [level |-> row.level, session |-> row.session, ts |-> row.ts]

LEMMA SeenKept ==
  ASSUME NEW row \in RowType, NEW new, NEW lease, NEW retries, NEW parent,
         \/ new = row
         \/ new = [row EXCEPT !.lease = lease]
         \/ new = [row EXCEPT !.parent = parent]
         \/ new = [row EXCEPT !.lease = lease, !.retries = retries]
  PROVE  Seen(new) = Seen(row)
  BY DEF RowType, Seen

LEMMA DigestStutters ==
  ASSUME Stored' = Stored, \A x \in Stored : Seen(rows'[x]) = Seen(rows[x]),
         UNCHANGED <<covers, overrun, now>>
  PROVE  UNCHANGED DG!vars
<1>1. \A x \in Stored : Item(x)' = Item(x)
  BY DEF Item, Seen
<1>. QED
  BY <1>1 DEF DG!vars

\* The items a row is added to.
LEMMA DigestAdds ==
  ASSUME NEW x, x \notin Stored, Stored' = Stored \cup {x},
         \A y \in Stored : Seen(rows'[y]) = Seen(rows[y]),
         NEW item, Seen(rows'[x]) = item
  PROVE  DG!Adds(x, item)
<1>1. \A y \in Stored : Item(y)' = Item(y)
  BY DEF Item, Seen
<1>2. Item(x)' = item
  BY DEF Item, Seen
<1>3. [y \in Stored |-> Item(y)]' =
        [y \in Stored \cup {x} |-> IF y = x THEN item ELSE [z \in Stored |-> Item(z)][y]]
  BY <1>1, <1>2
<1>. QED
  BY <1>3 DEF DG!Adds, DG!Items

LEMMA StoreIsArrival ==
  ASSUME CountInv, NEW e \in Event, store_infinite_event(e)
  PROVE  DG!Arrive(e)
<1>1. /\ e \notin Stored /\ Stored' = Stored \cup {e}
      /\ \A x \in Stored : rows'[x] = rows[x]
      /\ rows'[e] = [level |-> 0, session |-> SessionOf[e], ts |-> now,
                     parent |-> NoParent, lease |-> "free", retries |-> 0, count |-> 1]
      /\ UNCHANGED <<now, covers, overrun>>
  BY DEF store_infinite_event, Stored
<1>2. Seen(rows'[e]) = [level |-> 0, session |-> SessionOf[e], ts |-> now]
  BY <1>1 DEF Seen
<1>3. DG!Adds(e, [level |-> 0, session |-> SessionOf[e], ts |-> now])
  BY <1>1, <1>2, DigestAdds
<1>. QED
  BY <1>1, <1>3 DEF DG!Arrive

\* A window has a first row, is of one session, and stands for one span of time.
LEMMA BucketAlike ==
  ASSUME CountInv, NEW r \in Run, NEW B \in Buckets(run[r].batch, run[r].level)
  PROVE  /\ run[r].level \in Levels /\ run[r].level < Top
         /\ B \subseteq Stored /\ B # {}
         /\ \A x \in B : rows[x].level = run[r].level
         /\ \A x, y \in B : /\ rows[x].session = rows[y].session
                            /\ Window(x, run[r].level) = Window(y, run[r].level)
         /\ \E x \in B : /\ First(B) = rows[x].ts
                         /\ \A y \in B : rows[x].ts <= rows[y].ts
<1>1. B \subseteq run[r].batch /\ B \subseteq Stored /\ B # {}
  BY BucketPart DEF CountInv, IInv, BatchesHeld
<1>2. run[r].level \in Levels /\ run[r].level < Top
  BY <1>1, TopBound DEF CountInv, IInv, RunShape, Levels
<1>3. \A x \in B : rows[x].level = run[r].level
  BY <1>1 DEF CountInv, Levelled
<1>4. \A x, y \in B : /\ rows[x].session = rows[y].session
                      /\ Window(x, run[r].level) = Window(y, run[r].level)
  BY DEF Buckets
<1>5. \E x \in B : First(B) = rows[x].ts /\ \A y \in B : rows[x].ts <= rows[y].ts
  <2> DEFINE T == {rows[x].ts : x \in B}
  <2>1. T \in SUBSET Nat /\ T # {}
    BY <1>1, RowsTyped DEF RowType
  <2> HIDE DEF T
  <2>2. \E n \in T : \A m \in T : n <= m
    BY <2>1, LeastNumber
  <2>3. Min(T) \in T /\ \A m \in T : Min(T) <= m
    BY <2>2 DEF Min
  <2>. QED
    BY <2>3 DEF First, T
<1>. QED
  BY <1>1, <1>2, <1>3, <1>4, <1>5

\* The row of a new summary stands a level above its window, at its start.
LEMMA CreatedSeen ==
  ASSUME CountInv, NEW r \in Run, NEW B \in Buckets(run[r].batch, run[r].level),
         NEW x \in B, First(B) = rows[x].ts
  PROVE  Seen(Created(B, run[r].level)) =
           [level |-> run[r].level + 1, session |-> rows[x].session, ts |-> rows[x].ts]
<1>1. run[r].level \in {0, 1, 2}
  BY BucketAlike, TopBound DEF Levels
<1>2. rows[CHOOSE y \in B : TRUE].session = rows[x].session
  BY BucketAlike
<1> DEFINE count == IF run[r].level = 0 THEN Cardinality(B) ELSE TotalCount(rows, B)
<1>3. Created(B, run[r].level) = SummaryOf(B, run[r].level + 1, count)
  BY <1>1 DEF Created, create_5min_summary, create_hour_summary, create_day_summary, TotalCount
<1> HIDE DEF count
<1>. QED
  BY <1>2, <1>3 DEF SummaryOf, Seen

\* What a run holds was in no summary, unless its lease was overrun.
LEMMA HeldUndigested ==
  ASSUME CountInv, NEW r \in Run, NEW B, B \subseteq run[r].batch
  PROVE  B \cap DG!Digested \subseteq overrun
  BY DEF DG!Digested, CountInv, IInv, CoveredLinked, BatchesHeld

LEMMA LinkIsSummary ==
  ASSUME CountInv, NEW r \in Run, NEW B \in Buckets(run[r].batch, run[r].level),
         NEW s \in Summary \ Stored, Stored' = Stored \cup {s},
         rows'[s] = Created(B, run[r].level),
         \A x \in Stored : Seen(rows'[x]) = Seen(rows[x]),
         Covered(B, s), UNCHANGED <<overrun, now>>
  PROVE  DG!Next
<1> DEFINE known == [x \in Stored |-> Item(x)]
<1>1. PICK x \in B : First(B) = rows[x].ts /\ \A y \in B : rows[x].ts <= rows[y].ts
  BY BucketAlike
<1>2. B \subseteq Stored /\ run[r].level < Len(Width)
  BY BucketAlike DEF Top
<1>3. \A y \in B : /\ known[y].level = run[r].level
                   /\ known[y].session = rows[y].session
                   /\ known[y].ts = rows[y].ts
  BY <1>2, BucketAlike DEF Item
<1>4. x \in DG!Open /\ B \subseteq DG!Open
  BY <1>2, <1>3 DEF DG!Open, DG!Items
<1>5. B \subseteq DG!Alike(x)
  <2>1. \A y \in B : DG!Window(y) = Window(y, run[r].level)
    BY <1>3 DEF DG!Window, Window
  <2>. QED
    BY <1>3, <1>4, <2>1, BucketAlike DEF DG!Alike
<1>6. B \cap DG!Digested \subseteq overrun
  BY BucketPart, HeldUndigested
<1>7. DG!Adds(s, [known[x] EXCEPT !.level = @ + 1])
  <2>1. [known[x] EXCEPT !.level = @ + 1] =
          [level |-> run[r].level + 1, session |-> rows[x].session, ts |-> rows[x].ts]
    <3>1. known[x] = [level |-> run[r].level, session |-> rows[x].session, ts |-> rows[x].ts]
      BY <1>2, BucketAlike DEF Item
    <3> HIDE DEF known
    <3>. QED
      BY <3>1
  <2>2. Seen(rows'[s]) = [known[x] EXCEPT !.level = @ + 1]
    BY <1>1, <2>1, CreatedSeen
  <2>. QED
    BY <2>2, DigestAdds
<1>8. \A y \in B : known[x].ts <= known[y].ts
  BY <1>1, <1>3
<1>9. DG!Summarize(s, x)
  BY <1>5, <1>6, <1>7, <1>8 DEF DG!Summarize, Covered
<1>. QED
  BY <1>4, <1>9 DEF DG!Next

\* A summary appears with the rows it was made from; if the answer of the
\* transaction is lost, so much more happens to leases and retries.
LEMMA CompressIsSummary ==
  ASSUME CountInv, NEW r \in Run, Compress(r)
  PROVE  DG!Next
<1>1. PICK B \in Buckets(run[r].batch, run[r].level) :
        /\ Summary \ Stored # {}
        /\ rows' = Summarized(B, run[r].level, FreshSummary)
        /\ Covered(B, FreshSummary)
        /\ UNCHANGED <<now, overrun>>
  BY DEF Compress
<1> DEFINE s == FreshSummary
<1>2. s \in Summary \ Stored
  BY <1>1, Fresh
<1>3. /\ Stored' = Stored \cup {s} /\ rows'[s] = Created(B, run[r].level)
      /\ \A x \in Stored : rows'[x] = rows[x] \/ rows'[x] = [rows[x] EXCEPT !.parent = s]
  BY <1>1, <1>2 DEF Summarized, Linked, Stored
<1>4. Covered(B, s)
  BY <1>1
<1> HIDE DEF s
<1>5. ASSUME NEW x \in Stored PROVE Seen(rows'[x]) = Seen(rows[x])
  <2>1. rows[x] \in RowType
    BY RowsTyped
  <2>. QED
    BY <1>3, <2>1, SeenKept
<1>. QED
  BY <1>1, <1>2, <1>3, <1>4, <1>5, LinkIsSummary

LEMMA AnswerLostIsSummary ==
  ASSUME CountInv, NEW r \in Run, AnswerLost(r)
  PROVE  DG!Next
<1>1. PICK B \in Buckets(run[r].batch, run[r].level) :
        /\ Summary \ Stored # {}
        /\ rows' = [x \in Stored \cup {FreshSummary} |->
                      IF x \in B
                      THEN [Released(B, TRUE)[x] EXCEPT !.parent = FreshSummary]
                      ELSE Summarized(B, run[r].level, FreshSummary)[x]]
        /\ Covered(B, FreshSummary)
        /\ UNCHANGED <<now, overrun>>
  BY DEF AnswerLost
<1> DEFINE s == FreshSummary
<1>2. s \in Summary \ Stored
  BY <1>1, Fresh
<1>3. B \subseteq Stored
  BY BucketPart DEF CountInv, IInv, BatchesHeld
<1>4. /\ Stored' = Stored \cup {s}
      /\ \A x \in B : rows'[x] = [Released(B, TRUE)[x] EXCEPT !.parent = s]
  BY <1>1, <1>3 DEF Stored
<1>5. rows'[s] = Created(B, run[r].level) /\ \A x \in Stored \ B : rows'[x] = rows[x]
  BY <1>1, <1>2, <1>3 DEF Summarized, Linked
<1>6. Covered(B, s)
  BY <1>1
<1> HIDE DEF s
<1>7. ASSUME NEW x \in B PROVE Seen(rows'[x]) = Seen(rows[x])
  <2> DEFINE row == Released(B, TRUE)[x]
  <2>1. rows[x] \in RowType
    BY <1>3, RowsTyped
  <2>2. row = [rows[x] EXCEPT !.lease = "held", !.retries = rows[x].retries + 1]
    BY <1>3 DEF Released
  <2>3. row \in RowType
    BY <1>3, <2>1, ReleasedRow
  <2> HIDE DEF row
  <2>4. Seen(row) = Seen(rows[x])
    BY <2>1, <2>2, SeenKept
  <2>5. rows'[x] = [row EXCEPT !.parent = s]
    BY <1>4 DEF row
  <2>. QED
    BY <2>3, <2>4, <2>5, SeenKept
<1>8. \A x \in Stored : Seen(rows'[x]) = Seen(rows[x])
  BY <1>5, <1>7
<1>. QED
  BY <1>1, <1>2, <1>4, <1>5, <1>6, <1>8, LinkIsSummary

\* Claims, releases and the moves of a run change nothing a reader sees.
LEMMA ClaimsHidden ==
  ASSUME CountInv, NEW S, rows' = Claimed(S), UNCHANGED <<covers, overrun, now>>
  PROVE  UNCHANGED DG!vars
<1>1. /\ Stored' = Stored
      /\ \A x \in Stored : rows'[x] = rows[x] \/ rows'[x] = [rows[x] EXCEPT !.lease = "held"]
  BY DEF Claimed, Stored
<1>2. ASSUME NEW x \in Stored PROVE Seen(rows'[x]) = Seen(rows[x])
  <2>1. rows[x] \in RowType
    BY RowsTyped
  <2>. QED
    BY <1>1, <2>1, SeenKept
<1>. QED
  BY <1>1, <1>2, DigestStutters

LEMMA ReleasesHidden ==
  ASSUME CountInv, NEW B, NEW increment_retry \in BOOLEAN,
         rows' = Released(B, increment_retry), UNCHANGED <<covers, overrun, now>>
  PROVE  UNCHANGED DG!vars
<1>1. /\ Stored' = Stored
      /\ \A x \in Stored :
           \/ rows'[x] = rows[x] \/ rows'[x] = [rows[x] EXCEPT !.lease = "free"]
           \/ rows'[x] = [rows[x] EXCEPT !.lease = "held", !.retries = rows[x].retries + 1]
  BY DEF Released, Stored
<1>2. ASSUME NEW x \in Stored PROVE Seen(rows'[x]) = Seen(rows[x])
  <2>1. rows[x] \in RowType
    BY RowsTyped
  <2> DEFINE more == rows[x].retries + 1
  <2>2. \/ rows'[x] = rows[x] \/ rows'[x] = [rows[x] EXCEPT !.lease = "free"]
        \/ rows'[x] = [rows[x] EXCEPT !.lease = "held", !.retries = more]
    BY <1>1
  <2> HIDE DEF more
  <2>3. CASE rows'[x] = [rows[x] EXCEPT !.lease = "held", !.retries = more]
    BY <2>1, <2>3, SeenKept
  <2>. QED
    BY <2>1, <2>2, <2>3, SeenKept
<1>. QED
  BY <1>1, <1>2, DigestStutters

LEMMA MovesHidden ==
  ASSUME UNCHANGED <<rows, covers, overrun, now>>
  PROVE  UNCHANGED DG!vars
  BY DigestStutters DEF Stored

LEMMA RunStepRefines ==
  ASSUME CountInv, NEW r \in Run, Step(r) \/ Abort(r)
  PROVE  [DG!Next]_(DG!vars)
<1>1. CASE Start(r)
  BY <1>1, ClaimsHidden DEF Start
<1>2. CASE ClaimSession(r)
  BY <1>2, ClaimsHidden DEF ClaimSession
<1>3. CASE Compress(r)
  BY <1>3, CompressIsSummary
<1>4. CASE AnswerLost(r)
  BY <1>4, AnswerLostIsSummary
<1>5. CASE CompressFails(r) \/ NotYet(r)
  BY <1>5, ReleasesHidden DEF CompressFails, NotYet
<1>6. CASE ReleaseFails(r) \/ NextLevel(r) \/ Abort(r)
  BY <1>6, MovesHidden DEF ReleaseFails, NextLevel, Abort
<1>. QED
  BY <1>1, <1>2, <1>3, <1>4, <1>5, <1>6 DEF Step

\* A lease that runs out under a run loosens its row; another one is nobody's
\* business.
LEMMA OverRefines ==
  ASSUME CountInv, NEW x \in Id, Over(x)
  PROVE  [DG!Next]_(DG!vars)
<1>1. /\ x \in Stored /\ rows[x].parent = NoParent
      /\ Stored' = Stored /\ UNCHANGED <<covers, now>>
      /\ \A y \in Stored : rows'[y] = rows[y] \/ rows'[y] = [rows[y] EXCEPT !.lease = "over"]
      /\ overrun' = overrun \/ overrun' = overrun \cup {x}
  BY DEF Over, Stored
<1>2. ASSUME NEW y \in Stored PROVE Seen(rows'[y]) = Seen(rows[y])
  <2>1. rows[y] \in RowType
    BY RowsTyped
  <2>. QED
    BY <1>1, <2>1, SeenKept
<1>3. CASE overrun' = overrun
  BY <1>1, <1>2, <1>3, DigestStutters
<1>4. CASE overrun' = overrun \cup {x}
  <2>1. x \notin DG!Digested
    BY <1>1 DEF DG!Digested, CountInv, IInv, CoveredLinked
  <2>2. x \in DG!Items
    BY <1>1 DEF DG!Items
  <2>3. [y \in Stored |-> Item(y)]' = [y \in Stored |-> Item(y)]
    BY <1>1, <1>2 DEF Item, Seen
  <2>4. DG!Loosen(x)
    BY <1>1, <1>4, <2>1, <2>2, <2>3 DEF DG!Loosen
  <2>. QED
    BY <2>2, <2>4 DEF DG!Next
<1>. QED
  BY <1>1, <1>3, <1>4

LEMMA TickRefines ==
  ASSUME Tick
  PROVE  DG!Next
<1>1. [y \in Stored |-> Item(y)]' = [y \in Stored |-> Item(y)]
  BY DEF Tick, Item, Stored
<1>2. DG!Tick
  BY <1>1 DEF Tick, DG!Tick
<1>. QED
  BY <1>2 DEF DG!Next

\* For any runs, events, summaries, widths and faults: infinite memory keeps its
\* promise. Claims, releases, retries and aborted runs change nothing a reader
\* sees; a transaction that links a window is one Summarize, and what makes it one
\* is that a run holds only rows without a parent, or with an overrun lease
\* (run_full_compression, create_5min_summary).
THEOREM MemoryKeepsPromise == Spec => ImplementsDigest
<1>1. Init => DG!Init
  <2>1. SUFFICES ASSUME Init PROVE DG!Init
    OBVIOUS
  <2>2. Stored = {}
    BY <2>1 DEF Init, Stored, Empty
  <2>3. [x \in Stored |-> Item(x)] = [x \in {} |-> 0]
    BY <2>2
  <2>. QED
    BY <2>1, <2>3 DEF Init, Empty, DG!Init
<1>2. CountInv /\ [Next]_vars => [DG!Next]_(DG!vars)
  <2> SUFFICES ASSUME CountInv, [Next]_vars PROVE [DG!Next]_(DG!vars)
    OBVIOUS
  <2>1. ASSUME NEW e \in Event, store_infinite_event(e) PROVE DG!Next
    BY <2>1, StoreIsArrival DEF DG!Next
  <2>2. CASE UNCHANGED vars
    BY <2>2, MovesHidden DEF vars
  <2>. QED
    BY <2>1, <2>2, RunStepRefines, OverRefines, TickRefines DEF Next
<1>. QED
  BY <1>1, <1>2, CountInductive, PTL DEF Spec, ImplementsDigest, DG!Spec
==============================================================================
