---------------------------- MODULE RetrievalProofs ----------------------------
(***************************************************************************)
(* Retrieval for any rows, requests, scores and limits: types, complete    *)
(* timelines and searches with the better rows first.                      *)
(*                                                                         *)
(* Several requests read while rows come and go, so the inductive          *)
(* invariant says of each request what its record, the times and the rows  *)
(* touched since it began have to do with each other (Good): a change of   *)
(* rows adds them to what is touched, and the rest have kept their times,  *)
(* so what was true of an answer stays true of its untouched rows          *)
(* (GoodKept). What a query returns is settled by the lemmas on the first  *)
(* n of a finite set, on either side of an anchor (OlderSide, NewerSide)   *)
(* and on rankings (RankedFirst, ShareOfBetter).                           *)
(***************************************************************************)
EXTENDS Retrieval, FiniteSetTheorems, TLAPS

-----------------------------------------------------------------------------
(* The first n of a finite set *)

Ahead(S, k, x) == {y \in S : k[y] < k[x]}
FirstN(S, k, n) == {x \in S : Cardinality(Ahead(S, k, x)) < n}

LEMMA AheadFinite ==
  ASSUME NEW S, IsFiniteSet(S), NEW k, NEW x
  PROVE  IsFiniteSet(Ahead(S, k, x)) /\ Cardinality(Ahead(S, k, x)) \in Nat
BY FS_Subset, FS_CardinalityType DEF Ahead

\* Who has more ahead is further back.
LEMMA AheadGrows ==
  ASSUME NEW S, IsFiniteSet(S), NEW k \in [S -> Int], NEW x \in S, NEW y \in S, k[x] < k[y]
  PROVE  Cardinality(Ahead(S, k, x)) < Cardinality(Ahead(S, k, y))
<1> DEFINE A == Ahead(S, k, x)
           B == Ahead(S, k, y)
<1>1. /\ IsFiniteSet(A) /\ Cardinality(A) \in Nat
      /\ IsFiniteSet(B) /\ Cardinality(B) \in Nat
  BY AheadFinite
<1>2. A \subseteq B /\ x \in B /\ x \notin A
  BY DEF Ahead
<1> HIDE DEF A, B
<1>3. Cardinality(A) <= Cardinality(B) /\ (Cardinality(B) = Cardinality(A) => B = A)
  BY <1>1, <1>2, FS_Subset
<1>4. Cardinality(A) < Cardinality(B)
  BY <1>1, <1>2, <1>3
<1>. QED
  BY <1>4 DEF A, B

LEMMA AheadBound ==
  ASSUME NEW S, IsFiniteSet(S), NEW k \in [S -> Int], NEW x \in S
  PROVE  Cardinality(Ahead(S, k, x)) < Cardinality(S)
<1>1. Ahead(S, k, x) \subseteq S \ {x}
  BY DEF Ahead
<1>2. IsFiniteSet(S \ {x}) /\ Cardinality(S \ {x}) = Cardinality(S) - 1
  BY FS_RemoveElement
<1>3. Cardinality(Ahead(S, k, x)) <= Cardinality(S \ {x})
  BY <1>1, <1>2, FS_Subset
<1>. QED
  BY <1>2, <1>3, AheadFinite, FS_CardinalityType

LEMMA FirstOnes ==
  ASSUME NEW S, IsFiniteSet(S), NEW k \in [S -> Int], NEW n \in Nat,
         \A x, y \in S : k[x] = k[y] => x = y
  PROVE  /\ FirstN(S, k, n) \subseteq S /\ IsFiniteSet(FirstN(S, k, n))
         /\ Cardinality(FirstN(S, k, n)) = AtMost(n, Cardinality(S))
         /\ \A x \in FirstN(S, k, n), y \in S \ FirstN(S, k, n) : k[x] < k[y]
<1> DEFINE N == FirstN(S, k, n)
           a(x) == Cardinality(Ahead(S, k, x))
           c == Cardinality(S)
           m == AtMost(n, c)
<1>1. c \in Nat /\ m \in Nat /\ m <= c /\ m <= n
  BY FS_CardinalityType DEF AtMost
<1>2. \A x \in S : a(x) \in Nat /\ a(x) < c
  BY AheadFinite, AheadBound
<1>3. \A x, y \in S : x # y => a(x) # a(y)
  <2>1. SUFFICES ASSUME NEW x \in S, NEW y \in S, x # y PROVE a(x) # a(y)
    OBVIOUS
  <2>2. k[x] \in Int /\ k[y] \in Int /\ k[x] # k[y]
    BY <2>1
  <2>3. CASE k[x] < k[y]
    <3>1. a(x) < a(y)
      BY <2>3, AheadGrows
    <3>. QED
      BY <3>1, <1>2
  <2>4. CASE k[y] < k[x]
    <3>1. a(y) < a(x)
      BY <2>4, AheadGrows
    <3>. QED
      BY <3>1, <1>2
  <2>. QED
    BY <2>2, <2>3, <2>4
<1>4. N = {x \in S : a(x) < n}
  BY DEF FirstN
<1> HIDE DEF a, c
<1> DEFINE f == [x \in S |-> a(x) + 1]
<1>5. f \in Injection(S, 1..c)
  <2>1. \A x \in S : a(x) + 1 \in 1..c
    BY <1>1, <1>2
  <2>2. \A x, y \in S : a(x) + 1 = a(y) + 1 => x = y
    BY <1>2, <1>3
  <2>3. f \in [S -> 1..c]
    BY <2>1
  <2>4. IsInjective(f)
    <3>1. \A x, y \in S : f[x] = f[y] => x = y
      BY <2>2
    <3>. QED
      BY <3>1 DEF IsInjective
  <2> HIDE DEF f
  <2>. QED
    BY <2>3, <2>4 DEF Injection, IsInjective
<1>6. IsFiniteSet(1..c) /\ Cardinality(1..c) = c /\ IsFiniteSet(1..m) /\ Cardinality(1..m) = m
  <2>1. 1 <= c + 1 /\ c - 1 + 1 = c /\ 1 <= m + 1 /\ m - 1 + 1 = m /\ c \in Int /\ m \in Int
    BY <1>1
  <2> HIDE DEF m
  <2>. QED
    BY <1>1, <2>1, FS_Interval
<1>7. \A i \in 1..c : \E x \in S : a(x) + 1 = i
  <2>1. f \in Surjection(S, 1..c)
    <3> HIDE DEF f
    <3>. QED
      BY <1>5, <1>6, FS_Injection DEF c
  <2>. QED
    BY <2>1 DEF Surjection
<1> DEFINE g == [x \in N |-> a(x) + 1]
<1>8. g \in Injection(N, 1..m)
  <2>1. \A x \in N : a(x) + 1 \in 1..m
    BY <1>1, <1>2, <1>4 DEF AtMost
  <2>2. \A x, y \in N : a(x) + 1 = a(y) + 1 => x = y
    BY <1>2, <1>3, <1>4
  <2> HIDE DEF N, m
  <2>. QED
    BY <2>1, <2>2 DEF Injection, IsInjective
<1>9. g \in Surjection(N, 1..m)
  <2>1. \A i \in 1..m : \E x \in N : a(x) + 1 = i
    <3>1. SUFFICES ASSUME NEW i \in 1..m PROVE \E x \in N : a(x) + 1 = i
      OBVIOUS
    <3>2. i \in 1..c /\ i <= n
      BY <1>1
    <3>3. PICK x \in S : a(x) + 1 = i
      BY <1>7, <3>2
    <3>4. x \in N
      BY <1>2, <1>4, <3>2, <3>3
    <3>. QED
      BY <3>3, <3>4
  <2>2. g \in [N -> 1..m]
    BY <1>8 DEF Injection
  <2>. QED
    BY <2>1, <2>2 DEF Surjection
<1>10. N \subseteq S /\ IsFiniteSet(N)
  BY <1>4, FS_Subset
<1>11. Cardinality(N) = m
  <2>1. ExistsBijection(N, 1..m)
    BY <1>8, <1>9 DEF ExistsBijection, Bijection
  <2> HIDE DEF N, m
  <2>. QED
    BY <2>1, <1>6, <1>10, FS_Bijection
<1>12. ASSUME NEW x \in N, NEW y \in S \ N PROVE k[x] < k[y]
  <2>1. x \in S /\ a(x) < n /\ ~(a(y) < n) /\ a(x) \in Nat /\ a(y) \in Nat
    BY <1>2, <1>4
  <2>2. k[x] \in Int /\ k[y] \in Int
    BY <2>1
  <2>3. CASE k[y] < k[x]
    <3>1. a(y) < a(x)
      BY <2>1, <2>3, AheadGrows DEF a
    <3>. QED
      BY <2>1, <3>1
  <2>4. k[x] # k[y]
    BY <2>1
  <2>. QED
    BY <2>2, <2>3, <2>4
<1>. QED
  BY <1>10, <1>11, <1>12 DEF c

Timed(S) ==
  /\ IsFiniteSet(S) /\ \A x \in S : time[x] \in Nat
  /\ \A x, y \in S : time[x] = time[y] => x = y

LEMMA LatestRows ==
  ASSUME NEW S, Timed(S), NEW n \in Nat
  PROVE  /\ Latest(S, n) \subseteq S /\ IsFiniteSet(Latest(S, n))
         /\ Cardinality(Latest(S, n)) = AtMost(n, Cardinality(S))
         /\ \A x \in Latest(S, n), y \in S \ Latest(S, n) : time[x] > time[y]
<1> DEFINE k == [x \in S |-> 0 - time[x]]
<1>1. k \in [S -> Int] /\ \A x, y \in S : k[x] = k[y] => x = y
  BY DEF Timed
<1>2. \A x, y \in S : k[x] < k[y] <=> time[x] > time[y]
  BY DEF Timed
<1>3. Latest(S, n) = FirstN(S, k, n)
  <2>1. \A x \in S : {y \in S : time[y] > time[x]} = Ahead(S, k, x)
    <3> HIDE DEF k
    <3>. QED
      BY <1>2 DEF Ahead
  <2>. QED
    BY <2>1 DEF Latest, FirstN
<1> HIDE DEF k
<1>4. IsFiniteSet(S)
  BY DEF Timed
<1>5. /\ FirstN(S, k, n) \subseteq S /\ IsFiniteSet(FirstN(S, k, n))
      /\ Cardinality(FirstN(S, k, n)) = AtMost(n, Cardinality(S))
      /\ \A x \in FirstN(S, k, n), y \in S \ FirstN(S, k, n) : k[x] < k[y]
  BY <1>1, <1>4, FirstOnes
<1>. QED
  BY <1>2, <1>3, <1>5

LEMMA EarliestRows ==
  ASSUME NEW S, Timed(S), NEW n \in Nat
  PROVE  /\ Earliest(S, n) \subseteq S /\ IsFiniteSet(Earliest(S, n))
         /\ Cardinality(Earliest(S, n)) = AtMost(n, Cardinality(S))
         /\ \A x \in Earliest(S, n), y \in S \ Earliest(S, n) : time[x] < time[y]
<1> DEFINE k == [x \in S |-> time[x]]
<1>1. k \in [S -> Int] /\ \A x, y \in S : k[x] = k[y] => x = y
  BY DEF Timed
<1>2. \A x, y \in S : k[x] < k[y] <=> time[x] < time[y]
  BY DEF Timed
<1>3. Earliest(S, n) = FirstN(S, k, n)
  <2>1. \A x \in S : {y \in S : time[y] < time[x]} = Ahead(S, k, x)
    <3> HIDE DEF k
    <3>. QED
      BY <1>2 DEF Ahead
  <2>. QED
    BY <2>1 DEF Earliest, FirstN
<1> HIDE DEF k
<1>4. IsFiniteSet(S)
  BY DEF Timed
<1>5. /\ FirstN(S, k, n) \subseteq S /\ IsFiniteSet(FirstN(S, k, n))
      /\ Cardinality(FirstN(S, k, n)) = AtMost(n, Cardinality(S))
      /\ \A x \in FirstN(S, k, n), y \in S \ FirstN(S, k, n) : k[x] < k[y]
  BY <1>1, <1>4, FirstOnes
<1>. QED
  BY <1>2, <1>3, <1>5

-----------------------------------------------------------------------------
(* The two sides of a timeline *)

\* What BeforeQuery reads, from the anchor a down.
OlderRows(at, a) == Shown(get_timeline(0, at, Read(Before)), a, Before)
NewerRows(at, a) == Shown(get_timeline(at, 0, Read(After)), a, After)

LEMMA OlderSide ==
  ASSUME Timed(Stored), NEW at \in Nat \ {0}, NEW a,
         Before \in Nat, MaxQueryLimit \in Nat \ {0}
  PROVE  LET B == OlderRows(at, a) IN
         /\ B \subseteq Stored \ {a} /\ \A x \in B : time[x] <= at
         /\ a \in Stored /\ time[a] = at =>
              /\ \A x \in B : time[x] < at
              /\ \A y \in Stored : time[y] < at /\ y \notin B =>
                   Cardinality(B) = Full(Before) /\ \A x \in B : time[x] > time[y]
<1> DEFINE fit == {x \in Stored : time[x] <= at}
           L == normalize_limit(Read(Before))
           rows == Latest(fit, L)
           B == Latest(rows \ {a}, Before)
<1>1. OlderRows(at, a) = B
  <2>1. get_timeline(0, at, Read(Before)) = rows
    BY DEF get_timeline
  <2>. QED
    BY <2>1 DEF OlderRows, Shown
<1>2. L \in Nat \ {0} /\ L - 1 = Full(Before) /\ L - 1 <= Before
  BY DEF normalize_limit, AtMost, Read, Full
<1>3. Timed(fit)
  BY FS_Subset DEF Timed
<1>4. /\ rows \subseteq fit /\ IsFiniteSet(rows)
      /\ Cardinality(rows) = AtMost(L, Cardinality(fit))
      /\ \A x \in rows, y \in fit \ rows : time[x] > time[y]
  <2> HIDE DEF fit, L
  <2>. QED
    BY <1>2, <1>3, LatestRows
<1>5. Timed(rows \ {a})
  <2>1. IsFiniteSet(rows \ {a}) /\ rows \ {a} \subseteq fit
    BY <1>4, FS_Subset
  <2> HIDE DEF rows, fit
  <2>. QED
    BY <1>3, <2>1 DEF Timed
<1>6. /\ B \subseteq rows \ {a} /\ IsFiniteSet(B)
      /\ Cardinality(B) = AtMost(Before, Cardinality(rows \ {a}))
  <2> HIDE DEF rows
  <2>. QED
    BY <1>5, LatestRows
<1>7. B \subseteq Stored \ {a} /\ \A x \in B : time[x] <= at
  <2>1. \A x \in fit : x \in Stored /\ time[x] <= at
    OBVIOUS
  <2> HIDE DEF B, rows, fit
  <2>. QED
    BY <1>4, <1>6, <2>1
<1>8. ASSUME a \in Stored, time[a] = at
      PROVE  /\ \A x \in B : time[x] < at
             /\ \A y \in Stored : time[y] < at /\ y \notin B =>
                  Cardinality(B) = Full(Before) /\ \A x \in B : time[x] > time[y]
  <2>1. ASSUME NEW x \in B PROVE time[x] < at
    <3>1. x \in Stored /\ x # a /\ time[x] <= at
      BY <1>7
    <3>2. time[x] # at /\ time[x] \in Nat
      BY <1>8, <3>1 DEF Timed
    <3>. QED
      BY <3>1, <3>2
  <2>2. a \in fit /\ \A x \in fit : time[x] <= time[a] /\ time[x] \in Nat
    BY <1>8 DEF Timed
  <2>3. /\ Cardinality(fit) \in Nat /\ Cardinality(rows) \in Nat /\ Cardinality(fit) > 0
    <3>1. IsFiniteSet(fit)
      BY <1>3 DEF Timed
    <3> HIDE DEF fit, rows
    <3>. QED
      BY <1>4, <2>2, <3>1, FS_CardinalityType, FS_EmptySet
  <2>4. a \in rows
    <3>1. SUFFICES ASSUME a \notin rows PROVE FALSE
      OBVIOUS
    <3>2. Cardinality(rows) > 0
      BY <1>2, <1>4, <2>3 DEF AtMost
    <3>3. PICK x \in rows : TRUE
      <4> HIDE DEF rows
      <4>. QED
        BY <3>2, FS_EmptySet
    <3>4. time[x] > time[a] /\ x \in fit
      <4> HIDE DEF rows, fit
      <4>. QED
        BY <1>4, <2>2, <3>1, <3>3
    <3> HIDE DEF fit
    <3>. QED
      BY <2>2, <3>4
  <2>5. Cardinality(rows \ {a}) = Cardinality(rows) - 1
    <3> HIDE DEF rows
    <3>. QED
      BY <1>4, <2>4, FS_RemoveElement
  <2>6. Cardinality(rows \ {a}) <= L - 1
    <3> HIDE DEF rows, fit, L
    <3>. QED
      BY <1>2, <1>4, <2>3, <2>5 DEF AtMost
  <2>7. B = rows \ {a}
    <3>1. Cardinality(rows \ {a}) \in Nat /\ IsFiniteSet(rows \ {a})
      BY <1>5, FS_CardinalityType DEF Timed
    <3>2. Cardinality(B) = Cardinality(rows \ {a})
      <4> HIDE DEF B, rows, L
      <4>. QED
        BY <1>2, <1>6, <2>6, <3>1 DEF AtMost
    <3> HIDE DEF B, rows
    <3>. QED
      BY <1>6, <3>1, <3>2, FS_Subset
  <2>8. ASSUME NEW y \in Stored, time[y] < at, y \notin B
        PROVE  Cardinality(B) = Full(Before) /\ \A x \in B : time[x] > time[y]
    <3>1. y \in fit /\ y # a
      BY <1>8, <2>8 DEF Timed
    <3>2. y \notin rows
      BY <2>7, <2>8, <3>1
    <3>3. \A x \in rows : time[x] > time[y]
      <4> HIDE DEF rows, fit
      <4>. QED
        BY <1>4, <3>1, <3>2
    <3>4. Cardinality(rows) = L
      <4>1. Cardinality(rows) # Cardinality(fit)
        <5>1. IsFiniteSet(fit)
          BY <1>3 DEF Timed
        <5> HIDE DEF rows, fit
        <5>. QED
          BY <1>4, <3>1, <3>2, <5>1, FS_Subset
      <4> HIDE DEF rows, fit, L
      <4>. QED
        BY <1>4, <4>1 DEF AtMost
    <3>5. Cardinality(B) = Full(Before)
      <4> HIDE DEF B, rows, L
      <4>. QED
        BY <1>2, <2>5, <2>7, <3>4
    <3> HIDE DEF B, rows
    <3>. QED
      BY <2>7, <3>3, <3>5
  <2>. QED
    BY <2>1, <2>8
<1> HIDE DEF B
<1>. QED
  BY <1>1, <1>7, <1>8
LEMMA NewerSide ==
  ASSUME Timed(Stored), NEW at \in Nat \ {0}, NEW a,
         After \in Nat, MaxQueryLimit \in Nat \ {0}
  PROVE  LET B == NewerRows(at, a) IN
         /\ B \subseteq Stored \ {a} /\ \A x \in B : time[x] >= at
         /\ a \in Stored /\ time[a] = at =>
              /\ \A x \in B : time[x] > at
              /\ \A y \in Stored : time[y] > at /\ y \notin B =>
                   Cardinality(B) = Full(After) /\ \A x \in B : time[x] < time[y]
<1> DEFINE fit == {x \in Stored : time[x] >= at}
           L == normalize_limit(Read(After))
           rows == Earliest(fit, L)
           B == Latest(rows \ {a}, After)
<1>1. NewerRows(at, a) = B
  <2>1. get_timeline(at, 0, Read(After)) = rows
    BY DEF get_timeline
  <2>. QED
    BY <2>1 DEF NewerRows, Shown
<1>2. L \in Nat \ {0} /\ L - 1 = Full(After) /\ L - 1 <= After
  BY DEF normalize_limit, AtMost, Read, Full
<1>3. Timed(fit)
  BY FS_Subset DEF Timed
<1>4. /\ rows \subseteq fit /\ IsFiniteSet(rows)
      /\ Cardinality(rows) = AtMost(L, Cardinality(fit))
      /\ \A x \in rows, y \in fit \ rows : time[x] < time[y]
  <2> HIDE DEF fit, L
  <2>. QED
    BY <1>2, <1>3, EarliestRows
<1>5. Timed(rows \ {a})
  <2>1. IsFiniteSet(rows \ {a}) /\ rows \ {a} \subseteq fit
    BY <1>4, FS_Subset
  <2> HIDE DEF rows, fit
  <2>. QED
    BY <1>3, <2>1 DEF Timed
<1>6. /\ B \subseteq rows \ {a} /\ IsFiniteSet(B)
      /\ Cardinality(B) = AtMost(After, Cardinality(rows \ {a}))
  <2> HIDE DEF rows
  <2>. QED
    BY <1>5, LatestRows
<1>7. B \subseteq Stored \ {a} /\ \A x \in B : time[x] >= at
  <2>1. \A x \in fit : x \in Stored /\ time[x] >= at
    OBVIOUS
  <2> HIDE DEF B, rows, fit
  <2>. QED
    BY <1>4, <1>6, <2>1
<1>8. ASSUME a \in Stored, time[a] = at
      PROVE  /\ \A x \in B : time[x] > at
             /\ \A y \in Stored : time[y] > at /\ y \notin B =>
                  Cardinality(B) = Full(After) /\ \A x \in B : time[x] < time[y]
  <2>1. ASSUME NEW x \in B PROVE time[x] > at
    <3>1. x \in Stored /\ x # a /\ time[x] >= at
      BY <1>7
    <3>2. time[x] # at /\ time[x] \in Nat
      BY <1>8, <3>1 DEF Timed
    <3>. QED
      BY <3>1, <3>2
  <2>2. a \in fit /\ \A x \in fit : time[x] >= time[a] /\ time[x] \in Nat
    BY <1>8 DEF Timed
  <2>3. /\ Cardinality(fit) \in Nat /\ Cardinality(rows) \in Nat /\ Cardinality(fit) > 0
    <3>1. IsFiniteSet(fit)
      BY <1>3 DEF Timed
    <3> HIDE DEF fit, rows
    <3>. QED
      BY <1>4, <2>2, <3>1, FS_CardinalityType, FS_EmptySet
  <2>4. a \in rows
    <3>1. SUFFICES ASSUME a \notin rows PROVE FALSE
      OBVIOUS
    <3>2. Cardinality(rows) > 0
      BY <1>2, <1>4, <2>3 DEF AtMost
    <3>3. PICK x \in rows : TRUE
      <4> HIDE DEF rows
      <4>. QED
        BY <3>2, FS_EmptySet
    <3>4. time[x] < time[a] /\ x \in fit
      <4> HIDE DEF rows, fit
      <4>. QED
        BY <1>4, <2>2, <3>1, <3>3
    <3> HIDE DEF fit
    <3>. QED
      BY <2>2, <3>4
  <2>5. Cardinality(rows \ {a}) = Cardinality(rows) - 1
    <3> HIDE DEF rows
    <3>. QED
      BY <1>4, <2>4, FS_RemoveElement
  <2>6. Cardinality(rows \ {a}) <= L - 1
    <3> HIDE DEF rows, fit, L
    <3>. QED
      BY <1>2, <1>4, <2>3, <2>5 DEF AtMost
  <2>7. B = rows \ {a}
    <3>1. Cardinality(rows \ {a}) \in Nat /\ IsFiniteSet(rows \ {a})
      BY <1>5, FS_CardinalityType DEF Timed
    <3>2. Cardinality(B) = Cardinality(rows \ {a})
      <4> HIDE DEF B, rows, L
      <4>. QED
        BY <1>2, <1>6, <2>6, <3>1 DEF AtMost
    <3> HIDE DEF B, rows
    <3>. QED
      BY <1>6, <3>1, <3>2, FS_Subset
  <2>8. ASSUME NEW y \in Stored, time[y] > at, y \notin B
        PROVE  Cardinality(B) = Full(After) /\ \A x \in B : time[x] < time[y]
    <3>1. y \in fit /\ y # a
      BY <1>8, <2>8 DEF Timed
    <3>2. y \notin rows
      BY <2>7, <2>8, <3>1
    <3>3. \A x \in rows : time[x] < time[y]
      <4> HIDE DEF rows, fit
      <4>. QED
        BY <1>4, <3>1, <3>2
    <3>4. Cardinality(rows) = L
      <4>1. Cardinality(rows) # Cardinality(fit)
        <5>1. IsFiniteSet(fit)
          BY <1>3 DEF Timed
        <5> HIDE DEF rows, fit
        <5>. QED
          BY <1>4, <3>1, <3>2, <5>1, FS_Subset
      <4> HIDE DEF rows, fit, L
      <4>. QED
        BY <1>4, <4>1 DEF AtMost
    <3>5. Cardinality(B) = Full(After)
      <4> HIDE DEF B, rows, L
      <4>. QED
        BY <1>2, <2>5, <2>7, <3>4
    <3> HIDE DEF B, rows
    <3>. QED
      BY <2>7, <3>3, <3>5
  <2>. QED
    BY <2>1, <2>8
<1> HIDE DEF B
<1>. QED
  BY <1>1, <1>7, <1>8

-----------------------------------------------------------------------------
(* The inductive invariant, by the record q of a request, the rows U touched *)
(* since it began and the times tm                                           *)

Records ==
  [pc: Reading \cup {"idle", "count"},
   kind: {"timeline", "hybrid", "filtered", "semantic", "knowledge"},
   anchor: Obs \cup {0}, at: Obs \cup {0},
   before: {None} \cup SUBSET Obs, after: {None} \cup SUBSET Obs,
   query: {None} \cup Query, text: SUBSET Obs, rows: Seq(Obs), ids: SUBSET Entry]

Shape(q) ==
  /\ q.pc = "timeline" => q.kind = "timeline" /\ q.query = None
  /\ q.pc \in {"semantic", "text", "vector", "plain"} => q.kind # "timeline" /\ q.query \in Query
  /\ q.pc = "shown" /\ q.kind = "timeline" => q.before # None /\ q.after # None

OnTimeline(q) == q.pc \in {"timeline", "shown"} /\ q.kind = "timeline"

\* Of the rows that nothing touched, the anchor has the time of the anchor.
Anchored(tm, q, U) ==
  OnTimeline(q) =>
    /\ q.at \in Obs /\ q.anchor \in Obs
    /\ \A x \in Obs \ U : tm[x] = q.at <=> x = q.anchor

Older(tm, q, U) ==
  OnTimeline(q) /\ q.before # None =>
    /\ q.anchor \notin q.before
    /\ \A x \in q.before \ U : tm[x] < q.at
    /\ q.anchor \notin U =>
         \A y \in Obs \ U : tm[y] # 0 /\ tm[y] < q.at /\ y \notin q.before =>
           Cardinality(q.before) = Full(Before) /\ \A x \in q.before \ U : tm[x] > tm[y]

Newer(tm, q, U) ==
  OnTimeline(q) /\ q.after # None =>
    /\ q.anchor \notin q.after
    /\ \A x \in q.after \ U : tm[x] > q.at
    /\ q.anchor \notin U =>
         \A y \in Obs \ U : tm[y] # 0 /\ tm[y] > q.at /\ y \notin q.after =>
           Cardinality(q.after) = Full(After) /\ \A x \in q.after \ U : tm[x] < tm[y]

\* The first list of a hybrid search leaves out no row better than one in it.
TextRead(tm, q, U) ==
  q.pc = "vector" =>
    /\ IsFiniteSet(q.text) /\ \A y \in q.text : Text[q.query][y] > 0
    /\ \A x \in Obs \ U, y \in q.text :
         tm[x] # 0 /\ Text[q.query][x] > Text[q.query][y] => x \in q.text

BetterFor(s, x, y) ==
  /\ Beats(x, y, Text[s]) /\ Beats(x, y, AllWords[s]) /\ Beats(x, y, Vector[s])
  /\ Overlap[s][x] >= Overlap[s][y]

Ordered(tm, q, U) ==
  q.pc = "shown" /\ q.query # None =>
    \A x \in Obs \ U, j \in 1..Len(q.rows) :
      tm[x] # 0 /\ q.rows[j] \notin U /\ BetterFor(q.query, x, q.rows[j]) =>
        \E i \in 1..(j - 1) : q.rows[i] = x

Good(tm, q, U) ==
  /\ Shape(q) /\ Anchored(tm, q, U) /\ Older(tm, q, U) /\ Newer(tm, q, U)
  /\ TextRead(tm, q, U) /\ Ordered(tm, q, U)

IInv ==
  /\ TypeOK /\ IsFiniteSet(Stored)
  /\ \A r \in Request : Good(time, request[r], touched[r])

LEMMA GoodKept ==
  ASSUME NEW q \in Records, NEW U \in SUBSET Obs, NEW V \in SUBSET Obs, NEW tm, NEW tn,
         Good(tm, q, U),
         q.pc \in Reading => U \subseteq V /\ \A x \in Obs \ V : tn[x] = tm[x]
  PROVE  Good(tn, q, V)
<1>1. Shape(q)
  BY DEF Good
<1>2. Anchored(tn, q, V)
  <2>1. SUFFICES ASSUME OnTimeline(q) PROVE Anchored(tn, q, V)
    BY DEF Anchored
  <2>2. U \subseteq V /\ \A x \in Obs \ V : tn[x] = tm[x]
    BY <2>1 DEF OnTimeline, Reading
  <2>. QED
    BY <2>1, <2>2 DEF Good, Anchored
<1>3. Older(tn, q, V)
  <2>1. SUFFICES ASSUME OnTimeline(q), q.before # None PROVE Older(tn, q, V)
    BY DEF Older
  <2>2. U \subseteq V /\ \A x \in Obs \ V : tn[x] = tm[x]
    BY <2>1 DEF OnTimeline, Reading
  <2>3. q.before \subseteq Obs
    BY <2>1 DEF Records
  <2>. QED
    BY <2>1, <2>2, <2>3 DEF Good, Older
<1>4. Newer(tn, q, V)
  <2>1. SUFFICES ASSUME OnTimeline(q), q.after # None PROVE Newer(tn, q, V)
    BY DEF Newer
  <2>2. U \subseteq V /\ \A x \in Obs \ V : tn[x] = tm[x]
    BY <2>1 DEF OnTimeline, Reading
  <2>3. q.after \subseteq Obs
    BY <2>1 DEF Records
  <2>. QED
    BY <2>1, <2>2, <2>3 DEF Good, Newer
<1>5. TextRead(tn, q, V)
  <2>1. SUFFICES ASSUME q.pc = "vector" PROVE TextRead(tn, q, V)
    BY DEF TextRead
  <2>2. U \subseteq V /\ \A x \in Obs \ V : tn[x] = tm[x]
    BY <2>1 DEF Reading
  <2>. QED
    BY <2>1, <2>2 DEF Good, TextRead
<1>6. Ordered(tn, q, V)
  <2>1. SUFFICES ASSUME q.pc = "shown", q.query # None PROVE Ordered(tn, q, V)
    BY DEF Ordered
  <2>2. U \subseteq V /\ \A x \in Obs \ V : tn[x] = tm[x]
    BY <2>1 DEF Reading
  <2>. QED
    BY <2>1, <2>2 DEF Good, Ordered
<1>. QED
  BY <1>1, <1>2, <1>3, <1>4, <1>5, <1>6 DEF Good

LEMMA NotReading ==
  ASSUME NEW q, NEW U, NEW tm, q.pc \in {"idle", "count"}
  PROVE  Good(tm, q, U)
BY DEF Good, Shape, OnTimeline, Anchored, Older, Newer, TextRead, Ordered

\* A step of the request r alone, which leaves it with the record v.
LEMMA OneRequest ==
  ASSUME IInv, NEW r \in Request, NEW v \in Records,
         request' = [request EXCEPT ![r] = v],
         touched' \in [Request -> SUBSET Obs],
         \A s \in Request \ {r} : touched'[s] = touched[s],
         usage' \in [Entry -> 0..MaxUsage], faults' \in 0..MaxFaults,
         UNCHANGED time, Good(time, v, touched'[r])
  PROVE  IInv'
<1>1. /\ request \in [Request -> Records] /\ TypeOK /\ IsFiniteSet(Stored)
      /\ \A s \in Request : Good(time, request[s], touched[s])
  BY DEF IInv, TypeOK, Records
<1>2. /\ request' \in [Request -> Records] /\ request'[r] = v
      /\ \A s \in Request \ {r} : request'[s] = request[s]
  BY <1>1
<1>3. TypeOK'
  BY <1>1, <1>2 DEF TypeOK, Records
<1>4. IsFiniteSet(Stored')
  BY <1>1 DEF Stored
<1>5. \A s \in Request : Good(time', request'[s], touched'[s])
  BY <1>1, <1>2
<1>. QED
  BY <1>3, <1>4, <1>5 DEF IInv

\* A change of the rows X.
LEMMA RowsChange ==
  ASSUME IInv, NEW X \in SUBSET Obs, Touch(X), UNCHANGED <<usage, request>>,
         faults' \in 0..MaxFaults, time' \in [Obs -> Obs \cup {0}],
         \A x \in Obs \ X : time'[x] = time[x],
         \A x, y \in Obs : time'[x] = time'[y] /\ time'[x] # 0 => x = y,
         IsFiniteSet(Stored')
  PROVE  IInv'
<1>1. /\ request \in [Request -> Records] /\ touched \in [Request -> SUBSET Obs] /\ TypeOK
      /\ \A s \in Request : Good(time, request[s], touched[s])
  BY DEF IInv, TypeOK, Records
<1>2. /\ touched' \in [Request -> SUBSET Obs]
      /\ \A s \in Request : request[s].pc \in Reading => touched'[s] = touched[s] \cup X
  BY <1>1 DEF Touch
<1>3. TypeOK'
  BY <1>1, <1>2 DEF TypeOK
<1>4. ASSUME NEW s \in Request PROVE Good(time', request'[s], touched'[s])
  <2>1. request[s] \in Records /\ touched[s] \in SUBSET Obs /\ touched'[s] \in SUBSET Obs
    BY <1>1, <1>2
  <2>2. request[s].pc \in Reading =>
          touched[s] \subseteq touched'[s] /\ \A x \in Obs \ touched'[s] : time'[x] = time[x]
    BY <1>2
  <2>3. Good(time, request[s], touched[s])
    BY <1>1
  <2>4. Good(time', request[s], touched'[s])
    BY <2>1, <2>2, <2>3, GoodKept
  <2>. QED
    BY <2>4
<1>. QED
  BY <1>3, <1>4 DEF IInv

LEMMA Initially == Init => IInv
<1> SUFFICES ASSUME Init PROVE IInv
  OBVIOUS
<1>1. Stored \subseteq FirstObs
  BY DEF Init, Stored
<1>2. IsFiniteSet(Stored)
  BY <1>1, IdAssumption, FS_Subset
<1>3. NoRequest \in Records /\ NoRequest.pc = "idle"
  BY DEF NoRequest, Records
<1>4. time \in [Obs -> Obs \cup {0}] /\ \A x, y \in Obs : time[x] = time[y] /\ time[x] # 0 => x = y
  BY IdAssumption DEF Init
<1>5. request \in [Request -> Records] /\ \A r \in Request : request[r].pc = "idle"
  BY <1>3 DEF Init
<1>6. usage \in [Entry -> 0..MaxUsage] /\ touched \in [Request -> SUBSET Obs] /\ faults \in 0..MaxFaults
  BY LimitAssumption DEF Init
<1>7. TypeOK
  BY <1>4, <1>5, <1>6 DEF TypeOK, Records
<1>8. \A r \in Request : Good(time, request[r], touched[r])
  BY <1>5, NotReading
<1>. QED
  BY <1>2, <1>7, <1>8 DEF IInv

LEMMA Facts ==
  ASSUME IInv
  PROVE  /\ request \in [Request -> Records] /\ touched \in [Request -> SUBSET Obs]
         /\ usage \in [Entry -> 0..MaxUsage] /\ faults \in 0..MaxFaults
         /\ time \in [Obs -> Obs \cup {0}]
         /\ \A x, y \in Obs : time[x] = time[y] /\ time[x] # 0 => x = y
         /\ Timed(Stored)
<1>1. TypeOK /\ IsFiniteSet(Stored)
  BY DEF IInv
<1>2. Timed(Stored)
  BY <1>1, IdAssumption DEF Timed, Stored, TypeOK
<1>. QED
  BY <1>1, <1>2 DEF TypeOK, Records

-----------------------------------------------------------------------------
(* The rows change *)

LEMMA InsertKeeps == ASSUME IInv, NEW x \in Obs, Insert(x) PROVE IInv'
<1>1. /\ time \in [Obs -> Obs \cup {0}] /\ faults \in 0..MaxFaults /\ IsFiniteSet(Stored)
      /\ \A y, z \in Obs : time[y] = time[z] /\ time[y] # 0 => y = z
  BY Facts DEF Timed
<1>2. /\ time' = [time EXCEPT ![x] = x] /\ Touch({x}) /\ UNCHANGED <<usage, request, faults>>
      /\ \A y \in Obs : time[y] # 0 => time[y] # x
  BY DEF Insert, Stored
<1>3. Stored' \subseteq Stored \cup {x}
  BY <1>1, <1>2 DEF Stored
<1>4. IsFiniteSet(Stored')
  BY <1>1, <1>3, FS_AddElement, FS_Subset
<1>5. time' \in [Obs -> Obs \cup {0}] /\ \A y \in Obs \ {x} : time'[y] = time[y]
  BY <1>1, <1>2
<1>6. \A y, z \in Obs : time'[y] = time'[z] /\ time'[y] # 0 => y = z
  BY <1>1, <1>2
<1>. QED
  BY <1>1, <1>2, <1>4, <1>5, <1>6, RowsChange

LEMMA DeleteKeeps == ASSUME IInv, NEW x \in Obs, Delete(x) PROVE IInv'
<1>1. /\ time \in [Obs -> Obs \cup {0}] /\ faults \in 0..MaxFaults /\ IsFiniteSet(Stored)
      /\ \A y, z \in Obs : time[y] = time[z] /\ time[y] # 0 => y = z
  BY Facts DEF Timed
<1>2. time' = [time EXCEPT ![x] = 0] /\ Touch({x}) /\ UNCHANGED <<usage, request>>
  BY DEF Delete
<1>3. faults' \in 0..MaxFaults
  BY <1>1, LimitAssumption DEF Delete, Fault
<1>4. Stored' \subseteq Stored
  BY <1>1, <1>2 DEF Stored
<1>5. IsFiniteSet(Stored')
  BY <1>1, <1>4, FS_Subset
<1>6. time' \in [Obs -> Obs \cup {0}] /\ \A y \in Obs \ {x} : time'[y] = time[y]
  BY <1>1, <1>2
<1>7. \A y, z \in Obs : time'[y] = time'[z] /\ time'[y] # 0 => y = z
  BY <1>1, <1>2
<1>. QED
  BY <1>2, <1>3, <1>5, <1>6, <1>7, RowsChange

LEMMA MergeKeeps == ASSUME IInv, NEW k \in Obs, NEW d \in Obs, merge_and_purge(k, d) PROVE IInv'
<1>1. /\ time \in [Obs -> Obs \cup {0}] /\ faults \in 0..MaxFaults /\ IsFiniteSet(Stored)
      /\ \A y, z \in Obs : time[y] = time[z] /\ time[y] # 0 => y = z
  BY Facts DEF Timed
<1>2. time' = Merged(k, d) /\ Touch({k, d}) /\ UNCHANGED <<usage, request, faults>>
  BY DEF merge_and_purge
<1>3. k # d
  <2>1. Cardinality({k, d}) = 2
    BY IdAssumption DEF merge_and_purge
  <2>2. Cardinality({k}) = 1
    BY FS_Singleton
  <2>3. k = d => {k, d} = {k}
    OBVIOUS
  <2>. QED
    BY <2>1, <2>2, <2>3
<1>4. \A y \in Obs : time'[y] = IF y = d THEN 0
                             ELSE IF y = k THEN (IF time[d] > time[k] THEN time[d] ELSE time[k])
                             ELSE time[y]
  BY <1>1, <1>2, <1>3 DEF Merged
<1>5. time' \in [Obs -> Obs \cup {0}]
  BY <1>1, <1>2, <1>3 DEF Merged
<1>6. \A y \in Obs \ {k, d} : time'[y] = time[y]
  BY <1>4
<1>7. \A y, z \in Obs : time'[y] = time'[z] /\ time'[y] # 0 => y = z
  BY <1>1, <1>3, <1>4
<1>8. Stored' \subseteq Stored \cup {k}
  BY <1>4 DEF Stored
<1>9. IsFiniteSet(Stored')
  BY <1>1, <1>8, FS_AddElement, FS_Subset
<1>10. {k, d} \in SUBSET Obs /\ faults' \in 0..MaxFaults
  BY <1>1, <1>2
<1>. QED
  BY <1>2, <1>5, <1>6, <1>7, <1>9, <1>10, RowsChange

LEMMA MergeIntoKeeps ==
  ASSUME IInv, NEW k \in Obs, NEW x \in Obs, merge_into_existing(k, x)
  PROVE  IInv'
<1>1. /\ time \in [Obs -> Obs \cup {0}] /\ faults \in 0..MaxFaults /\ IsFiniteSet(Stored)
      /\ \A y, z \in Obs : time[y] = time[z] /\ time[y] # 0 => y = z
  BY Facts DEF Timed
<1>2. /\ time' = [time EXCEPT ![k] = IF x > time[k] THEN x ELSE time[k]]
      /\ Touch({k}) /\ UNCHANGED <<usage, request, faults>>
      /\ \A y \in Obs : time[y] # 0 => time[y] # x
  BY DEF merge_into_existing, Stored
<1>3. Stored' \subseteq Stored \cup {k}
  BY <1>1, <1>2 DEF Stored
<1>4. IsFiniteSet(Stored')
  BY <1>1, <1>3, FS_AddElement, FS_Subset
<1>5. time' \in [Obs -> Obs \cup {0}] /\ \A y \in Obs \ {k} : time'[y] = time[y]
  BY <1>1, <1>2
<1>6. \A y, z \in Obs : time'[y] = time'[z] /\ time'[y] # 0 => y = z
  BY <1>1, <1>2
<1>. QED
  BY <1>1, <1>2, <1>4, <1>5, <1>6, RowsChange

-----------------------------------------------------------------------------
(* Timelines *)

LEMMA unified_timelineKeeps == ASSUME IInv, NEW r \in Request, unified_timeline(r) PROVE IInv'
<1>1. PICK x \in Stored :
        request' = [request EXCEPT ![r] =
          [NoRequest EXCEPT !.pc = "timeline", !.anchor = x, !.at = time[x]]]
  BY DEF unified_timeline
<1> DEFINE v == [NoRequest EXCEPT !.pc = "timeline", !.anchor = x, !.at = time[x]]
<1>2. /\ x \in Obs /\ time[x] \in Obs
      /\ \A y, z \in Obs : time[y] = time[z] /\ time[y] # 0 => y = z
  BY Facts DEF Stored
<1>3. UNCHANGED <<time, usage, touched, faults>>
  BY DEF unified_timeline
<1>4. /\ v \in Records /\ v.pc = "timeline" /\ v.kind = "timeline" /\ v.query = None
      /\ v.before = None /\ v.after = None /\ v.at = time[x] /\ v.anchor = x
  <2>1. NoRequest \in Records
    BY DEF NoRequest, Records
  <2>2. /\ v.pc = "timeline" /\ v.kind = "timeline" /\ v.query = None
        /\ v.before = None /\ v.after = None /\ v.at = time[x] /\ v.anchor = x
    BY DEF NoRequest
  <2>3. v \in Records
    <3> HIDE DEF NoRequest
    <3>1. \A q \in Records : [q EXCEPT !.pc = "timeline"] \in Records
      BY DEF Records, Reading
    <3>2. \A q \in Records : [q EXCEPT !.anchor = x] \in Records
      BY <1>2 DEF Records
    <3>3. \A q \in Records : [q EXCEPT !.at = time[x]] \in Records
      BY <1>2 DEF Records
    <3>. QED
      BY <2>1, <3>1, <3>2, <3>3
  <2>. QED
    BY <2>2, <2>3
<1> HIDE DEF v
<1>5. Anchored(time, v, touched'[r])
  <2>1. \A y \in Obs \ touched'[r] : time[y] = time[x] <=> y = x
    BY <1>2 DEF Stored
  <2>. QED
    BY <1>2, <1>4, <2>1 DEF Anchored
<1>6. Good(time, v, touched'[r])
  BY <1>4, <1>5 DEF Good, Shape, OnTimeline, Older, Newer, TextRead, Ordered
<1>7. request' = [request EXCEPT ![r] = v]
  BY <1>1 DEF v
<1>8. /\ touched' \in [Request -> SUBSET Obs] /\ \A s \in Request \ {r} : touched'[s] = touched[s]
      /\ usage' \in [Entry -> 0..MaxUsage] /\ faults' \in 0..MaxFaults
  BY <1>3, Facts
<1>. QED
  BY <1>3, <1>4, <1>6, <1>7, <1>8, OneRequest

LEMMA AnswerKeeps ==
  ASSUME IInv, NEW r \in Request, Answer(r), UNCHANGED time,
         usage' \in [Entry -> 0..MaxUsage], faults' \in 0..MaxFaults
  PROVE  IInv'
<1>1. NoRequest \in Records /\ NoRequest.pc = "idle"
  BY DEF NoRequest, Records
<1>2. Good(time, NoRequest, touched'[r])
  BY <1>1, NotReading
<1>3. /\ touched' \in [Request -> SUBSET Obs]
      /\ \A s \in Request \ {r} : touched'[s] = touched[s]
  BY Facts DEF Answer
<1>4. request' = [request EXCEPT ![r] = NoRequest]
  BY DEF Answer
<1>. QED
  BY <1>1, <1>2, <1>3, <1>4, OneRequest

LEMMA Fields ==
  ASSUME NEW q \in Records
  PROVE  /\ \A p \in Reading \cup {"idle", "count"} : [q EXCEPT !.pc = p] \in Records
         /\ \A p \in {"timeline", "hybrid", "filtered", "semantic", "knowledge"} :
              [q EXCEPT !.kind = p] \in Records
         /\ \A b \in {None} \cup SUBSET Obs : [q EXCEPT !.before = b] \in Records
         /\ \A b \in {None} \cup SUBSET Obs : [q EXCEPT !.after = b] \in Records
         /\ \A s \in Query : [q EXCEPT !.query = s] \in Records
         /\ \A T \in SUBSET Obs : [q EXCEPT !.text = T] \in Records
         /\ \A s \in Seq(Obs) : [q EXCEPT !.rows = s] \in Records
         /\ \A E \in SUBSET Entry : [q EXCEPT !.ids = E] \in Records
<1>1. \A p \in Reading \cup {"idle", "count"} : [q EXCEPT !.pc = p] \in Records
  BY DEF Records
<1>2. \A p \in {"timeline", "hybrid", "filtered", "semantic", "knowledge"} :
        [q EXCEPT !.kind = p] \in Records
  BY DEF Records
<1>3. \A b \in {None} \cup SUBSET Obs : [q EXCEPT !.before = b] \in Records
  BY DEF Records
<1>4. \A b \in {None} \cup SUBSET Obs : [q EXCEPT !.after = b] \in Records
  BY DEF Records
<1>5. \A s \in Query : [q EXCEPT !.query = s] \in Records
  BY DEF Records
<1>6. \A T \in SUBSET Obs : [q EXCEPT !.text = T] \in Records
  BY DEF Records
<1>7. \A s \in Seq(Obs) : [q EXCEPT !.rows = s] \in Records
  BY DEF Records
<1>8. \A E \in SUBSET Entry : [q EXCEPT !.ids = E] \in Records
  BY DEF Records
<1>. QED
  BY <1>1, <1>2, <1>3, <1>4, <1>5, <1>6, <1>7, <1>8

\* The record of a timeline that has read these sides.
WithSides(q, before, after) ==
  [q EXCEPT !.before = before, !.after = after,
            !.pc = IF None \in {before, after} THEN "timeline" ELSE "shown"]

LEMMA Sides ==
  ASSUME NEW q \in Records, NEW B \in {None} \cup SUBSET Obs, NEW A \in {None} \cup SUBSET Obs
  PROVE  LET v == WithSides(q, B, A)
         IN  /\ v \in Records /\ v.pc = IF None \in {B, A} THEN "timeline" ELSE "shown"
             /\ v.before = B /\ v.after = A /\ v.kind = q.kind /\ v.query = q.query
             /\ v.at = q.at /\ v.anchor = q.anchor
<1> DEFINE v == WithSides(q, B, A)
           p == IF None \in {B, A} THEN "timeline" ELSE "shown"
<1>1. p \in Reading
  BY DEF Reading
<1>2. v = [q EXCEPT !.before = B, !.after = A, !.pc = p]
  BY DEF WithSides
<1> HIDE DEF v, p
<1>3. v \in Records
  <2>1. [q EXCEPT !.before = B] \in Records
    BY Fields
  <2>2. [[q EXCEPT !.before = B] EXCEPT !.after = A] \in Records
    BY <2>1, Fields
  <2>3. [[[q EXCEPT !.before = B] EXCEPT !.after = A] EXCEPT !.pc = p] \in Records
    BY <1>1, <2>2, Fields
  <2>. QED
    BY <1>2, <2>3
<1>4. /\ v.pc = p /\ v.before = B /\ v.after = A /\ v.kind = q.kind /\ v.query = q.query
      /\ v.at = q.at /\ v.anchor = q.anchor
  BY <1>2 DEF Records
<1>. QED
  BY <1>3, <1>4 DEF v, p

\* These sides go with q's anchor, whatever else the record has.
SidesFit(q, B, A, U) ==
  \A v \in Records :
    /\ OnTimeline(v) /\ v.before = B /\ v.after = A /\ v.at = q.at /\ v.anchor = q.anchor
    => Older(time, v, U) /\ Newer(time, v, U)

LEMMA SideKeeps ==
  ASSUME IInv, NEW r \in Request, At(r, "timeline"),
         NEW B \in {None} \cup SUBSET Obs, NEW A \in {None} \cup SUBSET Obs,
         Side(r, B, A), UNCHANGED <<time, usage>>, faults' \in 0..MaxFaults,
         NEW U \in SUBSET Obs, touched[r] \subseteq U, touched' = [touched EXCEPT ![r] = U],
         SidesFit(request[r], B, A, U)
  PROVE  IInv'
<1> DEFINE q == request[r]
           v == WithSides(q, B, A)
<1>1. /\ q \in Records /\ Good(time, q, touched[r]) /\ q.pc = "timeline"
      /\ touched \in [Request -> SUBSET Obs] /\ usage \in [Entry -> 0..MaxUsage]
  BY Facts DEF IInv, At
<1>2. request' = [request EXCEPT ![r] = v]
  BY DEF Side, WithSides
<1> HIDE DEF q
<1>3. /\ v \in Records /\ v.pc = IF None \in {B, A} THEN "timeline" ELSE "shown"
      /\ v.before = B /\ v.after = A /\ v.kind = q.kind /\ v.query = q.query
      /\ v.at = q.at /\ v.anchor = q.anchor
  BY <1>1, Sides
<1> HIDE DEF v
<1>4. q.kind = "timeline" /\ q.query = None /\ OnTimeline(q)
  BY <1>1 DEF Good, Shape, OnTimeline
<1>5. v.pc \in {"timeline", "shown"} /\ (v.pc = "shown" => v.before # None /\ v.after # None)
  BY <1>3
<1>6. Shape(v) /\ OnTimeline(v)
  BY <1>3, <1>4, <1>5 DEF Shape, OnTimeline
<1>7. Anchored(time, v, U)
  BY <1>1, <1>3, <1>4, <1>6 DEF Good, Anchored
<1>8. Older(time, v, U) /\ Newer(time, v, U)
  BY <1>3, <1>6 DEF q, SidesFit
<1>9. TextRead(time, v, U) /\ Ordered(time, v, U)
  BY <1>3, <1>4, <1>5 DEF TextRead, Ordered
<1>10. Good(time, v, U)
  BY <1>6, <1>7, <1>8, <1>9 DEF Good
<1>11. touched' \in [Request -> SUBSET Obs] /\ touched'[r] = U
       /\ \A s \in Request \ {r} : touched'[s] = touched[s]
  BY <1>1
<1>12. usage' \in [Entry -> 0..MaxUsage]
  BY <1>1
<1>. QED
  BY <1>2, <1>3, <1>10, <1>11, <1>12, OneRequest

LEMMA BeforeQueryKeeps == ASSUME IInv, NEW r \in Request, BeforeQuery(r) PROVE IInv'
<1> DEFINE q == request[r]
<1>1. /\ At(r, "timeline") /\ q.pc = "timeline" /\ q.before = None /\ UNCHANGED <<time, usage>>
  BY DEF BeforeQuery, At
<1>2. /\ q \in Records /\ Good(time, q, touched[r]) /\ Timed(Stored)
      /\ touched \in [Request -> SUBSET Obs] /\ faults \in 0..MaxFaults
      /\ time \in [Obs -> Obs \cup {0}]
  BY Facts DEF IInv
<1>3. /\ q.kind = "timeline" /\ OnTimeline(q) /\ q.at \in Obs /\ q.anchor \in Obs
      /\ \A x \in Obs \ touched[r] : time[x] = q.at <=> x = q.anchor
  BY <1>1, <1>2 DEF Good, Shape, OnTimeline, Anchored
<1>4. q.after \in {None} \cup SUBSET Obs
  BY <1>2 DEF Records
<1>5. CASE /\ LET rows == get_timeline(0, request[r].at, Read(Before))
              IN  Side(r, Shown(rows, request[r].anchor, Before), request[r].after)
           /\ UNCHANGED <<touched, faults>>
  <2> DEFINE B == OlderRows(q.at, q.anchor)
  <2>1. Side(r, B, q.after)
    BY <1>5 DEF OlderRows
  <2>2. q.at \in Nat \ {0} /\ Before \in Nat /\ MaxQueryLimit \in Nat \ {0}
    BY <1>3, IdAssumption, LimitAssumption
  <2> HIDE DEF q
  <2>3. /\ B \subseteq Stored \ {q.anchor} /\ \A x \in B : time[x] <= q.at
        /\ q.anchor \in Stored /\ time[q.anchor] = q.at =>
             /\ \A x \in B : time[x] < q.at
             /\ \A y \in Stored : time[y] < q.at /\ y \notin B =>
                  Cardinality(B) = Full(Before) /\ \A x \in B : time[x] > time[y]
    BY <1>2, <2>2, OlderSide
  <2> HIDE DEF B
  <2>4. B \in SUBSET Obs /\ \A x \in B : x \in Obs /\ time[x] \in Nat
    <3>1. \A x \in Obs : time[x] \in Nat
      <4>1. SUFFICES ASSUME NEW x \in Obs PROVE time[x] \in Nat
        OBVIOUS
      <4>2. time[x] \in Obs \/ time[x] = 0
        BY <1>2
      <4>3. \A y \in Obs : y \in Nat
        BY IdAssumption
      <4>4. CASE time[x] \in Obs
        BY <4>3, <4>4
      <4>5. CASE time[x] = 0
        BY <4>5
      <4>. QED
        BY <4>2, <4>4, <4>5
    <3>. QED
      BY <2>3, <3>1 DEF Stored
  <2>5. \A x \in B \ touched[r] : time[x] < q.at
    BY <1>3, <2>2, <2>3, <2>4
  <2>6. q.anchor \notin touched[r] =>
          \A y \in Obs \ touched[r] : time[y] # 0 /\ time[y] < q.at /\ y \notin B =>
            Cardinality(B) = Full(Before) /\ \A x \in B \ touched[r] : time[x] > time[y]
    <3>1. SUFFICES ASSUME q.anchor \notin touched[r], NEW y \in Obs \ touched[r],
                          time[y] # 0, time[y] < q.at, y \notin B
                   PROVE  Cardinality(B) = Full(Before) /\ \A x \in B \ touched[r] : time[x] > time[y]
      OBVIOUS
    <3>2. time[q.anchor] = q.at /\ q.anchor \in Stored /\ y \in Stored
      BY <1>3, <2>2, <3>1 DEF Stored
    <3>. QED
      BY <2>3, <3>1, <3>2
  <2>7. ASSUME NEW v \in Records, OnTimeline(v), v.before = B, v.after = q.after,
               v.at = q.at, v.anchor = q.anchor
        PROVE  Older(time, v, touched[r]) /\ Newer(time, v, touched[r])
    <3>1. Older(time, v, touched[r])
      BY <2>3, <2>5, <2>6, <2>7 DEF Older
    <3>2. Newer(time, v, touched[r])
      BY <1>2, <1>3, <2>7 DEF Good, Newer
    <3>. QED
      BY <3>1, <3>2
  <2>8. touched' = [touched EXCEPT ![r] = touched[r]] /\ faults' \in 0..MaxFaults
        /\ touched[r] \in SUBSET Obs
    BY <1>2, <1>5
  <2>9. B \in {None} \cup SUBSET Obs /\ touched[r] \subseteq touched[r]
    BY <2>4
  <2>. QED
    <3>1. SidesFit(q, B, q.after, touched[r])
      BY <2>7 DEF SidesFit
    <3>. QED
      BY <1>1, <1>4, <2>1, <3>1, <2>8, <2>9, SideKeeps DEF q
<1>6. CASE Side(r, {}, request[r].after) /\ Fault /\ Unjudged(r)
  <2>1. touched' = [touched EXCEPT ![r] = Obs] /\ touched[r] \subseteq Obs
    BY <1>2, <1>6 DEF Unjudged
  <2>2. faults' \in 0..MaxFaults
    BY <1>2, <1>6, LimitAssumption DEF Fault
  <2> HIDE DEF q
  <2>3. ASSUME NEW v \in Records, OnTimeline(v), v.before = {}, v.after = q.after,
               v.at = q.at, v.anchor = q.anchor
        PROVE  Older(time, v, Obs) /\ Newer(time, v, Obs)
    <3>1. Older(time, v, Obs)
      BY <2>3 DEF Older
    <3>2. v.after # None => v.after \subseteq Obs /\ v.anchor \notin v.after
      BY <1>2, <1>3, <2>3 DEF Good, Newer, Records
    <3>3. Newer(time, v, Obs)
      BY <1>3, <2>3, <3>2 DEF Newer
    <3>. QED
      BY <3>1, <3>3
  <2>4. {} \in {None} \cup SUBSET Obs /\ Obs \in SUBSET Obs
    OBVIOUS
  <2>5. Side(r, {}, q.after)
    BY <1>6 DEF q
  <2>. QED
    <3>1. SidesFit(q, {}, q.after, Obs)
      BY <2>3 DEF SidesFit
    <3>. QED
      BY <1>1, <1>4, <2>1, <2>2, <3>1, <2>4, <2>5, SideKeeps DEF q
<1>. QED
  BY <1>5, <1>6 DEF BeforeQuery

LEMMA AfterQueryKeeps == ASSUME IInv, NEW r \in Request, AfterQuery(r) PROVE IInv'
<1> DEFINE q == request[r]
<1>1. /\ At(r, "timeline") /\ q.pc = "timeline" /\ q.after = None /\ UNCHANGED <<time, usage>>
  BY DEF AfterQuery, At
<1>2. /\ q \in Records /\ Good(time, q, touched[r]) /\ Timed(Stored)
      /\ touched \in [Request -> SUBSET Obs] /\ faults \in 0..MaxFaults
      /\ time \in [Obs -> Obs \cup {0}]
  BY Facts DEF IInv
<1>3. /\ q.kind = "timeline" /\ OnTimeline(q) /\ q.at \in Obs /\ q.anchor \in Obs
      /\ \A x \in Obs \ touched[r] : time[x] = q.at <=> x = q.anchor
  BY <1>1, <1>2 DEF Good, Shape, OnTimeline, Anchored
<1>4. q.before \in {None} \cup SUBSET Obs
  BY <1>2 DEF Records
<1>5. CASE /\ LET rows == get_timeline(request[r].at, 0, Read(After))
              IN  Side(r, request[r].before, Shown(rows, request[r].anchor, After))
           /\ UNCHANGED <<touched, faults>>
  <2> DEFINE B == NewerRows(q.at, q.anchor)
  <2>1. Side(r, q.before, B)
    BY <1>5 DEF NewerRows
  <2>2. q.at \in Nat \ {0} /\ After \in Nat /\ MaxQueryLimit \in Nat \ {0}
    BY <1>3, IdAssumption, LimitAssumption
  <2> HIDE DEF q
  <2>3. /\ B \subseteq Stored \ {q.anchor} /\ \A x \in B : time[x] >= q.at
        /\ q.anchor \in Stored /\ time[q.anchor] = q.at =>
             /\ \A x \in B : time[x] > q.at
             /\ \A y \in Stored : time[y] > q.at /\ y \notin B =>
                  Cardinality(B) = Full(After) /\ \A x \in B : time[x] < time[y]
    BY <1>2, <2>2, NewerSide
  <2> HIDE DEF B
  <2>4. B \in SUBSET Obs /\ \A x \in B : x \in Obs /\ time[x] \in Nat
    <3>1. \A x \in Obs : time[x] \in Nat
      <4>1. SUFFICES ASSUME NEW x \in Obs PROVE time[x] \in Nat
        OBVIOUS
      <4>2. time[x] \in Obs \/ time[x] = 0
        BY <1>2
      <4>3. \A y \in Obs : y \in Nat
        BY IdAssumption
      <4>4. CASE time[x] \in Obs
        BY <4>3, <4>4
      <4>5. CASE time[x] = 0
        BY <4>5
      <4>. QED
        BY <4>2, <4>4, <4>5
    <3>. QED
      BY <2>3, <3>1 DEF Stored
  <2>5. \A x \in B \ touched[r] : time[x] > q.at
    BY <1>3, <2>2, <2>3, <2>4
  <2>6. q.anchor \notin touched[r] =>
          \A y \in Obs \ touched[r] : time[y] # 0 /\ time[y] > q.at /\ y \notin B =>
            Cardinality(B) = Full(After) /\ \A x \in B \ touched[r] : time[x] < time[y]
    <3>1. SUFFICES ASSUME q.anchor \notin touched[r], NEW y \in Obs \ touched[r],
                          time[y] # 0, time[y] > q.at, y \notin B
                   PROVE  Cardinality(B) = Full(After) /\ \A x \in B \ touched[r] : time[x] < time[y]
      OBVIOUS
    <3>2. time[q.anchor] = q.at /\ q.anchor \in Stored /\ y \in Stored
      BY <1>3, <2>2, <3>1 DEF Stored
    <3>. QED
      BY <2>3, <3>1, <3>2
  <2>7. ASSUME NEW v \in Records, OnTimeline(v), v.after = B, v.before = q.before,
               v.at = q.at, v.anchor = q.anchor
        PROVE  Newer(time, v, touched[r]) /\ Older(time, v, touched[r])
    <3>1. Newer(time, v, touched[r])
      BY <2>3, <2>5, <2>6, <2>7 DEF Newer
    <3>2. Older(time, v, touched[r])
      BY <1>2, <1>3, <2>7 DEF Good, Older
    <3>. QED
      BY <3>1, <3>2
  <2>8. touched' = [touched EXCEPT ![r] = touched[r]] /\ faults' \in 0..MaxFaults
        /\ touched[r] \in SUBSET Obs
    BY <1>2, <1>5
  <2>9. B \in {None} \cup SUBSET Obs /\ touched[r] \subseteq touched[r]
    BY <2>4
  <2>. QED
    <3>1. SidesFit(q, q.before, B, touched[r])
      BY <2>7 DEF SidesFit
    <3>. QED
      BY <1>1, <1>4, <2>1, <3>1, <2>8, <2>9, SideKeeps DEF q
<1>6. CASE Side(r, request[r].before, {}) /\ Fault /\ Unjudged(r)
  <2>1. touched' = [touched EXCEPT ![r] = Obs] /\ touched[r] \subseteq Obs
    BY <1>2, <1>6 DEF Unjudged
  <2>2. faults' \in 0..MaxFaults
    BY <1>2, <1>6, LimitAssumption DEF Fault
  <2> HIDE DEF q
  <2>3. ASSUME NEW v \in Records, OnTimeline(v), v.after = {}, v.before = q.before,
               v.at = q.at, v.anchor = q.anchor
        PROVE  Newer(time, v, Obs) /\ Older(time, v, Obs)
    <3>1. Newer(time, v, Obs)
      BY <2>3 DEF Newer
    <3>2. v.before # None => v.before \subseteq Obs /\ v.anchor \notin v.before
      BY <1>2, <1>3, <2>3 DEF Good, Older, Records
    <3>3. Older(time, v, Obs)
      BY <1>3, <2>3, <3>2 DEF Older
    <3>. QED
      BY <3>1, <3>3
  <2>4. {} \in {None} \cup SUBSET Obs /\ Obs \in SUBSET Obs
    OBVIOUS
  <2>5. Side(r, q.before, {})
    BY <1>6 DEF q
  <2>. QED
    <3>1. SidesFit(q, q.before, {}, Obs)
      BY <2>3 DEF SidesFit
    <3>. QED
      BY <1>1, <1>4, <2>1, <2>2, <3>1, <2>4, <2>5, SideKeeps DEF q
<1>. QED
  BY <1>5, <1>6 DEF AfterQuery

LEMMA TimelineFailsKeeps == ASSUME IInv, NEW r \in Request, TimelineFails(r) PROVE IInv'
<1>1. Answer(r) /\ Fault /\ UNCHANGED <<time, usage>>
  BY DEF TimelineFails
<1>2. usage' \in [Entry -> 0..MaxUsage] /\ faults' \in 0..MaxFaults
  BY <1>1, Facts, LimitAssumption DEF Fault
<1>. QED
  BY <1>1, <1>2, AnswerKeeps

LEMMA ReplyKeeps == ASSUME IInv, NEW r \in Request, Reply(r) PROVE IInv'
<1>1. Answer(r) /\ UNCHANGED <<time, usage, faults>>
  BY DEF Reply
<1>2. usage' \in [Entry -> 0..MaxUsage] /\ faults' \in 0..MaxFaults
  BY <1>1, Facts
<1>. QED
  BY <1>1, <1>2, AnswerKeeps

-----------------------------------------------------------------------------
(* Knowledge *)

LEMMA Selected ==
  ASSUME NEW place, NEW listed \in SUBSET Entry, NEW day
  PROVE  select_relevant_knowledge(place, listed, day) \in SUBSET Entry
<1>1. OfTheProject(place, listed, {}) \in SUBSET Entry
  BY DEF OfTheProject, Take
<1>2. \A E \in SUBSET Entry : Recent(listed, E) \in SUBSET Entry
  BY DEF Recent, Take
<1>3. \A E \in SUBSET Entry : Proven(place, listed, E) \in SUBSET Entry
  BY DEF Proven, Take
<1>4. \A E \in SUBSET Entry : Unseen(place, listed, E, day) \in SUBSET Entry
  BY DEF Unseen, Take
<1>5. \A E \in SUBSET Entry : Backfilled(place, listed, E) \in SUBSET Entry
  BY DEF Backfilled, Take
<1>. QED
  BY <1>1, <1>2, <1>3, <1>4, <1>5 DEF select_relevant_knowledge

LEMMA fetch_relevant_knowledgeKeeps ==
  ASSUME IInv, NEW r \in Request, fetch_relevant_knowledge(r) PROVE IInv'
<1>1. PICK place \in Listing, day \in Day :
        LET listed == {e \in Entry : place[e] <= normalize_limit(1000)}
        IN  request' = [request EXCEPT ![r] =
              [NoRequest EXCEPT !.pc = "count", !.kind = "knowledge",
                 !.ids = select_relevant_knowledge(place, listed, day)]]
  BY DEF fetch_relevant_knowledge
<1> DEFINE listed == {e \in Entry : place[e] <= normalize_limit(1000)}
           E == select_relevant_knowledge(place, listed, day)
           v == [NoRequest EXCEPT !.pc = "count", !.kind = "knowledge", !.ids = E]
<1>2. E \in SUBSET Entry
  BY Selected
<1>3. request' = [request EXCEPT ![r] = v]
  BY <1>1
<1> HIDE DEF E
<1>4. v.pc = "count"
  BY DEF NoRequest
<1>5. v \in Records
  <2>1. NoRequest \in Records
    BY DEF NoRequest, Records
  <2> HIDE DEF NoRequest
  <2>2. [NoRequest EXCEPT !.pc = "count"] \in Records
    BY <2>1, Fields
  <2>3. [[NoRequest EXCEPT !.pc = "count"] EXCEPT !.kind = "knowledge"] \in Records
    BY <2>2, Fields
  <2>4. [[[NoRequest EXCEPT !.pc = "count"] EXCEPT !.kind = "knowledge"] EXCEPT !.ids = E] \in Records
    BY <1>2, <2>3, Fields
  <2>. QED
    BY <2>4
<1> HIDE DEF v
<1>6. Good(time, v, touched'[r])
  BY <1>4, NotReading
<1>7. /\ touched' \in [Request -> SUBSET Obs] /\ \A s \in Request \ {r} : touched'[s] = touched[s]
      /\ usage' \in [Entry -> 0..MaxUsage] /\ faults' \in 0..MaxFaults /\ UNCHANGED time
  BY Facts DEF fetch_relevant_knowledge
<1>. QED
  BY <1>3, <1>5, <1>6, <1>7, OneRequest

LEMMA update_knowledge_usage_batchKeeps ==
  ASSUME IInv, NEW r \in Request, update_knowledge_usage_batch(r) PROVE IInv'
<1>1. Answer(r) /\ usage' = Counted(request[r].ids) /\ UNCHANGED <<time, faults>>
  BY DEF update_knowledge_usage_batch
<1>2. usage \in [Entry -> 0..MaxUsage] /\ faults' \in 0..MaxFaults /\ MaxUsage \in Nat
  BY <1>1, Facts, LimitAssumption
<1>3. \A e \in Entry : usage[e] \in 0..MaxUsage /\ AtMost(usage[e] + 1, MaxUsage) \in 0..MaxUsage
  BY <1>2 DEF AtMost
<1>4. usage' \in [Entry -> 0..MaxUsage]
  BY <1>1, <1>3 DEF Counted
<1>. QED
  BY <1>1, <1>2, <1>4, AnswerKeeps

LEMMA UsageFailsKeeps == ASSUME IInv, NEW r \in Request, UsageFails(r) PROVE IInv'
<1>1. Answer(r) /\ Fault /\ UNCHANGED <<time, usage>>
  BY DEF UsageFails
<1>2. usage' \in [Entry -> 0..MaxUsage] /\ faults' \in 0..MaxFaults
  BY <1>1, Facts, LimitAssumption DEF Fault
<1>. QED
  BY <1>1, <1>2, AnswerKeeps

-----------------------------------------------------------------------------
(* Lists by score *)

LEMMA Scores ==
  ASSUME NEW s \in Query, NEW x \in Obs
  PROVE  /\ Text[s][x] \in Nat /\ AllWords[s][x] \in Nat /\ Vector[s][x] \in Nat
         /\ Overlap[s][x] \in Nat /\ Keywords[s] \in Nat /\ Keywords[s] >= 1
<1>1. /\ Text \in [Query -> [Obs -> Nat]] /\ AllWords \in [Query -> [Obs -> Nat]]
      /\ Vector \in [Query -> [Obs -> Nat]] /\ Overlap \in [Query -> [Obs -> Nat]]
      /\ Keywords \in [Query -> Nat \ {0}]
  BY ScoreAssumption
<1>2. Text[s][x] \in Nat /\ AllWords[s][x] \in Nat
  BY <1>1
<1>3. Vector[s][x] \in Nat /\ Overlap[s][x] \in Nat
  BY <1>1
<1>4. Keywords[s] \in Nat /\ Keywords[s] >= 1
  BY <1>1
<1>. QED
  BY <1>2, <1>3, <1>4

LEMMA Limits == normalize_limit(Limit) \in Nat
BY LimitAssumption DEF AtMost, normalize_limit

LEMMA RankedTyped ==
  ASSUME NEW T, IsFiniteSet(T), NEW total, NEW rows \in Ranked(T, total)
  PROVE  /\ rows \in Seq(T) /\ Len(rows) \in Nat /\ rows \in [1..Len(rows) -> T]
         /\ \A i, j \in 1..Len(rows) : i < j =>
              rows[i] # rows[j] /\ total[rows[i]] >= total[rows[j]]
         /\ \A i \in 1..Len(rows), x \in T \ Range(rows) : total[rows[i]] >= total[x]
<1> DEFINE n == AtMost(normalize_limit(Limit), Cardinality(T))
<1>1. Cardinality(T) \in Nat
  BY FS_CardinalityType
<1>2. n \in Nat
  BY <1>1, Limits DEF AtMost
<1>3. /\ rows \in [1..n -> T]
      /\ \A i, j \in 1..n : i < j => rows[i] # rows[j] /\ total[rows[i]] >= total[rows[j]]
      /\ \A i \in 1..n, x \in T \ Range(rows) : total[rows[i]] >= total[x]
  BY DEF Ranked
<1> HIDE DEF n
<1>4. rows \in Seq(T) /\ Len(rows) = n
  BY <1>2, <1>3
<1>. QED
  BY <1>2, <1>3, <1>4

\* Of a ranking, what has more than a row in it comes before that row.
LEMMA RankedFirst ==
  ASSUME NEW T, IsFiniteSet(T), NEW total, \A x \in T : total[x] \in Int,
         NEW rows \in Ranked(T, total), NEW x \in T, NEW j \in 1..Len(rows),
         total[x] > total[rows[j]]
  PROVE  \E i \in 1..(j - 1) : rows[i] = x
<1>1. /\ Len(rows) \in Nat /\ rows \in [1..Len(rows) -> T]
      /\ \A i, k \in 1..Len(rows) : i < k =>
           rows[i] # rows[k] /\ total[rows[i]] >= total[rows[k]]
      /\ \A i \in 1..Len(rows), y \in T \ Range(rows) : total[rows[i]] >= total[y]
  BY RankedTyped
<1>2. rows[j] \in T
  BY <1>1
<1>3. total[x] \in Int /\ total[rows[j]] \in Int
  BY <1>2
<1>4. x \in Range(rows)
  BY <1>1, <1>3
<1>5. PICK i \in 1..Len(rows) : rows[i] = x
  BY <1>1, <1>4 DEF Range
<1>6. i # j
  BY <1>3, <1>5
<1>7. ~(j < i)
  BY <1>1, <1>3, <1>5
<1>8. i < j /\ i \in Int /\ j \in Int /\ i >= 1
  BY <1>1, <1>5, <1>6, <1>7
<1>9. i \in 1..(j - 1)
  BY <1>8
<1>. QED
  BY <1>5, <1>9

\* One of finitely many numbers comes first in an order of theirs.
LEMMA Extreme ==
  ASSUME NEW S, IsFiniteSet(S), S # {}, NEW k \in [S -> Int],
         \A m, n \in S : k[m] = k[n] => m = n
  PROVE  \E m \in S : \A n \in S : k[m] <= k[n]
<1> DEFINE N == FirstN(S, k, 1)
<1>1. /\ N \subseteq S /\ IsFiniteSet(N) /\ Cardinality(N) = AtMost(1, Cardinality(S))
      /\ \A m \in N, n \in S \ N : k[m] < k[n]
  BY FirstOnes
<1> HIDE DEF N
<1>2. Cardinality(S) \in Nat /\ Cardinality(S) # 0
  BY FS_CardinalityType, FS_EmptySet
<1>3. Cardinality(N) = 1
  BY <1>1, <1>2 DEF AtMost
<1>4. PICK m : N = {m}
  BY <1>1, <1>3, FS_Singleton
<1>5. ASSUME NEW n \in S PROVE k[m] <= k[n]
  BY <1>1, <1>4, <1>5
<1>. QED
  BY <1>1, <1>4, <1>5

LEMMA MinIsLeast ==
  ASSUME NEW S, IsFiniteSet(S), S # {}, S \subseteq Int
  PROVE  Min(S) \in S /\ \A n \in S : Min(S) <= n
<1> DEFINE k == [n \in S |-> n]
<1>1. k \in [S -> Int] /\ \A m, n \in S : k[m] = k[n] => m = n
  OBVIOUS
<1> HIDE DEF k
<1>2. \E m \in S : \A n \in S : k[m] <= k[n]
  BY <1>1, Extreme
<1>3. \E m \in S : \A n \in S : m <= n
  BY <1>2 DEF k
<1>. QED
  BY <1>3 DEF Min

LEMMA MaxIsGreatest ==
  ASSUME NEW S, IsFiniteSet(S), S # {}, S \subseteq Int
  PROVE  Max(S) \in S /\ \A n \in S : Max(S) >= n
<1> DEFINE k == [n \in S |-> 0 - n]
<1>1. k \in [S -> Int] /\ \A m, n \in S : k[m] = k[n] => m = n
  <2>1. \A n \in S : n \in Int /\ 0 - n \in Int
    OBVIOUS
  <2>. QED
    BY <2>1
<1> HIDE DEF k
<1>2. PICK m \in S : \A n \in S : k[m] <= k[n]
  BY <1>1, Extreme
<1>3. \A n \in S : m >= n
  <2>1. ASSUME NEW n \in S PROVE m >= n
    <3>1. 0 - m <= 0 - n /\ m \in Int /\ n \in Int
      BY <1>2 DEF k
    <3>. QED
      BY <3>1
  <2>. QED
    BY <2>1
<1>. QED
  BY <1>3 DEF Max

LEMMA SpanFinite ==
  ASSUME NEW T, IsFiniteSet(T), NEW score, \A y \in T : score[y] \in Nat
  PROVE  /\ IsFiniteSet(Span(T, score)) /\ Span(T, score) \subseteq Int
         /\ \A y \in T : score[y] \in Span(T, score)
<1> DEFINE f == [y \in T |-> score[y]]
           S == {f[y] : y \in T}
<1>1. f \in Surjection(T, S)
  BY DEF Surjection
<1>2. IsFiniteSet(S)
  <2> HIDE DEF f, S
  <2>. QED
    BY <1>1, FS_Surjection
<1>3. S = Span(T, score)
  BY DEF Span
<1>. QED
  BY <1>2, <1>3 DEF Span

\* The spread of a list is positive, and the shares of its rows are in it.
LEMMA ShareTyped ==
  ASSUME NEW T, IsFiniteSet(T), NEW score, \A y \in T : score[y] \in Nat
  PROVE  /\ Spread(T, score) \in Nat /\ Spread(T, score) >= 1
         /\ \A x : Share(T, score, x) \in Nat
<1>1. CASE Even(T, score)
  BY <1>1 DEF Spread, Share
<1>2. CASE ~Even(T, score)
  <2> DEFINE S == Span(T, score)
             least == Min(S)
             greatest == Max(S)
  <2>1. PICK x \in T, y \in T : score[x] # score[y]
    BY <1>2 DEF Even
  <2>2. IsFiniteSet(S) /\ S \subseteq Int /\ \A z \in T : score[z] \in S
    BY SpanFinite
  <2>3. S # {}
    BY <2>1, <2>2
  <2> HIDE DEF S
  <2>4. least \in S /\ \A n \in S : least <= n
    BY <2>2, <2>3, MinIsLeast
  <2>5. greatest \in S /\ \A n \in S : greatest >= n
    BY <2>2, <2>3, MaxIsGreatest
  <2> HIDE DEF least, greatest
  <2>6. least \in Int /\ greatest \in Int
    BY <2>2, <2>4, <2>5
  <2>7. \A z \in T : score[z] \in Nat /\ least <= score[z] /\ score[z] <= greatest
    BY <2>2, <2>4, <2>5
  <2>8. greatest - least \in Nat /\ greatest - least >= 1
    <3>1. score[x] \in Nat /\ score[y] \in Nat /\ score[x] # score[y]
      BY <2>1
    <3>2. least <= score[x] /\ score[x] <= greatest /\ least <= score[y] /\ score[y] <= greatest
      BY <2>7
    <3>. QED
      BY <2>6, <3>1, <3>2
  <2>9. Spread(T, score) = greatest - least
    BY <1>2 DEF Spread, greatest, least, S
  <2>10. \A z : z \in T => Share(T, score, z) = score[z] - least
    BY <1>2 DEF Share, least, S
  <2>11. \A z : z \notin T => Share(T, score, z) = 0
    BY DEF Share
  <2>12. ASSUME NEW z PROVE Share(T, score, z) \in Nat
    <3>1. CASE z \in T
      <4>1. score[z] \in Nat /\ least <= score[z]
        BY <2>7, <3>1
      <4>. QED
        BY <2>6, <2>10, <3>1, <4>1
    <3>. QED
      BY <2>11, <3>1
  <2>. QED
    BY <2>8, <2>9, <2>12
<1>. QED
  BY <1>1, <1>2

\* Normalization keeps the order of a list, whatever its scores are.
LEMMA ShareOfBetter ==
  ASSUME NEW T, IsFiniteSet(T), NEW score, \A y \in T : score[y] \in Nat, NEW x, NEW y,
         y \in T => x \in T /\ score[x] > score[y]
  PROVE  /\ Share(T, score, x) >= Share(T, score, y)
         /\ y \in T => Share(T, score, x) > Share(T, score, y)
<1>1. Share(T, score, x) \in Nat /\ Share(T, score, y) \in Nat
  BY ShareTyped
<1>2. CASE y \in T
  <2> DEFINE least == Min(Span(T, score))
  <2>1. score[x] \in Nat /\ score[y] \in Nat /\ score[x] > score[y]
    BY <1>2
  <2>2. ~Even(T, score)
    BY <1>2, <2>1 DEF Even
  <2>3. Share(T, score, x) = score[x] - least /\ Share(T, score, y) = score[y] - least
    BY <1>2, <2>2 DEF Share
  <2>4. least \in Int
    <3>1. /\ IsFiniteSet(Span(T, score)) /\ Span(T, score) \subseteq Int
          /\ score[x] \in Span(T, score)
      BY <1>2, SpanFinite
    <3>. QED
      BY <3>1, MinIsLeast
  <2> HIDE DEF least
  <2>. QED
    BY <1>2, <2>1, <2>3, <2>4
<1>3. CASE y \notin T
  <2>1. Share(T, score, y) = 0
    BY <1>3 DEF Share
  <2>. QED
    BY <1>1, <1>3, <2>1
<1>. QED
  BY <1>2, <1>3

\* Products with a positive number keep the order.
LEMMA ScaledUp ==
  ASSUME NEW a \in Nat, NEW b \in Nat, NEW c \in Nat, c >= 1
  PROVE  /\ a * c \in Nat /\ b * c \in Nat
         /\ a >= b => a * c >= b * c
         /\ a > b => a * c > b * c
<1>1. a * c \in Nat /\ b * c \in Nat
  OBVIOUS
<1>2. (a - b) * c = a * c - b * c
  OBVIOUS
<1>3. ASSUME NEW d \in Nat PROVE d * c >= 0 /\ (d > 0 => d * c > 0)
  OBVIOUS
<1>4. a >= b => (a - b) * c >= 0
  <2>1. a >= b => a - b \in Nat
    OBVIOUS
  <2>. QED
    BY <1>3, <2>1
<1>5. a > b => (a - b) * c > 0
  <2>1. a > b => a - b \in Nat /\ a - b > 0
    OBVIOUS
  <2>. QED
    BY <1>3, <2>1
<1> DEFINE ac == a * c
           bc == b * c
           dc == (a - b) * c
<1>6. dc = ac - bc /\ ac \in Nat /\ bc \in Nat /\ (a >= b => dc >= 0) /\ (a > b => dc > 0)
  BY <1>1, <1>2, <1>4, <1>5
<1> HIDE DEF ac, bc, dc
<1>7. (a >= b => ac >= bc) /\ (a > b => ac > bc)
  BY <1>6
<1>. QED
  BY <1>1, <1>7 DEF ac, bc

LEMMA WeighedUp ==
  ASSUME NEW tx \in Nat, NEW ty \in Nat, NEW vx \in Nat, NEW vy \in Nat,
         NEW dt \in Nat, NEW dv \in Nat, dt >= 1, dv >= 1,
         tx >= ty, vx >= vy, tx > ty \/ vx > vy
  PROVE  Weight(tx * dv, vx * dt) > Weight(ty * dv, vy * dt)
<1> DEFINE a == tx * dv
           b == ty * dv
           c == vx * dt
           d == vy * dt
<1>1. a \in Nat /\ b \in Nat /\ a >= b /\ (tx > ty => a > b)
  BY ScaledUp
<1>2. c \in Nat /\ d \in Nat /\ c >= d /\ (vx > vy => c > d)
  BY ScaledUp
<1> HIDE DEF a, b, c, d
<1>3. a + c > b + d
  BY <1>1, <1>2
<1>. QED
  BY <1>3 DEF Weight, a, b, c, d

LEMMA PlainUp ==
  ASSUME NEW sx \in Nat, NEW sy \in Nat, NEW ox \in Nat, NEW oy \in Nat,
         NEW n \in Nat, NEW d \in Nat, n >= 1, d >= 1, sx > sy, ox >= oy
  PROVE  7 * (sx * n) + 3 * (ox * d) > 7 * (sy * n) + 3 * (oy * d)
<1> DEFINE a == sx * n
           b == sy * n
           c == ox * d
           e == oy * d
<1>1. a \in Nat /\ b \in Nat /\ a > b
  BY ScaledUp
<1>2. c \in Nat /\ e \in Nat /\ c >= e
  BY ScaledUp
<1> HIDE DEF a, b, c, e
<1>3. 7 * a + 3 * c > 7 * b + 3 * e
  BY <1>1, <1>2
<1>. QED
  BY <1>3 DEF a, b, c, e

-----------------------------------------------------------------------------
(* Searches *)

LEMMA Asking ==
  ASSUME NEW v \in Records, v.kind # "timeline", v.pc \in {"semantic", "text", "plain"},
         v.query \in Query, NEW tm, NEW U
  PROVE  Good(tm, v, U)
BY DEF Good, Shape, OnTimeline, Anchored, Older, Newer, TextRead, Ordered

\* A step of a search that changes its own record only.
LEMMA SearchGoesOn ==
  ASSUME IInv, NEW r \in Request, NEW v \in Records, request' = [request EXCEPT ![r] = v],
         UNCHANGED <<time, usage, touched>>, faults' \in 0..MaxFaults,
         Good(time, v, touched[r])
  PROVE  IInv'
<1>1. /\ touched' \in [Request -> SUBSET Obs] /\ touched' = touched
      /\ \A s \in Request \ {r} : touched'[s] = touched[s]
      /\ usage' \in [Entry -> 0..MaxUsage]
  BY Facts
<1>. QED
  BY <1>1, OneRequest

LEMMA SearchKeeps == ASSUME IInv, NEW r \in Request, Search(r) PROVE IInv'
<1>1. PICK q \in Query, kind \in {"hybrid", "filtered", "semantic"}, embedded \in BOOLEAN :
       request' = [request EXCEPT ![r] =
         [NoRequest EXCEPT !.query = q, !.kind = kind,
            !.pc = IF ~embedded THEN "plain"
                   ELSE IF kind = "semantic" THEN "semantic" ELSE "text"]]
  BY DEF Search
<1> DEFINE p == IF ~embedded THEN "plain"
                ELSE IF kind = "semantic" THEN "semantic" ELSE "text"
           v == [NoRequest EXCEPT !.query = q, !.kind = kind, !.pc = p]
<1>2. request' = [request EXCEPT ![r] = v]
  BY <1>1
<1>3. p \in {"semantic", "text", "plain"} /\ p \in Reading
  BY DEF Reading
<1> HIDE DEF p
<1>4. v \in Records
  <2>1. NoRequest \in Records
    BY DEF NoRequest, Records
  <2> HIDE DEF NoRequest
  <2>2. [NoRequest EXCEPT !.query = q] \in Records
    BY <2>1, Fields
  <2>3. [[NoRequest EXCEPT !.query = q] EXCEPT !.kind = kind] \in Records
    BY <2>2, Fields
  <2>4. [[[NoRequest EXCEPT !.query = q] EXCEPT !.kind = kind] EXCEPT !.pc = p] \in Records
    BY <1>3, <2>3, Fields
  <2>. QED
    BY <2>4
<1>5. v.query = q /\ v.kind = kind /\ v.pc = p
  BY DEF NoRequest
<1> HIDE DEF v
<1>6. Good(time, v, touched[r])
  BY <1>3, <1>4, <1>5, Asking
<1>7. UNCHANGED <<time, usage, touched>> /\ faults' \in 0..MaxFaults
  BY Facts DEF Search
<1>. QED
  BY <1>2, <1>4, <1>6, <1>7, SearchGoesOn

\* Rows in the order that BestFirst asks for.
RowsFit(q, U, rows) ==
  \A x \in Obs \ U, j \in 1..Len(rows) :
    time[x] # 0 /\ rows[j] \notin U /\ BetterFor(q.query, x, rows[j]) =>
      \E i \in 1..(j - 1) : rows[i] = x

LEMMA ShowKeeps ==
  ASSUME IInv, NEW r \in Request, request[r].pc \in {"semantic", "text", "vector", "plain"},
         NEW rows \in Seq(Obs), Show(r, rows), UNCHANGED <<time, usage, touched, faults>>,
         RowsFit(request[r], touched[r], rows)
  PROVE  IInv'
<1> DEFINE q == request[r]
           v == [q EXCEPT !.pc = "shown", !.rows = rows]
<1>1. q \in Records /\ Good(time, q, touched[r])
  BY Facts DEF IInv
<1>2. q.kind # "timeline" /\ q.query \in Query
  BY <1>1 DEF Good, Shape
<1>3. request' = [request EXCEPT ![r] = v]
  BY DEF Show
<1>4. RowsFit(q, touched[r], rows)
  OBVIOUS
<1> HIDE DEF q
<1>5. v \in Records
  <2>1. [q EXCEPT !.pc = "shown"] \in Records
    BY <1>1, Fields DEF Reading
  <2>2. [[q EXCEPT !.pc = "shown"] EXCEPT !.rows = rows] \in Records
    BY <2>1, Fields
  <2>. QED
    BY <2>2
<1>6. v.pc = "shown" /\ v.rows = rows /\ v.kind = q.kind /\ v.query = q.query
  BY <1>1 DEF Records
<1> HIDE DEF v
<1>7. Ordered(time, v, touched[r])
  BY <1>4, <1>6 DEF RowsFit, Ordered
<1>8. Good(time, v, touched[r])
  BY <1>2, <1>6, <1>7 DEF Good, Shape, OnTimeline, Anchored, Older, Newer, TextRead
<1>9. UNCHANGED <<time, usage, touched>> /\ faults' \in 0..MaxFaults
  BY Facts
<1>. QED
  BY <1>3, <1>5, <1>8, <1>9, SearchGoesOn

\* What a query by a score lists.
LEMMA Listed ==
  ASSUME IInv, NEW score, \A x \in Obs : score[x] \in Nat, NEW n,
         NEW T \in Top(Among(Stored, score), score, n)
  PROVE  /\ T \subseteq Stored /\ T \subseteq Obs /\ IsFiniteSet(T)
         /\ \A y \in T : score[y] > 0 /\ score[y] \in Nat
         /\ \A x \in Stored, y \in T : score[x] > score[y] => x \in T
<1>1. T \subseteq Among(Stored, score)
  BY DEF Top
<1>2. T \subseteq Stored /\ T \subseteq Obs /\ \A y \in T : score[y] > 0
  BY <1>1 DEF Among, Stored
<1>3. IsFiniteSet(T)
  BY <1>2, FS_Subset DEF IInv
<1>4. \A y \in T : score[y] \in Nat
  BY <1>2
<1>5. ASSUME NEW x \in Stored, NEW y \in T, score[x] > score[y] PROVE x \in T
  <2>1. score[x] \in Nat /\ score[y] \in Nat /\ score[y] > 0
    BY <1>2, <1>4 DEF Stored
  <2>2. x \in Among(Stored, score)
    BY <1>5, <2>1 DEF Among
  <2>3. x \notin T => score[y] >= score[x]
    BY <2>2 DEF Top
  <2>. QED
    BY <1>5, <2>1, <2>3
<1>. QED
  BY <1>2, <1>3, <1>4, <1>5

LEMMA OfSearch ==
  ASSUME IInv, NEW r \in Request, request[r].pc \in {"semantic", "text", "vector", "plain"}
  PROVE  /\ request[r] \in Records /\ Good(time, request[r], touched[r])
         /\ request[r].query \in Query /\ request[r].kind # "timeline"
         /\ \A x \in Obs : Text[request[r].query][x] \in Nat
         /\ \A x \in Obs : AllWords[request[r].query][x] \in Nat
         /\ \A x \in Obs : Vector[request[r].query][x] \in Nat
         /\ \A x \in Obs : Overlap[request[r].query][x] \in Nat
<1>1. request[r] \in Records /\ Good(time, request[r], touched[r])
  BY Facts DEF IInv
<1>2. request[r].query \in Query /\ request[r].kind # "timeline"
  BY <1>1 DEF Good, Shape
<1>. QED
  BY <1>1, <1>2, Scores

\* A ranking by a total that is greater for every better row, which is listed too.
LEMMA RankedFits ==
  ASSUME IInv, NEW q, NEW U, NEW T \in SUBSET Obs, IsFiniteSet(T),
         NEW total, \A x \in T : total[x] \in Int, NEW rows \in Ranked(T, total),
         \A x \in Stored \ U, y \in T \ U :
           BetterFor(q.query, x, y) => x \in T /\ total[x] > total[y]
  PROVE  rows \in Seq(Obs) /\ RowsFit(q, U, rows)
<1>1. rows \in Seq(T) /\ Len(rows) \in Nat /\ rows \in [1..Len(rows) -> T]
  BY RankedTyped
<1>2. rows \in Seq(Obs)
  BY <1>1
<1>3. ASSUME NEW x \in Obs \ U, NEW j \in 1..Len(rows),
             time[x] # 0, rows[j] \notin U, BetterFor(q.query, x, rows[j])
      PROVE  \E i \in 1..(j - 1) : rows[i] = x
  <2>1. rows[j] \in T \ U /\ x \in Stored \ U
    BY <1>1, <1>3 DEF Stored
  <2>2. x \in T /\ total[x] > total[rows[j]]
    BY <1>3, <2>1
  <2>. QED
    BY <2>2, RankedFirst
<1>4. RowsFit(q, U, rows)
  BY <1>3 DEF RowsFit
<1>. QED
  BY <1>2, <1>4

LEMMA semantic_searchKeeps == ASSUME IInv, NEW r \in Request, semantic_search(r) PROVE IInv'
<1> DEFINE q == request[r]
           score == Vector[q.query]
           fit == Among(Stored, score)
<1>1. q.pc = "semantic" /\ UNCHANGED <<time, usage, touched, faults>>
  BY DEF semantic_search, At
<1>2. /\ q \in Records /\ Good(time, q, touched[r]) /\ q.query \in Query /\ q.kind # "timeline"
      /\ \A x \in Obs : score[x] \in Nat
  BY <1>1, OfSearch
<1>3. \/ request' = [request EXCEPT ![r] = [q EXCEPT !.pc = "text"]]
      \/ \E T \in Top(fit, score, Limit) : \E rows \in Ranked(T, score) : Show(r, rows)
  BY DEF semantic_search
<1>4. CASE request' = [request EXCEPT ![r] = [q EXCEPT !.pc = "text"]]
  <2> DEFINE v == [q EXCEPT !.pc = "text"]
  <2> HIDE DEF q
  <2>1. v \in Records
    BY <1>2, Fields DEF Reading
  <2>2. v.pc = "text" /\ v.kind = q.kind /\ v.query = q.query
    BY <1>2 DEF Records
  <2>3. request' = [request EXCEPT ![r] = v]
    BY <1>4
  <2> HIDE DEF v
  <2>4. Good(time, v, touched[r])
    BY <1>2, <2>1, <2>2, Asking
  <2>5. UNCHANGED <<time, usage, touched>> /\ faults' \in 0..MaxFaults
    BY <1>1, Facts
  <2>. QED
    BY <2>1, <2>3, <2>4, <2>5, SearchGoesOn
<1>5. CASE \E T \in Top(fit, score, Limit) : \E rows \in Ranked(T, score) : Show(r, rows)
  <2>1. PICK T \in Top(fit, score, Limit) : \E rows \in Ranked(T, score) : Show(r, rows)
    BY <1>5
  <2>2. PICK rows \in Ranked(T, score) : Show(r, rows)
    BY <2>1
  <2> HIDE DEF score
  <2>3. /\ T \subseteq Stored /\ T \subseteq Obs /\ IsFiniteSet(T)
        /\ \A y \in T : score[y] > 0 /\ score[y] \in Nat
        /\ \A x \in Stored, y \in T : score[x] > score[y] => x \in T
    BY <1>2, Listed
  <2>4. ASSUME NEW x \in Stored \ touched[r], NEW y \in T \ touched[r], BetterFor(q.query, x, y)
        PROVE  x \in T /\ score[x] > score[y]
    BY <2>3, <2>4 DEF BetterFor, Beats, score
  <2>5. T \in SUBSET Obs /\ \A x \in T : score[x] \in Int
    BY <2>3
  <2>6. rows \in Seq(Obs) /\ RowsFit(q, touched[r], rows)
    BY <2>2, <2>3, <2>4, <2>5, RankedFits
  <2>. QED
    BY <1>1, <2>2, <2>6, ShowKeeps
<1>. QED
  BY <1>3, <1>4, <1>5

LEMMA TextQueryKeeps == ASSUME IInv, NEW r \in Request, TextQuery(r) PROVE IInv'
<1> DEFINE q == request[r]
           score == Text[q.query]
<1>1. q.pc = "text" /\ UNCHANGED <<time, usage, touched, faults>>
  BY DEF TextQuery, At
<1>2. /\ q \in Records /\ Good(time, q, touched[r]) /\ q.query \in Query /\ q.kind # "timeline"
      /\ \A x \in Obs : score[x] \in Nat
  BY <1>1, OfSearch
<1>3. PICK T \in Top(Among(Stored, score), score, 3 * Limit) :
        request' = [request EXCEPT ![r] = [q EXCEPT !.pc = "vector", !.text = T]]
  BY DEF TextQuery
<1> DEFINE v == [q EXCEPT !.pc = "vector", !.text = T]
<1>4. request' = [request EXCEPT ![r] = v]
  BY <1>3
<1> HIDE DEF score
<1>5. /\ T \subseteq Stored /\ T \subseteq Obs /\ IsFiniteSet(T)
      /\ \A y \in T : score[y] > 0 /\ score[y] \in Nat
      /\ \A x \in Stored, y \in T : score[x] > score[y] => x \in T
  BY <1>2, Listed
<1>6. v \in Records
  <2> HIDE DEF q
  <2>1. [q EXCEPT !.pc = "vector"] \in Records
    BY <1>2, Fields DEF Reading
  <2>2. [[q EXCEPT !.pc = "vector"] EXCEPT !.text = T] \in Records
    BY <1>5, <2>1, Fields
  <2>. QED
    BY <2>2
<1>7. v.pc = "vector" /\ v.text = T /\ v.kind = q.kind /\ v.query = q.query
  <2> HIDE DEF q
  <2>. QED
    BY <1>2 DEF Records
<1> HIDE DEF v
<1>8. TextRead(time, v, touched[r])
  <2>1. \A y \in T : Text[v.query][y] > 0
    BY <1>5, <1>7 DEF score
  <2>2. \A x \in Obs \ touched[r], y \in T :
          time[x] # 0 /\ Text[v.query][x] > Text[v.query][y] => x \in T
    BY <1>5, <1>7 DEF score, Stored
  <2>. QED
    BY <1>5, <1>7, <2>1, <2>2 DEF TextRead
<1>9. Good(time, v, touched[r])
  BY <1>2, <1>7, <1>8 DEF Good, Shape, OnTimeline, Anchored, Older, Newer, Ordered
<1>10. UNCHANGED <<time, usage, touched>> /\ faults' \in 0..MaxFaults
  BY <1>1, Facts
<1>. QED
  BY <1>4, <1>6, <1>9, <1>10, SearchGoesOn

LEMMA QueryFailsKeeps == ASSUME IInv, NEW r \in Request, QueryFails(r) PROVE IInv'
<1> DEFINE q == request[r]
<1>1. /\ q.pc \in {"semantic", "text", "vector", "plain"} /\ UNCHANGED <<time, usage>>
      /\ Fault
  BY DEF QueryFails
<1>2. q \in Records /\ q.query \in Query /\ q.kind # "timeline"
  BY <1>1, OfSearch
<1>3. usage' \in [Entry -> 0..MaxUsage] /\ faults' \in 0..MaxFaults
  BY <1>1, Facts, LimitAssumption DEF Fault
<1>4. CASE Answer(r)
  BY <1>1, <1>3, <1>4, AnswerKeeps
<1>5. CASE request' = [request EXCEPT ![r] = [q EXCEPT !.pc = "plain", !.text = {}]] /\ UNCHANGED touched
  <2> DEFINE v == [q EXCEPT !.pc = "plain", !.text = {}]
  <2>1. request' = [request EXCEPT ![r] = v]
    BY <1>5
  <2> HIDE DEF q
  <2>2. v \in Records
    <3>1. [q EXCEPT !.pc = "plain"] \in Records
      BY <1>2, Fields DEF Reading
    <3>2. [[q EXCEPT !.pc = "plain"] EXCEPT !.text = {}] \in Records
      BY <3>1, Fields
    <3>. QED
      BY <3>2
  <2>3. v.pc = "plain" /\ v.kind = q.kind /\ v.query = q.query
    BY <1>2 DEF Records
  <2> HIDE DEF v
  <2>4. Good(time, v, touched[r])
    BY <1>2, <2>2, <2>3, Asking
  <2>. QED
    BY <1>1, <1>3, <1>5, <2>1, <2>2, <2>4, SearchGoesOn
<1>. QED
  BY <1>4, <1>5 DEF QueryFails

LEMMA VectorQueryKeeps == ASSUME IInv, NEW r \in Request, VectorQuery(r) PROVE IInv'
<1> DEFINE q == request[r]
           texts == q.text
           text == Text[q.query]
           vector == Vector[q.query]
<1>1. q.pc = "vector" /\ UNCHANGED <<time, usage, touched, faults>>
  BY DEF VectorQuery, At
<1>2. /\ q \in Records /\ Good(time, q, touched[r]) /\ q.query \in Query /\ q.kind # "timeline"
      /\ \A x \in Obs : text[x] \in Nat
      /\ \A x \in Obs : vector[x] \in Nat
  BY <1>1, OfSearch
<1>3. PICK T \in Top(Among(Stored, vector), vector, 3 * Limit) :
        \E rows \in merge_and_rank(q.query, texts, T) : Show(r, rows)
  BY DEF VectorQuery
<1>4. PICK rows \in merge_and_rank(q.query, texts, T) : Show(r, rows)
  BY <1>3
<1> DEFINE all == texts \cup T
           dt == Spread(texts, text)
           dv == Spread(T, vector)
           total == [x \in all |-> Weight(Share(texts, text, x) * dv, Share(T, vector, x) * dt)]
<1>5. rows \in Ranked(all, total)
  BY <1>4 DEF merge_and_rank
<1>6. /\ texts \in SUBSET Obs /\ IsFiniteSet(texts) /\ \A y \in texts : text[y] \in Nat /\ text[y] > 0
      /\ \A x \in Obs \ touched[r], y \in texts : time[x] # 0 /\ text[x] > text[y] => x \in texts
  <2>1. texts \in SUBSET Obs
    BY <1>2 DEF Records
  <2>2. /\ IsFiniteSet(texts) /\ \A y \in texts : text[y] > 0
        /\ \A x \in Obs \ touched[r], y \in texts : time[x] # 0 /\ text[x] > text[y] => x \in texts
    BY <1>1, <1>2 DEF Good, TextRead
  <2> HIDE DEF text, texts
  <2>3. \A y \in texts : text[y] \in Nat
    BY <1>2, <2>1, <2>2
  <2>. QED
    BY <2>1, <2>2, <2>3
<1>7. /\ T \subseteq Stored /\ T \subseteq Obs /\ IsFiniteSet(T)
      /\ \A y \in T : vector[y] \in Nat /\ vector[y] > 0
      /\ \A x \in Stored, y \in T : vector[x] > vector[y] => x \in T
  <2> HIDE DEF vector
  <2>. QED
    BY <1>2, <1>3, Listed
<1>8. all \in SUBSET Obs /\ IsFiniteSet(all)
  BY <1>6, <1>7, FS_Union
<1>9. \A x \in all : total[x] = Weight(Share(texts, text, x) * dv, Share(T, vector, x) * dt)
  OBVIOUS
<1> HIDE DEF text, vector, texts, total
<1>10. /\ dt \in Nat /\ dt >= 1 /\ dv \in Nat /\ dv >= 1
       /\ \A x : Share(texts, text, x) \in Nat /\ Share(T, vector, x) \in Nat
  BY <1>6, <1>7, ShareTyped
<1> HIDE DEF dt, dv
<1>11. \A x \in all : total[x] \in Int
  <2>1. SUFFICES ASSUME NEW x \in all PROVE total[x] \in Int
    OBVIOUS
  <2> DEFINE t == Share(texts, text, x)
             v == Share(T, vector, x)
  <2>2. t \in Nat /\ v \in Nat /\ total[x] = Weight(t * dv, v * dt)
    BY <1>9, <1>10
  <2> HIDE DEF t, v
  <2>3. t * dv \in Nat /\ v * dt \in Nat
    BY <1>10, <2>2
  <2>. QED
    BY <2>2, <2>3 DEF Weight
<1>12. ASSUME NEW x \in Stored \ touched[r], NEW y \in all \ touched[r], BetterFor(q.query, x, y)
       PROVE  x \in all /\ total[x] > total[y]
  <2>1. x \in Obs \ touched[r] /\ time[x] # 0 /\ x \in Stored
    BY DEF Stored
  <2>2. y \in texts => text[x] > text[y] /\ x \in texts
    <3>1. y \in texts => text[x] > text[y]
      <4>1. y \in texts => text[y] > 0
        BY <1>6
      <4>. QED
        BY <1>12, <4>1 DEF BetterFor, Beats, text
    <3>. QED
      BY <1>6, <2>1, <3>1
  <2>3. y \in T => vector[x] > vector[y] /\ x \in T
    <3>1. y \in T => vector[x] > vector[y]
      <4>1. y \in T => vector[y] > 0
        BY <1>7
      <4>. QED
        BY <1>12, <4>1 DEF BetterFor, Beats, vector
    <3>. QED
      BY <1>7, <2>1, <3>1
  <2>4. x \in all
    BY <2>2, <2>3
  <2> DEFINE tx == Share(texts, text, x)
             ty == Share(texts, text, y)
             vx == Share(T, vector, x)
             vy == Share(T, vector, y)
  <2>5. tx >= ty /\ (y \in texts => tx > ty)
    BY <1>6, <2>2, ShareOfBetter
  <2>6. vx >= vy /\ (y \in T => vx > vy)
    BY <1>7, <2>3, ShareOfBetter
  <2>7. tx \in Nat /\ ty \in Nat /\ vx \in Nat /\ vy \in Nat
    BY <1>10
  <2>8. total[x] = Weight(tx * dv, vx * dt) /\ total[y] = Weight(ty * dv, vy * dt)
    BY <1>9, <2>4
  <2>9. tx > ty \/ vx > vy
    BY <2>5, <2>6
  <2> HIDE DEF tx, ty, vx, vy
  <2>10. Weight(tx * dv, vx * dt) > Weight(ty * dv, vy * dt)
    BY <1>10, <2>5, <2>6, <2>7, <2>9, WeighedUp
  <2>. QED
    BY <2>4, <2>8, <2>10
<1>13. rows \in Seq(Obs) /\ RowsFit(q, touched[r], rows)
  <2> HIDE DEF all, q
  <2>. QED
    BY <1>5, <1>8, <1>11, <1>12, RankedFits
<1>. QED
  BY <1>1, <1>4, <1>13, ShowKeeps

LEMMA PlainQueryKeeps == ASSUME IInv, NEW r \in Request, PlainQuery(r) PROVE IInv'
<1> DEFINE q == request[r]
           words == AllWords[q.query]
           overlap == Overlap[q.query]
           many == Keywords[q.query]
           filtered == q.kind = "filtered"
           n == IF filtered THEN Limit ELSE 2 * Limit
<1>1. q.pc = "plain" /\ UNCHANGED <<time, usage, touched, faults>>
  BY DEF PlainQuery, At
<1>2. /\ q \in Records /\ q.query \in Query
      /\ \A x \in Obs : words[x] \in Nat
      /\ \A x \in Obs : overlap[x] \in Nat
  BY <1>1, OfSearch
<1>3. PICK T \in Top(Among(Stored, words), words, n) :
        \E rows \in Ranked(T, [x \in T |->
             IF filtered THEN words[x]
             ELSE 7 * (Share(T, words, x) * many) + 3 * (overlap[x] * Spread(T, words))]) :
          Show(r, rows)
  BY DEF PlainQuery
<1> DEFINE spread == Spread(T, words)
           total == [x \in T |->
             IF filtered THEN words[x]
             ELSE 7 * (Share(T, words, x) * many) + 3 * (overlap[x] * spread)]
<1>4. PICK rows \in Ranked(T, total) : Show(r, rows)
  BY <1>3
<1> HIDE DEF n
<1>5. /\ T \subseteq Stored /\ T \subseteq Obs /\ IsFiniteSet(T)
      /\ \A y \in T : words[y] \in Nat /\ words[y] > 0
      /\ \A x \in Stored, y \in T : words[x] > words[y] => x \in T
  <2> HIDE DEF words
  <2>. QED
    BY <1>2, <1>3, Listed
<1>6. \A x \in T :
        /\ filtered => total[x] = words[x]
        /\ ~filtered => total[x] = 7 * (Share(T, words, x) * many) + 3 * (overlap[x] * spread)
  OBVIOUS
<1>7. many \in Nat /\ many >= 1
  BY <1>2, ScoreAssumption
<1> HIDE DEF words, overlap, many, filtered, total
<1>8. spread \in Nat /\ spread >= 1 /\ \A x : Share(T, words, x) \in Nat
  BY <1>5, ShareTyped
<1> HIDE DEF spread
<1>9. \A x \in T : total[x] \in Int
  <2>1. SUFFICES ASSUME NEW x \in T PROVE total[x] \in Int
    OBVIOUS
  <2> DEFINE s == Share(T, words, x)
             o == overlap[x]
  <2>2. words[x] \in Nat /\ o \in Nat /\ s \in Nat
    BY <1>2, <1>5, <1>8
  <2>3. /\ filtered => total[x] = words[x]
        /\ ~filtered => total[x] = 7 * (s * many) + 3 * (o * spread)
    BY <1>6
  <2> HIDE DEF s, o
  <2>4. s * many \in Nat /\ o * spread \in Nat
    BY <1>7, <1>8, <2>2
  <2>. QED
    BY <2>2, <2>3, <2>4
<1>10. ASSUME NEW x \in Stored \ touched[r], NEW y \in T \ touched[r], BetterFor(q.query, x, y)
       PROVE  x \in T /\ total[x] > total[y]
  <2>1. words[x] > words[y] /\ overlap[x] >= overlap[y]
    <3>1. words[y] > 0
      BY <1>5
    <3>. QED
      BY <1>10, <3>1 DEF BetterFor, Beats, words, overlap
  <2>2. x \in T
    BY <1>5, <2>1
  <2> DEFINE sx == Share(T, words, x)
             sy == Share(T, words, y)
             ox == overlap[x]
             oy == overlap[y]
  <2>3. sx > sy
    BY <1>5, <2>1, <2>2, ShareOfBetter
  <2>4. ox \in Nat /\ oy \in Nat /\ sx \in Nat /\ sy \in Nat /\ ox >= oy
    BY <1>2, <1>5, <1>8, <2>1, <2>2
  <2>5. CASE filtered
    BY <1>6, <2>1, <2>2, <2>5
  <2>6. CASE ~filtered
    <3>1. /\ total[x] = 7 * (sx * many) + 3 * (ox * spread)
          /\ total[y] = 7 * (sy * many) + 3 * (oy * spread)
      BY <1>6, <2>2, <2>6
    <3> HIDE DEF sx, sy, ox, oy
    <3>2. 7 * (sx * many) + 3 * (ox * spread) > 7 * (sy * many) + 3 * (oy * spread)
      BY <1>7, <1>8, <2>3, <2>4, PlainUp
    <3>. QED
      BY <2>2, <3>1, <3>2
  <2>. QED
    BY <2>2, <2>5, <2>6
<1>11. T \in SUBSET Obs
  BY <1>5
<1>12. rows \in Seq(Obs) /\ RowsFit(q, touched[r], rows)
  <2> HIDE DEF q
  <2>. QED
    BY <1>4, <1>5, <1>9, <1>10, <1>11, RankedFits
<1>. QED
  BY <1>1, <1>4, <1>12, ShowKeeps

-----------------------------------------------------------------------------
(* The theorems *)

LEMMA StepKeeps == IInv /\ [Next]_vars => IInv'
<1> SUFFICES ASSUME IInv, [Next]_vars PROVE IInv'
  OBVIOUS
<1>1. ASSUME NEW r \in Request, TimelineStep(r) PROVE IInv'
  BY <1>1, unified_timelineKeeps, BeforeQueryKeeps, AfterQueryKeeps, TimelineFailsKeeps
     DEF TimelineStep
<1>2. ASSUME NEW r \in Request, SearchStep(r) PROVE IInv'
  BY <1>2, SearchKeeps, semantic_searchKeeps, TextQueryKeeps, VectorQueryKeeps,
     PlainQueryKeeps, QueryFailsKeeps DEF SearchStep
<1>3. ASSUME NEW r \in Request, KnowledgeStep(r) PROVE IInv'
  BY <1>3, fetch_relevant_knowledgeKeeps, update_knowledge_usage_batchKeeps, UsageFailsKeeps
     DEF KnowledgeStep
<1>4. ASSUME NEW r \in Request, Reply(r) PROVE IInv'
  BY <1>4, ReplyKeeps
<1>5. ASSUME NEW x \in Obs, Insert(x) \/ Delete(x) PROVE IInv'
  BY <1>5, InsertKeeps, DeleteKeeps
<1>6. ASSUME NEW k \in Obs, NEW d \in Obs,
             merge_and_purge(k, d) \/ merge_into_existing(k, d)
      PROVE  IInv'
  BY <1>6, MergeKeeps, MergeIntoKeeps
<1>7. CASE UNCHANGED vars
  BY <1>7 DEF vars, IInv, TypeOK, Stored
<1>. QED
  BY <1>1, <1>2, <1>3, <1>4, <1>5, <1>6, <1>7 DEF Next

LEMMA Inductive == Spec => []IInv
BY Initially, StepKeeps, PTL DEF Spec

LEMMA NoGaps == IInv => TimelineComplete
<1> SUFFICES ASSUME IInv, NEW r \in Request, At(r, "shown"), request[r].kind = "timeline"
             PROVE  LET at == request[r].at
                        a == request[r].anchor
                        calm == Obs \ touched[r]
                        before == request[r].before
                        after == request[r].after
                    IN  /\ a \notin before \cup after
                        /\ \A x \in calm \cap before : time[x] < at
                        /\ \A x \in calm \cap after : time[x] > at
                        /\ a \in calm => \A y \in (calm \cap Stored) \ {a} :
                             /\ time[y] < at /\ y \notin before =>
                                  /\ Cardinality(before) = Full(Before)
                                  /\ \A x \in calm \cap before : time[x] > time[y]
                             /\ time[y] > at /\ y \notin after =>
                                  /\ Cardinality(after) = Full(After)
                                  /\ \A x \in calm \cap after : time[x] < time[y]
  BY DEF TimelineComplete
<1> DEFINE q == request[r]
           U == touched[r]
<1>1. Good(time, q, U)
  BY DEF IInv
<1>2. q.pc = "shown" /\ q.kind = "timeline"
  BY DEF At
<1> HIDE DEF q, U
<1>3. OnTimeline(q) /\ q.before # None /\ q.after # None
  BY <1>1, <1>2 DEF Good, Shape, OnTimeline
<1>4. /\ q.anchor \notin q.before
      /\ \A x \in q.before \ U : time[x] < q.at
      /\ q.anchor \notin U =>
           \A y \in Obs \ U : time[y] # 0 /\ time[y] < q.at /\ y \notin q.before =>
             Cardinality(q.before) = Full(Before) /\ \A x \in q.before \ U : time[x] > time[y]
  BY <1>1, <1>3 DEF Good, Older
<1>5. /\ q.anchor \notin q.after
      /\ \A x \in q.after \ U : time[x] > q.at
      /\ q.anchor \notin U =>
           \A y \in Obs \ U : time[y] # 0 /\ time[y] > q.at /\ y \notin q.after =>
             Cardinality(q.after) = Full(After) /\ \A x \in q.after \ U : time[x] < time[y]
  BY <1>1, <1>3 DEF Good, Newer
<1>6. ASSUME q.anchor \in Obs \ U, NEW y \in ((Obs \ U) \cap Stored) \ {q.anchor}
      PROVE  /\ time[y] < q.at /\ y \notin q.before =>
                  Cardinality(q.before) = Full(Before)
                  /\ \A x \in (Obs \ U) \cap q.before : time[x] > time[y]
             /\ time[y] > q.at /\ y \notin q.after =>
                  Cardinality(q.after) = Full(After)
                  /\ \A x \in (Obs \ U) \cap q.after : time[x] < time[y]
  <2>1. y \in Obs \ U /\ time[y] # 0 /\ q.anchor \notin U
    BY <1>6 DEF Stored
  <2>. QED
    BY <1>4, <1>5, <2>1
<1>7. /\ q.anchor \notin q.before \cup q.after
      /\ \A x \in (Obs \ U) \cap q.before : time[x] < q.at
      /\ \A x \in (Obs \ U) \cap q.after : time[x] > q.at
  BY <1>4, <1>5
<1>. QED
  BY <1>6, <1>7 DEF q, U

LEMMA InOrder == IInv => BestFirst
<1> SUFFICES ASSUME IInv PROVE BestFirst
  OBVIOUS
<1>1. TypeOK
  BY DEF IInv
<1>2. ASSUME NEW r \in Request, At(r, "shown"), request[r].query # None,
             NEW x \in Stored \ touched[r], NEW j \in 1..Len(request[r].rows),
             request[r].rows[j] \notin touched[r], Better(r, x, request[r].rows[j])
      PROVE  \E i \in 1..(j - 1) : request[r].rows[i] = x
  <2>1. Ordered(time, request[r], touched[r])
    BY DEF IInv, Good
  <2>2. request[r].pc = "shown" /\ x \in Obs \ touched[r] /\ time[x] # 0
    BY <1>2 DEF At, Stored
  <2>3. BetterFor(request[r].query, x, request[r].rows[j])
    BY <1>2 DEF Better, BetterFor
  <2>. QED
    BY <1>2, <2>1, <2>2, <2>3 DEF Ordered
<1>. QED
  BY <1>1, <1>2 DEF BestFirst

\* What requests hold keeps its shape, whatever rows come and go meanwhile, and
\* no two rows are made at the same time.
THEOREM AnswersTyped == Spec => []TypeOK
<1>1. IInv => TypeOK
  BY DEF IInv
<1>. QED
  BY Inductive, <1>1, PTL

\* A timeline leaves out a row that nothing touched only if its side is full of
\* rows nearer to the anchor, and neither side has the anchor or reaches over it:
\* for any rows, any numbers asked for and any limit (unified_timeline).
THEOREM NoRowIsSkipped == Spec => []TimelineComplete
BY Inductive, NoGaps, PTL

\* Wherever the lists of a search are cut, and whatever was inserted, merged or
\* deleted between its queries, a row that all lists put above another one is
\* shown before it (merge_and_rank, hybrid_search, semantic_search).
THEOREM BetterRowsFirst == Spec => []BestFirst
BY Inductive, InOrder, PTL
================================================================================
