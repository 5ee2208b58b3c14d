------------------------- MODULE DegradedWritesProofs -------------------------
(***************************************************************************)
(* One flush at a time. The flag alone does not give it: what has to be    *)
(* kept is that the flag is set exactly while some task is not Gone.       *)
(*                                                                         *)
(* And the order of the writes, which rests on it. To say which write      *)
(* leaves the line, the line must hold each write once; so IInv also says  *)
(* that a write a request may still buffer is in no other request's hands  *)
(* and not in the line.                                                    *)
(***************************************************************************)
EXTENDS DegradedWrites, SequenceTheorems, TLAPS

FlushInv ==
  /\ flusher = [f \in Flusher |-> flusher[f]]
  /\ OneFlush

\* Starting a flush takes the flag and one task that was Gone.
LEMMA StartsOne ==
  ASSUME FlushInv, spawn_pending_flush
  PROVE  FlushInv'
<1>1. CASE buffer # <<>> /\ ~flushing
  <2>1. PICK f \in Flusher :
          flusher' = [flusher EXCEPT ![f] = [pc |-> "pop", item |-> NoWrite]]
    BY <1>1 DEF spawn_pending_flush, start_flush
  <2>2. flushing' = TRUE
    BY <1>1 DEF spawn_pending_flush, start_flush
  <2>3. \A g \in Flusher : flusher[g] = Gone
    BY <1>1 DEF FlushInv, OneFlush
  <2>4. /\ flusher'[f] # Gone
        /\ \A g \in Flusher \ {f} : flusher'[g] = Gone
        /\ flusher' = [g \in Flusher |-> flusher'[g]]
    BY <2>1, <2>3 DEF FlushInv, Gone
  <2> QED
    BY <2>2, <2>4 DEF FlushInv, OneFlush
<1>2. CASE ~(buffer # <<>> /\ ~flushing)
  BY <1>2 DEF spawn_pending_flush, start_flush, FlushInv, OneFlush
<1> QED
  BY <1>1, <1>2

\* A task that goes on to its next step keeps the flag.
LEMMA GoesOn ==
  ASSUME FlushInv, NEW f \in Flusher, flusher[f] # Gone,
         NEW t, t # Gone,
         flusher' = [flusher EXCEPT ![f] = t], flushing' = flushing
  PROVE  FlushInv'
BY DEF FlushInv, OneFlush

\* A task that ends drops the guard, which clears the flag.
LEMMA Ends ==
  ASSUME FlushInv, NEW f \in Flusher, flusher[f] # Gone,
         flusher' = [flusher EXCEPT ![f] = Gone], flushing' = FALSE
  PROVE  FlushInv'
<1>1. /\ \A g \in Flusher : flusher'[g] = Gone
      /\ flusher' = [g \in Flusher |-> flusher'[g]]
  BY DEF FlushInv, OneFlush
<1> QED
  BY <1>1 DEF FlushInv, OneFlush

\* Every step keeps one flush at most, and the flag with it.
LEMMA FlushStep ==
  ASSUME FlushInv, [Next]_vars
  PROVE  FlushInv'
<1>1. ASSUME UNCHANGED <<flushing, flusher>>
      PROVE  FlushInv'
  BY <1>1 DEF FlushInv, OneFlush
<1>2. ASSUME NEW c \in Client, Request(c) \/ Cancel(c)
      PROVE  FlushInv'
  BY <1>1, <1>2 DEF Request, Cancel, queue
<1>3. ASSUME NEW c \in Client, Proceed(c)
      PROVE  FlushInv'
  <2>1. CASE After(c)
    BY <1>1, <2>1, StartsOne DEF After
  <2>2. CASE ~After(c)
    BY <1>1, <1>3, <2>2
    DEF Proceed, Gate, Call, Filtered, QueryAnswered, QueryUnavailable,
        Record, Push, queue
  <2> QED
    BY <2>1, <2>2
<1>4. ASSUME NEW f \in Flusher, Flush(f) \/ FlushPanics(f)
      PROVE  FlushInv'
  <2>0. flusher[f] # Gone
    BY <1>4 DEF Flush, pop_front, FlushSettles, FlushPaused, Leave,
                FlushPanics, Gone
  <2>1. ASSUME NEW pc \in {"pop", "write", "leave"}, NEW w,
               flusher' = [flusher EXCEPT ![f] = [pc |-> pc, item |-> w]],
               flushing' = flushing
        PROVE  FlushInv'
    <3>1. [pc |-> pc, item |-> w] # Gone
      BY DEF Gone
    <3> QED
      BY <2>0, <2>1, <3>1, GoesOn
  <2>2. CASE pop_front(f)
    BY <2>1, <2>2 DEF pop_front
  <2>3. CASE FlushSettles(f)
    BY <2>1, <2>3 DEF FlushSettles
  <2>4. CASE FlushPaused(f)
    BY <2>1, <2>4 DEF FlushPaused
  <2>5. CASE Leave(f) \/ FlushPanics(f)
    BY <2>0, <2>5, Ends DEF Leave, FlushPanics, finish_flush
  <2> QED
    BY <1>4, <2>2, <2>3, <2>4, <2>5 DEF Flush
<1>5. CASE PollerFlush
  BY <1>1, <1>5, StartsOne DEF PollerFlush
<1>6. CASE Crash
  BY <1>6 DEF Crash, FlushInv, OneFlush
<1>7. CASE PollerClaim \/ Background \/ GoesDown \/ ComesBack \/ UNCHANGED vars
  BY <1>1, <1>7 DEF PollerClaim, Background, GoesDown, ComesBack, queue, vars
<1> QED
  BY <1>2, <1>3, <1>4, <1>5, <1>6, <1>7 DEF Next

\* However requests, the poller, panics, crashes and outages interleave, at
\* most one flush task runs, and PendingWriteQueue.flushing is set exactly
\* while one does: a flush can always start when none runs.
THEOREM OnlyOneFlush == Spec => []OneFlush
<1>1. Init => FlushInv
  BY DEF Init, FlushInv, OneFlush
<1>2. FlushInv /\ [Next]_vars => FlushInv'
  BY FlushStep
<1>3. FlushInv => OneFlush
  BY DEF FlushInv
<1> QED
  BY <1>1, <1>2, <1>3, PTL DEF Spec

-----------------------------------------------------------------------------
(* Sequences that hold each element once, and the removal of one *)

Injective(s) == \A i, j \in 1..Len(s) : s[i] = s[j] => i = j

LEMMA RemovesAt ==
  ASSUME NEW S, NEW s \in Seq(S), NEW k \in 1..Len(s), \A i \in 1..(k-1) : s[i] # s[k]
  PROVE  RemoveFirst(s, s[k]) = SubSeq(s, 1, k-1) \o SubSeq(s, k+1, Len(s))
<1> DEFINE I == {i \in 1..Len(s) : s[i] = s[k]}
<1>1. k \in I /\ \A i \in I : i \in Int /\ k <= i
  BY LenProperties
<1>2. Min(I) = k
  BY <1>1 DEF Min
<1>3. SelectInSeq(s, LAMBDA v : v = s[k]) = k
  BY <1>1, <1>2 DEF SelectInSeq
<1>. QED
  BY <1>1, <1>3 DEF RemoveFirst, RemoveAt

LEMMA Removed ==
  ASSUME NEW S, NEW s \in Seq(S), NEW k \in 1..Len(s), Injective(s),
         NEW e, s[k] = e, NEW r, r = RemoveFirst(s, e)
  PROVE  /\ r \in Seq(S) /\ Len(r) = Len(s) - 1
         /\ \A i \in 1..Len(r) : r[i] = IF i < k THEN s[i] ELSE s[i+1]
<1> DEFINE a == SubSeq(s, 1, k-1)
           b == SubSeq(s, k+1, Len(s))
<1>2. Len(s) \in Nat
  BY LenProperties
<1>0. \A i \in 1..(k-1) : s[i] # s[k]
  BY <1>2 DEF Injective
<1>1. r = a \o b
  BY <1>0, RemovesAt
<1>3. a \in Seq(S) /\ Len(a) = k-1 /\ \A i \in 1..(k-1) : a[i] = s[i]
  BY <1>2, SubSeqProperties
<1>4. b \in Seq(S) /\ Len(b) = Len(s) - k /\ \A i \in 1..(Len(s)-k) : b[i] = s[i+k]
  BY <1>2, SubSeqProperties
<1> HIDE DEF a, b
<1>5. /\ a \o b \in Seq(S) /\ Len(a \o b) = Len(s) - 1
      /\ \A i \in 1..(Len(s)-1) : (a \o b)[i] = IF i <= k-1 THEN a[i] ELSE b[i - (k-1)]
  <2>1. /\ a \o b \in Seq(S) /\ Len(a \o b) = Len(a) + Len(b)
        /\ \A i \in 1..(Len(a) + Len(b)) : (a \o b)[i] = IF i <= Len(a) THEN a[i] ELSE b[i - Len(a)]
    BY <1>3, <1>4, ConcatProperties
  <2>2. Len(a) + Len(b) = Len(s) - 1
    BY <1>2, <1>3, <1>4
  <2>. QED
    BY <1>3, <2>1, <2>2
<1>6. ASSUME NEW i \in 1..(Len(s)-1)
      PROVE  (a \o b)[i] = IF i < k THEN s[i] ELSE s[i+1]
  <2>1. CASE i < k
    <3>1. i \in 1..(k-1) /\ i <= k-1
      BY <1>2, <2>1
    <3>. QED
      BY <1>3, <1>5, <2>1, <3>1
  <2>2. CASE ~(i < k)
    <3>1. i - (k-1) \in 1..(Len(s)-k) /\ ~(i <= k-1) /\ (i - (k-1)) + k = i + 1
      BY <1>2, <2>2
    <3>2. b[i - (k-1)] = s[i+1]
      BY <1>4, <3>1
    <3>. QED
      BY <1>5, <2>2, <3>1, <3>2
  <2>. QED
    BY <2>1, <2>2
<1>. QED
  BY <1>1, <1>5, <1>6

LEMMA RemovedTyped ==
  ASSUME NEW S, NEW s \in Seq(S), NEW e, Injective(s), NEW r, r = RemoveFirst(s, e)
  PROVE  r \in Seq(S) /\ Injective(r) /\ ToSet(r) \subseteq ToSet(s)
<1>0. Len(s) \in Nat /\ DOMAIN s = 1..Len(s)
  BY LenProperties
<1>1. CASE \E k \in 1..Len(s) : s[k] = e
  <2>1. PICK k \in 1..Len(s) : s[k] = e
    BY <1>1
  <2>2. /\ r \in Seq(S) /\ Len(r) = Len(s) - 1
        /\ \A i \in 1..Len(r) : r[i] = IF i < k THEN s[i] ELSE s[i+1]
    BY <2>1, Removed
  <2>3. ASSUME NEW i \in 1..Len(r)
        PROVE  /\ i \in 1..Len(s) /\ i + 1 \in 1..Len(s)
    BY <1>0, <2>2
  <2>4. DOMAIN r = 1..Len(r)
    BY <2>2, LenProperties
  <2>5. ToSet(r) \subseteq ToSet(s)
    BY <1>0, <2>2, <2>3, <2>4 DEF ToSet
  <2>6. ASSUME NEW i \in 1..Len(r), NEW j \in 1..Len(r), r[i] = r[j]
        PROVE  i = j
    <3>1. (IF i < k THEN i ELSE i+1) = (IF j < k THEN j ELSE j+1)
      BY <2>2, <2>3, <2>6 DEF Injective
    <3>. QED
      BY <1>0, <2>2, <3>1
  <2>. QED
    BY <2>2, <2>5, <2>6 DEF Injective
<1>2. CASE ~\E k \in 1..Len(s) : s[k] = e
  BY <1>2 DEF RemoveFirst
<1>. QED
  BY <1>1, <1>2

LEMMA RemovedIs ==
  ASSUME NEW S, NEW s \in Seq(S), Injective(s), NEW e, NEW k \in 1..Len(s), s[k] = e,
         NEW t \in Seq(S)
  PROVE  /\ Len(t) = Len(s) - 1
         /\ \A i \in 1..Len(t) : t[i] = IF i < k THEN s[i] ELSE s[i+1]
         => RemoveFirst(s, e) = t
<1>1. ASSUME NEW r, r = RemoveFirst(s, e)
      PROVE  /\ r \in Seq(S) /\ Len(r) = Len(s) - 1
             /\ \A i \in 1..Len(r) : r[i] = IF i < k THEN s[i] ELSE s[i+1]
  BY <1>1, Removed
<1>2. ASSUME NEW r, r = RemoveFirst(s, e), Len(t) = Len(s) - 1,
             \A i \in 1..Len(t) : t[i] = IF i < k THEN s[i] ELSE s[i+1]
      PROVE  r = t
  BY <1>1, <1>2, SeqEqual
<1>. QED
  BY <1>2

LEMMA Prefixed ==
  ASSUME NEW S, NEW a \in S, NEW b \in Seq(S), NEW s, s = <<a>> \o b
  PROVE  /\ s \in Seq(S) /\ Len(s) = Len(b) + 1 /\ Len(b) \in Nat /\ s[1] = a
         /\ \A i \in 1..Len(b) : s[i+1] = b[i]
BY ConcatProperties, LenProperties

LEMMA RemovedHead ==
  ASSUME NEW S, NEW a \in S, NEW b \in Seq(S), Injective(<<a>> \o b)
  PROVE  RemoveFirst(<<a>> \o b, a) = b
<1> DEFINE s == <<a>> \o b
<1>1. /\ s \in Seq(S) /\ Len(s) = Len(b) + 1 /\ Len(b) \in Nat /\ s[1] = a
      /\ \A i \in 1..Len(b) : s[i+1] = b[i]
  BY Prefixed
<1>2. Injective(s)
  OBVIOUS
<1> HIDE DEF s
<1>3. RemoveFirst(s, a) = b
  <2>1. \A i \in 1..Len(b) : b[i] = IF i < 1 THEN s[i] ELSE s[i+1]
    BY <1>1
  <2>2. 1 \in 1..Len(s) /\ Len(b) = Len(s) - 1
    BY <1>1
  <2>. QED
    BY <1>1, <1>2, <2>1, <2>2, RemovedIs
<1>. QED
  BY <1>3 DEF s

LEMMA RemovedSecond ==
  ASSUME NEW S, NEW a \in S, NEW b \in Seq(S), b # <<>>, Injective(<<a>> \o b)
  PROVE  RemoveFirst(<<a>> \o b, Head(b)) = <<a>> \o Tail(b)
<1> DEFINE s == <<a>> \o b
           t == <<a>> \o Tail(b)
<1>1. /\ s \in Seq(S) /\ Len(s) = Len(b) + 1 /\ Len(b) \in Nat /\ s[1] = a
      /\ \A i \in 1..Len(b) : s[i+1] = b[i]
  BY Prefixed
<1>2. /\ Tail(b) \in Seq(S) /\ Len(Tail(b)) = Len(b) - 1 /\ Len(b) # 0
      /\ \A i \in 1..(Len(b)-1) : Tail(b)[i] = b[i+1]
  BY HeadTailProperties, EmptySeq
<1>3. /\ t \in Seq(S) /\ Len(t) = Len(b) /\ t[1] = a
      /\ \A i \in 1..(Len(b)-1) : t[i+1] = b[i+1]
  BY <1>1, <1>2, Prefixed
<1>4. s[2] = Head(b) /\ Injective(s)
  BY <1>1, <1>2
<1> HIDE DEF s, t
<1>5. ASSUME NEW i \in 1..Len(t)
      PROVE  t[i] = IF i < 2 THEN s[i] ELSE s[i+1]
  <2>1. CASE i = 1
    BY <1>1, <1>3, <2>1
  <2>2. CASE i # 1
    <3>1. i - 1 \in 1..(Len(b)-1) /\ (i - 1) + 1 = i /\ i \in 1..Len(b) /\ ~(i < 2)
      BY <1>1, <1>3, <2>2
    <3>2. t[i] = b[i]
      BY <1>3, <3>1
    <3>. QED
      BY <1>1, <3>1, <3>2
  <2>. QED
    BY <2>1, <2>2
<1>6. RemoveFirst(s, Head(b)) = t
  <2>1. 2 \in 1..Len(s) /\ Len(t) = Len(s) - 1
    BY <1>1, <1>2, <1>3
  <2>. QED
    BY <1>1, <1>3, <1>4, <1>5, <2>1, RemovedIs
<1>. QED
  BY <1>6 DEF s, t

LEMMA RemovedLast ==
  ASSUME NEW S, NEW a \in S, NEW b \in Seq(S), b # <<>>, Injective(<<a>> \o b)
  PROVE  RemoveFirst(<<a>> \o b, Last(b)) = <<a>> \o Front(b)
<1> DEFINE s == <<a>> \o b
           t == <<a>> \o Front(b)
<1>1. /\ s \in Seq(S) /\ Len(s) = Len(b) + 1 /\ Len(b) \in Nat /\ s[1] = a
      /\ \A i \in 1..Len(b) : s[i+1] = b[i]
  BY Prefixed
<1>2. /\ Front(b) \in Seq(S) /\ Len(Front(b)) = Len(b) - 1 /\ Len(b) # 0
      /\ \A i \in 1..(Len(b)-1) : Front(b)[i] = b[i]
  BY <1>1, SubSeqProperties, ElementOfSeq, EmptySeq DEF Front
<1>3. /\ t \in Seq(S) /\ Len(t) = Len(b) /\ t[1] = a
      /\ \A i \in 1..(Len(b)-1) : t[i+1] = b[i]
  BY <1>1, <1>2, Prefixed
<1>4. s[Len(s)] = Last(b) /\ Injective(s)
  BY <1>1, <1>2 DEF Last
<1> HIDE DEF s, t
<1>5. ASSUME NEW i \in 1..Len(t)
      PROVE  t[i] = s[i] /\ i < Len(s)
  <2>1. CASE i = 1
    BY <1>1, <1>2, <1>3, <2>1
  <2>2. CASE i # 1
    <3>1. i - 1 \in 1..Len(b) /\ i - 1 \in 1..(Len(b)-1) /\ (i - 1) + 1 = i /\ i < Len(s)
      BY <1>1, <1>3, <2>2
    <3>2. t[i] = b[i-1] /\ s[i] = b[i-1]
      BY <1>1, <1>3, <3>1
    <3>. QED
      BY <3>1, <3>2
  <2>. QED
    BY <2>1, <2>2
<1>6. RemoveFirst(s, Last(b)) = t
  <2>1. Len(s) \in 1..Len(s) /\ Len(t) = Len(s) - 1
    BY <1>1, <1>2, <1>3
  <2>2. \A i \in 1..Len(t) : t[i] = IF i < Len(s) THEN s[i] ELSE s[i+1]
    BY <1>5
  <2>. QED
    BY <1>1, <1>3, <1>4, <2>1, <2>2, RemovedIs
<1>. QED
  BY <1>6 DEF s, t

LEMMA RemovedOwnHead ==
  ASSUME NEW S, NEW b \in Seq(S), b # <<>>, Injective(b)
  PROVE  RemoveFirst(b, Head(b)) = Tail(b)
<1>1. /\ Tail(b) \in Seq(S) /\ Len(Tail(b)) = Len(b) - 1 /\ Len(b) # 0 /\ Len(b) \in Nat
      /\ \A i \in 1..(Len(b)-1) : Tail(b)[i] = b[i+1]
  BY HeadTailProperties, EmptySeq, LenProperties
<1>2. 1 \in 1..Len(b) /\ b[1] = Head(b)
  BY <1>1
<1> DEFINE t == Tail(b)
           e == Head(b)
<1>3. /\ t \in Seq(S) /\ Len(t) = Len(b) - 1
      /\ \A i \in 1..Len(t) : t[i] = IF i < 1 THEN b[i] ELSE b[i+1]
  BY <1>1
<1>4. b[1] = e
  BY <1>2
<1> HIDE DEF t, e
<1>5. RemoveFirst(b, e) = t
  BY <1>2, <1>3, <1>4, RemovedIs
<1>. QED
  BY <1>5 DEF t, e

LEMMA AppendedOnce ==
  ASSUME NEW S, NEW s \in Seq(S), NEW w \in S, Injective(s), w \notin ToSet(s),
         NEW r, r = Append(s, w)
  PROVE  r \in Seq(S) /\ Injective(r) /\ ToSet(r) \subseteq ToSet(s) \cup {w}
<1>1. /\ r \in Seq(S) /\ Len(r) = Len(s) + 1 /\ Len(s) \in Nat
      /\ \A i \in 1..Len(s) : r[i] = s[i]
      /\ r[Len(s)+1] = w
  BY AppendProperties, LenProperties
<1>2. DOMAIN r = 1..(Len(s)+1) /\ DOMAIN s = 1..Len(s)
  BY <1>1, LenProperties
<1>3. \A i \in 1..Len(s) : s[i] # w
  BY <1>2 DEF ToSet
<1>4. ASSUME NEW i \in 1..Len(r)
      PROVE  i \in 1..Len(s) \/ i = Len(s) + 1
  BY <1>1
<1>5. Injective(r)
  BY <1>1, <1>3, <1>4 DEF Injective
<1>6. ToSet(r) \subseteq ToSet(s) \cup {w}
  BY <1>1, <1>2, <1>4 DEF ToSet
<1>. QED
  BY <1>1, <1>5, <1>6

LEMMA AppendedBehind ==
  ASSUME NEW S, NEW h \in S, NEW b \in Seq(S), NEW w \in S
  PROVE  Append(<<h>> \o b, w) = <<h>> \o Append(b, w)
<1>1. <<h>> \in Seq(S) /\ <<w>> \in Seq(S) /\ <<h>> \o b \in Seq(S)
  BY ConcatProperties
<1>2. Append(<<h>> \o b, w) = (<<h>> \o b) \o <<w>>
  BY <1>1, AppendIsConcat
<1>3. Append(b, w) = b \o <<w>>
  BY AppendIsConcat
<1>. QED
  BY <1>1, <1>2, <1>3, ConcatAssociative

-----------------------------------------------------------------------------
(* The invariant behind KeptInOrder *)

\* A request that may still put its write into the buffer.
InHand(c) == client[c].pc \notin {"idle", "after"} /\ client[c].write # NoWrite

\* The line is the write in a flush's hand, if any, and the buffer.
InOrder ==
  \/ line = buffer /\ \A f \in Flusher : flusher[f].item = NoWrite
  \/ \E f \in Flusher :
       /\ line = <<flusher[f].item>> \o buffer
       /\ \A g \in Flusher \ {f} : flusher[g].item = NoWrite

HandsOk == \A f \in Flusher : flusher[f].pc = "write" <=> flusher[f].item # NoWrite

OnceEach ==
  /\ Injective(line) /\ ToSet(line) \subseteq asked
  /\ \A c \in Client : InHand(c) => client[c].write \in asked \ ToSet(line)
  /\ \A c, d \in Client :
       InHand(c) /\ InHand(d) /\ client[c].write = client[d].write => c = d

IInv == TypeOK /\ FlushInv /\ HandsOk /\ InOrder /\ OnceEach

LEMMA BreakerTyped ==
  ASSUME TypeOK,
         \/ Allowed \/ Denied \/ SuccessRecorded \/ FailureRecorded \/ AnswerRecorded
         \/ UNCHANGED breaker
  PROVE  circuit' \in Circuit /\ failures' \in 0..Threshold
<1>1. circuit \in Circuit /\ failures \in 0..Threshold /\ Threshold \in Nat \ {0}
  BY ThresholdAssumption DEF TypeOK
<1>. QED
  BY <1>1 DEF Allowed, Denied, SuccessRecorded, FailureRecorded, AnswerRecorded, breaker, Circuit

\* What a step does to the requests, for the line: no new write comes up.
Requests == [Client -> [pc: Step, write: Write \cup {NoWrite}, pre: Circuit]]
NoNewHand ==
  \A c \in Client : InHand(c)' => InHand(c) /\ client'[c].write = client[c].write

LEMMA GotoTyped ==
  ASSUME TypeOK, NEW c \in Client, NEW pc \in Step, Goto(c, pc)
  PROVE  /\ client' \in Requests /\ \A d \in Client \ {c} : client'[d] = client[d]
         /\ client'[c].pc = pc /\ client'[c].write = client[c].write
BY DEF TypeOK, Goto, Requests

LEMMA GotoNoNewHand ==
  ASSUME TypeOK, NEW c \in Client, NEW pc \in Step, Goto(c, pc),
         client[c].pc \notin {"idle", "after"} \/ pc \in {"idle", "after"}
  PROVE  client' \in Requests /\ NoNewHand
BY GotoTyped DEF NoNewHand, InHand

LEMMA DoneNoNewHand ==
  ASSUME TypeOK, NEW c \in Client, Done(c)
  PROVE  client' \in Requests /\ NoNewHand
<1>1. Idle \in [pc: Step, write: Write \cup {NoWrite}, pre: Circuit] /\ Idle.pc = "idle"
  BY DEF Idle, Step, Circuit
<1>2. client' \in Requests /\ client'[c] = Idle /\ \A d \in Client \ {c} : client'[d] = client[d]
  BY <1>1 DEF TypeOK, Done, Requests
<1>. QED
  BY <1>1, <1>2 DEF NoNewHand, InHand

\* What a step that leaves line and buffer alone has to show.
Tasks == [Flusher -> [pc: {"none", "pop", "write", "leave"}, item: Write \cup {NoWrite}]]
SameHands == HandsOk' /\ \A f \in Flusher : flusher'[f].item = flusher[f].item

LEMMA SpawnSameHands ==
  ASSUME IInv, spawn_pending_flush \/ UNCHANGED <<flushing, flusher>>
  PROVE  flusher' \in Tasks /\ flushing' \in BOOLEAN /\ SameHands
<1>1. flusher \in Tasks /\ flushing \in BOOLEAN /\ HandsOk
  BY DEF IInv, TypeOK, Tasks
<1>2. CASE UNCHANGED <<flushing, flusher>>
  BY <1>1, <1>2 DEF SameHands, HandsOk
<1>3. ASSUME NEW f \in Flusher, flusher[f] = Gone, flushing' = TRUE,
             flusher' = [flusher EXCEPT ![f] = [pc |-> "pop", item |-> NoWrite]]
      PROVE  flusher' \in Tasks /\ flushing' \in BOOLEAN /\ SameHands
  <2>1. /\ flusher' \in Tasks /\ flusher'[f] = [pc |-> "pop", item |-> NoWrite]
        /\ \A g \in Flusher \ {f} : flusher'[g] = flusher[g]
    BY <1>1, <1>3 DEF Tasks
  <2>. QED
    BY <1>1, <1>3, <2>1 DEF SameHands, HandsOk, Gone
<1>. QED
  BY <1>2, <1>3 DEF spawn_pending_flush

LEMMA QuietStep ==
  ASSUME IInv, FlushInv', UNCHANGED <<line, buffer>>,
         circuit' \in Circuit, failures' \in 0..Threshold, outside' \in BOOLEAN \X BOOLEAN,
         client' \in Requests, NoNewHand, asked' = asked,
         flusher' \in Tasks, flushing' \in BOOLEAN, SameHands
  PROVE  IInv'
<1>1. TypeOK'
  BY DEF IInv, TypeOK, Requests, Tasks, outside
<1>2. InOrder'
  BY DEF IInv, InOrder, SameHands
<1>3. OnceEach'
  <2>1. Injective(line') /\ ToSet(line') \subseteq asked'
    BY DEF IInv, OnceEach
  <2>2. \A c \in Client : InHand(c)' => client'[c].write \in asked' \ ToSet(line')
    BY DEF IInv, OnceEach, NoNewHand
  <2>3. \A c, d \in Client :
          InHand(c)' /\ InHand(d)' /\ client'[c].write = client'[d].write => c = d
    BY DEF IInv, OnceEach, NoNewHand
  <2>. QED
    BY <2>1, <2>2, <2>3 DEF OnceEach, Injective
<1>. QED
  BY <1>1, <1>2, <1>3 DEF IInv, SameHands

LEMMA NothingMoves ==
  ASSUME IInv, UNCHANGED <<flushing, flusher>>
  PROVE  flusher' \in Tasks /\ flushing' \in BOOLEAN /\ SameHands
BY SpawnSameHands

LEMMA SameClients ==
  ASSUME IInv, UNCHANGED client
  PROVE  client' \in Requests /\ NoNewHand
BY DEF IInv, TypeOK, Requests, NoNewHand, InHand

\* The steps of a request, but for its begin and its push.
LEMMA RequestQuiet ==
  ASSUME IInv, FlushInv', NEW c \in Client,
         \/ Gate(c) \/ Call(c) \/ Filtered(c) \/ QueryAnswered(c) \/ QueryUnavailable(c)
         \/ Record(c) \/ After(c) \/ Cancel(c)
  PROVE  IInv'
<1>1. TypeOK /\ outside \in BOOLEAN \X BOOLEAN
  BY DEF IInv, TypeOK, outside
<1>2. CASE Gate(c) \/ Call(c) \/ Filtered(c) \/ QueryAnswered(c) \/ QueryUnavailable(c) \/ Record(c)
  <2>1. circuit' \in Circuit /\ failures' \in 0..Threshold
    BY <1>1, <1>2, BreakerTyped
       DEF Gate, Call, Filtered, QueryAnswered, QueryUnavailable, Record
  <2>2. client' \in Requests /\ NoNewHand
    <3>1. PICK pc \in Step : Goto(c, pc)
      BY <1>2 DEF Gate, Call, Filtered, QueryAnswered, QueryUnavailable, Record, Step
    <3>2. client[c].pc \notin {"idle", "after"}
      BY <1>2 DEF Gate, Call, Filtered, QueryAnswered, QueryUnavailable, Record, At
    <3>. QED
      BY <1>1, <3>1, <3>2, GotoNoNewHand
  <2>3. UNCHANGED <<outside, queue, asked>>
    BY <1>2 DEF Gate, Call, Filtered, QueryAnswered, QueryUnavailable, Record
  <2>4. flusher' \in Tasks /\ flushing' \in BOOLEAN /\ SameHands
    BY <2>3, NothingMoves DEF queue
  <2>. QED
    BY <1>1, <2>1, <2>2, <2>3, <2>4, QuietStep DEF queue
<1>3. CASE After(c) \/ Cancel(c)
  <2>1. Done(c) /\ UNCHANGED <<database, buffer, asked, line>>
    BY <1>3 DEF After, Cancel, queue
  <2>2. client' \in Requests /\ NoNewHand
    BY <1>1, <2>1, DoneNoNewHand
  <2>3. circuit' \in Circuit /\ failures' \in 0..Threshold /\ outside' \in BOOLEAN \X BOOLEAN
    BY <1>1, <2>1 DEF TypeOK, outside, database, breaker
  <2>4. spawn_pending_flush \/ UNCHANGED <<flushing, flusher>>
    BY <1>3 DEF After, Cancel, queue
  <2>5. flusher' \in Tasks /\ flushing' \in BOOLEAN /\ SameHands
    BY <2>4, SpawnSameHands
  <2>. QED
    BY <2>1, <2>2, <2>3, <2>5, QuietStep
<1>. QED
  BY <1>2, <1>3

LEMMA EnvironmentQuiet ==
  ASSUME IInv, FlushInv',
         PollerClaim \/ PollerFlush \/ Background \/ GoesDown \/ ComesBack \/ UNCHANGED vars
  PROVE  IInv'
<1>1. TypeOK /\ outside \in BOOLEAN \X BOOLEAN
  BY DEF IInv, TypeOK, outside
<1>2. circuit' \in Circuit /\ failures' \in 0..Threshold
  BY <1>1, BreakerTyped
     DEF PollerClaim, PollerFlush, Background, GoesDown, ComesBack, vars, outside, database, breaker
<1>3. outside' \in BOOLEAN \X BOOLEAN /\ UNCHANGED <<client, buffer, asked, line>>
  BY <1>1
     DEF PollerClaim, PollerFlush, Background, GoesDown, ComesBack, vars, outside, database, queue
<1>4. spawn_pending_flush \/ UNCHANGED <<flushing, flusher>>
  BY DEF PollerClaim, PollerFlush, Background, GoesDown, ComesBack, vars, queue
<1>5. flusher' \in Tasks /\ flushing' \in BOOLEAN /\ SameHands
  BY <1>4, SpawnSameHands
<1>6. client' \in Requests /\ NoNewHand
  BY <1>3, SameClients
<1>. QED
  BY <1>2, <1>3, <1>5, <1>6, QuietStep

LEMMA Begins ==
  ASSUME IInv, FlushInv', NEW c \in Client, Request(c)
  PROVE  IInv'
<1>1. PICK w \in Write \cup {NoWrite} :
        /\ w # NoWrite => w \notin asked
        /\ client' = [client EXCEPT ![c] =
             IF c \in Handler THEN [pc |-> "gate", write |-> w, pre |-> circuit]
                              ELSE [pc |-> "call", write |-> w, pre |-> "closed"]]
        /\ asked' = asked \cup ({w} \ {NoWrite})
        /\ UNCHANGED <<database, queue>>
  BY DEF Request
<1>2. TypeOK /\ OnceEach
  BY DEF IInv
<1>3. /\ client' \in Requests /\ client'[c].write = w
      /\ \A d \in Client \ {c} : client'[d] = client[d]
  BY <1>1, <1>2 DEF TypeOK, Requests, Step, Circuit
<1>4. TypeOK'
  BY <1>1, <1>2, <1>3 DEF TypeOK, Requests, database, breaker, queue, outside
<1>5. HandsOk' /\ InOrder'
  BY <1>1 DEF IInv, HandsOk, InOrder, queue
<1>6. OnceEach'
  <2>1. Injective(line') /\ ToSet(line') = ToSet(line) /\ asked \subseteq asked'
    BY <1>1, <1>2 DEF OnceEach, queue
  <2>2. ToSet(line') \subseteq asked'
    BY <1>2, <2>1 DEF OnceEach
  <2>3. InHand(c)' => w # NoWrite /\ w \in asked' /\ w \notin asked
    BY <1>1, <1>3 DEF InHand
  <2>4. \A d \in Client \ {c} : InHand(d)' => InHand(d) /\ client'[d].write \in asked \ ToSet(line)
    BY <1>2, <1>3 DEF InHand, OnceEach
  <2>5. \A d \in Client : InHand(d)' => client'[d].write \in asked' \ ToSet(line')
    BY <1>2, <1>3, <2>1, <2>3, <2>4 DEF OnceEach
  <2>6. ASSUME NEW d \in Client, NEW e \in Client,
               InHand(d)', InHand(e)', client'[d].write = client'[e].write
        PROVE  d = e
    <3>1. CASE d = c \/ e = c
      BY <1>3, <2>3, <2>4, <2>6, <3>1
    <3>2. CASE d # c /\ e # c
      BY <1>2, <1>3, <2>4, <2>6, <3>2 DEF OnceEach
    <3>. QED
      BY <3>1, <3>2
  <2>. QED
    BY <2>1, <2>2, <2>5, <2>6 DEF OnceEach
<1>. QED
  BY <1>4, <1>5, <1>6 DEF IInv

LEMMA Lengths ==
  ASSUME TypeOK
  PROVE  /\ buffer \in Seq(Write) /\ Len(buffer) \in Nat /\ Len(buffer) <= Capacity
         /\ Capacity \in Nat \ {0} /\ line \in Seq(Write)
         /\ Full => buffer # <<>> /\ Len(buffer) = Capacity
<1>1. buffer \in Seq(Write) /\ Len(buffer) \in Nat /\ Len(buffer) <= Capacity /\ line \in Seq(Write)
  BY LenProperties DEF TypeOK
<1>2. Capacity \in Nat \ {0}
  BY CapacityAssumption
<1>3. Full => buffer # <<>> /\ Len(buffer) = Capacity
  BY <1>1, <1>2 DEF Full
<1>. QED
  BY <1>1, <1>2, <1>3

\* The two ways a line can be: as InOrder, with a write in the hand.
LEMMA Orders ==
  ASSUME IInv
  PROVE  \/ line = buffer /\ \A f \in Flusher : flusher[f].item = NoWrite
         \/ \E f \in Flusher :
              /\ flusher[f].item \in Write /\ line = <<flusher[f].item>> \o buffer
              /\ \A g \in Flusher \ {f} : flusher[g].item = NoWrite
<1>1. \A f \in Flusher : flusher[f].item \in Write \cup {NoWrite}
  BY DEF IInv, TypeOK
<1>2. line \in Seq(Write)
  BY DEF IInv, TypeOK
<1>3. ASSUME NEW f \in Flusher, line = <<flusher[f].item>> \o buffer
      PROVE  flusher[f].item \in Write
  <2>1. Len(buffer) \in Nat /\ buffer \in Seq(Write)
    BY Lengths DEF IInv
  <2> DEFINE a == flusher[f].item
  <2>2. a \in Write \cup {NoWrite}
    BY <1>1
  <2>3. line = <<a>> \o buffer
    BY <1>3
  <2> HIDE DEF a
  <2>4. buffer \in Seq(Write \cup {NoWrite})
    BY <2>1, SeqMonotonic
  <2>5. Len(line) = Len(buffer) + 1 /\ line[1] = a
    BY <2>2, <2>3, <2>4, Prefixed
  <2>6. 1 \in 1..Len(line)
    BY <2>1, <2>5
  <2>7. line[1] \in Write
    BY <1>2, <2>6, ElementOfSeq
  <2>. QED
    BY <2>5, <2>7 DEF a
<1>. QED
  BY <1>3 DEF IInv, InOrder

LEMMA Pushed ==
  ASSUME IInv, NEW w \in Write, w \notin ToSet(line), push(w), UNCHANGED flusher
  PROVE  /\ buffer' \in Seq(Write) /\ Len(buffer') <= Capacity /\ line' \in Seq(Write)
         /\ Injective(line') /\ ToSet(line') \subseteq ToSet(line) \cup {w}
         /\ InOrder'
<1>1. TypeOK /\ Injective(line)
  BY DEF IInv, OnceEach
<1>2. /\ buffer \in Seq(Write) /\ Len(buffer) \in Nat /\ Len(buffer) <= Capacity
      /\ Capacity \in Nat \ {0} /\ line \in Seq(Write)
      /\ Full => buffer # <<>> /\ Len(buffer) = Capacity
  BY <1>1, Lengths
<1>3. ASSUME NEW l \in Seq(Write), NEW b \in Seq(Write), Injective(l), ToSet(l) \subseteq ToSet(line),
             Len(b) < Capacity, line' = Append(l, w), buffer' = Append(b, w),
             \/ l = b /\ \A f \in Flusher : flusher[f].item = NoWrite
             \/ \E f \in Flusher :
                  /\ flusher[f].item \in Write /\ l = <<flusher[f].item>> \o b
                  /\ \A g \in Flusher \ {f} : flusher[g].item = NoWrite
      PROVE  /\ buffer' \in Seq(Write) /\ Len(buffer') <= Capacity /\ line' \in Seq(Write)
             /\ Injective(line') /\ ToSet(line') \subseteq ToSet(line) \cup {w}
             /\ InOrder'
  <2>1. buffer' \in Seq(Write) /\ Len(buffer') = Len(b) + 1 /\ Len(b) \in Nat
    BY <1>3, AppendProperties, LenProperties
  <2>2. w \notin ToSet(l)
    BY <1>3
  <2>3. line' \in Seq(Write) /\ Injective(line') /\ ToSet(line') \subseteq ToSet(l) \cup {w}
    BY <1>3, <2>2, AppendedOnce
  <2>4. InOrder'
    <3>1. CASE l = b /\ \A f \in Flusher : flusher[f].item = NoWrite
      BY <1>3, <3>1 DEF InOrder
    <3>2. ASSUME NEW f \in Flusher, flusher[f].item \in Write, l = <<flusher[f].item>> \o b,
                 \A g \in Flusher \ {f} : flusher[g].item = NoWrite
          PROVE  InOrder'
      <4>1. line' = <<flusher[f].item>> \o buffer'
        BY <1>3, <3>2, AppendedBehind
      <4>. QED
        BY <3>2, <4>1 DEF InOrder
    <3>. QED
      BY <1>3, <3>1, <3>2
  <2>. QED
    BY <1>2, <1>3, <2>1, <2>3, <2>4
<1>4. CASE ~Full
  <2>1. line' = Append(line, w) /\ buffer' = Append(buffer, w) /\ Len(buffer) < Capacity
    BY <1>2, <1>4 DEF push, Full
  <2>. QED
    BY <1>1, <1>2, <1>3, <2>1, Orders
<1>5. CASE Full
  <2> DEFINE l == RemoveFirst(line, Head(buffer))
             b == Tail(buffer)
  <2>1. line' = Append(l, w) /\ buffer' = Append(b, w) /\ buffer # <<>> /\ Len(buffer) = Capacity
    BY <1>2, <1>5 DEF push
  <2>2. b \in Seq(Write) /\ Len(b) < Capacity
    BY <1>2, <2>1, HeadTailProperties
  <2>3. l \in Seq(Write) /\ Injective(l) /\ ToSet(l) \subseteq ToSet(line)
    BY <1>1, <1>2, RemovedTyped
  <2>4. CASE line = buffer /\ \A f \in Flusher : flusher[f].item = NoWrite
    <3>1. l = b
      BY <1>1, <1>2, <2>1, <2>4, RemovedOwnHead
    <3> HIDE DEF l, b
    <3>. QED
      BY <1>3, <2>1, <2>2, <2>3, <2>4, <3>1
  <2>5. ASSUME NEW f \in Flusher, flusher[f].item \in Write, line = <<flusher[f].item>> \o buffer,
               \A g \in Flusher \ {f} : flusher[g].item = NoWrite
        PROVE  l = <<flusher[f].item>> \o b
    BY <1>1, <1>2, <2>1, <2>5, RemovedSecond
  <2> HIDE DEF l, b
  <2>. QED
    BY <1>3, <2>1, <2>2, <2>3, <2>4, <2>5, Orders
<1>. QED
  BY <1>4, <1>5

\* What a step that changes the line has to show: the writes it adds are those
\* that no request may buffer any more.
LEMMA LineStep ==
  ASSUME IInv, FlushInv', HandsOk', InOrder', asked' = asked, outside' \in BOOLEAN \X BOOLEAN,
         circuit' \in Circuit, failures' \in 0..Threshold,
         client' \in Requests, NoNewHand, flusher' \in Tasks, flushing' \in BOOLEAN,
         buffer' \in Seq(Write), Len(buffer') <= Capacity, line' \in Seq(Write),
         Injective(line'), NEW added \in SUBSET asked, ToSet(line') \subseteq ToSet(line) \cup added,
         \A c \in Client : InHand(c)' => client[c].write \notin added
  PROVE  IInv'
<1>1. TypeOK'
  BY DEF IInv, TypeOK, Requests, Tasks, outside
<1>2. OnceEach'
  <2>1. Injective(line)' /\ ToSet(line') \subseteq asked'
    BY DEF IInv, OnceEach, Injective
  <2>2. \A c \in Client : InHand(c)' => client'[c].write \in asked' \ ToSet(line')
    BY DEF IInv, OnceEach, NoNewHand
  <2>3. \A c, d \in Client :
          InHand(c)' /\ InHand(d)' /\ client'[c].write = client'[d].write => c = d
    BY DEF IInv, OnceEach, NoNewHand
  <2>. QED
    BY <2>1, <2>2, <2>3 DEF OnceEach
<1>. QED
  BY <1>1, <1>2 DEF IInv

LEMMA Pushes ==
  ASSUME IInv, FlushInv', NEW c \in Client, Push(c)
  PROVE  IInv'
<1> DEFINE w == client[c].write
<1>1. /\ TypeOK /\ client[c].pc = "push" /\ Goto(c, "after")
      /\ UNCHANGED <<database, flushing, flusher, asked>>
  BY DEF IInv, Push, At
<1>2. client' \in Requests /\ NoNewHand
  BY <1>1, GotoNoNewHand DEF Step
<1>3. circuit' \in Circuit /\ failures' \in 0..Threshold /\ outside' \in BOOLEAN \X BOOLEAN
  BY <1>1 DEF TypeOK, outside, database, breaker
<1>4. flusher' \in Tasks /\ flushing' \in BOOLEAN /\ SameHands
  BY <1>1, NothingMoves
<1>5. CASE w = NoWrite
  <2>1. UNCHANGED <<buffer, line>>
    BY <1>5 DEF Push
  <2>. QED
    BY <1>1, <1>2, <1>3, <1>4, <2>1, QuietStep
<1>6. CASE w # NoWrite
  <2>1. w \in Write /\ push(w)
    BY <1>1, <1>6 DEF TypeOK, Push
  <2>2. InHand(c) /\ w \in asked \ ToSet(line)
    BY <1>1, <1>6 DEF InHand, IInv, OnceEach
  <2>3. /\ buffer' \in Seq(Write) /\ Len(buffer') <= Capacity /\ line' \in Seq(Write)
        /\ Injective(line') /\ ToSet(line') \subseteq ToSet(line) \cup {w}
        /\ InOrder'
    BY <1>1, <2>1, <2>2, Pushed
  <2>4. ASSUME NEW d \in Client, InHand(d)'
        PROVE  client[d].write # w
    <3>1. d # c
      BY <1>1, <2>4, GotoTyped DEF InHand, Step
    <3>. QED
      BY <1>2, <2>2, <2>4, <3>1 DEF NoNewHand, IInv, OnceEach
  <2>5. {w} \in SUBSET asked /\ \A d \in Client : InHand(d)' => client[d].write \notin {w}
    BY <2>2, <2>4
  <2> HIDE DEF w
  <2>. QED
    BY <1>1, <1>2, <1>3, <1>4, <2>3, <2>5, LineStep DEF SameHands
<1>. QED
  BY <1>5, <1>6

\* What a flush task has in its hand is the head of the line.
LEMMA Hands ==
  ASSUME IInv, NEW f \in Flusher, flusher[f] # Gone
  PROVE  /\ \A g \in Flusher \ {f} : flusher[g] = Gone /\ flusher[g].item = NoWrite
         /\ flusher[f].pc = "write" =>
              flusher[f].item \in Write /\ line = <<flusher[f].item>> \o buffer
         /\ flusher[f].pc # "write" => flusher[f].item = NoWrite /\ line = buffer
<1>1. \A g \in Flusher \ {f} : flusher[g] = Gone /\ flusher[g].item = NoWrite
  BY DEF IInv, FlushInv, OneFlush, Gone
<1>2. HandsOk
  BY DEF IInv
<1>3. CASE flusher[f].pc = "write"
  BY <1>1, <1>2, <1>3, Orders DEF HandsOk
<1>4. CASE flusher[f].pc # "write"
  BY <1>1, <1>2, <1>4, Orders, NoWriteAssumption DEF HandsOk
<1>. QED
  BY <1>1, <1>3, <1>4

\* A flush task goes on or ends with an empty hand.
LEMMA Emptied ==
  ASSUME IInv, NEW f \in Flusher, flusher[f] # Gone, NEW pc \in {"none", "pop", "leave"},
         flusher' = [flusher EXCEPT ![f] = [pc |-> pc, item |-> NoWrite]]
  PROVE  /\ flusher' \in Tasks /\ HandsOk'
         /\ \A g \in Flusher : flusher'[g].item = NoWrite
<1>1. flusher \in Tasks /\ HandsOk
  BY DEF IInv, TypeOK, Tasks
<1>2. /\ flusher' \in Tasks /\ flusher'[f] = [pc |-> pc, item |-> NoWrite]
      /\ \A g \in Flusher \ {f} : flusher'[g] = flusher[g]
  BY <1>1 DEF Tasks
<1>3. \A g \in Flusher \ {f} : flusher[g].item = NoWrite
  BY Hands
<1>. QED
  BY <1>1, <1>2, <1>3 DEF HandsOk

\* The write in the hand is settled.
LEMMA SettlesHand ==
  ASSUME IInv, FlushInv', NEW f \in Flusher, flusher[f].pc = "write", Settled(flusher[f].item),
         NEW pc \in {"none", "pop", "leave"},
         flusher' = [flusher EXCEPT ![f] = [pc |-> pc, item |-> NoWrite]],
         circuit' \in Circuit, failures' \in 0..Threshold, flushing' \in BOOLEAN,
         UNCHANGED <<outside, client, buffer, asked>>
  PROVE  IInv'
<1>1. flusher[f] # Gone
  BY DEF Gone
<1>2. flusher[f].item \in Write /\ line = <<flusher[f].item>> \o buffer
  BY <1>1, Hands
<1>3. TypeOK /\ Injective(line) /\ buffer \in Seq(Write) /\ line \in Seq(Write) /\ Len(buffer) <= Capacity
  BY Lengths DEF IInv, OnceEach
<1>4. line' = buffer
  BY <1>2, <1>3, RemovedHead DEF Settled
<1>5. line' \in Seq(Write) /\ Injective(line') /\ ToSet(line') \subseteq ToSet(line)
  BY <1>3, RemovedTyped DEF Settled
<1>6. /\ flusher' \in Tasks /\ HandsOk'
      /\ \A g \in Flusher : flusher'[g].item = NoWrite
  BY <1>1, Emptied
<1>7. InOrder'
  BY <1>4, <1>6 DEF InOrder
<1>8. client' \in Requests /\ NoNewHand /\ outside' \in BOOLEAN \X BOOLEAN
  BY <1>3, SameClients DEF TypeOK, outside
<1>9. {} \in SUBSET asked /\ ToSet(line') \subseteq ToSet(line) \cup {}
  BY <1>5
<1>. QED
  BY <1>3, <1>5, <1>6, <1>7, <1>8, <1>9, LineStep

LEMMA Pauses ==
  ASSUME IInv, FlushInv', NEW f \in Flusher, FlushPaused(f)
  PROVE  IInv'
<1> DEFINE w == flusher[f].item
<1>1. /\ flusher[f].pc = "write" /\ UNCHANGED <<outside, client, flushing, asked>>
      /\ flusher' = [flusher EXCEPT ![f] = [pc |-> "leave", item |-> NoWrite]]
      /\ flusher[f] # Gone
  BY DEF FlushPaused, Gone
<1>2. circuit' \in Circuit /\ failures' \in 0..Threshold
  BY BreakerTyped DEF IInv, FlushPaused
<1>3. w \in Write /\ line = <<w>> \o buffer
  BY <1>1, Hands
<1>4. /\ TypeOK /\ Injective(line) /\ flushing \in BOOLEAN
      /\ buffer \in Seq(Write) /\ Len(buffer) \in Nat /\ Len(buffer) <= Capacity
      /\ Capacity \in Nat \ {0} /\ line \in Seq(Write)
      /\ Full => buffer # <<>> /\ Len(buffer) = Capacity
  BY Lengths DEF IInv, OnceEach, TypeOK
<1>5. /\ flusher' \in Tasks /\ HandsOk'
      /\ \A g \in Flusher : flusher'[g].item = NoWrite
  BY <1>1, Emptied
<1> HIDE DEF w
<1>6. /\ buffer' \in Seq(Write) /\ Len(buffer') <= Capacity /\ line' = buffer'
      /\ Injective(line') /\ ToSet(line') \subseteq ToSet(line)
  <2>1. CASE ~Full
    <3>1. line' = line /\ buffer' = <<w>> \o buffer
      BY <2>1 DEF FlushPaused, push_front, w
    <3>2. Len(buffer') = Len(buffer) + 1 /\ Len(buffer) < Capacity
      BY <1>3, <1>4, <2>1, <3>1, Prefixed DEF Full
    <3>. QED
      BY <1>3, <1>4, <3>1, <3>2
  <2>2. CASE Full
    <3>1. line' = RemoveFirst(line, Last(buffer)) /\ buffer' = <<w>> \o Front(buffer)
      BY <2>2 DEF FlushPaused, push_front, Settled, w
    <3>2. line' = buffer'
      BY <1>3, <1>4, <2>2, <3>1, RemovedLast
    <3>3. line' \in Seq(Write) /\ Injective(line') /\ ToSet(line') \subseteq ToSet(line)
      BY <1>4, <3>1, RemovedTyped
    <3>4. Front(buffer) \in Seq(Write) /\ Len(Front(buffer)) = Len(buffer) - 1
      BY <1>4, <2>2, SubSeqProperties, ElementOfSeq DEF Front
    <3>5. Len(buffer') = Len(Front(buffer)) + 1
      BY <1>3, <3>1, <3>4, Prefixed
    <3>6. Len(buffer') = Capacity
      BY <1>4, <2>2, <3>4, <3>5
    <3>. QED
      BY <1>4, <3>2, <3>3, <3>6
  <2>. QED
    BY <2>1, <2>2
<1>7. InOrder'
  BY <1>5, <1>6 DEF InOrder
<1>8. client' \in Requests /\ NoNewHand /\ outside' \in BOOLEAN \X BOOLEAN
  BY <1>1, <1>4, SameClients DEF TypeOK, outside
<1>9. {} \in SUBSET asked /\ ToSet(line') \subseteq ToSet(line) \cup {}
  BY <1>6
<1>. QED
  BY <1>1, <1>2, <1>4, <1>5, <1>6, <1>7, <1>8, <1>9, LineStep

LEMMA Pops ==
  ASSUME IInv, FlushInv', NEW f \in Flusher, pop_front(f)
  PROVE  IInv'
<1>1. /\ flusher[f].pc = "pop" /\ UNCHANGED <<database, client, flushing, asked, line>>
      /\ flusher[f] # Gone
  BY DEF pop_front, Gone
<1>2. /\ line = buffer /\ flusher[f].item = NoWrite
      /\ \A g \in Flusher \ {f} : flusher[g].item = NoWrite
  BY <1>1, Hands
<1>3. /\ TypeOK /\ HandsOk /\ flushing' \in BOOLEAN /\ outside' \in BOOLEAN \X BOOLEAN
      /\ circuit' \in Circuit /\ failures' \in 0..Threshold
  BY <1>1 DEF IInv, TypeOK, database, breaker, outside
<1>4. client' \in Requests /\ NoNewHand
  BY <1>1, SameClients
<1>5. CASE buffer = <<>>
  <2>1. flusher' = [flusher EXCEPT ![f] = [pc |-> "leave", item |-> NoWrite]] /\ UNCHANGED buffer
    BY <1>5 DEF pop_front
  <2>2. /\ flusher' \in Tasks /\ HandsOk'
        /\ \A g \in Flusher : flusher'[g].item = NoWrite
    BY <1>1, <2>1, Emptied
  <2>. QED
    BY <1>1, <1>2, <1>3, <1>4, <2>1, <2>2, QuietStep DEF SameHands
<1>6. CASE buffer # <<>>
  <2>1. /\ flusher' = [flusher EXCEPT ![f] = [pc |-> "write", item |-> Head(buffer)]]
        /\ buffer' = Tail(buffer)
    BY <1>6 DEF pop_front
  <2>2. buffer \in Seq(Write) /\ Len(buffer) <= Capacity /\ line \in Seq(Write) /\ Capacity \in Nat
    BY <1>3, Lengths
  <2>3. /\ Head(buffer) \in Write /\ buffer' \in Seq(Write)
        /\ Len(buffer') = Len(buffer) - 1 /\ Len(buffer) \in Nat
    BY <1>6, <2>1, <2>2, HeadTailProperties, LenProperties
  <2>4. line' = <<Head(buffer)>> \o buffer'
    BY <1>1, <1>2, <1>6, <2>1, <2>2, ConcatSimplifications, HeadTailProperties
  <2>5. /\ flusher' \in Tasks /\ flusher'[f] = [pc |-> "write", item |-> Head(buffer)]
        /\ \A g \in Flusher \ {f} : flusher'[g] = flusher[g]
    BY <1>3, <2>1, <2>3 DEF TypeOK, Tasks
  <2>6. HandsOk'
    BY <1>3, <2>3, <2>5, NoWriteAssumption DEF HandsOk
  <2>7. InOrder'
    BY <1>2, <2>4, <2>5 DEF InOrder
  <2>8. Injective(line') /\ ToSet(line') \subseteq ToSet(line) \cup {} /\ {} \in SUBSET asked
    BY <1>1 DEF IInv, OnceEach
  <2>9. Len(buffer') <= Capacity
    BY <2>2, <2>3
  <2>. QED
    BY <1>1, <1>3, <1>4, <2>2, <2>3, <2>5, <2>6, <2>7, <2>8, <2>9, LineStep
<1>. QED
  BY <1>5, <1>6

LEMMA Flushes ==
  ASSUME IInv, FlushInv', NEW f \in Flusher, Flush(f) \/ FlushPanics(f)
  PROVE  IInv'
<1>1. TypeOK /\ flushing \in BOOLEAN
  BY DEF IInv, TypeOK
<1>2. CASE pop_front(f)
  BY <1>2, Pops
<1>3. CASE FlushSettles(f)
  <2>1. circuit' \in Circuit /\ failures' \in 0..Threshold
    BY <1>1, <1>3, BreakerTyped DEF FlushSettles
  <2>. QED
    BY <1>1, <1>3, <2>1, SettlesHand DEF FlushSettles
<1>4. CASE FlushPaused(f)
  BY <1>4, Pauses
<1>5. CASE Leave(f)
  <2>0. flusher[f].pc = "leave" /\ flusher[f] # Gone
    BY <1>5 DEF Leave, Gone
  <2>1. /\ flushing' \in BOOLEAN
        /\ flusher' = [flusher EXCEPT ![f] = [pc |-> "none", item |-> NoWrite]]
        /\ UNCHANGED <<database, client, buffer, asked, line>>
    BY <1>5 DEF Leave, Gone, finish_flush
  <2>2. /\ flusher' \in Tasks /\ HandsOk'
        /\ \A g \in Flusher : flusher'[g].item = NoWrite
    BY <2>0, <2>1, Emptied
  <2>3. SameHands
    BY <2>0, <2>2, Hands DEF SameHands
  <2>4. client' \in Requests /\ NoNewHand
    BY <2>1, SameClients
  <2>. QED
    BY <1>1, <2>1, <2>2, <2>3, <2>4, QuietStep DEF TypeOK, outside, database, breaker
<1>6. CASE FlushPanics(f)
  <2>1. /\ flusher[f].pc = "write" /\ Settled(flusher[f].item) /\ flushing' \in BOOLEAN
        /\ flusher' = [flusher EXCEPT ![f] = [pc |-> "none", item |-> NoWrite]]
        /\ UNCHANGED <<database, client, buffer, asked>>
    BY <1>6 DEF FlushPanics, Gone, finish_flush
  <2>2. circuit' \in Circuit /\ failures' \in 0..Threshold /\ UNCHANGED <<outside, client, buffer, asked>>
    BY <1>1, <2>1 DEF TypeOK, outside, database, breaker
  <2>. QED
    BY <2>1, <2>2, SettlesHand
<1>. QED
  BY <1>2, <1>3, <1>4, <1>5, <1>6 DEF Flush

\* A process that begins has nobody at work and nothing in the buffer.
LEMMA Fresh ==
  ASSUME client = [c \in Client |-> Idle], buffer = <<>>, line = <<>>,
         flusher = [f \in Flusher |-> Gone]
  PROVE  /\ client \in Requests /\ flusher \in Tasks
         /\ buffer \in Seq(Write) /\ Len(buffer) <= Capacity /\ line \in Seq(Write)
         /\ HandsOk /\ InOrder /\ OnceEach
<1>1. client \in Requests /\ \A c \in Client : ~InHand(c)
  BY DEF Requests, Idle, Step, Circuit, InHand
<1>2. flusher \in Tasks /\ HandsOk /\ InOrder
  BY DEF Tasks, Gone, HandsOk, InOrder
<1>3. Len(<<>>) = 0 /\ <<>> \in Seq(Write) /\ DOMAIN <<>> = {}
  BY EmptySeq
<1>4. OnceEach
  BY <1>1, <1>3 DEF OnceEach, Injective, ToSet
<1>. QED
  BY <1>1, <1>2, <1>3, <1>4, CapacityAssumption

LEMMA Crashes ==
  ASSUME IInv, FlushInv', Crash
  PROVE  IInv'
<1>1. /\ client' \in Requests /\ flusher' \in Tasks
      /\ buffer' \in Seq(Write) /\ Len(buffer') <= Capacity /\ line' \in Seq(Write)
      /\ HandsOk' /\ InOrder' /\ OnceEach'
  <2>1. /\ client' \in Requests /\ \A c \in Client : ~InHand(c)'
    BY DEF Crash, Requests, Idle, Step, Circuit, InHand
  <2>2. flusher' \in Tasks /\ HandsOk' /\ InOrder'
    BY DEF Crash, Tasks, Gone, HandsOk, InOrder
  <2>3. Len(<<>>) = 0 /\ <<>> \in Seq(Write) /\ DOMAIN <<>> = {}
    BY EmptySeq
  <2>4. OnceEach'
    BY <2>1, <2>3 DEF Crash, OnceEach, Injective, ToSet
  <2>. QED
    BY <2>1, <2>2, <2>3, <2>4, CapacityAssumption DEF Crash
<1>0. outside' \in BOOLEAN \X BOOLEAN /\ asked' \subseteq Write /\ flushing' \in BOOLEAN
  BY DEF Crash, IInv, TypeOK, outside
<1>2. circuit' \in Circuit /\ failures' \in 0..Threshold
  BY ThresholdAssumption DEF Crash, Circuit
<1>3. TypeOK'
  BY <1>0, <1>1, <1>2 DEF TypeOK, Requests, Tasks, outside
<1>. QED
  BY <1>1, <1>3 DEF IInv

LEMMA Inductive == Spec => []IInv
<1>1. Init => IInv
  <2> SUFFICES ASSUME Init
               PROVE  IInv
    OBVIOUS
  <2>1. /\ client \in Requests /\ flusher \in Tasks
        /\ buffer \in Seq(Write) /\ Len(buffer) <= Capacity /\ line \in Seq(Write)
        /\ HandsOk /\ InOrder /\ OnceEach
    BY Fresh DEF Init
  <2>2. FlushInv
    BY DEF Init, FlushInv, OneFlush
  <2>3. circuit \in Circuit /\ failures \in 0..Threshold
    BY ThresholdAssumption DEF Init, Circuit
  <2>. QED
    BY <2>1, <2>2, <2>3 DEF Init, IInv, TypeOK, Requests, Tasks
<1>2. ASSUME IInv, [Next]_vars
      PROVE  IInv'
  <2>1. FlushInv'
    BY <1>2, FlushStep DEF IInv
  <2>. QED
    BY <1>2, <2>1, Begins, RequestQuiet, Pushes, Flushes, EnvironmentQuiet, Crashes
       DEF Next, Proceed
<1>. QED
  BY <1>1, <1>2, PTL DEF Spec

\* The writes that were answered "buffered" and are not settled are the one in
\* a flush's hand and those in the buffer, in the order in which they were
\* buffered: pauses, panics, crashes and the limit neither forget, double nor
\* reorder any (PendingWriteQueue.push, pop_front, push_front).
THEOREM BufferKeepsOrder == Spec => []KeptInOrder
<1>1. IInv => KeptInOrder
  BY DEF IInv, KeptInOrder, InOrder
<1>. QED
  BY <1>1, Inductive, PTL

=============================================================================
