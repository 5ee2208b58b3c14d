------------------------ MODULE CircuitBreakerProofs ------------------------
(***************************************************************************)
(* What is proved about the circuit breaker, for any number of calls of    *)
(* any kind and for any threshold and backoffs:                            *)
(*  - the types, by themselves inductive;                                  *)
(*  - the half-open state always has a call that will leave it: inductive  *)
(*    once it says where in its call the probe is;                         *)
(*  - with guarded calls only, failures have to be consecutive for the     *)
(*    circuit to open: the failure count and the calls that are about to   *)
(*    add to it are together covered by queries that failed.               *)
(* The last part is about Migrations, a module whose names are disjoint    *)
(* from those of CircuitBreaker.                                           *)
(***************************************************************************)
EXTENDS CircuitBreaker, Migrations, FiniteSets, FiniteSetTheorems, TLAPS

\* One step of one call of the breaker, by the actions it may be.
LEMMA Steps ==
  ASSUME Next
  PROVE  \/ \E c \in Caller :
              \/ Begin(c) \/ Cancel(c)
              \/ LoadState(c) \/ ReadAnchor(c) \/ LoadBackoff(c) \/ Exchange(c)
              \/ QueryOk(c) \/ QueryUnavailable(c) \/ QueryOtherError(c)
              \/ OtherError(c)
              \/ ZeroFailures(c) \/ ResetBackoff(c) \/ Close(c)
              \/ LoadFailed(c) \/ LoadCurrentBackoff(c) \/ DoubleBackoff(c)
              \/ MoveAnchor(c) \/ Reopen(c)
              \/ CountFailure(c) \/ Trip(c) \/ StampAnchor(c)
         \/ Tick \/ GoesDown \/ ComesBack
  BY DEF Next, Proceed, should_allow, record_success, record_failure

\* What a probe that doubles the backoff has loaded is a backoff.
LoadedBackoff ==
  \A c \in Caller : At(c, "redouble") => call[c].seen >= MinBackoff

\* Where a call goes in every step but that load.
Moved(c) ==
  \E pc \in Pc \ {"redouble"}, level \in Level, seen \in 0..MaxBackoff :
    call' = [call EXCEPT ![c] = [pc |-> pc, level |-> level, seen |-> seen]]

LEMMA MovedTypes ==
  ASSUME NEW c \in Caller, TypeOK, LoadedBackoff, Moved(c)
  PROVE  call' \in [Caller -> Call] /\ LoadedBackoff'
  BY DEF Moved, TypeOK, LoadedBackoff, At, Call

LEMMA GotoLevelMoves ==
  ASSUME NEW c \in Caller, NEW pc \in Pc \ {"redouble"}, NEW level \in Level,
         GotoLevel(c, pc, level)
  PROVE  Moved(c)
<1>1. 0 \in 0..MaxBackoff
  BY BackoffAssumption
<1>. QED
  BY <1>1 DEF GotoLevel, Moved

LEMMA GotoMoves ==
  ASSUME NEW c \in Caller, NEW pc \in Pc \ {"redouble"}, TypeOK,
         Goto(c, pc)
  PROVE  Moved(c)
<1>1. call[c].level \in Level
  BY DEF TypeOK, Call
<1>. QED
  BY <1>1, GotoLevelMoves DEF Goto

LEMMA DecisionsMove ==
  ASSUME NEW c \in Caller, TypeOK,
         Granted(c) \/ Refused(c) \/ RecordedSuccess(c) \/ RecordedFailure(c)
           \/ Return(c)
  PROVE  Moved(c)
<1>1. ASSUME Return(c) PROVE Moved(c)
  BY <1>1, GotoLevelMoves DEF Return, Pc, Level
<1>2. ASSUME Granted(c) PROVE Moved(c)
  BY <1>2, GotoLevelMoves, GotoMoves DEF Granted, Pc, Asking, Succeeding, Level
<1>3. ASSUME Refused(c) PROVE Moved(c)
  BY <1>1, <1>3, GotoLevelMoves DEF Refused, Pc, Failing, Level
<1>4. ASSUME RecordedSuccess(c) PROVE Moved(c)
  BY <1>1, <1>4, GotoLevelMoves DEF RecordedSuccess, Pc, Asking, Succeeding, Level
<1>5. ASSUME RecordedFailure(c) PROVE Moved(c)
  BY <1>1, <1>5, GotoLevelMoves DEF RecordedFailure, Pc, Failing, Level
<1>. QED
  BY <1>1, <1>2, <1>3, <1>4, <1>5

-----------------------------------------------------------------------------
(* Types *)

\* Each action keeps the types of the breaker and moves at most one call.
LEMMA TypeStep ==
  ASSUME TypeOK, LoadedBackoff, [Next]_vars
  PROVE  TypeOK' /\ LoadedBackoff'
<1>. USE BackoffAssumption DEF breaker, history
<1>1. CASE UNCHANGED vars
  BY <1>1 DEF TypeOK, LoadedBackoff, At, vars
<1>2. ASSUME NEW c \in Caller,
             Begin(c) \/ Cancel(c) \/ LoadState(c) \/ ReadAnchor(c)
               \/ LoadBackoff(c) \/ Exchange(c)
      PROVE  TypeOK' /\ LoadedBackoff'
  <2>1. CASE Begin(c)
    <3>1. PICK level \in {"outer", "plain"} : GotoLevel(c, "load", level)
      BY <2>1 DEF Begin
    <3>2. Moved(c)
      BY <3>1, GotoLevelMoves DEF Pc, Asking, Level
    <3>. QED
      BY <2>1, <3>2, MovedTypes DEF Begin, TypeOK
  <2>2. CASE Cancel(c)
    BY <2>2, DecisionsMove, MovedTypes DEF Cancel, TypeOK
  <2>3. CASE LoadState(c)
    <3>1. Moved(c)
      BY <2>3, DecisionsMove, GotoMoves DEF LoadState, Pc, Asking
    <3>. QED
      BY <2>3, <3>1, MovedTypes DEF LoadState, TypeOK
  <2>4. CASE ReadAnchor(c)
    <3>1. age \in 0..MaxBackoff /\ call[c].level \in Level
      BY DEF TypeOK, Call
    <3>4. Moved(c)
      BY <2>4, <3>1 DEF ReadAnchor, Loaded, Moved, Pc, Asking
    <3>. QED
      BY <2>4, <3>4, MovedTypes DEF ReadAnchor, TypeOK
  <2>5. CASE LoadBackoff(c)
    <3>1. Moved(c)
      BY <2>5, DecisionsMove, GotoMoves DEF LoadBackoff, Pc, Asking
    <3>. QED
      BY <2>5, <3>1, MovedTypes DEF LoadBackoff, TypeOK
  <2>6. CASE Exchange(c)
    <3>1. Moved(c)
      BY <2>6, DecisionsMove DEF Exchange
    <3>. QED
      BY <2>6, <3>1, MovedTypes DEF Exchange, TypeOK
  <2>. QED
    BY <1>2, <2>1, <2>2, <2>3, <2>4, <2>5, <2>6
<1>3. ASSUME NEW c \in Caller,
             QueryOk(c) \/ QueryUnavailable(c) \/ QueryOtherError(c)
               \/ OtherError(c) \/ ZeroFailures(c) \/ ResetBackoff(c)
               \/ Close(c)
      PROVE  TypeOK' /\ LoadedBackoff'
  <2>1. Moved(c)
    BY <1>3, DecisionsMove, GotoMoves
    DEF QueryOk, QueryUnavailable, QueryOtherError, OtherError, ZeroFailures,
        ResetBackoff, Close, Pc, Succeeding, Failing
  <2>2. call' \in [Caller -> Call] /\ LoadedBackoff'
    BY <2>1, MovedTypes
  <2>. QED
    BY <1>3, <2>2
    DEF QueryOk, QueryUnavailable, QueryOtherError, OtherError, ZeroFailures,
        ClearedCount, ResetBackoff, Close, Smaller, TypeOK
<1>4. ASSUME NEW c \in Caller,
             LoadFailed(c) \/ LoadCurrentBackoff(c) \/ DoubleBackoff(c)
               \/ MoveAnchor(c) \/ Reopen(c) \/ CountFailure(c) \/ Trip(c)
               \/ StampAnchor(c)
      PROVE  TypeOK' /\ LoadedBackoff'
  <2>1. CASE LoadCurrentBackoff(c)
    <3>1. /\ backoff \in 0..MaxBackoff /\ backoff >= MinBackoff
          /\ call[c].level \in Level
      BY DEF TypeOK, Call
    <3>2. [pc |-> "redouble", level |-> call[c].level, seen |-> backoff]
            \in Call
      BY <3>1 DEF Call, Pc, Failing
    <3>3. call' \in [Caller -> Call]
      BY <2>1, <3>2 DEF LoadCurrentBackoff, Loaded, TypeOK
    <3>4. LoadedBackoff'
      BY <2>1, <3>1 DEF LoadCurrentBackoff, Loaded, LoadedBackoff, At, TypeOK
    <3>. QED
      BY <2>1, <3>3, <3>4 DEF LoadCurrentBackoff, TypeOK
  <2>2. CASE DoubleBackoff(c)
    <3>1. backoff' \in MinBackoff..MaxBackoff
      <4>1. call[c].seen \in MinBackoff..MaxBackoff
        BY <2>2 DEF DoubleBackoff, At, TypeOK, LoadedBackoff, Call
      <4>2. Smaller(2 * call[c].seen, MaxBackoff) \in MinBackoff..MaxBackoff
        BY <4>1 DEF Smaller
      <4>. QED
        BY <2>2, <4>2 DEF DoubleBackoff, Doubled
    <3>2. call' \in [Caller -> Call] /\ LoadedBackoff'
      BY <2>2, GotoMoves, MovedTypes DEF DoubleBackoff, Pc, Failing
    <3>. QED
      BY <2>2, <3>1, <3>2 DEF DoubleBackoff, TypeOK
  <2>3. CASE LoadFailed(c) \/ MoveAnchor(c) \/ Reopen(c) \/ CountFailure(c)
               \/ Trip(c) \/ StampAnchor(c)
    <3>1. Moved(c)
      BY <2>3, DecisionsMove, GotoMoves
      DEF LoadFailed, MoveAnchor, Reopen, CountFailure, Trip, StampAnchor,
          Pc, Failing
    <3>2. call' \in [Caller -> Call] /\ LoadedBackoff'
      BY <3>1, MovedTypes
    <3>. QED
      BY <2>3, <3>2
      DEF LoadFailed, MoveAnchor, Reopen, Reopened, CountFailure, Trip,
          StampAnchor, Smaller, TypeOK
  <2>. QED
    BY <1>4, <2>1, <2>2, <2>3
<1>5. CASE Tick
  <2>1. age' \in 0..MaxBackoff
    BY <1>5 DEF Tick, TypeOK, Smaller
  <2>. QED
    BY <1>5, <2>1 DEF Tick, TypeOK, LoadedBackoff, At
<1>6. CASE GoesDown \/ ComesBack
  BY <1>6 DEF GoesDown, ComesBack, TypeOK, LoadedBackoff, At
<1>. QED
  BY <1>1, <1>2, <1>3, <1>4, <1>5, <1>6, Steps

\* Every variable has its type.
THEOREM TypeCorrect == Spec => []TypeOK
<1>1. Init => TypeOK /\ LoadedBackoff
  BY BackoffAssumption
  DEF Init, TypeOK, LoadedBackoff, At, Idle, Call, Pc, Level
<1>2. (TypeOK /\ LoadedBackoff) /\ [Next]_vars => (TypeOK /\ LoadedBackoff)'
  BY TypeStep
<1>. QED
  BY <1>1, <1>2, PTL DEF Spec

-----------------------------------------------------------------------------
(* The half-open state *)

\* A call that moves to a step that answers for the state.
LEMMA AnswersAfter ==
  ASSUME NEW c \in Caller, NEW pc, NEW level, TypeOK, GotoLevel(c, pc, level),
         pc \in Answering \/ (pc = "load" /\ level = "inner")
  PROVE  Answers(c)'
  BY DEF GotoLevel, Answers, TypeOK

\* The steps of one call do not move the others.
LEMMA OthersStay ==
  ASSUME NEW c \in Caller, NEW d \in Caller, d # c, TypeOK, Moved(c)
  PROVE  Answers(d) => Answers(d)'
  BY DEF Moved, Answers, TypeOK

LEMMA ProbeStep ==
  ASSUME TypeOK, HalfOpenHasProbe, [Next]_vars
  PROVE  HalfOpenHasProbe'
<1>. USE DEF breaker, history
<1>1. CASE UNCHANGED vars
  BY <1>1 DEF HalfOpenHasProbe, Answers, vars
<1>2. CASE Tick \/ GoesDown \/ ComesBack
  BY <1>2 DEF Tick, GoesDown, ComesBack, HalfOpenHasProbe, Answers
\* Steps that never are the probe's while the circuit is half-open.
<1>3. ASSUME NEW c \in Caller,
             \/ Begin(c) \/ ReadAnchor(c) \/ LoadBackoff(c)
             \/ CountFailure(c) \/ StampAnchor(c)
      PROVE  HalfOpenHasProbe'
  <2>1. Moved(c)
    <3>1. CASE Begin(c)
      <4>1. PICK level \in {"outer", "plain"} : GotoLevel(c, "load", level)
        BY <3>1 DEF Begin
      <4>. QED
        BY <4>1, GotoLevelMoves DEF Pc, Asking, Level
    <3>2. CASE ReadAnchor(c)
      <4>1. age \in 0..MaxBackoff /\ call[c].level \in Level
        BY DEF TypeOK, Call
      <4>. QED
        BY <3>2, <4>1 DEF ReadAnchor, Loaded, Moved, Pc, Asking
    <3>. QED
      BY <1>3, <3>1, <3>2, DecisionsMove, GotoMoves
      DEF LoadBackoff, CountFailure, StampAnchor, Pc, Asking, Failing
  <2>2. ~Answers(c)
    BY <1>3 DEF Begin, ReadAnchor, LoadBackoff, CountFailure, StampAnchor,
                At, Answers, Answering
  <2>3. UNCHANGED <<state, probe>>
    BY <1>3 DEF Begin, ReadAnchor, LoadBackoff, CountFailure, StampAnchor
  <2>. QED
    BY <2>1, <2>2, <2>3, OthersStay DEF HalfOpenHasProbe
\* Steps after which the circuit is not half-open.
<1>4. ASSUME NEW c \in Caller, Close(c) \/ Reopen(c) \/ Trip(c)
      PROVE  HalfOpenHasProbe'
  BY <1>4 DEF Close, Reopen, Reopened, Trip, HalfOpenHasProbe
\* Steps that go on to one that answers for the state.
<1>5. ASSUME NEW c \in Caller,
             \/ QueryOk(c) \/ QueryUnavailable(c)
             \/ ZeroFailures(c) \/ ResetBackoff(c)
             \/ LoadCurrentBackoff(c) \/ DoubleBackoff(c) \/ MoveAnchor(c)
      PROVE  HalfOpenHasProbe'
  <2>1. UNCHANGED <<state, probe>>
    BY <1>5 DEF QueryOk, QueryUnavailable, ZeroFailures, ResetBackoff,
                LoadCurrentBackoff, DoubleBackoff, MoveAnchor
  <2>2. \E step \in Call : step.pc \in Answering
                         /\ call' = [call EXCEPT ![c] = step]
    <3>1. CASE LoadCurrentBackoff(c)
      <4>1. backoff \in 0..MaxBackoff /\ call[c].level \in Level
        BY BackoffAssumption DEF TypeOK, Call
      <4>2. [pc |-> "redouble", level |-> call[c].level, seen |-> backoff]
              \in Call
        BY <4>1 DEF Call, Pc, Failing
      <4>. QED
        BY <3>1, <4>2 DEF LoadCurrentBackoff, Loaded, Answering
    <3>2. ASSUME NEW pc \in Answering, Goto(c, pc)
          PROVE  \E step \in Call : step.pc \in Answering
                                  /\ call' = [call EXCEPT ![c] = step]
      <4>1. 0 \in 0..MaxBackoff /\ call[c].level \in Level
        BY BackoffAssumption DEF TypeOK, Call
      <4>2. [pc |-> pc, level |-> call[c].level, seen |-> 0] \in Call
        BY <4>1 DEF Call, Pc, Answering, Asking, Succeeding, Failing
      <4>. QED
        BY <3>2, <4>2 DEF Goto, GotoLevel
    <3>. QED
      BY <1>5, <3>1, <3>2
      DEF QueryOk, QueryUnavailable, ZeroFailures, ResetBackoff, DoubleBackoff,
          MoveAnchor, Answering
  <2>3. \A d \in Caller : Answers(d) => Answers(d)'
    BY <2>2 DEF Answers, TypeOK
  <2>. QED
    BY <2>1, <2>3 DEF HalfOpenHasProbe
\* The decisions.
<1>6. ASSUME NEW c \in Caller, LoadState(c) PROVE HalfOpenHasProbe'
  <2>1. Moved(c)
    BY <1>6, DecisionsMove, GotoMoves DEF LoadState, Pc, Asking
  <2>2. CASE state = "half"
    <3>1. Refused(c) /\ UNCHANGED <<state, probe>>
      BY <1>6, <2>2 DEF LoadState
    <3>2. Answers(c) => Answers(c)'
      BY <1>6, <3>1, AnswersAfter DEF LoadState, At, Refused, Answers, Answering
    <3>. QED
      BY <2>1, <3>1, <3>2, OthersStay DEF HalfOpenHasProbe
  <2>3. CASE state # "half"
    BY <1>6, <2>3 DEF LoadState, HalfOpenHasProbe
  <2>. QED
    BY <2>2, <2>3
<1>7. ASSUME NEW c \in Caller, Exchange(c) PROVE HalfOpenHasProbe'
  <2>1. CASE state = "open"
    <3>1. probe' = c /\ Granted(c)
      BY <1>7, <2>1 DEF Exchange
    <3>2. Answers(c)'
      BY <3>1, AnswersAfter DEF Granted, Goto, Answering
    <3>. QED
      BY <3>1, <3>2 DEF HalfOpenHasProbe, Answers
  <2>2. CASE state # "open"
    <3>1. Moved(c) /\ UNCHANGED <<state, probe>> /\ ~Answers(c)
      BY <1>7, <2>2, DecisionsMove DEF Exchange, At, Answers, Answering
    <3>. QED
      BY <3>1, OthersStay DEF HalfOpenHasProbe
  <2>. QED
    BY <2>1, <2>2
<1>8. ASSUME NEW c \in Caller,
             QueryOtherError(c) \/ OtherError(c) \/ LoadFailed(c) \/ Cancel(c)
      PROVE  HalfOpenHasProbe'
  <2>1. Moved(c)
    BY <1>8, DecisionsMove, GotoMoves
    DEF QueryOtherError, OtherError, LoadFailed, Cancel, Pc, Succeeding, Failing
  <2>2. UNCHANGED <<state, probe>>
    BY <1>8 DEF QueryOtherError, OtherError, LoadFailed, Cancel
  <2>3. state = "half" /\ c \notin Bare \cup Cancelled => Answers(c)'
    BY <1>8, AnswersAfter
    DEF QueryOtherError, OtherError, ProbeAnswered, LoadFailed, Cancel, Goto,
        Answering
  <2>. QED
    BY <2>1, <2>2, <2>3, OthersStay DEF HalfOpenHasProbe
<1>. QED
  BY <1>1, <1>2, <1>3, <1>4, <1>5, <1>6, <1>7, <1>8, Steps

\* However late results interleave, a half-open circuit has a call in flight
\* that will close or reopen it, or its probe was one that may say nothing.
THEOREM ProbeNeverStranded == Spec => []HalfOpenHasProbe
<1>1. Init => HalfOpenHasProbe
  BY DEF Init, HalfOpenHasProbe
<1>2. TypeOK /\ HalfOpenHasProbe /\ [Next]_vars => HalfOpenHasProbe'
  BY ProbeStep
<1>. QED
  BY <1>1, <1>2, TypeCorrect, PTL DEF Spec

-----------------------------------------------------------------------------
(* The threshold, for guarded calls *)

\* The calls that have a failed query and may still count it.
Pending == {c \in Caller : call[c].pc \in {"failed", "count"}}

\* Guarded calls have one level; the failures counted, and those pending,
\* are failed queries of the unbroken series.
CountCovered ==
  /\ \A c \in Caller : call[c].level = "plain"
  /\ Smaller(failure_count + Cardinality(Pending), Threshold) <= failed
  /\ OpensOnThreshold

\* A step of a call that neither comes to nor leaves what CountCovered counts.
CountsNothing(c) ==
  /\ call[c].pc \notin {"failed", "count"}
  /\ \E pc \in Pc \ {"failed", "count", "trip"}, seen \in Nat :
       call' = [call EXCEPT ![c] = [pc |-> pc, level |-> "plain",
                                    seen |-> seen]]

LEMMA CountsNothingKeeps ==
  ASSUME NEW c \in Caller, TypeOK, CountCovered, CountsNothing(c)
  PROVE  /\ \A d \in Caller : call'[d].level = "plain"
         /\ Pending' = Pending
         /\ \A d \in Caller : At(d, "trip")' => At(d, "trip")
  BY DEF CountsNothing, CountCovered, Pending, At, TypeOK

LEMMA PlainGoto ==
  ASSUME NEW c \in Caller, TypeOK, CountCovered,
         call[c].pc \notin {"failed", "count"},
         \/ \E pc \in Pc \ {"failed", "count", "trip"} : Goto(c, pc)
         \/ Return(c)
  PROVE  CountsNothing(c)
<1>1. call[c].level = "plain"
  BY DEF CountCovered
<1>2. "idle" \in Pc \ {"failed", "count", "trip"}
  BY DEF Pc
<1>. QED
  BY <1>1, <1>2 DEF CountsNothing, Goto, GotoLevel, Return

LEMMA CountStep ==
  ASSUME IsFiniteSet(Caller), Handler = {}, TypeOK, CountCovered, [Next]_vars
  PROVE  CountCovered'
<1>. USE BackoffAssumption DEF breaker, history
<1>. DEFINE n == Cardinality(Pending)
<1>1. IsFiniteSet(Pending) /\ n \in Nat
  BY FS_Subset, FS_CardinalityType DEF Pending
<1>2. /\ failure_count \in 0..Threshold /\ failed \in 0..Threshold
      /\ Smaller(failure_count + n, Threshold) <= failed
      /\ OpensOnThreshold
  BY DEF TypeOK, CountCovered
<1>3. CASE UNCHANGED vars
  BY <1>3 DEF CountCovered, Pending, OpensOnThreshold, At, Smaller, vars
<1>4. CASE Tick \/ GoesDown \/ ComesBack
  BY <1>4 DEF Tick, GoesDown, ComesBack, CountCovered, Pending,
              OpensOnThreshold, At, Smaller
\* Steps that count nothing.
<1>5. ASSUME NEW c \in Caller,
             \/ Begin(c) \/ Cancel(c) \/ LoadState(c) \/ ReadAnchor(c)
             \/ LoadBackoff(c) \/ Exchange(c)
             \/ QueryOk(c) \/ QueryOtherError(c) \/ OtherError(c)
             \/ ResetBackoff(c) \/ Close(c)
             \/ LoadCurrentBackoff(c) \/ DoubleBackoff(c) \/ MoveAnchor(c)
             \/ Reopen(c) \/ Trip(c) \/ StampAnchor(c)
      PROVE  CountCovered'
  <2>1. UNCHANGED <<failure_count, failed>>
    BY <1>5
    DEF Begin, Cancel, LoadState, ReadAnchor, LoadBackoff, Exchange, QueryOk,
        QueryOtherError, OtherError, ResetBackoff, Close, LoadCurrentBackoff,
        DoubleBackoff, MoveAnchor, Reopen, Trip, StampAnchor
  <2>2. call[c].level = "plain"
    BY DEF CountCovered
  <2>3. CountsNothing(c)
    <3>1. CASE ReadAnchor(c) \/ LoadCurrentBackoff(c)
      <4>1. age \in Nat /\ backoff \in Nat
        BY DEF TypeOK
      <4>. QED
        BY <2>2, <3>1, <4>1
        DEF ReadAnchor, LoadCurrentBackoff, Loaded, At, CountsNothing, Pc,
            Asking, Failing
    <3>2. CASE \/ Begin(c) \/ Cancel(c) \/ LoadState(c) \/ LoadBackoff(c)
               \/ Exchange(c)
      <4>1. CASE Begin(c)
        BY <4>1 DEF Begin, GotoLevel, At, CountsNothing, Pc, Asking
      <4>2. CASE Cancel(c) \/ LoadState(c) \/ LoadBackoff(c) \/ Exchange(c)
        BY <2>2, <4>2, PlainGoto
        DEF Cancel, LoadState, LoadBackoff, Exchange, Granted, Refused, At, Pc,
            Asking
      <4>. QED
        BY <3>2, <4>1, <4>2
    <3>3. CASE \/ QueryOk(c) \/ QueryOtherError(c) \/ OtherError(c)
               \/ ResetBackoff(c) \/ Close(c)
      BY <2>2, <3>3, PlainGoto
      DEF QueryOk, QueryOtherError, OtherError, ResetBackoff, Close,
          RecordedSuccess, At, Pc, Succeeding
    <3>4. CASE \/ DoubleBackoff(c) \/ MoveAnchor(c) \/ Reopen(c)
               \/ Trip(c) \/ StampAnchor(c)
      BY <2>2, <3>4, PlainGoto
      DEF DoubleBackoff, MoveAnchor, Reopen, Trip, StampAnchor,
          RecordedFailure, At, Pc, Failing
    <3>. QED
      BY <1>5, <3>1, <3>2, <3>3, <3>4
  <2>. QED
    BY <1>2, <2>1, <2>3, CountsNothingKeeps
    DEF CountCovered, OpensOnThreshold, Smaller
\* A success: nothing is pending when the history starts again.
<1>6. ASSUME NEW c \in Caller, ZeroFailures(c) PROVE CountCovered'
  <2>1. CountsNothing(c)
    BY <1>6, PlainGoto DEF ZeroFailures, At, Pc, Succeeding
  <2>2. Pending' = Pending /\ \A d \in Caller : At(d, "trip")' => At(d, "trip")
    BY <2>1, CountsNothingKeeps
  <2>3. failure_count' = 0
    BY <1>6 DEF ZeroFailures, ClearedCount
  <2>4. CASE \E d \in Caller : call[d].pc \in Failing
    <3>1. failed' = failed
      BY <1>6, <2>4 DEF ZeroFailures
    <3>2. Smaller(0 + n, Threshold) <= failed
      BY <1>1, <1>2 DEF Smaller
    <3>. QED
      BY <1>2, <2>1, <2>2, <2>3, <3>1, <3>2, CountsNothingKeeps
      DEF CountCovered, OpensOnThreshold
  <2>5. CASE ~\E d \in Caller : call[d].pc \in Failing
    <3>1. failed' = 0
      BY <1>6, <2>5 DEF ZeroFailures
    <3>2. Pending = {} /\ \A d \in Caller : ~At(d, "trip")
      BY <2>5 DEF Pending, At, Failing
    <3>3. Cardinality(Pending') = 0
      BY <2>2, <3>2, FS_EmptySet
    <3>4. Smaller(failure_count' + Cardinality(Pending'), Threshold) <= failed'
      BY <2>3, <3>1, <3>3 DEF Smaller
    <3>. QED
      BY <2>1, <2>2, <3>2, <3>4, CountsNothingKeeps
      DEF CountCovered, OpensOnThreshold
  <2>. QED
    BY <2>4, <2>5
\* A failed query: one more failed, one more pending.
<1>7. ASSUME NEW c \in Caller, QueryUnavailable(c) PROVE CountCovered'
  <2>1. /\ call[c].pc = "query" /\ call[c].level = "plain"
        /\ call' = [call EXCEPT ![c] = [pc |-> "failed", level |-> "plain",
                                        seen |-> 0]]
    BY <1>7 DEF QueryUnavailable, CountCovered, At, Goto, GotoLevel
  <2>2. c \notin Pending /\ Pending' = Pending \cup {c}
    BY <2>1 DEF Pending, TypeOK
  <2>3. Cardinality(Pending') = n + 1
    BY <1>1, <2>2, FS_AddElement
  <2>4. /\ failed' = Smaller(failed + 1, Threshold)
        /\ failure_count' = failure_count
    BY <1>7 DEF QueryUnavailable
  <2>5. Smaller(failure_count' + Cardinality(Pending'), Threshold) <= failed'
    BY <1>1, <1>2, <2>3, <2>4 DEF Smaller
  <2>6. \A d \in Caller : At(d, "trip")' => failed' >= Threshold
    BY <1>2, <2>1, <2>4 DEF OpensOnThreshold, At, Smaller, TypeOK
  <2>7. \A d \in Caller : call'[d].level = "plain"
    BY <2>1 DEF CountCovered, TypeOK
  <2>. QED
    BY <2>5, <2>6, <2>7 DEF CountCovered, OpensOnThreshold
\* A pending failure is counted, or is the probe's and is not.
<1>8. ASSUME NEW c \in Caller, LoadFailed(c) \/ CountFailure(c)
      PROVE  CountCovered'
  <2>1. c \in Pending /\ call[c].level = "plain" /\ failed' = failed
    BY <1>8 DEF LoadFailed, CountFailure, Pending, At, CountCovered
  <2>2. n \in Nat \ {0} /\ Cardinality(Pending \ {c}) = n - 1
    BY <1>1, <2>1, FS_RemoveElement, FS_EmptySet
  <2>3. CASE LoadFailed(c)
    <3>1. PICK pc \in {"double", "count"} :
            call' = [call EXCEPT ![c] = [pc |-> pc, level |-> "plain",
                                         seen |-> 0]]
      BY <2>1, <2>3 DEF LoadFailed, Goto, GotoLevel
    <3>2. Pending' = Pending \/ Pending' = Pending \ {c}
      BY <2>1, <3>1 DEF Pending, TypeOK
    <3>3. failure_count' = failure_count
      BY <2>3 DEF LoadFailed
    <3>4. Smaller(failure_count' + Cardinality(Pending'), Threshold) <= failed'
      <4>1. Cardinality(Pending') = n \/ Cardinality(Pending') = n - 1
        BY <2>2, <3>2, Zenon
      <4>. HIDE DEF n
      <4>2. n \in Nat \ {0}
        BY <2>2
      <4>. QED
        BY <1>2, <2>1, <3>3, <4>1, <4>2 DEF Smaller
    <3>5. \A d \in Caller : /\ At(d, "trip")' => At(d, "trip")
                            /\ call'[d].level = "plain"
      BY <3>1 DEF At, CountCovered, TypeOK
    <3>. QED
      BY <1>2, <2>1, <3>4, <3>5 DEF CountCovered, OpensOnThreshold
  <2>4. CASE CountFailure(c)
    <3>1. PICK pc \in {"trip", "idle"} :
            /\ call' = [call EXCEPT ![c] = [pc |-> pc, level |-> "plain",
                                            seen |-> 0]]
            /\ pc = "trip" => failure_count + 1 >= Threshold
      BY <2>1, <2>4
      DEF CountFailure, RecordedFailure, Return, Goto, GotoLevel
    <3>2. Pending' = Pending \ {c}
      BY <2>1, <3>1 DEF Pending, TypeOK
    <3>3. failure_count' = Smaller(failure_count + 1, Threshold)
      BY <2>4 DEF CountFailure
    <3>4. Smaller(failure_count' + Cardinality(Pending'), Threshold) <= failed'
      BY <1>2, <2>1, <2>2, <3>2, <3>3 DEF Smaller
    <3>5. pc = "trip" => failed' >= Threshold
      BY <1>2, <2>1, <2>2, <3>1 DEF Smaller
    <3>6. \A d \in Caller : /\ At(d, "trip")' => failed' >= Threshold
                            /\ call'[d].level = "plain"
      BY <1>2, <2>1, <3>1, <3>5 DEF At, CountCovered, OpensOnThreshold, TypeOK
    <3>. QED
      BY <3>4, <3>6 DEF CountCovered, OpensOnThreshold
  <2>. QED
    BY <1>8, <2>3, <2>4
<1>. QED
  BY <1>3, <1>4, <1>5, <1>6, <1>7, <1>8, Steps

\* Where all calls are guarded, the circuit opens only on Threshold failures
\* in a row, whatever the interleaving of counts and resets.
THEOREM FailuresAreConsecutive ==
  ASSUME IsFiniteSet(Caller), Handler = {}
  PROVE  Spec => []OpensOnThreshold
<1>1. Init => CountCovered
  <2>1. ASSUME Init PROVE Pending = {}
    BY <2>1 DEF Init, Pending, Idle
  <2>2. ASSUME Init PROVE Cardinality(Pending) = 0
    BY <2>1, <2>2, FS_EmptySet
  <2>. QED
    BY <2>2, BackoffAssumption
    DEF Init, CountCovered, OpensOnThreshold, At, Idle, Smaller
<1>2. TypeOK /\ CountCovered /\ [Next]_vars => CountCovered'
  BY CountStep
<1>3. CountCovered => OpensOnThreshold
  BY DEF CountCovered
<1>. QED
  BY <1>1, <1>2, <1>3, TypeCorrect, PTL DEF Spec

-----------------------------------------------------------------------------
(***************************************************************************)
(* Migrations that wait for a breaker to recover (the module Migrations,   *)
(* whose names are all others than CircuitBreaker's). The flag works as a  *)
(* lock: whoever clears it runs the migrations, and while it is set nobody *)
(* does (FlagIsLock). With the types this is inductive, and what the       *)
(* service promises about its attempts follows.                            *)
(***************************************************************************)

\* At most one task has the flag, and none while it is set.
FlagIsLock ==
  /\ \A a, b \in attempts : a = b
  /\ pending => attempts = {}

\* The part of the type invariant these steps need.
Flags ==
  /\ pending \in BOOLEAN /\ schema \in BOOLEAN
  /\ service \in {"storage", "memory"}
  /\ panicked \in BOOLEAN

Kept == Flags /\ FlagIsLock /\ NeverForgotten

LEMMA MigrationsStart == MInit => Kept
BY DEF MInit, Kept, Flags, FlagIsLock, NeverForgotten

\* Taking the flag: it was set, so nobody ran the migrations.
LEMMA TakenKeeps ==
  ASSUME NEW a, Kept, pending, Taken(a), UNCHANGED <<service, schema, panicked>>
  PROVE  Kept'
BY DEF Kept, Flags, FlagIsLock, NeverForgotten, Taken

\* Steps that leave the flag and the attempts alone.
LEMMA NotTakenKeeps ==
  ASSUME Kept, NotTaken, UNCHANGED <<service, schema, panicked>>
  PROVE  Kept'
BY DEF Kept, Flags, FlagIsLock, NeverForgotten, NotTaken

\* The answers of calls and the hooks they spawn.
LEMMA CallKeeps ==
  ASSUME NEW o \in Op, Kept,
         \/ Ask(o) \/ ReadUngated(o) \/ Answer(o)
         \/ RunHook(o) \/ pre_cb_state(o) \/ handle_recovery(o)
  PROVE  Kept'
<1>1. UNCHANGED <<service, schema, panicked>>
  BY DEF Ask, ReadUngated, Answer, QuerySucceeds, DatabaseUnavailable, StorageMissing,
         MemoryMissing, RunHook, pre_cb_state, handle_recovery, World, bounds
<1>2. (pending /\ Taken(o)) \/ NotTaken
  BY DEF Ask, ReadUngated, Answer, QuerySucceeds, DatabaseUnavailable, StorageMissing,
         MemoryMissing, RunHook, pre_cb_state, handle_recovery, Recovered, OnMissing, NotTaken
<1>. QED
  BY <1>1, <1>2, TakenKeeps, NotTakenKeeps

\* The ends of an attempt: it was the only one.
LEMMA AttemptKeeps ==
  ASSUME NEW a \in Op \cup {Loop}, Kept, Attempt(a)
  PROVE  Kept'
<1>1. a \in attempts /\ attempts' = {} /\ ~pending
  BY DEF Attempt, Applied, AttemptFails, Panics, Ends, Kept, FlagIsLock
<1>2. CASE Applied(a)
  BY <1>1, <1>2
  DEF Applied, Calls, bounds, Kept, Flags, FlagIsLock, NeverForgotten
<1>3. CASE AttemptFails(a)
  BY <1>1, <1>3
  DEF AttemptFails, Calls, Kept, Flags, FlagIsLock, NeverForgotten
<1>4. CASE Panics(a)
  BY <1>1, <1>4
  DEF Panics, Dropped, Calls, Kept, Flags, FlagIsLock, NeverForgotten
<1>. QED
  BY <1>2, <1>3, <1>4 DEF Attempt

\* The loop and the outages.
LEMMA RestKeeps ==
  ASSUME Kept, Wake \/ LoopTries \/ Outage \/ Restored \/ UNCHANGED mvars
  PROVE  Kept'
<1>1. UNCHANGED <<service, schema, panicked>>
  BY DEF Wake, LoopTries, Outage, Restored, Calls, bounds, mvars
<1>2. (pending /\ Taken(Loop)) \/ NotTaken
  BY DEF Wake, LoopTries, Outage, Restored, NotTaken, mvars
<1>. QED
  BY <1>1, <1>2, TakenKeeps, NotTakenKeeps

\* The flag stays a lock and the migrations are not forgotten, in every
\* reachable state.
THEOREM MigrationsKept == MSpec => []Kept
<1>1. Kept /\ [MNext]_mvars => Kept'
  BY CallKeeps, AttemptKeeps, RestKeeps DEF MNext
<1>. QED
  BY MigrationsStart, <1>1, PTL DEF MSpec

\* The two halves of the type invariant, which different provers take.
Truths == reachable \in BOOLEAN /\ schema \in BOOLEAN /\ pending \in BOOLEAN /\ panicked \in BOOLEAN
Domains ==
  /\ service \in {"storage", "memory"}
  /\ circuit \in {"closed", "open", "half"} /\ failures \in 0..FailureThreshold
  /\ op \in [Op -> {"idle", "query"}]
  /\ hooks \subseteq Op /\ watching \subseteq Op /\ attempts \subseteq Op \cup {Loop}
  /\ loop \in {"none", "asleep", "due", "trying", "over"} /\ delay \in 1..MaxDelay
  /\ outages \in 0..MaxOutages /\ faults \in 0..MaxFaults

LEMMA TruthsKept == Truths /\ [MNext]_mvars => Truths'
<1>1. SUFFICES ASSUME Truths, [MNext]_mvars PROVE Truths'
  OBVIOUS
<1>2. ASSUME NEW o \in Op,
             \/ Ask(o) \/ ReadUngated(o) \/ Answer(o)
         \/ RunHook(o) \/ pre_cb_state(o) \/ handle_recovery(o)
      PROVE  Truths'
  <2>1. UNCHANGED <<reachable, schema, panicked>>
    BY <1>2 DEF Ask, ReadUngated, Answer, QuerySucceeds, DatabaseUnavailable, StorageMissing,
       MemoryMissing, RunHook, pre_cb_state, handle_recovery, World, bounds
  <2>2. pending' = FALSE \/ UNCHANGED pending
    BY <1>2 DEF Ask, ReadUngated, Answer, QuerySucceeds, DatabaseUnavailable, StorageMissing,
       MemoryMissing, RunHook, pre_cb_state, handle_recovery, Recovered, OnMissing, Taken, NotTaken
  <2>. QED
    BY <1>1, <2>1, <2>2, Zenon DEF Truths
<1>3. ASSUME NEW a \in Op \cup {Loop}, Attempt(a)
      PROVE  Truths'
  <2>1. UNCHANGED reachable
    BY <1>3 DEF Attempt, Applied, AttemptFails, Panics, Calls
  <2>2. (UNCHANGED pending \/ pending' = TRUE) \/ pending' = Dropped
    BY <1>3, Zenon DEF Attempt, Applied, AttemptFails, Panics
  <2>3. UNCHANGED schema \/ schema' = TRUE
    BY <1>3, Zenon DEF Attempt, Applied, AttemptFails, Panics, Calls
  <2>4. UNCHANGED panicked \/ panicked' = TRUE
    BY <1>3, Zenon DEF Attempt, Applied, AttemptFails, Panics, bounds
  <2>5. Dropped \in BOOLEAN
    BY Zenon DEF Dropped
  <2>. QED
    BY <1>1, <2>1, <2>2, <2>3, <2>4, <2>5, Zenon DEF Truths
<1>4. CASE Wake \/ LoopTries
  <2>1. UNCHANGED <<reachable, schema, panicked>>
    BY <1>4 DEF Wake, LoopTries, Calls, bounds
  <2>2. pending' = FALSE \/ UNCHANGED pending
    BY <1>4 DEF Wake, LoopTries, Taken, NotTaken
  <2>. QED
    BY <1>1, <2>1, <2>2, Zenon DEF Truths
<1>5. CASE Outage \/ Restored \/ UNCHANGED mvars
  <2>1. UNCHANGED <<schema, pending, panicked>>
    BY <1>5 DEF Outage, Restored, bounds, mvars
  <2>2. UNCHANGED reachable \/ reachable' = TRUE \/ reachable' = FALSE
    BY <1>5, Zenon DEF Outage, Restored, mvars
  <2>. QED
    BY <1>1, <2>1, <2>2, Zenon DEF Truths
<1>. QED
  BY <1>1, <1>2, <1>3, <1>4, <1>5 DEF MNext

LEMMA DomainsKept == Domains /\ [MNext]_mvars => Domains'
<1>1. SUFFICES ASSUME Domains, [MNext]_mvars PROVE Domains'
  OBVIOUS
<1> USE BoundAssumption, <1>1
<1>2. ASSUME NEW o \in Op, \/ Ask(o) \/ ReadUngated(o)
             \/ pre_cb_state(o) \/ handle_recovery(o) \/ RunHook(o)
      PROVE  Domains'
  BY <1>2 DEF Ask, ReadUngated, pre_cb_state, handle_recovery, RunHook, Taken, NotTaken, World,
     Domains, guard, looping, bounds
<1>3. ASSUME NEW o \in Op, Answer(o)
      PROVE  Domains'
  <2>1. CASE QuerySucceeds(o)
    BY <2>1 DEF QuerySucceeds, Answered, recorded_success, Recovered, Taken, NotTaken, World,
       Domains, guard, looping, bounds
  <2>2. CASE DatabaseUnavailable(o)
    BY <2>2 DEF DatabaseUnavailable, Answered, recorded_failure, NotTaken, World, Lesser,
       Domains, guard, looping, bounds
  <2>3. CASE StorageMissing(o)
    BY <2>3 DEF StorageMissing, Answered, recorded_success, Recovered, Taken, NotTaken,
       World, Domains, guard, looping, bounds
  <2>4. CASE MemoryMissing(o)
    BY <2>4 DEF MemoryMissing, Answered, recorded_failure, OnMissing, Taken, NotTaken,
       World, Lesser, Domains, guard, looping, bounds
  <2>. QED
    BY <1>3, <2>1, <2>2, <2>3, <2>4 DEF Answer
<1>4. ASSUME NEW a \in Op \cup {Loop}, Attempt(a)
      PROVE  Domains'
  <2>1. CASE Applied(a)
    BY <2>1 DEF Applied, Ends, Calls, Domains, guard, bounds
  <2>2. CASE AttemptFails(a)
    <3>1. UNCHANGED <<service, circuit, failures, op, hooks, watching, outages>>
      BY <2>2 DEF AttemptFails, Calls, guard
    <3>2. attempts' \subseteq Op \cup {Loop}
      BY <2>2 DEF AttemptFails, Ends, Domains
    <3>3. loop' \in {"none", "asleep", "due", "trying", "over"} /\ delay' \in 1..MaxDelay
      BY <2>2 DEF AttemptFails, Slept, NextDelay, Lesser, looping, Domains
    <3>4. faults' = faults \/ (faults < MaxFaults /\ faults' = faults + 1)
      BY <2>2, Zenon DEF AttemptFails, Fault
    <3>5. faults' \in 0..MaxFaults
      BY <3>4 DEF Domains
    <3>. QED
      BY <3>1, <3>2, <3>3, <3>5 DEF Domains
  <2>3. CASE Panics(a)
    BY <2>3 DEF Panics, Ends, Fault, Calls, Domains, guard
  <2>. QED
    BY <1>4, <2>1, <2>2, <2>3 DEF Attempt
<1>5. CASE Wake \/ LoopTries
  BY <1>5 DEF Wake, LoopTries, Taken, NotTaken, NextDelay, Lesser, Calls, Domains,
     guard, looping, bounds
<1>6. CASE Outage \/ Restored \/ UNCHANGED mvars
  <2>1. UNCHANGED <<service, circuit, failures, op, hooks, watching, attempts, loop, delay, faults>>
    BY <1>6 DEF Outage, Restored, mvars, guard, looping, bounds
  <2>2. outages' = outages \/ (outages < MaxOutages /\ outages' = outages + 1)
    BY <1>6, Zenon DEF Outage, Restored, mvars, bounds
  <2>3. outages' \in 0..MaxOutages
    BY <2>2 DEF Domains
  <2>. QED
    BY <2>1, <2>3 DEF Domains
<1>. QED
  BY <1>2, <1>3, <1>4, <1>5, <1>6 DEF MNext

\* Every variable keeps its type; the loop's delay stays under its limit.
THEOREM MigrationsTyped == MSpec => []MTypeOK
<1>1. MInit => Truths
  BY DEF MInit, Truths
<1>2. MInit => Domains
  BY BoundAssumption DEF MInit, Domains
<1>3. Truths /\ Domains => MTypeOK
  BY DEF Truths, Domains, MTypeOK
<1>. QED
  BY <1>1, <1>2, <1>3, TruthsKept, DomainsKept, PTL DEF MSpec

\* The types hold, and of try_run_migrations only one caller proceeds.
THEOREM AttemptsExclusive == MSpec => []OneAttempt
<1>1. Kept => Cardinality(attempts) <= 1
  <2>1. SUFFICES ASSUME Kept PROVE Cardinality(attempts) <= 1
    OBVIOUS
  <2>2. CASE attempts = {}
    BY <2>2, FS_EmptySet
  <2>3. CASE attempts # {}
    <3>1. PICK a \in attempts : TRUE
      BY <2>3
    <3>2. attempts = {a}
      BY <2>1, <3>1 DEF Kept, FlagIsLock
    <3>. QED
      BY <3>2, FS_Singleton
  <2>. QED
    BY <2>2, <2>3
<1>. QED
  BY <1>1, MigrationsTyped, MigrationsKept, PTL DEF OneAttempt

\* Unapplied migrations are being run or marked as to be run.
THEOREM MigrationsRemembered == MSpec => []NeverForgotten
<1>1. Kept => NeverForgotten
  BY DEF Kept
<1>. QED
  BY <1>1, MigrationsKept, PTL

=============================================================================
