------------------------- MODULE PendingQueueProofs -------------------------
(***************************************************************************)
(* Proofs about PendingQueue, for every number of servers, permits and     *)
(* messages and every retry limit: types and the retry budget, then the    *)
(* tasks and the rows they hold (when two tasks can have the same message, *)
(* that a finished message was handled), then that the queue implements    *)
(* WorkQueue.                                                              *)
(***************************************************************************)
EXTENDS PendingQueue, TLAPS

\* One case per action; every action the module declares is named here once.
LEMMA NextCases ==
  ASSUME Next
  PROVE  \/ \E last, second \in Msg : Enqueue(last, second)
         \/ \E s \in Server :
              \/ PollSkip(s) \/ PollReserve(s) \/ PollClaim(s)
              \/ PollClaimError(s) \/ PollNext(s) \/ PollWake(s)
              \/ AdminReserve(s) \/ AdminClaim(s) \/ AdminClaimError(s)
              \/ AdminDone(s)
              \/ Crash(s) \/ Drain(s) \/ Join(s) \/ Exit(s) \/ Start(s)
              \/ \E on \in BOOLEAN : set_processing_status(s, on)
         \/ \E p \in Permit :
              \/ PollSpawn(p) \/ ProcessOk(p) \/ ProcessErr(p)
              \/ complete_message(p) \/ fail_message(p) \/ TaskDrops(p)
         \/ \E m \in Msg : LeaseExpires(m)
         \/ clear_failed_messages
         \/ clear_all_pending_messages
         \/ \E cutoff \in Msg : clear_stale_failed_messages(cutoff)
         \/ retry_failed_messages
  BY DEF Next, Poller, AdminProcess, Lifecycle, Task, Operator

-----------------------------------------------------------------------------
(* Types *)

LEMMA InitType == Init => TypeOK
  BY HostAssumption, BoundAssumption
  DEF Init, TypeOK, Row, Status, Slot, Free, Msg, NoMsg

\* What the helpers that several actions share return.
LEMMA AssignedType ==
  ASSUME slot \in [Permit -> Slot], NEW reserved, NEW assign \in Assignments(reserved),
         NEW use \in {"poller", "run"}
  PROVE  Assigned(assign, reserved, use) \in [Permit -> Slot]
<1> SUFFICES ASSUME NEW p \in Permit
             PROVE  Assigned(assign, reserved, use)[p] \in Slot
  BY DEF Assigned
<1>0. slot[p] \in Slot
  OBVIOUS
<1>1. DOMAIN assign \subseteq Msg
  BY DEF Assignments
<1>2. CASE \E m \in DOMAIN assign : assign[m] = p
  <2>1. PICK m \in DOMAIN assign : assign[m] = p
    BY <1>2
  <2>2. (CHOOSE n \in DOMAIN assign : assign[n] = p) \in Msg
    BY <1>1, <2>1
  <2>3. Assigned(assign, reserved, use)[p]
          = [use |-> use, job |-> CHOOSE n \in DOMAIN assign : assign[n] = p]
    BY <1>2 DEF Assigned
  <2> QED
    BY <2>2, <2>3 DEF Slot, Busy
<1>3. CASE ~ \E m \in DOMAIN assign : assign[m] = p
  BY <1>0, <1>3 DEF Assigned
<1> QED
  BY <1>2, <1>3

LEMMA ReleasedType ==
  ASSUME slot \in [Permit -> Slot], NEW s, NEW use
  PROVE  Released(s, use) \in [Permit -> Slot]
  BY DEF Released, Slot, Busy, Free, NoMsg

\* The shape of every change of a row but its creation.
LEMMA ChangedRow ==
  ASSUME NEW r \in Row, NEW st \in Status, NEW n \in Nat,
         NEW l \in {"none", "live", "expired"}
  PROVE  /\ [r EXCEPT !.status = st, !.retry = n, !.lease = l] \in Row
         /\ [r EXCEPT !.status = st, !.lease = l, !.retry = n] \in Row
         /\ [r EXCEPT !.retry = n, !.lease = l, !.status = st] \in Row
  BY DEF Row

LEMMA ClaimType ==
  ASSUME row \in [Msg -> Row], attempts \in [Msg -> Nat], NEW batch,
         claim_pending_messages(batch)
  PROVE  row' \in [Msg -> Row] /\ attempts' \in [Msg -> Nat]
<1>1. ASSUME NEW m \in Msg
      PROVE  [row[m] EXCEPT !.status = "processing", !.lease = "live",
                            !.retry = ClaimedRetry(m)] \in Row
  <2>1. ClaimedRetry(m) \in Nat
    BY DEF ClaimedRetry, Row
  <2> QED
    BY <2>1, ChangedRow DEF Status
<1>2. row' \in [Msg -> Row]
  BY <1>1 DEF claim_pending_messages
<1>3. ASSUME NEW m \in Msg
      PROVE  (IF m \in batch THEN attempts[m] + 1 ELSE attempts[m]) \in Nat
  OBVIOUS
<1>4. attempts' \in [Msg -> Nat]
  BY <1>3 DEF claim_pending_messages
<1> QED
  BY <1>2, <1>4

LEMMA ChargedType ==
  ASSUME row \in [Msg -> Row], NEW m \in Msg
  PROVE  Charged(m) \in Row
<1>1. row[m] \in Row /\ row[m].retry + 1 \in Nat
  BY DEF Row
<1>2. (IF Exhausted(row[m].retry + 1) THEN "failed" ELSE "pending") \in Status
  BY DEF Status
<1> QED
  BY <1>1, <1>2, ChangedRow DEF Charged

LEMMA DeletedType ==
  ASSUME row \in [Msg -> Row], NEW m \in Msg, NEW how \in {"done", "cleared"}
  PROVE  Deleted(m, how) \in Row
  BY ChangedRow DEF Deleted, Status

LEMMA TypeStep == TypeOK /\ [Next]_vars => TypeOK'
<1> SUFFICES ASSUME TypeOK, [Next]_vars
             PROVE  TypeOK'
  OBVIOUS
<1> USE HostAssumption, BoundAssumption DEF TypeOK
<1>1. ASSUME NEW last \in Msg, NEW second \in Msg, Enqueue(last, second)
      PROVE  TypeOK'
  BY <1>1 DEF Enqueue, NextSecond, Row, Status, Msg, local, history
<1>2. ASSUME NEW s \in Server, PollSkip(s)
      PROVE  TypeOK'
  BY <1>2 DEF PollSkip, table, history
<1>3. ASSUME NEW s \in Server, PollReserve(s)
      PROVE  TypeOK'
  BY <1>3 DEF PollReserve, table, history, Slot, NoMsg
<1>4. ASSUME NEW s \in Server, PollClaim(s)
      PROVE  TypeOK'
  <2>1. PICK assign \in Assignments(Permits(s, "poller")) :
          /\ claim_pending_messages(DOMAIN assign)
          /\ slot' = Assigned(assign, Permits(s, "poller"), "poller")
          /\ poll' = [poll EXCEPT ![s] = IF DOMAIN assign = {} THEN "sleep"
                                                               ELSE "spawn"]
    BY <1>4 DEF PollClaim
  <2>2. slot' \in [Permit -> Slot]
    BY <2>1, AssignedType
  <2>3. row' \in [Msg -> Row] /\ attempts' \in [Msg -> Nat]
    BY <2>1, ClaimType
  <2> QED
    BY <1>4, <2>1, <2>2, <2>3 DEF PollClaim
<1>5. ASSUME NEW s \in Server, PollClaimError(s)
      PROVE  TypeOK'
  <2>1. row' \in [Msg -> Row] /\ attempts' \in [Msg -> Nat]
    BY <1>5, ClaimType DEF PollClaimError, ClaimLost
  <2> QED
    BY <1>5, <2>1 DEF PollClaimError
<1>6. ASSUME NEW s \in Server, PollNext(s)
      PROVE  TypeOK'
  BY <1>6, ReleasedType DEF PollNext, table, history
<1>7. ASSUME NEW s \in Server, PollWake(s)
      PROVE  TypeOK'
  BY <1>7, ReleasedType DEF PollWake, table, history
<1>8. ASSUME NEW s \in Server, AdminReserve(s)
      PROVE  TypeOK'
  BY <1>8 DEF AdminReserve, table, history, Slot, NoMsg
<1>9. ASSUME NEW s \in Server, AdminClaim(s)
      PROVE  TypeOK'
  <2>1. PICK assign \in Assignments(Permits(s, "admin")) :
          /\ claim_pending_messages(DOMAIN assign)
          /\ slot' = IF DOMAIN assign = {}
                     THEN Released(s, "admin")
                     ELSE Assigned(assign, Permits(s, "admin"), "run")
          /\ admin' = [admin EXCEPT ![s] = IF DOMAIN assign = {} THEN "none"
                                                                 ELSE "await"]
    BY <1>9 DEF AdminClaim
  <2>2. slot' \in [Permit -> Slot]
    BY <2>1, AssignedType, ReleasedType
  <2>3. row' \in [Msg -> Row] /\ attempts' \in [Msg -> Nat]
    BY <2>1, ClaimType
  <2> QED
    BY <1>9, <2>1, <2>2, <2>3 DEF AdminClaim
<1>10. ASSUME NEW s \in Server, AdminClaimError(s)
       PROVE  TypeOK'
  <2>1. row' \in [Msg -> Row] /\ attempts' \in [Msg -> Nat]
    BY <1>10, ClaimType DEF AdminClaimError, ClaimLost
  <2> QED
    BY <1>10, <2>1, ReleasedType DEF AdminClaimError
<1>11. ASSUME NEW s \in Server, AdminDone(s)
       PROVE  TypeOK'
  BY <1>11, ReleasedType DEF AdminDone, table, history
<1>12. ASSUME NEW s \in Server, Crash(s) \/ Exit(s)
       PROVE  TypeOK'
  <2>1. Stopped(s)
    BY <1>12 DEF Crash, Exit
  <2>2. slot' \in [Permit -> Slot]
    BY <2>1 DEF Stopped, Slot, Busy, Free, NoMsg
  <2> QED
    BY <2>1, <2>2 DEF Stopped, table, history
<1>13. ASSUME NEW s \in Server, Drain(s) \/ Join(s)
       PROVE  TypeOK'
  BY <1>13 DEF Drain, Join, table, history
<1>14. ASSUME NEW s \in Server, Start(s)
       PROVE  TypeOK'
  <2>2. row' \in [Msg -> Row]
    BY <1>14, ChargedType DEF Start, release_stale_messages
  <2> QED
    BY <1>14, <2>2 DEF Start, history
<1>15. ASSUME NEW s \in Server, NEW on \in BOOLEAN, set_processing_status(s, on)
       PROVE  TypeOK'
  BY <1>15 DEF set_processing_status, table, history
<1>16. ASSUME NEW p \in Permit, PollSpawn(p)
       PROVE  TypeOK'
  BY <1>16 DEF PollSpawn, table, history, Slot, Busy, NoMsg
<1>17. ASSUME NEW p \in Permit, ProcessOk(p)
       PROVE  TypeOK'
  BY <1>17 DEF ProcessOk, table, Slot, Busy
<1>18. ASSUME NEW p \in Permit, ProcessErr(p)
       PROVE  TypeOK'
  BY <1>18 DEF ProcessErr, Failing, table, history, Slot, Busy
<1>19. ASSUME NEW p \in Permit, complete_message(p)
       PROVE  TypeOK'
  <2>1. row' \in [Msg -> Row]
    BY <1>19, DeletedType DEF complete_message
  <2>2. slot' \in [Permit -> Slot]
    BY <1>19 DEF complete_message, Slot, Busy, Free, NoMsg
  <2> QED
    BY <1>19, <2>1, <2>2 DEF complete_message, history
<1>20. ASSUME NEW p \in Permit, fail_message(p)
       PROVE  TypeOK'
  <2>2. row' \in [Msg -> Row]
    <3>1. slot[p].job \in Msg
      BY <1>20 DEF fail_message, Slot, Busy
    <3> QED
      BY <1>20, ChargedType, <3>1 DEF fail_message
  <2>3. slot' \in [Permit -> Slot]
    BY <1>20 DEF fail_message, Slot, Busy, Free, NoMsg
  <2> QED
    BY <1>20, <2>2, <2>3 DEF fail_message, history
<1>21. ASSUME NEW p \in Permit, TaskDrops(p)
       PROVE  TypeOK'
  BY <1>21 DEF TaskDrops, table, history, Slot, Busy, Free, NoMsg
<1>22. ASSUME NEW m \in Msg, LeaseExpires(m)
       PROVE  TypeOK'
  BY <1>22 DEF LeaseExpires, local, Row
<1>23. ASSUME NEW S, Remove(S)
       PROVE  TypeOK'
  BY <1>23, DeletedType DEF Remove, local, history
<1>24. CASE retry_failed_messages
  <2>1. ASSUME NEW m \in Msg
        PROVE  [row[m] EXCEPT !.status = "pending", !.retry = 0,
                              !.lease = "none"] \in Row
    BY ChangedRow DEF Status
  <2>2. row' \in [Msg -> Row]
    BY <1>24, <2>1 DEF retry_failed_messages
  <2>3. attempts' \in [Msg -> Nat]
    BY <1>24 DEF retry_failed_messages
  <2>4. rounds' \in 0..MaxRounds
    <3>1. rounds < MaxRounds /\ rounds' = rounds + 1
      BY <1>24 DEF retry_failed_messages
    <3> QED
      BY <3>1
  <2>5. UNCHANGED <<nextId, slot, poll, admin, phase, active, overdue, handled>>
    BY <1>24 DEF retry_failed_messages, local
  <2> QED
    BY <2>2, <2>3, <2>4, <2>5
<1>25. CASE UNCHANGED vars
  BY <1>25 DEF vars
<1> QED
  BY <1>1, <1>2, <1>3, <1>4, <1>5, <1>6, <1>7, <1>8, <1>9, <1>10, <1>11, <1>12,
     <1>13, <1>14, <1>15, <1>16, <1>17, <1>18, <1>19, <1>20, <1>21, <1>22,
     <1>23, <1>24, <1>25, NextCases
  DEF clear_failed_messages, clear_all_pending_messages, clear_stale_failed_messages

\* Every variable of the queue keeps its type: the ids, states and budgets of
\* the rows, what each permit is used for and where each loop stands.
THEOREM TypeCorrect == Spec => []TypeOK
  BY InitType, TypeStep, PTL DEF Spec

-----------------------------------------------------------------------------
(* What a step can do to one row *)

Kept(m) == row'[m] = row[m] /\ attempts'[m] = attempts[m]

Inserted(m) ==
  /\ m >= nextId /\ m < nextId'
  /\ row'[m].status = "pending" /\ row'[m].retry = 0 /\ row'[m].lease = "none"
  /\ attempts'[m] = attempts[m]

Claimed(m) ==
  /\ Claimable(m)
  /\ row'[m].status = "processing" /\ row'[m].lease = "live"
  /\ row'[m].retry = ClaimedRetry(m)
  /\ attempts'[m] = attempts[m] + 1

ChargedRetry(m) ==
  /\ InTable(m) /\ row'[m] = Charged(m)
  /\ Stale(m) \/ \E p \in Permit : fail_message(p) /\ slot[p].job = m
  /\ attempts'[m] = attempts[m]

Dropped(m) ==
  /\ InTable(m)
  /\ \/ row'[m].status = "cleared"
     \/ /\ row'[m].status = "done"
        /\ \E p \in Permit : complete_message(p) /\ slot[p].job = m
  /\ row'[m].lease = "none"
  /\ attempts'[m] = attempts[m]

Expired(m) ==
  /\ row[m].status = "processing"
  /\ row'[m] = [row[m] EXCEPT !.lease = "expired"]
  /\ m \in overdue'
  /\ attempts'[m] = attempts[m]

Revived(m) ==
  /\ row[m].status = "failed" /\ rounds' = rounds + 1
  /\ row'[m].status = "pending" /\ row'[m].retry = 0 /\ row'[m].lease = "none"
  /\ attempts'[m] = 0

RowMove(m) ==
  \/ Kept(m) \/ Inserted(m) \/ Claimed(m) \/ ChargedRetry(m) \/ Dropped(m)
  \/ Expired(m) \/ Revived(m)

LEMMA RowStep ==
  ASSUME TypeOK, [Next]_vars, NEW m \in Msg
  PROVE  RowMove(m)
<1> USE DEF TypeOK
<1>0. row[m] \in Row /\ attempts[m] \in Nat
  OBVIOUS
<1> USE DEF RowMove
<1>1. CASE UNCHANGED <<row, attempts>>
  BY <1>1 DEF Kept
<1>2. ASSUME NEW last \in Msg, NEW second \in Msg, Enqueue(last, second)
      PROVE  RowMove(m)
  <2>1. UNCHANGED attempts
    BY <1>2 DEF Enqueue, history
  <2>2. CASE m \in nextId..last
    <3>1. m >= nextId /\ m < nextId'
      BY <1>2, <2>2, BoundAssumption DEF Enqueue, Msg
    <3>2. row'[m].status = "pending" /\ row'[m].retry = 0 /\ row'[m].lease = "none"
      BY <1>2, <2>2 DEF Enqueue
    <3> QED
      BY <2>1, <3>1, <3>2 DEF Inserted
  <2>3. CASE m \notin nextId..last
    BY <1>2, <2>1, <2>3 DEF Enqueue, Kept
  <2> QED
    BY <2>2, <2>3
<1>3. ASSUME NEW batch, batch \subseteq {n \in Msg : Claimable(n)},
             claim_pending_messages(batch)
      PROVE  RowMove(m)
  <2>1. CASE m \in batch
    BY <1>0, <1>3, <2>1 DEF claim_pending_messages, Claimed, Row
  <2>2. CASE m \notin batch
    BY <1>3, <2>2 DEF claim_pending_messages, Kept
  <2> QED
    BY <2>1, <2>2
<1>4. ASSUME NEW reserved, NEW assign \in Assignments(reserved),
             claim_pending_messages(DOMAIN assign)
      PROVE  RowMove(m)
  <2>1. DOMAIN assign \subseteq {n \in Msg : Claimable(n)}
    BY DEF Assignments
  <2> QED
    BY <1>3, <1>4, <2>1
<1>5. ASSUME NEW s \in Server, Start(s)
      PROVE  RowMove(m)
  <2>1. UNCHANGED attempts
    BY <1>5 DEF Start, history
  <2>2. CASE release_stale_messages /\ row[m].status = "processing" /\ Stale(m)
    BY <2>1, <2>2 DEF release_stale_messages, ChargedRetry, InTable
  <2>3. CASE release_stale_messages /\ ~(row[m].status = "processing" /\ Stale(m))
    BY <2>1, <2>3 DEF release_stale_messages, Kept
  <2> QED
    BY <1>1, <1>5, <2>1, <2>2, <2>3 DEF Start
<1>6. ASSUME NEW p \in Permit, complete_message(p)
      PROVE  RowMove(m)
  <2>1. UNCHANGED attempts
    BY <1>6 DEF complete_message, history
  <2>2. \/ row'[m] = row[m]
        \/ InTable(m) /\ slot[p].job = m /\ row'[m] = Deleted(m, "done")
    BY <1>6 DEF complete_message
  <2>3. Deleted(m, "done").status = "done" /\ Deleted(m, "done").lease = "none"
    BY <1>0 DEF Deleted, Row
  <2> QED
    BY <1>6, <2>1, <2>2, <2>3 DEF Kept, Dropped
<1>7. ASSUME NEW p \in Permit, fail_message(p)
      PROVE  RowMove(m)
  <2>1. UNCHANGED attempts
    BY <1>7 DEF fail_message, history
  <2>2. \/ row'[m] = row[m]
        \/ InTable(m) /\ slot[p].job = m /\ row'[m] = Charged(m)
    BY <1>7 DEF fail_message
  <2> QED
    BY <1>7, <2>1, <2>2 DEF Kept, ChargedRetry
<1>8. ASSUME NEW n \in Msg, LeaseExpires(n)
      PROVE  RowMove(m)
  BY <1>0, <1>8 DEF LeaseExpires, Kept, Expired
<1>9. ASSUME NEW S, \A n \in S : InTable(n), Remove(S)
      PROVE  RowMove(m)
  <2>1. UNCHANGED attempts
    BY <1>9 DEF Remove, history
  <2>2. Deleted(m, "cleared").status = "cleared" /\ Deleted(m, "cleared").lease = "none"
    BY <1>0 DEF Deleted, Row
  <2> QED
    BY <1>9, <2>1, <2>2 DEF Remove, Kept, Dropped
<1>10. CASE clear_failed_messages \/ clear_all_pending_messages
              \/ \E cutoff \in Msg : clear_stale_failed_messages(cutoff)
  <2>1. \A n \in Failed : InTable(n)
    BY DEF Failed, InTable
  <2> QED
    BY <1>9, <1>10, <2>1
    DEF clear_failed_messages, clear_all_pending_messages, clear_stale_failed_messages
<1>11. CASE retry_failed_messages
  <2>1. CASE m \in Failed
    BY <1>0, <1>11, <2>1 DEF retry_failed_messages, Failed, Revived, Row
  <2>2. CASE m \notin Failed
    BY <1>11, <2>2 DEF retry_failed_messages, Kept
  <2> QED
    BY <2>1, <2>2
<1>12. ASSUME NEW s \in Server,
              PollClaim(s) \/ PollClaimError(s) \/ AdminClaim(s) \/ AdminClaimError(s)
       PROVE  RowMove(m)
  BY <1>1, <1>4, <1>12
  DEF PollClaim, PollClaimError, AdminClaim, AdminClaimError, ClaimLost
<1>13. ASSUME NEW s \in Server,
              \/ PollSkip(s) \/ PollReserve(s) \/ PollNext(s) \/ PollWake(s)
              \/ AdminReserve(s) \/ AdminDone(s)
              \/ Crash(s) \/ Drain(s) \/ Join(s) \/ Exit(s)
              \/ \E on \in BOOLEAN : set_processing_status(s, on)
       PROVE  RowMove(m)
  BY <1>1, <1>13
  DEF PollSkip, PollReserve, PollNext, PollWake, AdminReserve, AdminDone, Crash,
      Drain, Join, Exit, Stopped, set_processing_status, table, history
<1>14. ASSUME NEW p \in Permit,
              PollSpawn(p) \/ ProcessOk(p) \/ ProcessErr(p) \/ TaskDrops(p)
       PROVE  RowMove(m)
  BY <1>1, <1>14 DEF PollSpawn, ProcessOk, ProcessErr, TaskDrops, table, history
<1>15. CASE UNCHANGED vars
  BY <1>1, <1>15 DEF vars
<1> QED
  BY <1>2, <1>5, <1>6, <1>7, <1>8, <1>10, <1>11, <1>12, <1>13, <1>14, <1>15,
     NextCases

-----------------------------------------------------------------------------
(* The retry budget *)

\* Rows are born in the order of the id sequence, unclaimed.
FreshIds ==
  \A m \in Msg :
    /\ m >= nextId => row[m].status = "new"
    /\ row[m].status = "new" => attempts[m] = 0

\* Outside of a claim every attempt has been charged; during one, all but the
\* last. This is why the counter of the row bounds the claims.
AttemptsCharged ==
  \A m \in Msg :
    /\ row[m].status = "pending" => attempts[m] <= row[m].retry
    /\ row[m].status = "processing" => attempts[m] <= row[m].retry + 1

BudgetInv ==
  TypeOK /\ FreshIds /\ RetryBudgetAgrees /\ AttemptsCharged /\ AttemptsBounded

LEMMA NextIdGrows == TypeOK /\ [Next]_vars => nextId <= nextId'
<1> SUFFICES ASSUME TypeOK, [Next]_vars
             PROVE  nextId <= nextId'
  OBVIOUS
<1> USE BoundAssumption DEF TypeOK
<1>1. ASSUME NEW last \in Msg, NEW second \in Msg, Enqueue(last, second)
      PROVE  nextId <= nextId'
  BY <1>1 DEF Enqueue, Msg
<1>2. CASE UNCHANGED nextId
  BY <1>2
<1>3. ASSUME NEW s \in Server,
             \/ PollSkip(s) \/ PollReserve(s) \/ PollClaim(s) \/ PollClaimError(s)
             \/ PollNext(s) \/ PollWake(s)
             \/ AdminReserve(s) \/ AdminClaim(s) \/ AdminClaimError(s) \/ AdminDone(s)
             \/ Crash(s) \/ Drain(s) \/ Join(s) \/ Exit(s) \/ Start(s)
             \/ \E on \in BOOLEAN : set_processing_status(s, on)
      PROVE  UNCHANGED nextId
  BY <1>3
  DEF PollSkip, PollReserve, PollClaim, PollClaimError, PollNext, PollWake,
      AdminReserve, AdminClaim, AdminClaimError, AdminDone, Crash, Drain, Join,
      Exit, Stopped, Start, set_processing_status, table
<1>4. ASSUME NEW p \in Permit,
             \/ PollSpawn(p) \/ ProcessOk(p) \/ ProcessErr(p)
             \/ complete_message(p) \/ fail_message(p) \/ TaskDrops(p)
      PROVE  UNCHANGED nextId
  BY <1>4
  DEF PollSpawn, ProcessOk, ProcessErr, complete_message, fail_message,
      TaskDrops, table
<1>5. ASSUME \/ \E m \in Msg : LeaseExpires(m)
             \/ clear_failed_messages \/ clear_all_pending_messages
             \/ \E cutoff \in Msg : clear_stale_failed_messages(cutoff)
             \/ retry_failed_messages
             \/ UNCHANGED vars
      PROVE  UNCHANGED nextId
  BY <1>5
  DEF LeaseExpires, clear_failed_messages, clear_all_pending_messages,
      clear_stale_failed_messages, Remove, retry_failed_messages, vars
<1> QED
  BY <1>1, <1>2, <1>3, <1>4, <1>5, NextCases

LEMMA ChargedStatus ==
  ASSUME TypeOK, NEW m \in Msg
  PROVE  /\ Charged(m).retry = row[m].retry + 1
         /\ Charged(m).lease = "none"
         /\ Charged(m).status =
              IF row[m].retry + 1 >= MaxRetry THEN "failed" ELSE "pending"
  BY DEF TypeOK, Charged, Exhausted, Row

LEMMA BudgetInit == Init => BudgetInv
<1> SUFFICES ASSUME Init
             PROVE  BudgetInv
  OBVIOUS
<1>1. \A m \in Msg : row[m].status = "new" /\ attempts[m] = 0
  BY DEF Init
<1> QED
  BY <1>1, InitType, BoundAssumption
  DEF BudgetInv, FreshIds, RetryBudgetAgrees, AttemptsCharged, AttemptsBounded

LEMMA BudgetStep == BudgetInv /\ [Next]_vars => BudgetInv'
<1> SUFFICES ASSUME BudgetInv, [Next]_vars
             PROVE  BudgetInv'
  OBVIOUS
<1> USE BoundAssumption DEF BudgetInv
<1>1. TypeOK'
  BY TypeStep
<1>2. ASSUME NEW m \in Msg
      PROVE  /\ (m >= nextId' => row'[m].status = "new")
             /\ (row'[m].status = "new" => attempts'[m] = 0)
             /\ (row'[m].status = "pending" =>
                   row'[m].retry < MaxRetry /\ attempts'[m] <= row'[m].retry)
             /\ (row'[m].status = "processing" =>
                   /\ row'[m].retry <= MaxRetry
                   /\ attempts'[m] <= row'[m].retry + 1)
             /\ (row'[m].status = "failed" => row'[m].retry >= MaxRetry)
             /\ attempts'[m] <= MaxRetry + 1
  <2> DEFINE Goal == 
        /\ (m >= nextId' => row'[m].status = "new")
        /\ (row'[m].status = "new" => attempts'[m] = 0)
        /\ (row'[m].status = "pending" =>
              row'[m].retry < MaxRetry /\ attempts'[m] <= row'[m].retry)
        /\ (row'[m].status = "processing" =>
              /\ row'[m].retry <= MaxRetry
              /\ attempts'[m] <= row'[m].retry + 1)
        /\ (row'[m].status = "failed" => row'[m].retry >= MaxRetry)
        /\ attempts'[m] <= MaxRetry + 1
  <2>1. /\ row[m] \in Row /\ attempts[m] \in Nat /\ attempts[m] <= MaxRetry + 1
        /\ (m >= nextId => row[m].status = "new")
        /\ (row[m].status = "new" => attempts[m] = 0)
        /\ (row[m].status = "pending" =>
              row[m].retry < MaxRetry /\ attempts[m] <= row[m].retry)
        /\ (row[m].status = "processing" =>
              row[m].retry <= MaxRetry /\ attempts[m] <= row[m].retry + 1)
        /\ (row[m].status = "failed" => row[m].retry >= MaxRetry)
    BY DEF TypeOK, FreshIds, RetryBudgetAgrees, AttemptsCharged, AttemptsBounded
  <2>2. nextId <= nextId' /\ nextId \in Nat /\ nextId' \in Nat
    BY <1>1, NextIdGrows DEF TypeOK
  <2>3. row[m].retry \in Nat
    BY <2>1 DEF Row
  <2>4. m >= nextId' => m >= nextId
    BY <2>2 DEF Msg
  <2>5. CASE Kept(m)
    BY <2>1, <2>4, <2>5 DEF Kept
  <2>6. CASE Inserted(m)
    BY <2>1, <2>2, <2>6 DEF Inserted, Msg
  <2>7. CASE Claimed(m)
    <3>1. row[m].retry < MaxRetry /\ row[m].status \in {"pending", "processing"}
      BY <2>7 DEF Claimed, Claimable
    <3>2. row'[m].retry <= MaxRetry /\ attempts'[m] <= row'[m].retry + 1
      BY <2>1, <2>3, <2>7, <3>1 DEF Claimed, ClaimedRetry
    <3>3. attempts'[m] <= MaxRetry + 1
      BY <2>1, <2>3, <2>7, <3>1 DEF Claimed
    <3> QED
      BY <2>1, <2>4, <2>7, <3>1, <3>2, <3>3 DEF Claimed
  <2>8. CASE ChargedRetry(m)
    BY <2>1, <2>3, <2>4, <2>8, ChargedStatus DEF ChargedRetry, InTable
  <2>9. CASE Dropped(m)
    BY <2>1, <2>4, <2>9 DEF Dropped, InTable
  <2>10. CASE Expired(m)
    <3>1. row'[m].status = "processing" /\ row'[m].retry = row[m].retry
      BY <2>1, <2>10 DEF Expired, Row
    <3> QED
      BY <2>1, <2>4, <2>10, <3>1 DEF Expired
  <2>11. CASE Revived(m)
    BY <2>1, <2>4, <2>11 DEF Revived
  <2> QED
    BY <2>5, <2>6, <2>7, <2>8, <2>9, <2>10, <2>11, RowStep DEF RowMove
<1> QED
  BY <1>1, <1>2
  DEF FreshIds, RetryBudgetAgrees, AttemptsCharged, AttemptsBounded

LEMMA BudgetInvariant == Spec => []BudgetInv
  BY BudgetInit, BudgetStep, PTL DEF Spec

\* Waiting rows are the ones a claim accepts, dead letters the ones it
\* refuses, for every retry limit and however many servers share the table.
THEOREM BudgetAgrees == Spec => []RetryBudgetAgrees
  BY BudgetInvariant, PTL DEF BudgetInv

\* No message is handed out more than MaxRetry + 1 times between two
\* decisions of the operator, even if every worker that gets it dies.
THEOREM PoisonBounded == Spec => []AttemptsBounded
  BY BudgetInvariant, PTL DEF BudgetInv

\* No step of a late task, a recovery or a claim revives a dead letter.
THEOREM DeadLettersOnlyRevived == Spec => DeadLettersStay
<1> DEFINE Stays ==
      \A m \in Msg :
        row[m].status = "failed" /\ row'[m].status \notin {"failed", "done", "cleared"}
        => rounds' = rounds + 1 /\ row'[m].retry = 0
<1>1. BudgetInv /\ [Next]_vars => Stays
  <2> SUFFICES ASSUME BudgetInv, [Next]_vars, NEW m \in Msg,
                      row[m].status = "failed",
                      row'[m].status \notin {"failed", "done", "cleared"}
               PROVE  rounds' = rounds + 1 /\ row'[m].retry = 0
    BY DEF BudgetInv
  <2>1. RowMove(m)
    BY RowStep DEF BudgetInv
  <2>2. ~Inserted(m)
    BY BoundAssumption DEF Inserted, BudgetInv, FreshIds
  <2>3. ~ChargedRetry(m)
    <3>1. row[m].retry \in Nat /\ row[m].retry >= MaxRetry
      BY DEF BudgetInv, TypeOK, Row, RetryBudgetAgrees
    <3> QED
      BY <3>1, ChargedStatus, BoundAssumption DEF ChargedRetry, BudgetInv
  <2> QED
    BY <2>1, <2>2, <2>3
    DEF RowMove, Kept, Claimed, Claimable, Dropped, Expired, Revived
<1>2. BudgetInv /\ [Next]_vars => [Stays]_vars
  BY <1>1
<1> QED
  BY <1>2, BudgetInvariant, PTL DEF Spec, DeadLettersStay

-----------------------------------------------------------------------------
(* The tasks and the rows they hold *)

\* What a task knows of its row: as long as the lease of the row never ran
\* out, nobody took it out of its hands but by deleting it.
TaskHoldsRow ==
  \A p \in Permit, m \in Msg :
    slot[p].job = m =>
      /\ row[m].status # "new"
      /\ m \notin overdue => row[m].status \in {"processing", "done", "cleared"}
      /\ slot[p].use = "complete" => m \in handled

ExpiredIsOverdue == \A m \in Msg : row[m].lease = "expired" => m \in overdue

TaskInv ==
  /\ BudgetInv /\ TaskHoldsRow /\ ExpiredIsOverdue
  /\ NoOverlapBeforeTimeout /\ DoneWasHandled

-----------------------------------------------------------------------------
(* What a step can do to the permit of a task *)

Took(p, m) ==
  /\ Claimable(m) /\ row'[m].status = "processing"
  /\ slot'[p].job = m /\ slot'[p].use # "complete"
  /\ \A q \in Permit : slot'[q].job = m /\ q # p => slot[q].job = m

SlotMove(p) ==
  \/ slot'[p] = Free
  \/ /\ slot'[p].job = slot[p].job
     /\ slot'[p].use = "complete" =>
          slot[p].use = "complete" \/ slot[p].job \in handled'
  \/ \E m \in Msg : Took(p, m)

LEMMA AssignedMove ==
  ASSUME TypeOK, NEW reserved, NEW assign \in Assignments(reserved), NEW use,
         use # "complete",
         OldestFirst(assign, reserved), claim_pending_messages(DOMAIN assign),
         slot' = Assigned(assign, reserved, use), NEW p \in Permit
  PROVE  SlotMove(p)
<1>1. DOMAIN assign \subseteq {m \in Msg : Claimable(m)}
  BY DEF OldestFirst
<1>2. CASE \E m \in DOMAIN assign : assign[m] = p
  <2>1. PICK m \in DOMAIN assign : assign[m] = p
    BY <1>2
  <2>2. \A a, b \in DOMAIN assign : assign[a] = assign[b] => a = b
    BY DEF OldestFirst
  <2>3. (CHOOSE n \in DOMAIN assign : assign[n] = p) = m
    BY <2>1, <2>2
  <2>4. slot'[p] = [use |-> use, job |-> m]
    BY <1>2, <2>3 DEF Assigned
  <2>5. m \in Msg /\ Claimable(m) /\ row'[m].status = "processing"
    BY <1>1, <2>1 DEF claim_pending_messages, TypeOK, Row
  <2>6. ASSUME NEW q \in Permit, q # p, slot'[q].job = m
        PROVE  slot[q].job = m
    <3>1. CASE \E n \in DOMAIN assign : assign[n] = q
      <4>1. PICK n \in DOMAIN assign : assign[n] = q
        BY <3>1
      <4>2. (CHOOSE k \in DOMAIN assign : assign[k] = q) = n
        BY <2>2, <4>1
      <4>3. slot'[q] = [use |-> use, job |-> n]
        BY <3>1, <4>2 DEF Assigned
      <4> QED
        BY <2>1, <2>6, <4>1, <4>3
    <3>2. CASE ~ \E n \in DOMAIN assign : assign[n] = q
      BY <2>6, <3>2 DEF Assigned
    <3> QED
      BY <3>1, <3>2
  <2>7. Took(p, m)
    BY <2>4, <2>5, <2>6 DEF Took
  <2> QED
    BY <2>5, <2>7 DEF SlotMove
<1>3. CASE ~ \E m \in DOMAIN assign : assign[m] = p
  BY <1>3 DEF Assigned, SlotMove
<1> QED
  BY <1>2, <1>3

LEMMA SlotStep ==
  ASSUME TypeOK, [Next]_vars, NEW p \in Permit
  PROVE  SlotMove(p)
<1>0. slot \in [Permit -> Slot] /\ slot[p] \in Slot
  BY DEF TypeOK
<1>1. CASE UNCHANGED slot
  BY <1>1 DEF SlotMove
<1>2. ASSUME NEW s, NEW use, slot' = Released(s, use)
      PROVE  SlotMove(p)
  BY <1>2 DEF Released, SlotMove
<1>3. ASSUME NEW s \in Server, PollReserve(s) \/ AdminReserve(s)
      PROVE  SlotMove(p)
  <2>1. slot'[p] = slot[p]
        \/ (slot[p].use = "free" /\ slot'[p].job = NoMsg /\ slot'[p].use # "complete")
    BY <1>3 DEF PollReserve, AdminReserve, Permits
  <2>2. slot[p].use = "free" => slot[p].job = NoMsg
    BY <1>0 DEF Slot, Busy
  <2> QED
    BY <2>1, <2>2 DEF SlotMove
<1>4. ASSUME NEW s \in Server, PollClaim(s) \/ AdminClaim(s)
      PROVE  SlotMove(p)
  BY <1>2, <1>4, AssignedMove DEF PollClaim, AdminClaim
<1>5. ASSUME NEW s \in Server,
             PollNext(s) \/ PollWake(s) \/ AdminClaimError(s) \/ AdminDone(s)
      PROVE  SlotMove(p)
  BY <1>2, <1>5 DEF PollNext, PollWake, AdminClaimError, AdminDone
<1>6. ASSUME NEW s \in Server, Crash(s) \/ Exit(s)
      PROVE  SlotMove(p)
  BY <1>6 DEF Crash, Exit, Stopped, SlotMove
<1>7. ASSUME NEW q \in Permit, PollSpawn(q) \/ ProcessOk(q) \/ ProcessErr(q)
      PROVE  SlotMove(p)
  <2>1. CASE p = q
    <3>1. slot'[p].job = slot[p].job
      BY <1>0, <1>7, <2>1 DEF PollSpawn, ProcessOk, ProcessErr, Slot
    <3>2. slot'[p].use = "complete" => slot[p].job \in handled'
      BY <1>0, <1>7, <2>1 DEF PollSpawn, ProcessOk, ProcessErr, Failing, Slot
    <3> QED
      BY <3>1, <3>2 DEF SlotMove
  <2>2. CASE p # q
    BY <1>0, <1>7, <2>2 DEF PollSpawn, ProcessOk, ProcessErr, SlotMove
  <2> QED
    BY <2>1, <2>2
<1>8. ASSUME NEW q \in Permit, complete_message(q) \/ fail_message(q) \/ TaskDrops(q)
      PROVE  SlotMove(p)
  BY <1>0, <1>8 DEF complete_message, fail_message, TaskDrops, SlotMove
<1>9. ASSUME \/ \E last, second \in Msg : Enqueue(last, second)
             \/ \E s \in Server :
                  \/ PollSkip(s) \/ PollClaimError(s) \/ Drain(s) \/ Join(s) \/ Start(s)
                  \/ \E on \in BOOLEAN : set_processing_status(s, on)
             \/ \E m \in Msg : LeaseExpires(m)
             \/ clear_failed_messages \/ clear_all_pending_messages
             \/ \E cutoff \in Msg : clear_stale_failed_messages(cutoff)
             \/ retry_failed_messages
             \/ UNCHANGED vars
      PROVE  UNCHANGED slot
  BY <1>9
  DEF Enqueue, PollSkip, PollClaimError, Drain, Join, Start,
      set_processing_status, LeaseExpires, clear_failed_messages,
      clear_all_pending_messages, clear_stale_failed_messages, Remove,
      retry_failed_messages, local, vars
<1> QED
  BY <1>1, <1>3, <1>4, <1>5, <1>6, <1>7, <1>8, <1>9, NextCases

LEMMA HistoryGrows ==
  ASSUME TypeOK, [Next]_vars
  PROVE  overdue \subseteq overdue' /\ handled \subseteq handled'
<1>1. ASSUME NEW s \in Server,
             \/ PollSkip(s) \/ PollReserve(s) \/ PollClaim(s) \/ PollClaimError(s)
             \/ PollNext(s) \/ PollWake(s)
             \/ AdminReserve(s) \/ AdminClaim(s) \/ AdminClaimError(s) \/ AdminDone(s)
             \/ Crash(s) \/ Drain(s) \/ Join(s) \/ Exit(s) \/ Start(s)
             \/ \E on \in BOOLEAN : set_processing_status(s, on)
      PROVE  UNCHANGED <<overdue, handled>>
  BY <1>1
  DEF PollSkip, PollReserve, PollClaim, PollClaimError, PollNext, PollWake,
      AdminReserve, AdminClaim, AdminClaimError, AdminDone, Crash, Drain, Join,
      Exit, Stopped, Start, set_processing_status, history
<1>2. ASSUME NEW p \in Permit,
             \/ PollSpawn(p) \/ ProcessOk(p) \/ ProcessErr(p)
             \/ complete_message(p) \/ fail_message(p) \/ TaskDrops(p)
      PROVE  UNCHANGED overdue /\ handled \subseteq handled'
  BY <1>2
  DEF PollSpawn, ProcessOk, ProcessErr, complete_message, fail_message,
      TaskDrops, history
<1>3. ASSUME NEW m \in Msg, LeaseExpires(m)
      PROVE  overdue \subseteq overdue' /\ UNCHANGED handled
  BY <1>3 DEF LeaseExpires
<1>4. ASSUME \/ \E last, second \in Msg : Enqueue(last, second)
             \/ clear_failed_messages \/ clear_all_pending_messages
             \/ \E cutoff \in Msg : clear_stale_failed_messages(cutoff)
             \/ retry_failed_messages
             \/ UNCHANGED vars
      PROVE  UNCHANGED <<overdue, handled>>
  BY <1>4
  DEF Enqueue, clear_failed_messages, clear_all_pending_messages,
      clear_stale_failed_messages, Remove, retry_failed_messages, history, vars
<1> QED
  BY <1>1, <1>2, <1>3, <1>4, NextCases

-----------------------------------------------------------------------------
LEMMA TaskInit == Init => TaskInv
<1> SUFFICES ASSUME Init
             PROVE  TaskInv
  OBVIOUS
<1>1. \A p \in Permit : slot[p].job = NoMsg
  BY DEF Init, Free
<1>2. \A m \in Msg : row[m].status = "new" /\ row[m].lease = "none" /\ m # NoMsg
  BY BoundAssumption DEF Init, Msg, NoMsg
<1> QED
  BY <1>1, <1>2, BudgetInit
  DEF TaskInv, TaskHoldsRow, ExpiredIsOverdue, NoOverlapBeforeTimeout, DoneWasHandled

\* A row that somebody holds leaves the hands of its task only through
\* the lease, or through that task itself.
LEMMA HeldRow ==
  ASSUME TaskInv, [Next]_vars, NEW m \in Msg
  PROVE  /\ row[m].status # "new" => row'[m].status # "new"
         /\ row'[m].lease = "expired" => m \in overdue'
         /\ row[m].status \in {"processing", "done", "cleared"} =>
              \/ m \in overdue'
              \/ row'[m].status \in {"processing", "done", "cleared"}
              \/ \E p \in Permit : fail_message(p) /\ slot[p].job = m
         /\ row'[m].status = "done" =>
              \/ row[m].status = "done"
              \/ \E p \in Permit : complete_message(p) /\ slot[p].job = m
<1>1. RowMove(m)
  BY RowStep DEF TaskInv, BudgetInv
<1>2. overdue \subseteq overdue'
  BY HistoryGrows DEF TaskInv, BudgetInv
<1>3. row[m] \in Row /\ (Stale(m) => m \in overdue)
  BY DEF TaskInv, BudgetInv, TypeOK, ExpiredIsOverdue, Stale
<1>4. CASE Kept(m)
  BY <1>2, <1>3, <1>4 DEF Kept, Stale
<1>5. CASE Inserted(m)
  <2>1. row[m].status = "new"
    BY <1>5, BoundAssumption DEF Inserted, TaskInv, BudgetInv, FreshIds
  <2> QED
    BY <1>5, <2>1 DEF Inserted
<1>6. CASE Claimed(m)
  BY <1>6 DEF Claimed
<1>7. CASE ChargedRetry(m)
  <2>1. /\ row'[m].status \in {"failed", "pending"} /\ row'[m].lease = "none"
    BY <1>7, ChargedStatus DEF ChargedRetry, TaskInv, BudgetInv
  <2> QED
    BY <1>2, <1>3, <1>7, <2>1 DEF ChargedRetry
<1>8. CASE Dropped(m)
  BY <1>8 DEF Dropped
<1>9. CASE Expired(m)
  <2>1. row'[m].status = "processing"
    BY <1>3, <1>9 DEF Expired, Row
  <2> QED
    BY <1>9, <2>1 DEF Expired
<1>10. CASE Revived(m)
  BY <1>10 DEF Revived
<1> QED
  BY <1>1, <1>4, <1>5, <1>6, <1>7, <1>8, <1>9, <1>10 DEF RowMove

LEMMA TaskStep == TaskInv /\ [Next]_vars => TaskInv'
<1> SUFFICES ASSUME TaskInv, [Next]_vars
             PROVE  TaskInv'
  OBVIOUS
<1>1. BudgetInv'
  BY BudgetStep DEF TaskInv
<1>2. overdue \subseteq overdue' /\ handled \subseteq handled'
  BY HistoryGrows DEF TaskInv, BudgetInv
<1>3. \A p \in Permit : SlotMove(p)
  BY SlotStep DEF TaskInv, BudgetInv
<1>4. \A m \in Msg : m # NoMsg /\ Free.job # m
  BY BoundAssumption DEF Msg, NoMsg, Free
<1>5. ExpiredIsOverdue'
  BY HeldRow DEF ExpiredIsOverdue
<1>6. ASSUME NEW p \in Permit, NEW m \in Msg, slot'[p].job = m
      PROVE  slot[p].job = m \/ Took(p, m)
  BY <1>3, <1>4, <1>6 DEF SlotMove, Took
<1>7. TaskHoldsRow'
  <2> SUFFICES ASSUME NEW p \in Permit, NEW m \in Msg, slot'[p].job = m
               PROVE  /\ row'[m].status # "new"
                      /\ m \notin overdue' =>
                           row'[m].status \in {"processing", "done", "cleared"}
                      /\ slot'[p].use = "complete" => m \in handled'
    BY DEF TaskHoldsRow
  <2>1. CASE Took(p, m)
    BY <2>1 DEF Took
  <2>2. CASE slot[p].job = m /\ ~Took(p, m)
    <3>1. row'[m].status # "new"
      BY <2>2, HeldRow DEF TaskInv, TaskHoldsRow
    <3>2. ASSUME NEW q \in Permit, fail_message(q), slot[q].job = m
          PROVE  m \in overdue
      <4>1. slot'[q] = Free
        BY <3>2 DEF fail_message, TaskInv, BudgetInv, TypeOK
      <4>2. p # q
        BY <1>4, <4>1
      <4> QED
        BY <1>4, <2>2, <3>2, <4>2 DEF TaskInv, NoOverlapBeforeTimeout
    <3>3. m \notin overdue' =>
            row'[m].status \in {"processing", "done", "cleared"}
      BY <1>2, <2>2, <3>2, HeldRow DEF TaskInv, TaskHoldsRow
    <3>4. slot'[p].use = "complete" => m \in handled'
      BY <1>2, <1>3, <1>4, <2>2 DEF SlotMove, Took, TaskInv, TaskHoldsRow
    <3> QED
      BY <3>1, <3>3, <3>4
  <2> QED
    BY <1>6, <2>1, <2>2
<1>8. NoOverlapBeforeTimeout'
  <2> SUFFICES ASSUME NEW p \in Permit, NEW q \in Permit, p # q,
                      slot'[p].job # NoMsg, slot'[p].job = slot'[q].job
               PROVE  slot'[p].job \in overdue'
    BY DEF NoOverlapBeforeTimeout
  <2>1. PICK m \in Msg : slot'[p].job = m
    <3>1. slot'[p] \in Slot
      BY <1>1 DEF BudgetInv, TypeOK
    <3> QED
      BY <3>1 DEF Slot
  <2>2. ASSUME NEW a \in Permit, NEW b \in Permit, Took(a, m), a # b, slot'[b].job = m
        PROVE  m \in overdue
    <3>1. slot[b].job = m
      BY <2>2 DEF Took
    <3>2. row[m].status = "pending" \/ row[m].lease = "expired"
      BY <2>2 DEF Took, Claimable, Stale
    <3> QED
      BY <3>1, <3>2 DEF TaskInv, TaskHoldsRow, ExpiredIsOverdue
  <2>3. CASE slot[p].job = m /\ slot[q].job = m
    BY <1>2, <1>4, <2>1, <2>3 DEF TaskInv, NoOverlapBeforeTimeout
  <2> QED
    BY <1>2, <1>6, <2>1, <2>2, <2>3
<1>9. DoneWasHandled'
  <2> SUFFICES ASSUME NEW m \in Msg, row'[m].status = "done"
               PROVE  m \in handled'
    BY DEF DoneWasHandled
  <2>1. \/ row[m].status = "done"
        \/ \E p \in Permit : complete_message(p) /\ slot[p].job = m
    BY HeldRow
  <2> QED
    BY <1>2, <2>1 DEF complete_message, TaskInv, TaskHoldsRow, DoneWasHandled
<1> QED
  BY <1>1, <1>5, <1>7, <1>8, <1>9 DEF TaskInv

LEMMA TaskInvariant == Spec => []TaskInv
  BY TaskInit, TaskStep, PTL DEF Spec

\* Two tasks never hold the same message while its visibility timeout has not
\* run out, whatever servers crash, restart, claim and recover in between.
THEOREM NoOverlap == Spec => []NoOverlapBeforeTimeout
  BY TaskInvariant, PTL DEF TaskInv

\* A row that was deleted as done had been processed with success.
THEOREM DoneHandled == Spec => []DoneWasHandled
  BY TaskInvariant, PTL DEF TaskInv

-----------------------------------------------------------------------------
(* The refinement of WorkQueue *)

LEMMA SeenCases ==
  ASSUME TypeOK, NEW m \in Msg
  PROVE  /\ row[m].status \in Status
         /\ row[m].status = "new" => Seen(m) = "absent"
         /\ row[m].status \in {"pending", "processing"} => Seen(m) = "waiting"
         /\ row[m].status = "failed" => Seen(m) = "dead"
         /\ row[m].status \in {"done", "cleared"} => Seen(m) = "gone"
         /\ InTable(m) <=> Seen(m) \in {"waiting", "dead"}
  BY DEF TypeOK, Row, Status, Seen, InTable

LEMMA RefinementInit == TypeOK /\ Init => WQ!Init
<1> SUFFICES ASSUME TypeOK, Init
             PROVE  WQ!Init
  OBVIOUS
<1>1. \A m \in Msg : Seen(m) = "absent"
  BY SeenCases DEF Init
<1> QED
  BY <1>1 DEF Init, WQ!Init

LEMMA Stutters ==
  ASSUME \A m \in Msg : Seen(m)' = Seen(m), handled' = handled
  PROVE  UNCHANGED WQ!vars
  BY DEF WQ!vars

LEMMA RefinementStep == TaskInv /\ TaskInv' /\ [Next]_vars => [WQ!Next]_(WQ!vars)
<1> SUFFICES ASSUME TaskInv, TaskInv', [Next]_vars
             PROVE  [WQ!Next]_(WQ!vars)
  OBVIOUS
<1>0. TypeOK /\ TypeOK'
  BY DEF TaskInv, BudgetInv
<1>s. ASSUME NEW m \in Msg
      PROVE  /\ row[m].status \in Status
             /\ row[m].status = "new" <=> Seen(m) = "absent"
             /\ row[m].status \in {"pending", "processing"} <=> Seen(m) = "waiting"
             /\ row[m].status = "failed" <=> Seen(m) = "dead"
             /\ row[m].status \in {"done", "cleared"} <=> Seen(m) = "gone"
             /\ InTable(m) <=> Seen(m) \in {"waiting", "dead"}
  BY <1>0, SeenCases DEF Status
<1>t. ASSUME NEW m \in Msg
      PROVE  /\ row'[m].status = "new" => Seen(m)' = "absent"
             /\ row'[m].status \in {"pending", "processing"} => Seen(m)' = "waiting"
             /\ row'[m].status = "failed" => Seen(m)' = "dead"
             /\ row'[m].status \in {"done", "cleared"} => Seen(m)' = "gone"
  BY <1>0 DEF TypeOK, Row, Status, Seen
<1>u. ASSUME NEW m \in Msg, row'[m] = row[m]
      PROVE  Seen(m)' = Seen(m)
  BY <1>u DEF Seen
<1>v. ASSUME NEW S \in SUBSET Msg, NEW st,
             \A m \in Msg : Seen(m)' = IF m \in S THEN st ELSE Seen(m)
      PROVE  [m \in Msg |-> Seen(m)]' = WQ!Moved(S, st)
  BY <1>v DEF WQ!Moved
<1>1. CASE UNCHANGED <<row, handled>>
  <2>1. \A m \in Msg : Seen(m)' = Seen(m)
    BY <1>1, <1>u
  <2> QED
    BY <1>1, <2>1, Stutters
<1>2. ASSUME NEW last \in Msg, NEW second \in Msg, Enqueue(last, second)
      PROVE  \E S \in SUBSET Msg : WQ!Submit(S)
  <2> DEFINE S == nextId..last
  <2>1. S \in SUBSET Msg
    BY <1>0, <1>2, BoundAssumption DEF TypeOK, Msg
  <2>2. \A m \in S : Seen(m) = "absent"
    <3>1. \A m \in S : row[m].status = "new"
      BY <1>0, <2>1, BoundAssumption DEF TypeOK, Msg, TaskInv, BudgetInv, FreshIds
    <3> QED
      BY <1>s, <2>1, <3>1
  <2>3. \A m \in Msg : Seen(m)' = IF m \in S THEN "waiting" ELSE Seen(m)
    <3> SUFFICES ASSUME NEW m \in Msg
                 PROVE  Seen(m)' = IF m \in S THEN "waiting" ELSE Seen(m)
      OBVIOUS
    <3>1. CASE m \in S
      <4>1. row'[m].status = "pending"
        <5>1. row' = [n \in Msg |->
                        IF n \in nextId..last
                        THEN [status |-> "pending", retry |-> 0, lease |-> "none",
                              created |-> second]
                        ELSE row[n]]
          BY <1>2 DEF Enqueue
        <5> QED
          BY <3>1, <5>1
      <4> QED
        BY <1>t, <3>1, <4>1
    <3>2. CASE m \notin S
      <4>1. row'[m] = row[m]
        BY <1>2, <3>2 DEF Enqueue
      <4> QED
        BY <1>u, <3>2, <4>1
    <3> QED
      BY <3>1, <3>2
  <2>4. handled' = handled
    BY <1>2 DEF Enqueue, history
  <2>5. [m \in Msg |-> Seen(m)]' = WQ!Moved(S, "waiting")
    BY <1>v, <2>1, <2>3
  <2>6. S \subseteq WQ!In("absent")
    BY <2>1, <2>2 DEF WQ!In
  <2>7. WQ!Submit(S)
    BY <2>4, <2>5, <2>6 DEF WQ!Submit
  <2> QED
    BY <2>1, <2>7
\* A claim keeps every message waiting.
<1>3. ASSUME NEW reserved, NEW assign \in Assignments(reserved),
             claim_pending_messages(DOMAIN assign), handled' = handled
      PROVE  UNCHANGED WQ!vars
  <2> SUFFICES ASSUME NEW m \in Msg
               PROVE  Seen(m)' = Seen(m)
    BY <1>3, Stutters
  <2>1. CASE m \in DOMAIN assign
    <3>1. row[m].status \in {"pending", "processing"}
      <4>1. DOMAIN assign \subseteq {n \in Msg : Claimable(n)}
        BY DEF Assignments
      <4> QED
        BY <2>1, <4>1 DEF Claimable
    <3>2. row'[m].status = "processing"
      <4>1. row'[m] = [row[m] EXCEPT !.status = "processing", !.lease = "live",
                                     !.retry = ClaimedRetry(m)]
        BY <1>3, <2>1 DEF claim_pending_messages
      <4> QED
        BY <1>0, <4>1 DEF TypeOK, Row
    <3> QED
      BY <1>s, <1>t, <3>1, <3>2
  <2>2. CASE m \notin DOMAIN assign
    <3>1. row'[m] = row[m]
      BY <1>3, <2>2 DEF claim_pending_messages
    <3> QED
      BY <1>u, <3>1
  <2> QED
    BY <2>1, <2>2
<1>4. ASSUME NEW s \in Server,
             PollClaim(s) \/ PollClaimError(s) \/ AdminClaim(s) \/ AdminClaimError(s)
      PROVE  UNCHANGED WQ!vars
  <2>1. handled' = handled
    BY <1>4 DEF PollClaim, PollClaimError, AdminClaim, AdminClaimError
  <2>2. CASE UNCHANGED row
    <3>1. \A m \in Msg : Seen(m)' = Seen(m)
      BY <1>u, <2>2
    <3> QED
      BY <2>1, <3>1, Stutters
  <2>3. CASE \E reserved : \E assign \in Assignments(reserved) :
               claim_pending_messages(DOMAIN assign)
    BY <1>3, <2>1, <2>3
  <2> QED
    BY <1>4, <2>2, <2>3
    DEF PollClaim, PollClaimError, AdminClaim, AdminClaimError, ClaimLost
\* A row that is charged keeps waiting, or is buried.
<1>5. ASSUME NEW C \in SUBSET Msg, \A m \in C : InTable(m),
             \A m \in Msg : row'[m] = IF m \in C THEN Charged(m) ELSE row[m],
             handled' = handled
      PROVE  \E S \in SUBSET Msg : WQ!Bury(S)
  <2> DEFINE S == {m \in C : Seen(m) = "waiting" /\ Charged(m).status = "failed"}
  <2>1. S \in SUBSET Msg /\ S \subseteq WQ!In("waiting")
    BY DEF WQ!In
  <2>2. ASSUME NEW m \in Msg
        PROVE  Seen(m)' = IF m \in S THEN "dead" ELSE Seen(m)
    <3>1. CASE m \notin C
      BY <1>5, <1>u, <3>1
    <3>2. CASE m \in C
      <4>1. row'[m] = Charged(m) /\ Charged(m).status \in {"failed", "pending"}
        BY <1>0, <1>5, <3>2, ChargedStatus
      <4>2. CASE Seen(m) = "waiting"
        BY <1>t, <3>2, <4>1, <4>2
      <4>3. CASE Seen(m) = "dead"
        <5>1. row[m].status = "failed" /\ row[m].retry \in Nat /\ row[m].retry >= MaxRetry
          BY <1>0, <1>s, <4>3 DEF TaskInv, BudgetInv, RetryBudgetAgrees, TypeOK, Row
        <5>2. Charged(m).status = "failed"
          BY <1>0, <5>1, ChargedStatus, BoundAssumption
        <5> QED
          BY <1>t, <4>1, <4>3, <5>2
      <4> QED
        BY <1>5, <1>s, <3>2, <4>2, <4>3
    <3> QED
      BY <3>1, <3>2
  <2>3. [m \in Msg |-> Seen(m)]' = WQ!Moved(S, "dead")
    BY <1>v, <2>1, <2>2
  <2>4. WQ!Bury(S)
    BY <1>5, <2>1, <2>3 DEF WQ!Bury
  <2> QED
    BY <2>1, <2>4
<1>6. ASSUME NEW p \in Permit, fail_message(p)
      PROVE  \E S \in SUBSET Msg : WQ!Bury(S)
  <2>1. handled' = handled
    BY <1>6 DEF fail_message, history
  <2> DEFINE C == {m \in Msg : m = slot[p].job /\ InTable(m)}
  <2>2. \A m \in Msg : row'[m] = IF m \in C THEN Charged(m) ELSE row[m]
    BY <1>0, <1>6 DEF fail_message, TypeOK
  <2>3. C \in SUBSET Msg /\ \A m \in C : InTable(m)
    OBVIOUS
  <2> HIDE DEF C
  <2> QED
    BY <1>5, <2>1, <2>2, <2>3
<1>7. ASSUME NEW s \in Server, Start(s), ~UNCHANGED row
      PROVE  \E S \in SUBSET Msg : WQ!Bury(S)
  <2>1. handled' = handled
    BY <1>7 DEF Start, history
  <2> DEFINE C == {m \in Msg : row[m].status = "processing" /\ Stale(m)}
  <2>2. \A m \in Msg : row'[m] = IF m \in C THEN Charged(m) ELSE row[m]
    BY <1>7 DEF Start, release_stale_messages
  <2>3. C \in SUBSET Msg /\ \A m \in C : InTable(m)
    BY DEF InTable
  <2> HIDE DEF C
  <2> QED
    BY <1>5, <2>1, <2>2, <2>3
<1>8. ASSUME NEW p \in Permit, ProcessOk(p)
      PROVE  \E m \in Msg : WQ!Handle(m)
  <2>1. slot[p].job \in Msg
    BY <1>0, <1>8 DEF ProcessOk, TypeOK, Slot, Busy
  <2>2. Seen(slot[p].job) # "absent"
    BY <1>s, <2>1 DEF TaskInv, TaskHoldsRow
  <2>3. \A m \in Msg : Seen(m)' = Seen(m)
    BY <1>8, <1>u DEF ProcessOk, table
  <2> QED
    BY <1>8, <2>1, <2>2, <2>3 DEF ProcessOk, WQ!Handle
<1>9. ASSUME NEW p \in Permit, complete_message(p)
      PROVE  [WQ!Next]_(WQ!vars)
  <2>1. slot[p].job \in Msg /\ slot[p].job \in handled
    BY <1>0, <1>9 DEF complete_message, TypeOK, Slot, Busy, TaskInv, TaskHoldsRow
  <2>2. handled' = handled
    BY <1>9 DEF complete_message, history
  <2> DEFINE m == slot[p].job
  <2>3. CASE InTable(m)
    <3>1. row'[m] = Deleted(m, "done")
      BY <1>0, <1>9, <2>1, <2>3 DEF complete_message, TypeOK
    <3>2. row'[m].status = "done"
      BY <1>0, <2>1, <3>1 DEF Deleted, TypeOK, Row
    <3>3. \A n \in Msg : Seen(n)' = IF n = m THEN "gone" ELSE Seen(n)
      <4>1. \A n \in Msg : n # m => row'[n] = row[n]
        BY <1>0, <1>9 DEF complete_message, TypeOK
      <4> QED
        BY <1>t, <1>u, <2>1, <3>2, <4>1
    <3>4. Seen(m) \in {"waiting", "dead"}
      BY <1>s, <2>1, <2>3
    <3>5. WQ!Acknowledge(m)
      BY <2>1, <2>2, <3>3, <3>4 DEF WQ!Acknowledge
    <3> QED
      BY <2>1, <3>5 DEF WQ!Next
  <2>4. CASE ~InTable(m)
    <3>1. \A n \in Msg : row'[n] = row[n]
      BY <1>0, <1>9, <2>4 DEF complete_message, TypeOK
    <3> QED
      BY <1>u, <2>2, <3>1, Stutters
  <2> QED
    BY <2>3, <2>4
<1>10. ASSUME NEW n \in Msg, LeaseExpires(n)
       PROVE  UNCHANGED WQ!vars
  <2>1. \A m \in Msg : row'[m].status = row[m].status
    BY <1>0, <1>10 DEF LeaseExpires, TypeOK, Row
  <2>2. \A m \in Msg : Seen(m)' = Seen(m)
    BY <2>1 DEF Seen
  <2> QED
    BY <1>10, <2>2, Stutters DEF LeaseExpires
<1>11. ASSUME NEW S \in SUBSET Msg, Remove(S)
       PROVE  /\ [m \in Msg |-> Seen(m)]' = WQ!Moved(S, "gone")
              /\ handled' = handled
  <2>1. ASSUME NEW m \in Msg
        PROVE  Seen(m)' = IF m \in S THEN "gone" ELSE Seen(m)
    <3>1. CASE m \in S
      <4>1. row'[m] = Deleted(m, "cleared")
        BY <1>11, <3>1 DEF Remove
      <4>2. row'[m].status = "cleared"
        BY <1>0, <4>1 DEF Deleted, TypeOK, Row
      <4> QED
        BY <1>t, <3>1, <4>2
    <3>2. CASE m \notin S
      BY <1>11, <1>u, <3>2 DEF Remove
    <3> QED
      BY <3>1, <3>2
  <2> QED
    BY <1>11, <1>v, <2>1 DEF Remove, history
<1>12. ASSUME NEW S \in SUBSET Failed, Remove(S)
       PROVE  \E T \in SUBSET Msg : WQ!PurgeDead(T)
  <2>1. S \in SUBSET Msg /\ S \subseteq WQ!In("dead")
    BY <1>s DEF Failed, WQ!In
  <2> QED
    BY <1>11, <1>12, <2>1 DEF WQ!PurgeDead
<1>13. ASSUME clear_all_pending_messages
       PROVE  WQ!PurgeAll
  <2>1. {m \in Msg : InTable(m)} = WQ!In("waiting") \cup WQ!In("dead")
    BY <1>s DEF WQ!In
  <2> DEFINE S == {m \in Msg : InTable(m)}
  <2>2. /\ [m \in Msg |-> Seen(m)]' = WQ!Moved(S, "gone")
        /\ handled' = handled
    BY <1>11, <1>13 DEF clear_all_pending_messages
  <2> QED
    BY <2>1, <2>2 DEF WQ!PurgeAll
<1>14. ASSUME retry_failed_messages
       PROVE  WQ!Revive
  <2>1. Failed = WQ!In("dead")
    BY <1>s DEF Failed, WQ!In
  <2>2. ASSUME NEW m \in Msg
        PROVE  Seen(m)' = IF m \in Failed THEN "waiting" ELSE Seen(m)
    <3>1. CASE m \in Failed
      <4>1. row'[m] = [row[m] EXCEPT !.status = "pending", !.retry = 0,
                                     !.lease = "none"]
        BY <1>14, <3>1 DEF retry_failed_messages
      <4>2. row'[m].status = "pending"
        BY <1>0, <4>1 DEF TypeOK, Row
      <4> QED
        BY <1>t, <3>1, <4>2
    <3>2. CASE m \notin Failed
      BY <1>14, <1>u, <3>2 DEF retry_failed_messages
    <3> QED
      BY <3>1, <3>2
  <2>3. Failed \in SUBSET Msg
    BY DEF Failed
  <2>4. [m \in Msg |-> Seen(m)]' = WQ!Moved(Failed, "waiting")
    BY <1>v, <2>2, <2>3
  <2> QED
    BY <1>14, <2>1, <2>4 DEF retry_failed_messages, WQ!Revive
<1>15. ASSUME NEW s \in Server,
              \/ PollSkip(s) \/ PollReserve(s) \/ PollNext(s) \/ PollWake(s)
              \/ AdminReserve(s) \/ AdminDone(s)
              \/ Crash(s) \/ Drain(s) \/ Join(s) \/ Exit(s)
              \/ \E on \in BOOLEAN : set_processing_status(s, on)
       PROVE  UNCHANGED <<row, handled>>
  BY <1>15
  DEF PollSkip, PollReserve, PollNext, PollWake, AdminReserve, AdminDone, Crash,
      Drain, Join, Exit, Stopped, set_processing_status, table, history
<1>16. ASSUME NEW p \in Permit, PollSpawn(p) \/ ProcessErr(p) \/ TaskDrops(p)
       PROVE  UNCHANGED <<row, handled>>
  BY <1>16 DEF PollSpawn, ProcessErr, TaskDrops, table, history
<1>17. ASSUME NEW s \in Server, Start(s), UNCHANGED row
       PROVE  UNCHANGED <<row, handled>>
  BY <1>17 DEF Start, history
<1>18. CASE clear_failed_messages \/ \E cutoff \in Msg : clear_stale_failed_messages(cutoff)
  <2>1. \E S \in SUBSET Failed : Remove(S)
    BY <1>18 DEF clear_failed_messages, clear_stale_failed_messages
  <2> QED
    BY <1>12, <2>1 DEF WQ!Next
<1>19. CASE UNCHANGED vars
  BY <1>1, <1>19 DEF vars
<1> QED
  BY <1>1, <1>2, <1>4, <1>6, <1>7, <1>8, <1>9, <1>10, <1>13, <1>14, <1>15,
     <1>16, <1>17, <1>18, <1>19, NextCases
  DEF WQ!Next

\* The table, the pollers, the tasks and the operator's requests together do
\* nothing that the abstract queue does not allow.
THEOREM QueueKeepsPromise == Spec => ImplementsWorkQueue
<1>1. Init => WQ!Init
  BY RefinementInit, InitType
<1>2. TaskInv /\ TaskInv' /\ [Next]_vars => [WQ!Next]_(WQ!vars)
  BY RefinementStep
<1> QED
  BY <1>1, <1>2, TaskInvariant, PTL DEF Spec, ImplementsWorkQueue, WQ!Spec

=============================================================================
