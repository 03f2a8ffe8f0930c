-------------------------- MODULE TaskQueueProofs --------------------------
(***************************************************************************)
(* Theorems about the durable queue, for any tasks, workers and attempts.  *)
(***************************************************************************)
EXTENDS TaskQueue, TLAPS

-----------------------------------------------------------------------------
(* Type correctness, whatever stalls or is purged. *)

\* Counting one more attempt stays within the saturated range.
LEMMA BumpType == ASSUME NEW n \in 0 .. MaxAttempts + 1
                  PROVE  /\ Bump(n) \in 0 .. MaxAttempts + 1
                         /\ n <= Bump(n) /\ 0 < Bump(n)
                         /\ n <= MaxAttempts => Bump(n) = n + 1
                         /\ n > MaxAttempts => Bump(n) = n
  BY QueueConstants DEF Bump

\* The empty table of a new deployment has the right types.
LEMMA InitType == Init => TypeOK
  BY QueueConstants DEF Init, TypeOK, Status, Pc

\* A step of one worker on one task keeps the types.
LEMMA WorkerType == ASSUME TypeOK, NEW w \in Workers, NEW t \in Tasks,
                           \/ ClaimSelect(w, t) \/ ClaimUpdate(w, t) \/ Bury(w, t)
                           \/ Ack(w, t) \/ Nack(w, t) \/ Heartbeat(w, t)
                    PROVE  TypeOK'
  <1> USE QueueConstants DEF TypeOK, Status, Pc, rowVars, workerVars, adminVars
  <1>1. CASE ClaimSelect(w, t)
    BY <1>1 DEF ClaimSelect
  <1>2. CASE ClaimUpdate(w, t) /\ Win(w, t)
    <2>1. Bump(attempts[t]) \in 0 .. MaxAttempts + 1
      BY BumpType
    <2>2. deliveries' \in [Tasks -> Nat] /\ pc' \in [Workers -> Pc]
      BY <1>2 DEF Win, Take
    <2> QED
      BY <1>2, <2>1, <2>2 DEF Win, Take
  <1>3. CASE ClaimUpdate(w, t) /\ Lose(w, t)
    BY <1>3 DEF Lose, LetGo
  <1>4. CASE Bury(w, t)
    BY <1>4 DEF Bury, DeadLetter, LetGo
  <1>5. CASE Ack(w, t)
    BY <1>5 DEF Ack, MarkDone, LetGo
  <1>6. CASE Nack(w, t)
    <2>1. LetGo(w) /\ UNCHANGED <<adminVars, deliveries>>
      BY <1>6 DEF Nack
    <2>2. pc' \in [Workers -> Pc] /\ inHand' \in [Workers -> Tasks \cup {NoTask}]
          /\ stamp' \in [Workers -> 0 .. MaxAttempts + 1]
      BY <2>1 DEF LetGo
    <2>3. CASE DeadLetter(t)
      BY <2>1, <2>2, <2>3 DEF DeadLetter
    <2>4. CASE MakePending(t)
      BY <2>1, <2>2, <2>4 DEF MakePending
    <2> QED
      BY <1>6, <2>3, <2>4 DEF Nack
  <1>7. CASE Heartbeat(w, t)
    BY <1>7 DEF Heartbeat
  <1> QED
    BY <1>1, <1>2, <1>3, <1>4, <1>5, <1>6, <1>7 DEF ClaimUpdate

\* Every other step keeps the types.
LEMMA OtherType == ASSUME TypeOK,
                          \/ \E t \in Tasks : \/ Publish(t) \/ PublishDuplicate(t) \/ Lapse(t)
                                              \/ RequeueRow(t) \/ PurgeRow(t)
                          \/ \E w \in Workers : Crash(w)
                          \/ RequeueSelect \/ PurgeSelect
                   PROVE  TypeOK'
  <1> USE QueueConstants DEF TypeOK, Status, Pc, rowVars, workerVars, adminVars
  <1>1. CASE \E t \in Tasks : Publish(t)
    BY <1>1 DEF Publish, Arm
  <1>2. CASE \E t \in Tasks : PublishDuplicate(t)
    BY <1>2 DEF PublishDuplicate, vars
  <1>3. CASE \E t \in Tasks : Lapse(t)
    BY <1>3 DEF Lapse
  <1>4. CASE \E t \in Tasks : RequeueRow(t)
    BY <1>4 DEF RequeueRow, Written
  <1>5. CASE \E t \in Tasks : PurgeRow(t)
    BY <1>5 DEF PurgeRow, Written
  <1>6. CASE \E w \in Workers : Crash(w)
    BY <1>6 DEF Crash, LetGo
  <1>7. CASE RequeueSelect
    BY <1>7 DEF RequeueSelect
  <1>8. CASE PurgeSelect
    BY <1>8 DEF PurgeSelect
  <1> QED
    BY <1>1, <1>2, <1>3, <1>4, <1>5, <1>6, <1>7, <1>8

\* The types survive any step.
LEMMA TypeStep == ASSUME TypeOK, [Next]_vars PROVE TypeOK'
  <1>1. CASE Next
    BY <1>1, WorkerType, OtherType DEF Next
  <1>2. CASE UNCHANGED vars
    BY <1>2 DEF vars, TypeOK
  <1> QED
    BY <1>1, <1>2

\* Every reachable state of the queue is well typed.
THEOREM TypeCorrect == Spec => []TypeOK
  <1>1. TypeOK /\ [Next]_vars => TypeOK'
    BY TypeStep
  <1> QED
    BY InitType, <1>1, PTL DEF Spec

-----------------------------------------------------------------------------
(***************************************************************************)
(* A request reaches a handler at most MaxAttempts times.  The invariant   *)
(* is that the attempts column never runs behind the deliveries: ack, nack *)
(* and dead-lettering leave it alone, and what resets it (a re-arm, a      *)
(* replay) starts a new count.                                             *)
(***************************************************************************)
DeliveriesCounted == \A t \in Tasks : /\ deliveries[t] <= attempts[t]
                                      /\ deliveries[t] <= MaxAttempts

\* One step of the queue keeps the count, however late its actor is.
LEMMA CountStep == ASSUME TypeOK, DeliveriesCounted, [Next]_vars
                   PROVE  DeliveriesCounted'
  <1> USE QueueConstants DEF TypeOK, DeliveriesCounted, rowVars, workerVars, adminVars
  <1>1. CASE \E w \in Workers, t \in Tasks : ClaimUpdate(w, t)
    <2> PICK w \in Workers, t \in Tasks : ClaimUpdate(w, t)
      BY <1>1
    <2>1. CASE Win(w, t)
      <3>1. attempts' = [attempts EXCEPT ![t] = Bump(attempts[t])]
        BY <2>1 DEF Win, Take
      <3>2. attempts[t] \in 0 .. MaxAttempts + 1
        OBVIOUS
      <3>3. CASE Bump(attempts[t]) > MaxAttempts
        BY <2>1, <3>1, <3>2, <3>3, BumpType DEF Win, Take
      <3>4. CASE Bump(attempts[t]) <= MaxAttempts
        <4>1. deliveries' = [deliveries EXCEPT ![t] = deliveries[t] + 1]
          BY <2>1, <3>2, <3>4, BumpType DEF Win, Take
        <4>2. attempts[t] <= MaxAttempts /\ Bump(attempts[t]) = attempts[t] + 1
          BY <3>2, <3>4, BumpType
        <4> QED
          BY <3>1, <3>4, <4>1, <4>2
      <3> QED
        BY <3>2, <3>3, <3>4, BumpType
    <2>2. CASE Lose(w, t)
      BY <2>2 DEF Lose
    <2> QED
      BY <2>1, <2>2 DEF ClaimUpdate
  <1>2. CASE \E t \in Tasks : Publish(t) \/ RequeueRow(t) \/ PurgeRow(t)
    BY <1>2 DEF Publish, Arm, RequeueRow, PurgeRow
  <1>3. CASE UNCHANGED <<attempts, deliveries>>
    BY <1>3
  <1>4. \/ \E w \in Workers, t \in Tasks : ClaimUpdate(w, t)
        \/ \E t \in Tasks : Publish(t) \/ RequeueRow(t) \/ PurgeRow(t)
        \/ UNCHANGED <<attempts, deliveries>>
    BY DEF Next, vars, PublishDuplicate, Lapse, ClaimSelect, Bury, DeadLetter, Ack,
           MarkDone, Nack, MakePending, Heartbeat, Crash, RequeueSelect, PurgeSelect
  <1> QED
    BY <1>1, <1>2, <1>3, <1>4

\* Nothing, not even a worker that dies on every delivery or a nack that
\* arrives after its claim was taken over, hands a request out more than
\* MaxAttempts times between two armings.
THEOREM DeliveryIsBounded == Spec => []BoundedDelivery
  <1>1. Init => DeliveriesCounted
    BY QueueConstants DEF Init, DeliveriesCounted
  <1>2. TypeOK /\ DeliveriesCounted /\ [Next]_vars => DeliveriesCounted'
    BY CountStep
  <1>3. DeliveriesCounted => BoundedDelivery
    BY DEF DeliveriesCounted, BoundedDelivery
  <1> QED
    BY TypeCorrect, <1>1, <1>2, <1>3, PTL DEF Spec

-----------------------------------------------------------------------------
(***************************************************************************)
(* When no live handler outlasts its visibility timeout and nobody purges, *)
(* a held row stays inflight, invisible and with the attempts its holder   *)
(* read, so that nobody else can claim it and only its holder writes it.   *)
(***************************************************************************)

\* What a holder knows of its row.
HolderOwnsRow == \A w \in Workers, t \in Tasks : Holds(w, t) =>
    /\ status[t] = "inflight"
    /\ visible[t] = FALSE
    /\ stamp[w] = attempts[t] /\ attempts[t] > 0
    /\ pc[w] = "running" <=> attempts[t] <= MaxAttempts

\* The attempts column counts deliveries exactly, up to saturation.
ExactCount == \A t \in Tasks :
    deliveries[t] = IF attempts[t] > MaxAttempts THEN MaxAttempts ELSE attempts[t]

\* The ids a running requeue-dead has still to write are dead rows.
BatchIsDead == /\ admin # "purge"
               /\ admin = "requeue" => \A t \in batch : status[t] = "dead"

PromptInv == TypeOK /\ HolderOwnsRow /\ ExclusiveDelivery /\ ExactCount
             /\ BatchIsDead /\ NoLostRequest

LEMMA PromptInit == Init => PromptInv
  <1> SUFFICES ASSUME Init PROVE PromptInv
    OBVIOUS
  <1>1. TypeOK
    BY InitType
  <1> QED
    BY <1>1, QueueConstants DEF Init, PromptInv, HolderOwnsRow, ExclusiveDelivery,
       ExactCount, BatchIsDead, NoLostRequest, Holds

\* Letting go of a task disturbs no other holder.
LEMMA LetGoHolds == ASSUME TypeOK, NEW w \in Workers, LetGo(w)
                    PROVE  \A v \in Workers, u \in Tasks :
                              /\ Holds(v, u)' => v # w /\ Holds(v, u)
                              /\ v # w => /\ pc'[v] = pc[v]
                                          /\ inHand'[v] = inHand[v]
                                          /\ stamp'[v] = stamp[v]
  BY DEF LetGo, Holds, TypeOK

\* Rows and holders under the steps of one worker on one task.
LEMMA PromptWorker == ASSUME PromptInv, TypeOK', NEW w \in Workers, NEW t \in Tasks,
                             \/ ClaimSelect(w, t) \/ ClaimUpdate(w, t) \/ Bury(w, t)
                             \/ Ack(w, t) \/ Nack(w, t) \/ Heartbeat(w, t)
                      PROVE  PromptInv'
  <1> USE QueueConstants DEF PromptInv, rowVars, workerVars, adminVars
  <1>1. CASE ClaimSelect(w, t)
    BY <1>1 DEF ClaimSelect, TypeOK, HolderOwnsRow, ExclusiveDelivery, ExactCount,
                BatchIsDead, NoLostRequest, Holds
  <1>2. CASE ClaimUpdate(w, t) /\ Win(w, t)
    <2>1. /\ status[t] \in {"pending", "inflight"}
          /\ visible[t]
          /\ pc[w] = "selected"
          /\ inHand[w] = t
      BY <1>2 DEF ClaimUpdate, Win, Take, Claimable
    <2>2. \A v \in Workers : ~Holds(v, t)
      BY <2>1 DEF HolderOwnsRow
    <2>3. /\ status' = [status EXCEPT ![t] = "inflight"]
          /\ attempts' = [attempts EXCEPT ![t] = Bump(attempts[t])]
          /\ visible' = [visible EXCEPT ![t] = FALSE]
          /\ stamp' = [stamp EXCEPT ![w] = Bump(attempts[t])]
          /\ inHand' = inHand /\ admin' = admin /\ batch' = batch
      BY <1>2 DEF Win, Take
    <2>4. /\ attempts[t] \in 0 .. MaxAttempts + 1
          /\ Bump(attempts[t]) \in 0 .. MaxAttempts + 1
          /\ Bump(attempts[t]) > 0
      BY BumpType DEF TypeOK
    <2>5. pc' = [pc EXCEPT ![w] = IF Bump(attempts[t]) > MaxAttempts
                                  THEN "burying" ELSE "running"]
      BY <1>2 DEF Win, Take
    <2>6. \A v \in Workers, u \in Tasks :
              Holds(v, u)' <=> \/ v = w /\ u = t
                               \/ v # w /\ u # t /\ Holds(v, u)
      BY <2>1, <2>2, <2>3, <2>5 DEF Holds, TypeOK
    <2>7. HolderOwnsRow'
      BY <2>3, <2>4, <2>5, <2>6 DEF HolderOwnsRow, TypeOK
    <2>8. ExclusiveDelivery'
      BY <2>6 DEF ExclusiveDelivery
    <2>9. ExactCount'
      <3>1. CASE Bump(attempts[t]) > MaxAttempts
        BY <1>2, <2>3, <2>4, <3>1, BumpType DEF Win, Take, ExactCount, TypeOK
      <3>2. CASE Bump(attempts[t]) <= MaxAttempts
        <4>1. deliveries' = [deliveries EXCEPT ![t] = deliveries[t] + 1]
          BY <1>2, <2>4, <3>2 DEF Win, Take
        <4>2. Bump(attempts[t]) = attempts[t] + 1 /\ attempts[t] <= MaxAttempts
          BY <2>4, <3>2, BumpType
        <4> QED
          BY <2>3, <2>4, <3>2, <4>1, <4>2 DEF ExactCount, TypeOK
      <3> QED
        BY <2>4, <3>1, <3>2
    <2>10. BatchIsDead'
      BY <2>1, <2>3 DEF BatchIsDead, TypeOK
    <2>11. NoLostRequest'
      BY <1>2, <2>3 DEF NoLostRequest, TypeOK, Win, Take
    <2> QED
      BY <2>7, <2>8, <2>9, <2>10, <2>11
  <1>3. CASE ClaimUpdate(w, t) /\ Lose(w, t)
    <2>1. LetGo(w) /\ UNCHANGED <<status, attempts, visible, admin, batch, deliveries>>
      BY <1>3 DEF Lose
    <2> QED
      BY <2>1, LetGoHolds DEF HolderOwnsRow, ExclusiveDelivery, ExactCount,
         BatchIsDead, NoLostRequest, Holds
  <1>4. CASE Bury(w, t) \/ Ack(w, t) \/ Nack(w, t)
    <2>1. Holds(w, t) /\ LetGo(w) /\ admin' = admin /\ batch' = batch
          /\ deliveries' = deliveries /\ attempts' = attempts
      BY <1>4 DEF Bury, Ack, Nack, Holds, DeadLetter, MarkDone, MakePending
    <2>2. \A u \in Tasks : u # t => status'[u] = status[u] /\ visible'[u] = visible[u]
      BY <1>4 DEF Bury, Ack, Nack, DeadLetter, MarkDone, MakePending, TypeOK
    <2>3. \A v \in Workers, u \in Tasks : Holds(v, u)' => v # w /\ u # t /\ Holds(v, u)
      BY <2>1, LetGoHolds DEF ExclusiveDelivery
    <2>4. status[t] = "inflight" /\ t \notin {u \in Tasks : status[u] = "dead"}
      BY <2>1 DEF HolderOwnsRow
    <2>5. HolderOwnsRow'
      BY <2>1, <2>2, <2>3, LetGoHolds DEF HolderOwnsRow
    <2>6. ExclusiveDelivery'
      BY <2>3 DEF ExclusiveDelivery
    <2>7. ExactCount'
      BY <2>1 DEF ExactCount
    <2>8. BatchIsDead'
      BY <2>1, <2>2, <2>4 DEF BatchIsDead, TypeOK
    <2>9. status'[t] = "done" => deliveries[t] > 0
      <3>1. CASE Ack(w, t)
        <4>1. attempts[t] <= MaxAttempts /\ attempts[t] > 0
          BY <2>1, <3>1 DEF HolderOwnsRow, Ack
        <4> QED
          BY <4>1 DEF ExactCount, TypeOK
      <3>2. CASE Bury(w, t) \/ Nack(w, t)
        BY <2>4, <3>2 DEF Bury, Nack, DeadLetter, MakePending, TypeOK
      <3> QED
        BY <1>4, <3>1, <3>2
    <2>10. NoLostRequest'
      BY <2>1, <2>2, <2>9 DEF NoLostRequest
    <2> QED
      BY <2>5, <2>6, <2>7, <2>8, <2>10
  <1>5. CASE Heartbeat(w, t)
    BY <1>5 DEF Heartbeat, TypeOK, HolderOwnsRow, ExclusiveDelivery, ExactCount,
                BatchIsDead, NoLostRequest, Holds
  <1> QED
    BY <1>1, <1>2, <1>3, <1>4, <1>5 DEF ClaimUpdate

\* Rows and holders under publishing, time, crashes and the operator.
LEMMA PromptOther == ASSUME ~Stalls, ~Purging, PromptInv, TypeOK',
                            \/ \E t \in Tasks : \/ Publish(t) \/ PublishDuplicate(t) \/ Lapse(t)
                                                \/ RequeueRow(t) \/ PurgeRow(t)
                            \/ \E w \in Workers : Crash(w)
                            \/ RequeueSelect \/ PurgeSelect
                     PROVE  PromptInv'
  <1> USE QueueConstants DEF PromptInv, rowVars, workerVars, adminVars
  <1>1. CASE \E t \in Tasks : Publish(t)
    <2> PICK t \in Tasks : Publish(t)
      BY <1>1
    <2>1. \A v \in Workers : ~Holds(v, t)
      BY DEF Publish, Arm, HolderOwnsRow
    <2> QED
      BY <2>1 DEF Publish, Arm, TypeOK, HolderOwnsRow, ExclusiveDelivery, ExactCount,
                  BatchIsDead, NoLostRequest, Holds
  <1>2. CASE \E t \in Tasks : PublishDuplicate(t)
    BY <1>2 DEF PublishDuplicate, vars, HolderOwnsRow, ExclusiveDelivery,
                ExactCount, BatchIsDead, NoLostRequest, Holds
  <1>3. CASE \E t \in Tasks : Lapse(t)
    BY <1>3 DEF Lapse, TypeOK, HolderOwnsRow, ExclusiveDelivery, ExactCount,
                BatchIsDead, NoLostRequest, Holds
  <1>4. CASE \E t \in Tasks : RequeueRow(t)
    <2> PICK t \in Tasks : RequeueRow(t)
      BY <1>4
    <2>1. status[t] = "dead" /\ \A v \in Workers : ~Holds(v, t)
      BY DEF RequeueRow, HolderOwnsRow, BatchIsDead
    <2>2. HolderOwnsRow' /\ ExclusiveDelivery'
      BY <2>1 DEF RequeueRow, TypeOK, HolderOwnsRow, ExclusiveDelivery, Holds
    <2>3. ExactCount' /\ NoLostRequest'
      BY DEF RequeueRow, TypeOK, ExactCount, NoLostRequest
    <2>4. BatchIsDead'
      BY DEF RequeueRow, Written, TypeOK, BatchIsDead
    <2> QED
      BY <2>2, <2>3, <2>4
  <1>5. CASE \E w \in Workers : Crash(w)
    <2> PICK w \in Workers : Crash(w)
      BY <1>5
    <2>1. LetGo(w) /\ UNCHANGED <<status, attempts, visible, admin, batch, deliveries>>
      BY DEF Crash
    <2> QED
      BY <2>1, LetGoHolds DEF HolderOwnsRow, ExclusiveDelivery, ExactCount,
         BatchIsDead, NoLostRequest, Holds
  <1>6. CASE RequeueSelect
    BY <1>6 DEF RequeueSelect, HolderOwnsRow, ExclusiveDelivery, ExactCount,
                BatchIsDead, NoLostRequest, Holds
  <1>7. ~PurgeSelect /\ ~\E t \in Tasks : PurgeRow(t)
    BY DEF PurgeSelect, PurgeRow, BatchIsDead
  <1> QED
    BY <1>1, <1>2, <1>3, <1>4, <1>5, <1>6, <1>7

LEMMA PromptStep == ASSUME ~Stalls, ~Purging, PromptInv, [Next]_vars
                    PROVE  PromptInv'
  <1>1. TypeOK'
    BY TypeStep DEF PromptInv
  <1>2. CASE Next
    BY <1>1, <1>2, PromptWorker, PromptOther DEF Next
  <1>3. CASE UNCHANGED vars
    BY <1>1, <1>3 DEF vars, PromptInv, HolderOwnsRow, ExclusiveDelivery, ExactCount,
                      BatchIsDead, NoLostRequest, Holds
  <1> QED
    BY <1>2, <1>3

\* The invariant of a prompt fleet holds in every reachable state.
LEMMA PromptHolds == ASSUME ~Stalls, ~Purging PROVE Spec => []PromptInv
  <1>1. PromptInv /\ [Next]_vars => PromptInv'
    BY PromptStep
  <1> QED
    BY PromptInit, <1>1, PTL DEF Spec

\* In a fleet whose keepalives are on time, two drain loops never hold the
\* same task, whatever the interleaving of their claim statements.
THEOREM DeliveryIsExclusive ==
    ASSUME ~Stalls, ~Purging PROVE Spec => []ExclusiveDelivery
  <1>1. PromptInv => ExclusiveDelivery
    BY DEF PromptInv
  <1> QED
    BY PromptHolds, <1>1, PTL

\* In such a fleet a request is marked done only after a handler started on
\* it: at-least-once delivery, re-armed requests included.
THEOREM RequestsAreServed ==
    ASSUME ~Stalls, ~Purging PROVE Spec => []NoLostRequest
  <1>1. PromptInv => NoLostRequest
    BY DEF PromptInv
  <1> QED
    BY PromptHolds, <1>1, PTL

-----------------------------------------------------------------------------
(***************************************************************************)
(* Refinement: a prompt queue implements the ledger of IndexRequests.      *)
(***************************************************************************)
LEMMA LedgerInit == Init => Requests!Init
  BY DEF Init, Requests!Init, RequestOf, OwedOf, ServingOf

\* The holder of t is the only worker that serves it.
LEMMA ServedByOne == ASSUME PromptInv, NEW w \in Workers, NEW t \in Tasks, Holds(w, t)
                     PROVE  ServingOf[t] = IF pc[w] = "running" THEN {w} ELSE {}
  BY DEF PromptInv, ExclusiveDelivery, Holds, ServingOf

\* Letting go takes the worker out of the ledger.
LEMMA ServingLetGo == ASSUME PromptInv, NEW w \in Workers, NEW t \in Tasks,
                             Holds(w, t), LetGo(w)
                      PROVE  ServingOf' = [ServingOf EXCEPT ![t] = {}]
  <1>1. \A u \in Tasks : ServingOf'[u] = IF u = t THEN {} ELSE ServingOf[u]
    BY DEF PromptInv, TypeOK, ExclusiveDelivery, Holds, ServingOf, LetGo
  <1> QED
    BY <1>1 DEF ServingOf

\* A step of one worker is a step of the ledger or leaves it alone.
LEMMA LedgerWorker == ASSUME PromptInv, NEW w \in Workers, NEW t \in Tasks,
                             \/ ClaimSelect(w, t) \/ ClaimUpdate(w, t) \/ Bury(w, t)
                             \/ Ack(w, t) \/ Nack(w, t) \/ Heartbeat(w, t)
                      PROVE  \/ Requests!Deliver(t, w) \/ Requests!Complete(t, w)
                             \/ Requests!Abandon(t, w) \/ Requests!GiveUp(t)
                             \/ UNCHANGED <<RequestOf, deliveries, ServingOf>>
  <1> USE QueueConstants DEF rowVars, workerVars, adminVars
  <1>0. TypeOK
    BY DEF PromptInv
  <1>1. CASE ClaimSelect(w, t)
    <2>1. ServingOf' = ServingOf
      BY <1>0, <1>1 DEF ClaimSelect, TypeOK, ServingOf
    <2> QED
      BY <1>1, <2>1 DEF ClaimSelect, RequestOf
  <1>2. CASE Heartbeat(w, t)
    BY <1>2 DEF Heartbeat, RequestOf, ServingOf
  <1>3. CASE ClaimUpdate(w, t) /\ Lose(w, t)
    <2>1. ServingOf' = ServingOf
      BY <1>0, <1>3 DEF ClaimUpdate, Lose, LetGo, TypeOK, ServingOf
    <2> QED
      BY <1>3, <2>1 DEF Lose, RequestOf
  <1>4. CASE ClaimUpdate(w, t) /\ Win(w, t)
    <2>1. /\ status[t] \in {"pending", "inflight"} /\ visible[t]
          /\ pc[w] = "selected" /\ inHand[w] = t /\ inHand' = inHand
          /\ status' = [status EXCEPT ![t] = "inflight"]
      BY <1>4 DEF ClaimUpdate, Win, Take, Claimable
    <2>2. RequestOf' = RequestOf /\ RequestOf[t] = "owed"
      BY <1>0, <2>1 DEF RequestOf, OwedOf, TypeOK
    <2>3. ServingOf[t] = {}
      BY <2>1 DEF PromptInv, HolderOwnsRow, Holds, ServingOf
    <2>4. CASE Bump(attempts[t]) > MaxAttempts
      <3>1. deliveries' = deliveries /\ pc' = [pc EXCEPT ![w] = "burying"]
        BY <1>4, <2>4 DEF Win, Take
      <3>2. ServingOf' = ServingOf
        BY <1>0, <2>1, <3>1 DEF ServingOf, TypeOK
      <3> QED
        BY <2>2, <3>1, <3>2
    <2>5. CASE ~(Bump(attempts[t]) > MaxAttempts)
      <3>1. /\ deliveries' = [deliveries EXCEPT ![t] = deliveries[t] + 1]
            /\ pc' = [pc EXCEPT ![w] = "running"]
        BY <1>4, <2>5 DEF Win, Take
      <3>2. ServingOf' = [ServingOf EXCEPT ![t] = {w}]
        <4>1. \A u \in Tasks : ServingOf'[u] = IF u = t THEN {w} ELSE ServingOf[u]
          BY <1>0, <2>1, <2>3, <3>1 DEF ServingOf, TypeOK
        <4> QED
          BY <4>1 DEF ServingOf
      <3>3. deliveries[t] < MaxAttempts
        <4>1. attempts[t] \in 0 .. MaxAttempts + 1
          BY <1>0 DEF TypeOK
        <4>2. attempts[t] < MaxAttempts
          BY <2>5, <4>1, BumpType
        <4> QED
          BY <4>1, <4>2 DEF PromptInv, ExactCount
      <3> QED
        BY <2>2, <2>3, <3>1, <3>2, <3>3 DEF Requests!Deliver
    <2> QED
      BY <2>4, <2>5
  <1>5. CASE Bury(w, t) \/ Ack(w, t) \/ Nack(w, t)
    <2>1. Holds(w, t) /\ LetGo(w) /\ deliveries' = deliveries
      BY <1>5 DEF Bury, Ack, Nack, Holds
    <2>2. ServingOf' = [ServingOf EXCEPT ![t] = {}]
      BY <2>1, ServingLetGo
    <2>3. status[t] = "inflight" /\ RequestOf[t] = "owed"
      BY <2>1 DEF PromptInv, HolderOwnsRow, RequestOf, OwedOf
    <2>4. CASE Ack(w, t)
      <3>1. RequestOf' = [RequestOf EXCEPT ![t] = "done"]
        BY <1>0, <2>3, <2>4 DEF Ack, MarkDone, RequestOf, OwedOf, TypeOK
      <3>2. w \in ServingOf[t]
        BY <2>1, <2>4, ServedByOne DEF Ack
      <3> QED
        BY <2>1, <2>2, <2>3, <3>1, <3>2 DEF Requests!Complete
    <2>5. CASE (Bury(w, t) \/ Nack(w, t)) /\ DeadLetter(t) /\ stamp[w] >= MaxAttempts
      <3>1. RequestOf' = [RequestOf EXCEPT ![t] = "dead"]
        BY <1>0, <2>3, <2>5 DEF DeadLetter, RequestOf, OwedOf, TypeOK
      <3>2. deliveries[t] = MaxAttempts
        <4>1. attempts[t] >= MaxAttempts /\ attempts[t] \in 0 .. MaxAttempts + 1
          BY <1>0, <2>1, <2>5 DEF PromptInv, HolderOwnsRow, TypeOK
        <4> QED
          BY <4>1 DEF PromptInv, ExactCount
      <3> QED
        BY <2>1, <2>2, <2>3, <3>1, <3>2 DEF Requests!GiveUp
    <2>6. CASE Nack(w, t) /\ MakePending(t)
      <3>1. RequestOf' = RequestOf
        BY <1>0, <2>3, <2>6 DEF MakePending, RequestOf, OwedOf, TypeOK
      <3>2. w \in ServingOf[t]
        BY <2>1, <2>6, ServedByOne DEF Nack
      <3> QED
        BY <2>1, <2>2, <3>1, <3>2 DEF Requests!Abandon
    <2>7. Bury(w, t) => DeadLetter(t) /\ stamp[w] >= MaxAttempts
      <3> SUFFICES ASSUME Bury(w, t) PROVE DeadLetter(t) /\ stamp[w] >= MaxAttempts
        OBVIOUS
      <3>1. ~(attempts[t] <= MaxAttempts) /\ stamp[w] = attempts[t]
        BY <2>1 DEF Bury, PromptInv, HolderOwnsRow
      <3> QED
        BY <1>0, <3>1 DEF Bury, TypeOK
    <2> QED
      BY <1>5, <2>4, <2>5, <2>6, <2>7 DEF Nack
  <1> QED
    BY <1>1, <1>2, <1>3, <1>4, <1>5 DEF ClaimUpdate

\* Every other step of a prompt queue is a step of the ledger or a stutter.
LEMMA LedgerOther == ASSUME ~Stalls, ~Purging, PromptInv,
                            \/ \E t \in Tasks : \/ Publish(t) \/ PublishDuplicate(t) \/ Lapse(t)
                                                \/ RequeueRow(t) \/ PurgeRow(t)
                            \/ \E w \in Workers : Crash(w)
                            \/ RequeueSelect \/ PurgeSelect
                     PROVE  \/ Requests!Next
                            \/ UNCHANGED <<RequestOf, deliveries, ServingOf>>
  <1> USE QueueConstants DEF rowVars, workerVars, adminVars
  <1>0. TypeOK
    BY DEF PromptInv
  <1>1. CASE \E t \in Tasks : Publish(t)
    <2> PICK t \in Tasks : Publish(t)
      BY <1>1
    <2>1. RequestOf' = [RequestOf EXCEPT ![t] = "owed"] /\ RequestOf[t] \in {"none", "done"}
      BY <1>0 DEF Publish, Arm, RequestOf, OwedOf, TypeOK
    <2>2. Requests!Request(t)
      BY <2>1 DEF Publish, Arm, ServingOf, Requests!Request
    <2> QED
      BY <2>2 DEF Requests!Next
  <1>2. CASE \E t \in Tasks : RequeueRow(t)
    <2> PICK t \in Tasks : RequeueRow(t)
      BY <1>2
    <2>0. status[t] = "dead"
      BY DEF RequeueRow, PromptInv, BatchIsDead
    <2>1. RequestOf' = [RequestOf EXCEPT ![t] = "owed"] /\ RequestOf[t] = "dead"
      BY <1>0, <2>0 DEF RequeueRow, RequestOf, OwedOf, TypeOK
    <2>2. Requests!Replay(t)
      BY <2>1 DEF RequeueRow, ServingOf, Requests!Replay
    <2> QED
      BY <2>2 DEF Requests!Next
  <1>3. CASE \E w \in Workers : Crash(w)
    <2> PICK w \in Workers : Crash(w)
      BY <1>3
    <2>1. LetGo(w) /\ RequestOf' = RequestOf /\ deliveries' = deliveries
      BY DEF Crash, RequestOf
    <2>2. CASE inHand[w] \in Tasks /\ pc[w] = "running"
      <3>1. Holds(w, inHand[w])
        BY <2>2 DEF Holds
      <3>2. w \in ServingOf[inHand[w]] /\ ServingOf' = [ServingOf EXCEPT ![inHand[w]] = {}]
        BY <2>1, <2>2, <3>1, ServedByOne, ServingLetGo
      <3>3. Requests!Abandon(inHand[w], w)
        BY <2>1, <3>2 DEF Requests!Abandon
      <3> QED
        BY <2>2, <3>3 DEF Requests!Next
    <2>3. CASE ~(inHand[w] \in Tasks /\ pc[w] = "running")
      <3>1. ServingOf' = ServingOf
        BY <1>0, <2>1, <2>3 DEF LetGo, ServingOf, TypeOK
      <3> QED
        BY <2>1, <3>1
    <2> QED
      BY <2>2, <2>3
  <1>4. CASE \/ \E t \in Tasks : PublishDuplicate(t) \/ Lapse(t)
             \/ RequeueSelect
    BY <1>4 DEF PublishDuplicate, Lapse, RequeueSelect, vars, RequestOf, ServingOf
  <1>5. ~PurgeSelect /\ ~\E t \in Tasks : PurgeRow(t)
    BY DEF PurgeSelect, PurgeRow, PromptInv, BatchIsDead
  <1> QED
    BY <1>1, <1>2, <1>3, <1>4, <1>5

\* A fleet whose keepalives are on time implements the ledger: one worker at
\* a time, closed only by that worker, given up after exactly MaxAttempts.
THEOREM QueueRefinesRequests ==
    ASSUME ~Stalls, ~Purging PROVE Spec => ImplementsRequests
  <1>1. PromptInv /\ [Next]_vars => [Requests!Next]_(Requests!vars)
    <2> SUFFICES ASSUME PromptInv, [Next]_vars
                 PROVE  Requests!Next \/ UNCHANGED <<RequestOf, deliveries, ServingOf>>
      BY DEF Requests!vars
    <2>1. CASE Next
      BY <2>1, LedgerWorker, LedgerOther DEF Next, Requests!Next
    <2>2. CASE UNCHANGED vars
      BY <2>2 DEF vars, RequestOf, ServingOf
    <2> QED
      BY <2>1, <2>2
  <1> QED
    BY LedgerInit, <1>1, PromptHolds, PTL DEF Spec, ImplementsRequests, Requests!Spec
=============================================================================
