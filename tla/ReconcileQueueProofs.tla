------------------------ MODULE ReconcileQueueProofs ------------------------
(***************************************************************************)
(* Proofs about ReconcileQueue, for any set of pods.                       *)
(*                                                                         *)
(* NoLostWakeUp is not inductive alone: that Enqueue may skip arming when  *)
(* rq.timer # nil is sound only because a non-nil timer always has its     *)
(* wake-up under way.  The inductive invariant adds this (OneWakeUp) and   *)
(* that requests only exist while the timer is non-nil.                    *)
(***************************************************************************)
EXTENDS ReconcileQueue, TLAPS

RequestsArmTimer == (pending # {} \/ fullPending) => timer

KeysOnlyWhileDraining == worker # "keys" => keys = {}

IInv == TypeOK /\ OneWakeUp /\ RequestsArmTimer /\ KeysOnlyWhileDraining

(* The initial queue of NewReconcileQueue satisfies the invariant. *)
LEMMA InitIInv == Init => IInv
<1> SUFFICES ASSUME Init PROVE IInv
    OBVIOUS
<1>1. ~timer /\ ~fullPending /\ ~ctxDone
    BY Zenon DEF Init
<1>2. fullPending \in BOOLEAN /\ timer \in BOOLEAN /\ ctxDone \in BOOLEAN
    BY Zenon DEF Init
<1> QED
    BY <1>1, <1>2 DEF Init, IInv, TypeOK, OneWakeUp, WakeUps, RequestsArmTimer,
                      KeysOnlyWhileDraining, WorkerStates

(* Every step of an enqueuer, the timer, the worker or the daemon's shutdown *)
(* keeps the invariant.                                                      *)
LEMMA StepIInv == IInv /\ [Next]_vars => IInv'
<1> SUFFICES ASSUME IInv, [Next]_vars PROVE IInv'
    OBVIOUS
<1> USE DEF IInv, TypeOK, OneWakeUp, WakeUps, RequestsArmTimer,
            KeysOnlyWhileDraining, WorkerStates, queueVars
<1>1. ASSUME NEW k \in Keys, Enqueue(k) PROVE IInv'
    BY <1>1 DEF Enqueue, ArmTimer
<1>2. CASE EnqueueFull
    BY <1>2 DEF EnqueueFull, ArmTimer
<1>3. CASE TimerFires
    BY <1>3 DEF TimerFires
<1>4. CASE Receive
    BY <1>4 DEF Receive
<1>5. CASE Drain
  <2>1. ~timer' /\ ~fullPending' /\ timer' \in BOOLEAN /\ fullPending' \in BOOLEAN
      BY <1>5, Zenon DEF Drain
  <2>2. TypeOK' /\ RequestsArmTimer' /\ KeysOnlyWhileDraining'
      BY <1>5, <2>1 DEF Drain
  <2>3. WakeUps' = WakeUps - 1
      BY <1>5 DEF Drain
  <2>4. OneWakeUp'
      BY <1>5, <2>1, <2>3 DEF Drain
  <2> QED
      BY <2>2, <2>4
<1>6. CASE ReconcileAll
    BY <1>6 DEF ReconcileAll
<1>7. ASSUME NEW k \in Keys, ReconcileKey(k) PROVE IInv'
    BY <1>7 DEF ReconcileKey
<1>8. CASE KeysDone
    BY <1>8 DEF KeysDone
<1>9. CASE Cancel
    BY <1>9 DEF Cancel
<1>10. CASE WorkerStops
    BY <1>10 DEF WorkerStops
<1>11. CASE UNCHANGED vars
    BY <1>11 DEF vars, workerVars
<1> QED
    BY <1>1, <1>2, <1>3, <1>4, <1>5, <1>6, <1>7, <1>8, <1>9, <1>10, <1>11
    DEF Next, WorkerStep

(* The invariant holds in every reachable state of the queue. *)
THEOREM Invariant == Spec => []IInv
<1>1. Init => IInv
    BY InitIInv
<1>2. IInv /\ [Next]_vars => IInv'
    BY StepIInv
<1> QED
    BY <1>1, <1>2, PTL DEF Spec

(* rq.timer # nil is exactly "one wake-up is under way". *)
THEOREM WakeUpsCounted == Spec => []OneWakeUp
<1>1. IInv => OneWakeUp
    BY DEF IInv
<1> QED
    BY <1>1, Invariant, PTL

(* Requested work always has a wake-up under way. *)
THEOREM WakeUpsKept == Spec => []NoLostWakeUp
<1>1. IInv => NoLostWakeUp
    BY DEF IInv, TypeOK, OneWakeUp, RequestsArmTimer, NoLostWakeUp, WakeUps
<1> QED
    BY <1>1, Invariant, PTL

(* The timer's callback never finds the channel full. *)
THEOREM NotifyNeverDropped == Spec => []NoDroppedNotify
<1>1. IInv => NoDroppedNotify
    BY DEF IInv, TypeOK, OneWakeUp, NoDroppedNotify, WakeUps
<1> QED
    BY <1>1, Invariant, PTL

(* The queue implements its abstract specification: a request stays due      *)
(* until the pod is read after it.                                           *)
THEOREM QueueKeepsRequests == Spec => RequestsKept
<1>1. Init => Requests!AbsInit
    BY DEF Init, Requests!AbsInit, Due
<1>2. IInv /\ [Next]_vars => [Requests!AbsNext]_(Requests!absVars)
  <2> SUFFICES ASSUME IInv, [Next]_vars
               PROVE  [Requests!AbsNext]_(Requests!absVars)
      OBVIOUS
  <2> USE DEF IInv, TypeOK, WorkerStates, KeysOnlyWhileDraining, Due, queueVars,
              Requests!AbsNext, Requests!Request, Requests!Serve, Requests!absVars
  <2>1. ASSUME NEW k \in Keys, Enqueue(k) PROVE Requests!Request
      BY <2>1 DEF Enqueue
  <2>2. CASE EnqueueFull
      BY <2>2 DEF EnqueueFull
  <2>3. CASE TimerFires
      BY <2>3 DEF TimerFires
  <2>4. CASE Receive
      BY <2>4 DEF Receive
  <2>5. CASE Drain
      BY <2>5 DEF Drain
  <2>6. CASE ReconcileAll
      BY <2>6 DEF ReconcileAll
  <2>7. ASSUME NEW k \in Keys, ReconcileKey(k) PROVE Requests!Serve
      BY <2>7 DEF ReconcileKey
  <2>8. CASE KeysDone
      BY <2>8 DEF KeysDone
  <2>9. CASE Cancel
      BY <2>9 DEF Cancel
  <2>10. CASE WorkerStops
      BY <2>10 DEF WorkerStops
  <2>11. CASE UNCHANGED vars
      BY <2>11 DEF vars, workerVars
  <2> QED
      BY <2>1, <2>2, <2>3, <2>4, <2>5, <2>6, <2>7, <2>8, <2>9, <2>10, <2>11
      DEF Next, WorkerStep
<1> QED
    BY <1>1, <1>2, Invariant, PTL DEF Spec, RequestsKept, Requests!AbsSpec
=============================================================================
