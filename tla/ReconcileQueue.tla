--------------------------- MODULE ReconcileQueue ---------------------------
(***************************************************************************)
(* The debounced work queue of meshnetd (third_party/meshnet/daemon/       *)
(* meshnet/controller.go): ReconcileQueue with its AfterFunc timer and its *)
(* notification channel of capacity one, and the single goroutine          *)
(* runReconcileWorker that drains it.                                      *)
(*                                                                         *)
(* Any goroutine of the daemon may enqueue at any time: the informer's     *)
(* handlers enqueue single pods, SetAlive and the resync enqueue a full    *)
(* pass.  The timer's callback is a goroutine of its own, so it runs at    *)
(* any time after the timer was armed.                                     *)
(***************************************************************************)
EXTENDS Naturals

CONSTANT Keys           \* the pods, "namespace/name"

VARIABLES
    pending,            \* rq.pending: requested pods
    fullPending,        \* rq.fullPending
    timer,              \* rq.timer # nil
    callbacks,          \* AfterFunc callbacks armed and not run yet
    notifyChan,         \* notifications buffered in rq.notifyChan (capacity 1)
    worker,             \* where runReconcileWorker is
    keys,               \* drained pods the worker has not read yet
    read,               \* pods whose Topology the last step asked for
    ctxDone             \* the daemon's context is cancelled

queueVars  == <<pending, fullPending, timer, callbacks, notifyChan>>
workerVars == <<worker, keys, read>>
vars == <<queueVars, workerVars, ctxDone>>

WorkerStates == {"select", "drain", "full", "keys", "stopped"}

(* NewReconcileQueue, and the worker at its select. *)
Init ==
    /\ pending = {}
    /\ fullPending = FALSE
    /\ timer = FALSE
    /\ callbacks = 0
    /\ notifyChan = 0
    /\ worker = "select"
    /\ keys = {}
    /\ read = {}
    /\ ctxDone = FALSE

(* Mutation of ArmTimer: no timer is armed while a notification is buffered. *)
ArmTimerUnlessNotified ==
    /\ timer' = TRUE
    /\ callbacks' = IF timer \/ notifyChan = 1 \/ worker # "select" THEN callbacks ELSE callbacks + 1

(* A timer is only created when rq.timer is nil. *)
ArmTimer ==
    /\ timer' = TRUE
    /\ callbacks' = IF timer THEN callbacks ELSE callbacks + 1

Enqueue(key) ==
    /\ pending' = pending \cup {key}
    /\ ArmTimer
    /\ read' = {}
    /\ UNCHANGED <<fullPending, notifyChan, worker, keys, ctxDone>>

EnqueueFull ==
    /\ fullPending' = TRUE
    /\ ArmTimer
    /\ read' = {}
    /\ UNCHANGED <<pending, notifyChan, worker, keys, ctxDone>>

(* The callback's select: send, or drop the notification if one is buffered. *)
TimerFires ==
    /\ callbacks > 0
    /\ callbacks' = callbacks - 1
    /\ notifyChan' = 1
    /\ read' = {}
    /\ UNCHANGED <<pending, fullPending, timer, worker, keys, ctxDone>>

(* The worker's select takes the notification; it does not hold rq.mu yet. *)
Receive ==
    /\ worker = "select"
    /\ notifyChan = 1
    /\ notifyChan' = 0
    /\ worker' = "drain"
    /\ read' = {}
    /\ UNCHANGED <<pending, fullPending, timer, callbacks, keys, ctxDone>>

(* Mutation of Drain: rq.timer is not forgotten. *)
DrainKeepsTimer ==
    /\ worker = "drain"
    /\ pending' = {}
    /\ fullPending' = FALSE
    /\ worker' = IF fullPending THEN "full" ELSE "keys"
    /\ keys' = IF fullPending THEN {} ELSE pending
    /\ read' = {}
    /\ UNCHANGED <<timer, callbacks, notifyChan, ctxDone>>

(* Mutation of Drain: the drained keys are dropped when the pass is targeted. *)
DrainForgetsKeys ==
    /\ worker = "drain"
    /\ pending' = {}
    /\ fullPending' = FALSE
    /\ timer' = FALSE
    /\ worker' = IF fullPending THEN "full" ELSE "keys"
    /\ keys' = {}
    /\ read' = {}
    /\ UNCHANGED <<callbacks, notifyChan, ctxDone>>

(* Drain empties the queue under rq.mu; a full pass ignores the drained keys. *)
Drain ==
    /\ worker = "drain"
    /\ pending' = {}
    /\ fullPending' = FALSE
    /\ timer' = FALSE
    /\ worker' = IF fullPending THEN "full" ELSE "keys"
    /\ keys' = IF fullPending THEN {} ELSE pending
    /\ read' = {}
    /\ UNCHANGED <<callbacks, notifyChan, ctxDone>>

(* A full pass lists every Topology at once and reconciles the local ones. *)
(* A list that fails is logged and is the end of the pass all the same.    *)
ReconcileAll ==
    /\ worker = "full"
    /\ worker' = "select"
    /\ read' = Keys
    /\ UNCHANGED <<queueVars, keys, ctxDone>>

(* A targeted pass reads (getPod) and reconciles one drained pod at a time. *)
(* One that cannot be read is logged and passed over.                       *)
ReconcileKey(key) ==
    /\ worker = "keys"
    /\ key \in keys
    /\ keys' = keys \ {key}
    /\ read' = {key}
    /\ UNCHANGED <<queueVars, worker, ctxDone>>

KeysDone ==
    /\ worker = "keys"
    /\ keys = {}
    /\ worker' = "select"
    /\ read' = {}
    /\ UNCHANGED <<queueVars, keys, ctxDone>>

Cancel ==
    /\ ~ctxDone
    /\ ctxDone' = TRUE
    /\ read' = {}
    /\ UNCHANGED <<queueVars, worker, keys>>

(* The select may also take ctx.Done, even with a notification buffered. *)
WorkerStops ==
    /\ ctxDone
    /\ worker = "select"
    /\ worker' = "stopped"
    /\ read' = {}
    /\ UNCHANGED <<queueVars, keys, ctxDone>>

WorkerStep ==
    Receive \/ Drain \/ ReconcileAll \/ (\E k \in Keys : ReconcileKey(k))
            \/ KeysDone \/ WorkerStops

Next ==
    \/ \E k \in Keys : Enqueue(k)
    \/ EnqueueFull
    \/ TimerFires
    \/ WorkerStep
    \/ Cancel

Spec == Init /\ [][Next]_vars

(* The Go runtime runs an expired timer and a runnable goroutine. *)
Fairness == WF_vars(TimerFires) /\ WF_vars(WorkerStep)

FairSpec == Spec /\ Fairness

-----------------------------------------------------------------------------
TypeOK ==
    /\ pending \subseteq Keys
    /\ fullPending \in BOOLEAN
    /\ timer \in BOOLEAN
    /\ callbacks \in 0..1
    /\ notifyChan \in 0..1
    /\ worker \in WorkerStates
    /\ keys \subseteq Keys
    /\ read \subseteq Keys
    /\ ctxDone \in BOOLEAN

(* How many wake-ups are on their way to a Drain. *)
WakeUps == callbacks + notifyChan + (IF worker = "drain" THEN 1 ELSE 0)

(* rq.timer # nil is exactly "one wake-up is under way": the callback is    *)
(* armed, or its notification is buffered, or the worker has taken it and   *)
(* is about to Drain.  Enqueue relies on this when it does not arm a second *)
(* timer (controller.go:646), Drain when it forgets the timer (:691).       *)
OneWakeUp == WakeUps = IF timer THEN 1 ELSE 0

(* Requested work always has a wake-up under way, whatever the interleaving *)
(* of Enqueue, the timer's callback, the receive and Drain.                 *)
NoLostWakeUp == (pending # {} \/ fullPending) => WakeUps > 0

(* The default branch of the callback's select (controller.go:650) is never *)
(* the one taken: no callback runs while a notification is still buffered.  *)
NoDroppedNotify == callbacks > 0 => notifyChan = 0

(* The pods that still have to be read. *)
Due == IF fullPending \/ worker = "full" THEN Keys ELSE pending \cup keys

Requests == INSTANCE ReconcileRequests WITH due <- Due

(* No step but the worker's reads takes a pod off the queue: coalescing, a  *)
(* full pass that swallows the drained keys, and the unlocked gap between   *)
(* receive and Drain lose no request.                                       *)
RequestsKept == Requests!AbsSpec

(* Every requested pod is asked for after its request, unless the daemon    *)
(* stops, even if other requests never cease.  Whether that succeeds is     *)
(* not the queue's: there is one attempt for a request, and the next is     *)
(* that of the resync or of another event.                                  *)
EveryRequestRead ==
    \A k \in Keys : (k \in Due) ~> (k \in read \/ ctxDone)
=============================================================================
