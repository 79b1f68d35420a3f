---------------------------- MODULE StatusWatcher ----------------------------
(***************************************************************************)
(* The watchers that guard a deployment or the creation of a topology      *)
(* (pods/status.go with WatchPodStatus, events/status.go with              *)
(* WatchEventStatus): the goroutine that converts what the API server      *)
(* sends into statuses and drops duplicates, the watch loop, and Cleanup   *)
(* called by the operation they guard.                                     *)
(*                                                                         *)
(* A pod is its phase and the states of a container and an init container, *)
(* together with whether it is being deleted; an event is whether its      *)
(* message is fatal, together with when it was created.                    *)
(***************************************************************************)
EXTENDS Naturals, Sequences

CONSTANTS Pods,        \* pods, or the objects events are about
          PodContents,   \* the [phase, main, init] a pod may be seen with
          MaxUpdates   \* bound: updates sent by the API server

ASSUME WatcherAssumption == MaxUpdates \in Nat

VARIABLES
    kind,       \* "pods" or "events": the package
    kube,       \* [Pods -> Content \X Stamp]: what the watch saw last
    sent,       \* updates sent by the API server
    conv,       \* the converting goroutine: "range", "send" or "done"
    item,       \* the status it holds: <<pod, status>>
    seen,       \* [Pods -> status]: seen in WatchPodStatus
    ch,         \* a sequence of <<pod, status>>
    closed,     \* ch is closed
    loop,       \* watch: "select", "record", "cancel", "stop", "ended"
    shown,      \* [Pods -> status]: what the loop was told last
    podStart,   \* [Pods -> "no", "pulling", "overdue"]: podStart against MaxPullTime
    errCh,      \* errors in the channel, and the sender that would block
    wstop,      \* w.wstop is not nil
    stops,      \* calls of the watch's Stop
    ctxDone,
    caller      \* "working", "select" (Cleanup has called stop), "returned"

convVars   == <<kube, sent, conv, item, seen>>
loopVars   == <<loop, shown, podStart, errCh>>
stopVars   == <<wstop, stops>>
vars == <<kind, convVars, ch, closed, loopVars, stopVars, ctxDone, caller>>

ChanCap == 2   \* ch := make(chan *PodStatus, 2)

(* A pod as above; an event's message.  A container is "none", "ready",       *)
(* "running" (not ready yet), "ended", or waiting for a reason: "starting",   *)
(* "pulling" (ErrImagePull), "notfound" (that, with code NotFound) or         *)
(* "backoff".                                                                 *)
Content == IF kind = "pods" THEN PodContents ELSE [message : {"normal", "fatal"}]

(* A pod's DeletionTimestamp; an event's creation against the second in which *)
(* the watch began.                                                           *)
Stamp == IF kind = "pods" THEN {"live", "deleting"} ELSE {"before", "second", "after"}

Unknown == <<[phase |-> "unknown", main |-> "none", init |-> "none"], "unknown">>

NoItem == <<"none", Unknown>>

Nothing == [p \in Pods |-> Unknown]

Init ==
    /\ kind \in {"pods", "events"}
    /\ kube = Nothing /\ sent = 0
    /\ conv = "range" /\ item = NoItem
    /\ seen = Nothing
    /\ ch = <<>> /\ closed = FALSE
    /\ loop = "select"
    /\ shown = Nothing
    /\ podStart = [p \in Pods |-> "no"]
    /\ errCh = 0
    /\ wstop = TRUE /\ stops = 0
    /\ ctxDone = FALSE
    /\ caller = "working"

-----------------------------------------------------------------------------
(* PodToStatus: a container that runs counts as ready, one that waits has     *)
(* its reason.                                                                *)
ContainerStatus(c) == IF c = "running" THEN "ready" ELSE c

PodToStatus(pod) ==
    <<[pod[1] EXCEPT !.main = ContainerStatus(@), !.init = ContainerStatus(@)], pod[2]>>

Status(object) == IF kind = "pods" THEN PodToStatus(object) ELSE object

Containers(s) == {s[1].main, s[1].init} \ {"none"}

(* A pod is ready if it has containers and all of them are.                   *)
Ready(s) == Containers(s) = {"ready"}

(* PodStatus.Equal: the pod's fields, phase and containers, not the raw Pod. *)
Equal(s, t) == s[1] = t[1]

(* Mutation of Dropped: the status is compared with the last one shown. *)
DroppedIfShown(p, s) == IF kind = "pods" THEN Equal(shown[p], s) ELSE s[2] # "after"

(* Duplicates of the pod's last status are dropped, and so are events older   *)
(* than the watch: creation times are whole seconds, initialTimestamp is not, *)
(* so an event of the watch's first second counts as older.                   *)
Dropped(p, s) == IF kind = "pods" THEN Equal(seen[p], s) ELSE s[2] # "after"

(* The deletion of a pod is not taken back. *)
MayFollow(p, object) == kube[p][2] = "deleting" => object[2] = "deleting"

(* An update from the API server is converted, and dropped or kept to be sent. *)
Convert(p, object) ==
    /\ conv = "range" /\ stops = 0 /\ sent < MaxUpdates
    /\ MayFollow(p, object)
    /\ sent' = sent + 1
    /\ kube' = IF object[2] = "before" THEN kube ELSE [kube EXCEPT ![p] = object]
    /\ LET s == Status(object) IN
       IF Dropped(p, s)
       THEN UNCHANGED <<conv, item, seen>>
       ELSE /\ seen' = [seen EXCEPT ![p] = s]
            /\ item' = <<p, s>>
            /\ conv' = "send"
    /\ UNCHANGED <<kind, ch, closed, loopVars, stopVars, ctxDone, caller>>

(* ch <- s *)
Pass ==
    /\ conv = "send" /\ Len(ch) < ChanCap
    /\ ch' = Append(ch, item)
    /\ item' = NoItem
    /\ conv' = "range"
    /\ UNCHANGED <<kind, kube, sent, seen, closed, loopVars, stopVars, ctxDone, caller>>

(* The watch's channel is closed, by Stop, by the context or by the API      *)
(* server: the goroutine closes ch, and seen goes with it.                   *)
ConverterEnds ==
    /\ conv = "range"
    /\ conv' = "done"
    /\ closed' = TRUE
    /\ seen' = Nothing
    /\ kube' = Nothing /\ sent' = 0
    /\ UNCHANGED <<kind, item, ch, loopVars, stopVars, ctxDone, caller>>

ServerEnds == stops = 0 /\ ~ctxDone /\ ConverterEnds
WatchEnds  == (stops > 0 \/ ctxDone) /\ ConverterEnds

-----------------------------------------------------------------------------
(* updatePod's newState: being deleted comes before being ready, and that     *)
(* before the phase.                                                          *)
NewState(s) ==
    CASE s[2] = "deleting" -> "terminating"
      [] s[2] # "deleting" /\ Ready(s) -> "READY"
      [] OTHER -> s[1].phase

(* Whether updatePod goes through the containers, and finds one in state c.   *)
Finds(s, c) == NewState(s) \notin {"terminating", "failed"} /\ c \in Containers(s)

(* updatePod returns false: the pod failed, an image does not exist, or a     *)
(* pull fails and the pod's first one did so more than MaxPullTime ago.       *)
Hopeless(s) == NewState(s) = "failed" \/ Finds(s, "notfound")
UpdatePodFails(p, s) == Hopeless(s) \/ (Finds(s, "pulling") /\ podStart[p] = "overdue")

(* isEventNormal: the message contains none of errorMsgs. *)
IsEventNormal(s) == s[1].message # "fatal"

Fails(p, s) == IF kind = "pods" THEN UpdatePodFails(p, s) ELSE ~IsEventNormal(s)

(* The watch loop takes a status; a pod's first failed pull starts its clock. *)
Handle ==
    /\ loop = "select" /\ ch # <<>>
    /\ ch' = Tail(ch)
    /\ LET p == Head(ch)[1]
           s == Head(ch)[2]
       IN  /\ shown' = [shown EXCEPT ![p] = s]
           /\ loop' = IF Fails(p, s) THEN "record" ELSE "select"
           /\ podStart' = IF kind = "pods" /\ Finds(s, "pulling") /\ podStart[p] = "no"
                          THEN [podStart EXCEPT ![p] = "pulling"] ELSE podStart
    /\ UNCHANGED <<kind, convVars, closed, errCh, stopVars, ctxDone, caller>>

(* MaxPullTime passes since a pod's first failed pull. *)
PullOverdue(p) ==
    /\ podStart[p] = "pulling"
    /\ podStart' = [podStart EXCEPT ![p] = "overdue"]
    /\ UNCHANGED <<kind, convVars, ch, closed, loop, shown, errCh, stopVars, ctxDone, caller>>

(* Mutation of Record: the context is cancelled first. *)
RecordAfterCancel ==
    /\ loop = "record"
    /\ loop' = "cancel"
    /\ ctxDone' = TRUE
    /\ UNCHANGED <<kind, convVars, ch, closed, shown, podStart, errCh, stopVars, caller>>

(* w.errCh <- err *)
Record ==
    /\ loop = "record"
    /\ loop' = "cancel"
    /\ errCh' = errCh + 1
    /\ UNCHANGED <<kind, convVars, ch, closed, shown, podStart, stopVars, ctxDone, caller>>

(* The loop returns; what it has been told is gone. *)
Return ==
    /\ loop' = "stop"
    /\ shown' = Nothing
    /\ podStart' = [p \in Pods |-> "no"]

(* w.cancel(), and the loop returns. *)
Cancel ==
    /\ loop = "cancel"
    /\ Return
    /\ ctxDone' = TRUE
    /\ UNCHANGED <<kind, convVars, ch, closed, errCh, stopVars, caller>>

(* ch is closed and empty, or the context has ended (select picks either). *)
LoopReturns ==
    /\ loop = "select"
    /\ ctxDone \/ (closed /\ ch = <<>>)
    /\ Return
    /\ UNCHANGED <<kind, convVars, ch, closed, errCh, stopVars, ctxDone, caller>>

(* Mutation of Stop: wstop is not taken. *)
StopAgain ==
    /\ stops' = stops + 1
    /\ wstop' = wstop

(* stop: whoever takes wstop calls it. *)
Stop ==
    /\ stops' = IF wstop THEN stops + 1 ELSE stops
    /\ wstop' = FALSE

LoopStops ==
    /\ loop = "stop"
    /\ loop' = "ended"
    /\ Stop
    /\ UNCHANGED <<kind, convVars, ch, closed, shown, podStart, errCh, ctxDone, caller>>

-----------------------------------------------------------------------------
(* The guarded operation is over, or its context ends from outside. *)
CallerCancels ==
    /\ caller = "working" /\ ~ctxDone
    /\ ctxDone' = TRUE
    /\ UNCHANGED <<kind, convVars, ch, closed, loopVars, stopVars, caller>>

(* Cleanup: stop, then a select on errCh that does not wait. *)
CleanupStops ==
    /\ caller = "working"
    /\ caller' = "select"
    /\ Stop
    /\ UNCHANGED <<kind, convVars, ch, closed, loopVars, ctxDone>>

CleanupReturns ==
    /\ caller = "select"
    /\ caller' = "returned"
    /\ errCh' = IF errCh > 0 THEN errCh - 1 ELSE 0
    /\ UNCHANGED <<kind, convVars, ch, closed, loop, shown, podStart, stopVars, ctxDone>>

-----------------------------------------------------------------------------
LoopStep == Handle \/ Record \/ Cancel \/ LoopReturns \/ LoopStops

Next ==
    \/ \E p \in Pods, object \in Content \X Stamp : Convert(p, object)
    \/ Pass \/ ServerEnds \/ WatchEnds
    \/ LoopStep
    \/ \E p \in Pods : PullOverdue(p)
    \/ CallerCancels \/ CleanupStops \/ CleanupReturns

(* The goroutines run; the caller always gets to Cleanup, which it deferred. *)
Fairness ==
    /\ WF_vars(Pass \/ WatchEnds) /\ WF_vars(LoopStep)
    /\ WF_vars(CleanupStops \/ CleanupReturns)

Spec == Init /\ [][Next]_vars /\ Fairness

-----------------------------------------------------------------------------
CaughtUpNow == conv = "range" /\ ch = <<>> /\ loop = "select"

(* Dropping duplicates loses no change that matters: when nothing is in       *)
(* between, the loop was told the phase and the containers that every pod has *)
(* now, and no pod is left that has failed or whose image does not exist.     *)
CaughtUp ==
    kind = "pods" /\ CaughtUpNow =>
        \A p \in Pods : LET s == PodToStatus(kube[p]) IN Equal(shown[p], s) /\ ~Hopeless(s)

(* The loop exits once the operation is over, whatever it was doing then, and *)
(* the watch has been stopped once, although both the loop's defer and        *)
(* Cleanup stop it.                                                           *)
WatcherExits == <>[](loop = "ended" /\ stops = 1)

(* The watcher keeps the promise the operations rely on. *)
Guard == INSTANCE FailureWatch WITH
             phase <- CASE loop \in {"select", "record"} -> "watching"
                        [] loop = "cancel" -> "recorded"
                        [] OTHER -> "ended",
             box <- errCh > 0
GuardKept == Guard!AbsSpec
=============================================================================
