----------------------------- MODULE Deployment -----------------------------
(***************************************************************************)
(* Deployment.Deploy (deploy/deploy.go): the cluster is brought up, the    *)
(* pod and event watchers are started, and then the ingress (MetalLB), the *)
(* CNI (Meshnet) and the controllers are deployed concurrently in an       *)
(* errgroup under an overall timeout, each waiting for its own workload    *)
(* under a health budget of its own. The watchers are used through what    *)
(* FailureWatch promises.                                                  *)
(***************************************************************************)
EXTENDS Naturals, Sequences, FiniteSets

CONSTANTS Components,   \* the components that are configured
          Ingress,      \* the MetalLB component
          CNI,          \* the Meshnet component
          ConfigMaps,   \* the controllers that apply a second manifest (IxiaTG)
          PoolRetries,  \* retries of the address pool's creation (5 in the code)
          MaxWatchers   \* bound: watchers that start

ASSUME DeploymentAssumption ==
    /\ Ingress # CNI /\ Ingress \notin ConfigMaps /\ CNI \notin ConfigMaps
    /\ PoolRetries \in Nat /\ MaxWatchers \in 0..2

(* What each component's Deploy does. *)
MetalLBStages == <<"kubectl", "secret", "wait", "pool", "advert">>
IxiaTGStages == <<"kubectl", "kubectl">>   \* with a config map
OperatorStages == <<"kubectl">>            \* the other controllers, and Meshnet
Stages(c) == IF c = Ingress THEN MetalLBStages
             ELSE IF c \in ConfigMaps THEN IxiaTGStages
             ELSE OperatorStages

(* A workload and its status: "created" when the counts of the status are    *)
(* still zero, "stale" when they are those of an earlier deployment whose    *)
(* manifest was another one.  That of a component that has failed is not     *)
(* followed any further.                                                     *)
Rollouts == {"absent", "created", "stale", "rolling", "ready", "any"}

(* The reasons componentErr tells apart, and how a component ended. *)
NoErr == [by |-> "none", kind |-> "none"]

VARIABLES
    step,       \* Deploy: "setup", "pods", "events", "components", "cancelEvents",
                \* "cleanEvents", "cancelPods", "cleanPods", "done"
    comp,       \* [Components -> "idle", "deploy", "watch", "health", "fails",
                \*  "unhealthy", "explained", "failed", "ok"]: its goroutine
    stage,      \* [Components -> Nat]: index of its stage
    retries,    \* retries left in the ingress's pool creation
    hung,       \* components whose kubectl never returns
    workload,   \* [Components -> Rollouts]
    early,      \* components whose health watch opened with a healthy status
                \* that was not computed for the manifest applied
    budget,     \* [Components -> BOOLEAN]: its health context's deadline passed
    cause,      \* [Components -> "none", "own", "context"]: why its call failed
    err,        \* [Components -> kind]: what componentErr made of it
    deadline,   \* dCtx's deadline passed before its parent was cancelled
    groupErr,   \* the error errgroup recorded
    result,     \* rerr
    callerDone, \* Deploy's caller cancelled the context
    ctxDone, podPhase, podBox, evPhase, evBox

compVars  == <<comp, stage, retries, hung, workload, early, budget, cause, err>>
watchVars == <<ctxDone, podPhase, podBox, evPhase, evBox>>
vars == <<step, compVars, deadline, groupErr, result, callerDone, watchVars>>

PodWatch   == INSTANCE FailureWatch WITH phase <- podPhase, box <- podBox
EventWatch == INSTANCE FailureWatch WITH phase <- evPhase, box <- evBox
podVars == <<podPhase, podBox>>
evVars  == <<evPhase, evBox>>

Init ==
    /\ step = "setup"
    /\ comp = [c \in Components |-> "idle"]
    /\ stage = [c \in Components |-> 1]
    /\ retries = PoolRetries
    /\ hung = {}
    /\ workload \in [Components -> {"absent", "ready"}]
    /\ early = {}
    /\ budget = [c \in Components |-> FALSE]
    /\ cause = [c \in Components |-> "none"]
    /\ err = [c \in Components |-> "none"]
    /\ deadline = FALSE
    /\ groupErr = NoErr /\ result = NoErr
    /\ callerDone = FALSE /\ ctxDone = FALSE
    /\ PodWatch!Off /\ EventWatch!Off

-----------------------------------------------------------------------------
(* The contexts: dCtx has a timeout, gCtx ends with it or with the first     *)
(* error, hCtx ends with gCtx or when the component's budget is spent.       *)
OverallDone == ctxDone \/ deadline

(* Mutation of GroupDone: the group is derived from the caller's context. *)
GroupDoneIgnoresDeadline == ctxDone \/ groupErr # NoErr

GroupDone == OverallDone \/ groupErr # NoErr
OwnDone(c) == GroupDone \/ budget[c]

(* Everything before the watchers; any of it may fail and end Deploy. *)
Setup ==
    /\ step = "setup"
    /\ \/ step' = "pods" /\ result' = result
       \/ step' = "done" /\ result' = [by |-> "deploy", kind |-> "own"]
    /\ UNCHANGED <<compVars, deadline, groupErr, callerDone, watchVars>>

StartPodWatcher ==
    /\ step = "pods" /\ step' = "events"
    /\ PodWatch!Start
    /\ MaxWatchers = 0 => podPhase' = "off"
    /\ UNCHANGED <<compVars, deadline, groupErr, result, callerDone, evVars>>

(* The event watcher is started, and then every component's goroutine. *)
StartEventWatcher ==
    /\ step = "events" /\ step' = "components"
    /\ EventWatch!Start
    /\ MaxWatchers < (IF podPhase = "off" THEN 1 ELSE 2) => evPhase' = "off"
    /\ comp' = [c \in Components |-> "deploy"]
    /\ UNCHANGED <<stage, retries, hung, workload, early, budget, cause, err,
                   deadline, groupErr, result, callerDone, podVars>>

-----------------------------------------------------------------------------
rest == <<step, deadline, groupErr, result, callerDone, watchVars>>

AtStage(c, s) == comp[c] = "deploy" /\ Stages(c)[stage[c]] = s

(* The component's Deploy is over. *)
Deployed(c) ==
    /\ comp' = [comp EXCEPT ![c] = "watch"]
    /\ stage' = [stage EXCEPT ![c] = 1]

(* The stage is over: the next one, or the component's health. *)
Advance(c) ==
    IF stage[c] = Len(Stages(c))
    THEN Deployed(c)
    ELSE /\ stage' = [stage EXCEPT ![c] = @ + 1]
         /\ comp' = comp

(* A call of c fails, because of the context or for a reason of its own. *)
Fails(c, why) ==
    /\ comp' = [comp EXCEPT ![c] = IF @ = "deploy" THEN "fails" ELSE "unhealthy"]
    /\ stage' = [stage EXCEPT ![c] = 1]
    /\ cause' = [cause EXCEPT ![c] = why]
    /\ workload' = [workload EXCEPT ![c] = "any"]
    /\ early' = early \ {c}

(* The API server's part of an apply: a workload is created, left as it is   *)
(* or changed, and its status is not touched.                                *)
Applied(w) ==
    CASE w = "absent" -> {"created"}
      [] w = "ready"  -> {"ready", "stale"}
      [] OTHER -> {w}

(* kubectl apply ends: it is not bound to the context. *)
KubectlApplies(c) ==
    /\ AtStage(c, "kubectl") /\ c \notin hung
    /\ \E w \in Applied(workload[c]) : workload' = [workload EXCEPT ![c] = w]
    /\ Advance(c)
    /\ UNCHANGED <<retries, hung, early, budget, cause, err, rest>>

KubectlFails(c) ==
    /\ AtStage(c, "kubectl") /\ c \notin hung
    /\ Fails(c, "own")
    /\ UNCHANGED <<retries, hung, budget, err, rest>>

KubectlHangs(c) ==
    /\ AtStage(c, "kubectl")
    /\ hung' = hung \cup {c}
    /\ UNCHANGED <<comp, stage, retries, workload, early, budget, cause, err, rest>>

(* The memberlist secret, and the layer 2 advertisement: calls bound to the  *)
(* context.                                                                  *)
ApiCall(c) ==
    /\ AtStage(c, "secret") \/ AtStage(c, "advert")
    /\ \/ ~GroupDone /\ Advance(c) /\ UNCHANGED <<workload, early, cause>>
       \/ ~GroupDone /\ Fails(c, "own")
       \/ GroupDone /\ Fails(c, "context")
    /\ UNCHANGED <<retries, hung, budget, err, rest>>


(* deploymentHealthy compares the counts of the status with the replicas the *)
(* specification asks for, MeshnetSpec.Healthy the ready count of a          *)
(* DaemonSet with the desired one, which are both zero in a new status.      *)
(* Neither asks which generation the status was computed for.                *)
LooksHealthy(c, w) == w \in {"ready", "stale"} \/ (c = CNI /\ w = "created")

(* MetalLB's Deploy waits for its own workload, without a budget, until the  *)
(* context ends or the API server closes the watch.                          *)
WaitReady(c) ==
    /\ AtStage(c, "wait")
    /\ \/ LooksHealthy(c, workload[c]) /\ Advance(c) /\ UNCHANGED <<workload, early, cause>>
       \/ GroupDone /\ Fails(c, "context")
    /\ UNCHANGED <<retries, hung, budget, err, rest>>

WaitBreaks(c) ==
    /\ AtStage(c, "wait") /\ ~GroupDone
    /\ Fails(c, "own")
    /\ UNCHANGED <<retries, hung, budget, err, rest>>

(* The pool is there already (Deploy ends), is created, or its creation      *)
(* fails and is tried again until the retries are spent; docker may have no  *)
(* network for it.                                                           *)
CreatePool(c) ==
    /\ AtStage(c, "pool")
    /\ \/ ~GroupDone /\ retries = PoolRetries /\ Deployed(c)
          /\ UNCHANGED <<retries, workload, early, cause>>
       \/ ~GroupDone /\ Advance(c) /\ retries' = PoolRetries
          /\ UNCHANGED <<workload, early, cause>>
       \/ retries > 0 /\ retries' = retries - 1
          /\ UNCHANGED <<comp, stage, workload, early, cause>>
       \/ retries \in {0, PoolRetries} /\ retries' = PoolRetries
          /\ Fails(c, IF GroupDone THEN "context" ELSE "own")
    /\ UNCHANGED <<hung, budget, err, rest>>

(* Healthy opens a watch, which first sends the present status. *)
OpenHealthWatch(c) ==
    /\ comp[c] = "watch"
    /\ \/ /\ ~OwnDone(c)
          /\ comp' = [comp EXCEPT ![c] = "health"]
          /\ early' = IF workload[c] \in {"created", "stale"} /\ LooksHealthy(c, workload[c])
                      THEN early \cup {c} ELSE early
          /\ UNCHANGED <<stage, workload, cause>>
       \/ OwnDone(c) /\ Fails(c, "context")
       \/ ~OwnDone(c) /\ Fails(c, "own")
    /\ UNCHANGED <<retries, hung, budget, err, rest>>

(* The watch has sent a status that looks healthy. *)
HealthReturns(c) ==
    /\ comp[c] = "health"
    /\ LooksHealthy(c, workload[c]) \/ c \in early
    /\ comp' = [comp EXCEPT ![c] = "ok"]
    /\ UNCHANGED <<stage, retries, hung, workload, early, budget, cause, err, rest>>

(* The context ended, or the API server closed the watch. *)
HealthFails(c) ==
    /\ comp[c] = "health"
    /\ Fails(c, IF OwnDone(c) THEN "context" ELSE "own")
    /\ UNCHANGED <<retries, hung, budget, err, rest>>

(* Mutation of ComponentErr: the group is not looked at. *)
ComponentErrPlain(c) ==
    IF deadline THEN "timeout"
    ELSE IF budget[c] THEN "unhealthy"
    ELSE "own"

(* componentErr, in the order of its cases. *)
ComponentErr(c) ==
    IF deadline THEN "timeout"
    ELSE IF budget[c] THEN "unhealthy"
    ELSE IF GroupDone THEN "abandoned"
    ELSE "own"

Explain(c) ==
    /\ comp[c] \in {"fails", "unhealthy"}
    /\ comp' = [comp EXCEPT ![c] = "explained"]
    /\ err' = [err EXCEPT ![c] = ComponentErr(c)]
    /\ UNCHANGED <<stage, retries, hung, workload, early, budget, cause, rest>>

(* errgroup keeps the first error, which cancels gCtx; the others are lost. *)
Report(c) ==
    /\ comp[c] = "explained"
    /\ comp' = [comp EXCEPT ![c] = "failed"]
    /\ IF groupErr = NoErr
       THEN /\ groupErr' = [by |-> c, kind |-> err[c]]
            /\ UNCHANGED <<cause, err>>
       ELSE /\ groupErr' = groupErr
            /\ cause' = [cause EXCEPT ![c] = "none"]
            /\ err' = [err EXCEPT ![c] = "none"]
    /\ UNCHANGED <<stage, retries, hung, workload, early, budget,
                   step, deadline, result, callerDone, watchVars>>

(* A workload rolls out, or never does; followed while its component runs. *)
Rollout(c) ==
    /\ comp[c] \in {"deploy", "watch", "health"}
    /\ \/ workload[c] \in {"created", "stale"} /\ workload' = [workload EXCEPT ![c] = "rolling"]
       \/ workload[c] = "rolling" /\ workload' = [workload EXCEPT ![c] = "ready"]
    /\ UNCHANGED <<comp, stage, retries, hung, early, budget, cause, err, rest>>

(* The component's health budget is spent. *)
HealthExpires(c) ==
    /\ comp[c] \in {"watch", "health", "unhealthy"} /\ ~OwnDone(c)
    /\ budget' = [budget EXCEPT ![c] = TRUE]
    /\ UNCHANGED <<comp, stage, retries, hung, workload, early, cause, err, rest>>

-----------------------------------------------------------------------------
(* The overall timeout, from deployComponents' start to its return. *)
DeadlinePasses ==
    /\ step = "components" /\ ~OverallDone
    /\ deadline' = TRUE
    /\ UNCHANGED <<step, compVars, groupErr, result, callerDone, watchVars>>

(* g.Wait: every goroutine has returned. *)
GroupWait ==
    /\ step = "components"
    /\ \A c \in Components : comp[c] \in {"ok", "failed"}
    /\ step' = "cancelEvents"
    /\ result' = groupErr
    /\ UNCHANGED <<compVars, deadline, groupErr, callerDone, watchVars>>

(* The deferred functions, last one first: cancel, if there is a watcher. *)
CancelContext(w, next) ==
    /\ step = w /\ step' = next
    /\ ctxDone' = (ctxDone \/ (IF w = "cancelEvents" THEN evPhase ELSE podPhase) # "off")
    /\ UNCHANGED <<compVars, deadline, groupErr, result, callerDone, podVars, evVars>>

(* Cleanup returns the watcher's error, or the one it was given. *)
Cleaned(box, w) == IF box THEN [by |-> w, kind |-> "watcher"] ELSE result

CleanEvents ==
    /\ step = "cleanEvents" /\ step' = "cancelPods"
    /\ result' = Cleaned(evBox, "events")
    /\ EventWatch!Cleanup
    /\ UNCHANGED <<compVars, deadline, groupErr, callerDone, podVars>>

CleanPods ==
    /\ step = "cleanPods" /\ step' = "done"
    /\ result' = Cleaned(podBox, "pods")
    /\ PodWatch!Cleanup
    /\ UNCHANGED <<compVars, deadline, groupErr, callerDone, evVars>>

-----------------------------------------------------------------------------
(* The watchers, until Deploy returns, and the caller. *)
PodWatcher ==
    /\ step # "done"
    /\ PodWatch!Record \/ PodWatch!Cancel \/ PodWatch!End
    /\ UNCHANGED <<step, compVars, deadline, groupErr, result, callerDone, evVars>>

EventWatcher ==
    /\ step # "done"
    /\ EventWatch!Record \/ EventWatch!Cancel \/ EventWatch!End
    /\ UNCHANGED <<step, compVars, deadline, groupErr, result, callerDone, podVars>>

CallerCancels ==
    /\ ~callerDone /\ ~ctxDone /\ step # "done"
    /\ callerDone' = TRUE
    /\ PodWatch!ContextEnds
    /\ UNCHANGED <<step, compVars, deadline, groupErr, result, evVars>>

ComponentStep(c) ==
    \/ KubectlApplies(c) \/ KubectlFails(c) \/ ApiCall(c) \/ WaitReady(c) \/ CreatePool(c)
    \/ OpenHealthWatch(c) \/ HealthReturns(c)
    \/ Explain(c) \/ Report(c)

MainStep == Setup \/ StartPodWatcher \/ StartEventWatcher \/ GroupWait
            \/ CancelContext("cancelEvents", "cleanEvents") \/ CleanEvents
            \/ CancelContext("cancelPods", "cleanPods") \/ CleanPods

Done == step = "done" /\ UNCHANGED vars

Next ==
    \/ MainStep
    \/ \E c \in Components :
          \/ ComponentStep(c) \/ WaitBreaks(c) \/ HealthFails(c) \/ KubectlHangs(c)
          \/ Rollout(c) \/ HealthExpires(c)
    \/ DeadlinePasses \/ PodWatcher \/ EventWatcher \/ CallerCancels
    \/ Done

(* Goroutines run, calls bound to an ended context return, timers fire; a    *)
(* workload need not roll out, nor a failure be found.  One condition for    *)
(* all of them is enough, since none can go on for ever.                     *)
Fairness ==
    WF_vars(\/ MainStep \/ DeadlinePasses
            \/ \E c \in Components : ComponentStep(c) \/ (OwnDone(c) /\ HealthFails(c)))

Spec == Init /\ [][Next]_vars
FairSpec == Spec /\ Fairness

-----------------------------------------------------------------------------
(* "the first failure cancels the rest": the error that Deploy returns is     *)
(* never that of a component abandoned because of a sibling or a watcher;     *)
(* only a caller that cancelled is told so.  And an error that the group was  *)
(* given as a component's own, or blamed on its health budget or the overall  *)
(* timeout, is not the echo of another ended context.                         *)
RootCause ==
    /\ step = "done" /\ result.kind = "abandoned" => callerDone
    /\ groupErr.kind = "own" => cause[groupErr.by] = "own"
    /\ groupErr.kind = "unhealthy" => budget[groupErr.by]
    /\ groupErr.kind = "timeout" => deadline


(* If every kubectl returns, Deploy returns, whatever does not roll out: each *)
(* wait is ended by a health budget or by the overall timeout.                *)
ReturnsUnlessHung == <>(step = "done" \/ hung # {})
=============================================================================
