--------------------------- MODULE TopologyCreate ---------------------------
(***************************************************************************)
(* Manager.Create (topo/topo.go): once the cluster is ready, the watchers  *)
(* are started, push creates the namespace, the meshnet resources and the  *)
(* nodes, the last two with a goroutine each, and the states of the nodes  *)
(* and of their services are polled in rounds. The watchers are used       *)
(* through what FailureWatch promises.                                     *)
(***************************************************************************)
EXTENDS Naturals, FiniteSets

CONSTANTS Nodes,      \* the topology's nodes
          Serving,    \* the nodes that have services
          Timeout     \* whether Create was given a timeout (0 means none)

ASSUME CreateAssumption ==
    /\ Serving \subseteq Nodes
    /\ Timeout \in BOOLEAN

NoErr == [by |-> "none", cause |-> "none"]
Own(x) == [by |-> x, cause |-> "own"]
OfContext(x) == [by |-> x, cause |-> "context"]

VARIABLES
    step,       \* Create: "setup", "pods", "events", "push", "meshnet", "range",
                \* "nodes", "services", "cancelEvents", "cleanEvents", "cancelPods",
                \* "cleanPods", "done"
    topo,       \* [Nodes -> "idle", "create", "ok", "failed"]: goroutines of
                \* createMeshnetTopologies
    firstErr,   \* its first error
    gor,        \* [Nodes -> "idle", "create", "cert", "send", "done"]: goroutines of push
    sends,      \* [Nodes -> error or NoErr]: what a goroutine has to send
    closed,     \* errCh is closed
    nodesReady, \* every node of the cluster is ready; followed until it is found so
    pod,        \* [Nodes -> "absent", "pending", "running", "crashed", "failed"]
    ready,      \* the nodes whose services are ready
    answer,     \* [Nodes -> "none", "yes", "no", "bad", "context"]: results of a round
    processed,  \* the nodes found in their end state
    round,      \* "top" of the loop, "ask", "sleep"
    expired,    \* the timeout of the present loop has passed
    result,
    callerDone,
    ctxDone, podPhase, podBox, evPhase, evBox

pushVars  == <<topo, firstErr, gor, sends, closed>>
pollVars  == <<answer, processed, round, expired>>
watchVars == <<ctxDone, podPhase, podBox, evPhase, evBox>>
cluster   == <<nodesReady, pod, ready>>
vars == <<step, pushVars, cluster, pollVars, result, callerDone, watchVars>>

PodWatch   == INSTANCE FailureWatch WITH phase <- podPhase, box <- podBox
EventWatch == INSTANCE FailureWatch WITH phase <- evPhase, box <- evBox
podVars == <<podPhase, podBox>>
evVars  == <<evPhase, evBox>>

NoAnswer == [n \in Nodes |-> "none"]

Init ==
    /\ step = "setup"
    /\ topo = [n \in Nodes |-> "idle"] /\ firstErr = NoErr
    /\ gor = [n \in Nodes |-> "idle"] /\ sends = [n \in Nodes |-> NoErr]
    /\ closed = FALSE
    /\ nodesReady \in BOOLEAN /\ pod = [n \in Nodes |-> "absent"] /\ ready = {}
    /\ answer = NoAnswer /\ processed = {} /\ round = "top" /\ expired = FALSE
    /\ result = NoErr
    /\ callerDone = FALSE /\ ctxDone = FALSE
    /\ PodWatch!Off /\ EventWatch!Off

(* Create returns e: the deferred calls come next. *)
Return(e) == step' = "cancelEvents" /\ result' = e

-----------------------------------------------------------------------------
(* waitClusterReady, before there are watchers: the nodes of the cluster are *)
(* listed every second until all are ready or the context ends.  A list that *)
(* has a node that is not ready changes nothing.                             *)
WaitClusterReady ==
    /\ step = "setup"
    /\ \/ ~ctxDone /\ nodesReady /\ step' = "pods" /\ result' = result
       \/ ctxDone /\ step' = "done" /\ result' = OfContext("cluster")
    /\ UNCHANGED <<pushVars, cluster, pollVars, callerDone, watchVars>>

ListFails ==
    /\ step = "setup" /\ ~ctxDone
    /\ step' = "done" /\ result' = Own("cluster")
    /\ UNCHANGED <<pushVars, cluster, pollVars, callerDone, watchVars>>

StartPodWatcher ==
    /\ step = "pods" /\ step' = "events"
    /\ PodWatch!Start
    /\ UNCHANGED <<pushVars, cluster, pollVars, result, callerDone, evVars>>

StartEventWatcher ==
    /\ step = "events" /\ step' = "push"
    /\ EventWatch!Start
    /\ UNCHANGED <<pushVars, cluster, pollVars, result, callerDone, podVars>>

(* push: constraints are validated, the namespace is created if it is not    *)
(* there, and the meshnet resources are created with a goroutine each.       *)
Push ==
    /\ step = "push"
    /\ \/ /\ ~ctxDone /\ step' = "meshnet" /\ result' = result
          /\ topo' = [n \in Nodes |-> "create"]
       \/ Return(IF ctxDone THEN OfContext("namespace") ELSE Own("namespace")) /\ topo' = topo
    /\ UNCHANGED <<firstErr, gor, sends, closed, cluster, pollVars, callerDone, watchVars>>

CreateMeshnetTopology(n) ==
    /\ topo[n] = "create"
    /\ \/ /\ ~ctxDone /\ topo' = [topo EXCEPT ![n] = "ok"] /\ firstErr' = firstErr
       \/ /\ topo' = [topo EXCEPT ![n] = "failed"]
          /\ firstErr' = IF firstErr # NoErr THEN firstErr
                         ELSE IF ctxDone THEN OfContext(n) ELSE Own(n)
    /\ UNCHANGED <<step, gor, sends, closed, cluster, pollVars, result, callerDone, watchVars>>

(* Mutation of MeshnetWait: the first resource is enough. *)
MeshnetWaitOne ==
    /\ step = "meshnet" /\ \E n \in Nodes : topo[n] \in {"ok", "failed"}
    /\ IF firstErr # NoErr
       THEN Return(firstErr) /\ gor' = gor
       ELSE /\ step' = "range" /\ result' = result
            /\ gor' = [n \in Nodes |-> "create"]
    /\ UNCHANGED <<topo, firstErr, sends, closed, cluster, pollVars, callerDone, watchVars>>

(* wg.Wait; then the nodes are created, with a goroutine each. *)
MeshnetWait ==
    /\ step = "meshnet" /\ \A n \in Nodes : topo[n] \in {"ok", "failed"}
    /\ IF firstErr # NoErr
       THEN Return(firstErr) /\ gor' = gor
       ELSE /\ step' = "range" /\ result' = result
            /\ gor' = [n \in Nodes |-> "create"]
    /\ UNCHANGED <<topo, firstErr, sends, closed, cluster, pollVars, callerDone, watchVars>>

-----------------------------------------------------------------------------
rest == <<step, topo, firstErr, closed, pollVars, result, callerDone, watchVars>>

HasError(n, e) ==
    /\ gor' = [gor EXCEPT ![n] = "send"]
    /\ sends' = [sends EXCEPT ![n] = e]

CreateNode(n) ==
    /\ gor[n] = "create"
    /\ \/ /\ ~ctxDone /\ gor' = [gor EXCEPT ![n] = "cert"] /\ sends' = sends
          /\ pod' = [pod EXCEPT ![n] = "pending"]
       \/ HasError(n, IF ctxDone THEN OfContext(n) ELSE Own(n)) /\ pod' = pod
    /\ UNCHANGED <<nodesReady, ready, rest>>

(* Certificates are generated; a node that does not implement it is fine. One *)
(* that does opens the node's command line, which is retried for as long as   *)
(* it is not up, whatever becomes of the context: this need not end.          *)
GenerateSelfSigned(n) ==
    /\ gor[n] = "cert"
    /\ \/ gor' = [gor EXCEPT ![n] = "done"] /\ sends' = sends
       \/ HasError(n, IF ctxDone THEN OfContext(n) ELSE Own(n))
    /\ UNCHANGED <<cluster, rest>>

(* Mutation of CloseErrCh: errCh is left open. *)
CloseErrChNever == closed /\ UNCHANGED vars

(* wg.Wait and close(errCh). *)
CloseErrCh ==
    /\ ~closed /\ \A n \in Nodes : gor[n] = "done"
    /\ closed' = TRUE
    /\ UNCHANGED <<step, topo, firstErr, gor, sends, cluster, pollVars, result, callerDone, watchVars>>

(* for err := range errCh: the first error is returned, the others are never *)
(* received.                                                                 *)
ReceiveError(n) ==
    /\ step = "range" /\ gor[n] = "send"
    /\ gor' = [gor EXCEPT ![n] = "done"]
    /\ Return(sends[n])
    /\ UNCHANGED <<topo, firstErr, sends, closed, cluster, pollVars, callerDone, watchVars>>

PushReturns ==
    /\ step = "range" /\ closed
    /\ step' = "nodes"
    /\ UNCHANGED <<pushVars, cluster, pollVars, result, callerDone, watchVars>>

-----------------------------------------------------------------------------
(* checkNodeStatus and checkServiceStatus poll in rounds. *)
Polling == step \in {"nodes", "services"}
pollRest == <<pushVars, cluster, callerDone, watchVars>>

Asked == IF step = "nodes" THEN Nodes ELSE Serving

LoopLeft == answer' = NoAnswer /\ processed' = {} /\ round' = "top" /\ expired' = FALSE

(* The loop is over: all were found, or its time is up and it only warns. *)
LoopEnds ==
    /\ step' = IF step = "nodes" THEN "services" ELSE "cancelEvents"
    /\ LoopLeft /\ result' = result

LoopTop ==
    /\ Polling /\ round = "top"
    /\ IF expired
       THEN LoopEnds
       ELSE IF step = "services" /\ ctxDone
       THEN Return(OfContext("services")) /\ LoopLeft
       ELSE /\ round' = "ask" /\ answer' = NoAnswer
            /\ UNCHANGED <<step, processed, expired, result>>
    /\ UNCHANGED pollRest

(* A goroutine of the round asks for the state of its node, or its services. *)
Ask(n) ==
    /\ Polling /\ round = "ask" /\ n \in Asked \ processed /\ answer[n] = "none"
    /\ \/ ctxDone /\ answer' = [answer EXCEPT ![n] = "context"]
       \/ ~ctxDone /\ answer' = [answer EXCEPT ![n] =
              IF step = "nodes"
              THEN CASE pod[n] = "running" -> "yes" [] pod[n] \in {"crashed", "failed"} -> "bad"
                     [] OTHER -> "no"
              ELSE IF n \in ready THEN "yes" ELSE "no"]
       \/ ~ctxDone /\ answer' = [answer EXCEPT ![n] = "bad"]
    /\ UNCHANGED <<step, processed, round, expired, result, pollRest>>

Answered(a) == {n \in Nodes : answer[n] = a}

(* The round's results: the first bad one in the channel is returned. *)
RoundEnds ==
    /\ Polling /\ round = "ask" /\ \A n \in Asked \ processed : answer[n] # "none"
    /\ \/ /\ Answered("bad") # {} /\ Return(Own("status")) /\ LoopLeft
       \/ /\ Answered("context") # {} /\ Return(OfContext("status")) /\ LoopLeft
       \/ /\ Answered("bad") = {} /\ Answered("context") = {}
          /\ IF processed \cup Answered("yes") = Asked
             THEN LoopEnds
             ELSE /\ processed' = processed \cup Answered("yes")
                  /\ round' = "sleep"
                  /\ UNCHANGED <<step, answer, expired, result>>
    /\ UNCHANGED pollRest

(* Half a second passes; only the services' loop heeds the context. *)
Sleep ==
    /\ Polling /\ round = "sleep"
    /\ \/ round' = "top" /\ UNCHANGED <<step, answer, processed, expired, result>>
       \/ /\ step = "services" /\ ctxDone
          /\ Return(OfContext("services")) /\ LoopLeft
    /\ UNCHANGED pollRest

(* The loop's timeout passes; that of the services has a default. *)
TimeoutPasses ==
    /\ Polling /\ ~expired /\ (Timeout \/ step = "services")
    /\ expired' = TRUE
    /\ UNCHANGED <<step, answer, processed, round, result, pollRest>>

-----------------------------------------------------------------------------
(* The deferred functions, last one first. *)
CancelContext(w, next) ==
    /\ step = w /\ step' = next
    /\ ctxDone' = (ctxDone \/ (IF w = "cancelEvents" THEN evPhase ELSE podPhase) # "off")
    /\ UNCHANGED <<pushVars, cluster, pollVars, result, callerDone, podVars, evVars>>

(* Mutation of Cleaned: the watcher's error does not replace another. *)
CleanedFirst(box, w) == IF box /\ result = NoErr THEN [by |-> w, cause |-> "watcher"] ELSE result

Cleaned(box, w) == IF box THEN [by |-> w, cause |-> "watcher"] ELSE result

CleanEvents ==
    /\ step = "cleanEvents" /\ step' = "cancelPods"
    /\ result' = Cleaned(evBox, "events")
    /\ EventWatch!Cleanup
    /\ UNCHANGED <<pushVars, cluster, pollVars, callerDone, podVars>>

CleanPods ==
    /\ step = "cleanPods" /\ step' = "done"
    /\ result' = Cleaned(podBox, "pods")
    /\ PodWatch!Cleanup
    /\ UNCHANGED <<pushVars, cluster, pollVars, callerDone, evVars>>

-----------------------------------------------------------------------------
(* The cluster: its nodes become ready or not, pods start or fail, at once or *)
(* after they ran, and services get their addresses.                          *)
NodesChange ==
    /\ step = "setup"
    /\ nodesReady' = ~nodesReady
    /\ UNCHANGED <<step, pushVars, pod, ready, pollVars, result, callerDone, watchVars>>

PodChanges(n) ==
    /\ Polling
    /\ \/ pod[n] = "pending" /\ pod' = [pod EXCEPT ![n] = "running"]
       \/ pod[n] = "pending" /\ pod' = [pod EXCEPT ![n] = "failed"]
       \/ pod[n] = "running" /\ step = "nodes" /\ pod' = [pod EXCEPT ![n] = "crashed"]
    /\ UNCHANGED <<step, pushVars, nodesReady, ready, pollVars, result, callerDone, watchVars>>

ServiceReady(n) ==
    /\ pod[n] # "absent" /\ n \in Serving \ ready /\ step = "services"
    /\ ready' = ready \cup {n}
    /\ UNCHANGED <<step, pushVars, nodesReady, pod, pollVars, result, callerDone, watchVars>>

(* The watchers, until Create returns, and the caller. *)
PodWatcher ==
    /\ step # "done"
    /\ PodWatch!Record \/ PodWatch!Cancel \/ PodWatch!End
    /\ UNCHANGED <<step, pushVars, cluster, pollVars, result, callerDone, evVars>>

EventWatcher ==
    /\ step # "done"
    /\ EventWatch!Record \/ EventWatch!Cancel \/ EventWatch!End
    /\ UNCHANGED <<step, pushVars, cluster, pollVars, result, callerDone, podVars>>

CallerCancels ==
    /\ ~callerDone /\ ~ctxDone /\ step # "done"
    /\ callerDone' = TRUE
    /\ PodWatch!ContextEnds
    /\ UNCHANGED <<step, pushVars, cluster, pollVars, result, evVars>>

CreateStep ==
    \/ WaitClusterReady \/ StartPodWatcher \/ StartEventWatcher \/ Push \/ MeshnetWait
    \/ (\E n \in Nodes : ReceiveError(n)) \/ PushReturns
    \/ LoopTop \/ RoundEnds \/ Sleep
    \/ CancelContext("cancelEvents", "cleanEvents") \/ CleanEvents
    \/ CancelContext("cancelPods", "cleanPods") \/ CleanPods

NodeStep(n) == CreateMeshnetTopology(n) \/ CreateNode(n) \/ Ask(n)

Next ==
    \/ CreateStep \/ ListFails \/ CloseErrCh \/ TimeoutPasses \/ NodesChange
    \/ \E n \in Nodes : NodeStep(n) \/ GenerateSelfSigned(n) \/ PodChanges(n) \/ ServiceReady(n)
    \/ PodWatcher \/ EventWatcher \/ CallerCancels

(* Goroutines run, calls return and timers fire; the cluster's nodes need not *)
(* become ready, nor pods start, nor their command lines come up.  One        *)
(* condition does for all goroutines: none of them repeats itself for ever    *)
(* but the loop that the timer ends.                                          *)
Fairness ==
    /\ WF_vars(CreateStep \/ CloseErrCh \/ \E n \in Nodes : NodeStep(n))
    /\ WF_vars(TimeoutPasses)

Spec == Init /\ [][Next]_vars
FairSpec == Spec /\ Fairness

-----------------------------------------------------------------------------
(* An error of a goroutine is never lost between the channel and its close:   *)
(* Create succeeds only if every node was created and has its certificate.    *)
(* And what a watcher cancelled is never reported as a cancelled context.     *)
RootCause ==
    step = "done" =>
        /\ result = NoErr => sends = [n \in Nodes |-> NoErr]
        /\ result.cause = "context" => callerDone

(* A step goes on to the next phase only when the present one is complete. *)
PhaseComplete ==
    /\ (\E n \in Nodes : pod[n] = "absent" /\ pod'[n] # "absent") => \A n \in Nodes : topo[n] = "ok"
    /\ ~expired =>
          /\ step = "nodes" /\ step' = "services" => \A n \in Nodes : pod[n] \in {"running", "crashed"}
          /\ step = "services" /\ step' = "cancelEvents" /\ result' = NoErr => Serving \subseteq ready

(* Each phase of Create is complete before the next relies on it.  Pods are   *)
(* created only when the meshnet resource of every node exists (the CNI       *)
(* plugin looks up a pod's links, and those of its peers, when it starts).    *)
(* The loops find every node running and every service ready before Create    *)
(* succeeds, unless a loop's time was up; a node that was found running and   *)
(* crashed since is not asked again.                                          *)
EndStateReached == [][PhaseComplete]_vars

(* Create that was given a timeout returns, whatever does not start, unless a *)
(* node of the cluster is found not ready for ever (the timeout does not      *)
(* bound that wait) or the command line of a topology's node, needed for its  *)
(* certificate, never comes up.                                               *)
CreateReturns ==
    \/ <>(step = "done")
    \/ []<>(step = "setup" /\ ~nodesReady)
    \/ <>[](\E n \in Nodes : gor[n] = "cert")
=============================================================================
