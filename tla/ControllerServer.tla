-------------------------- MODULE ControllerServer --------------------------
(***************************************************************************)
(* The controller's gRPC server (controller/server/main.go): clients ask   *)
(* for a topology to be created, deleted, or the configuration of one of   *)
(* its nodes pushed or reset. Every handler holds muTopo from beginning to *)
(* end. Manager.Create is the wait for the cluster, push and the nodes'    *)
(* goroutines (its watchers and polling are TopologyCreate's),             *)
(* Manager.Delete that of TopologyDelete, and a node's operations are      *)
(* NodeLifecycle's.                                                        *)
(***************************************************************************)
EXTENDS NodeLifecycle

CONSTANTS Clients,
          NoClient,
          MaxRequests,   \* bound on the number of requests
          MayFail        \* calls of Manager.Delete that may fail

ASSUME ClientsAssumption == NoClient \notin Clients

VARIABLES
    asked,      \* requests made so far
    asking,     \* the clients whose request has not been answered
    holder,     \* the client whose handler holds muTopo, or NoClient
    phase,      \* its handler: "none", "wait", "ns", "specs", "nodes", "status", "delete", "cli"
    target,     \* the node whose configuration is changed
    todo,       \* nodes whose TopologySpecs is still to be called
    recorded,   \* topos has the topology
    ctxDone,    \* the context of the handler's request has ended
    skipDeleteWait, main, left, meshnet, waiter, watching, events, late, verdict, closed, result

D == INSTANCE TopologyDelete

deleteVars == <<skipDeleteWait, main, left, waiter, watching, events, late, verdict, closed, result>>
handler    == <<asked, asking, holder, phase, target, todo, recorded, ctxDone>>
vars == <<nodeVars, handler, meshnet, deleteVars>>

Init ==
    /\ NodeInit
    /\ asked = 0 /\ asking = {}
    /\ holder = NoClient /\ phase = "none" /\ target = (CHOOSE n \in Nodes : TRUE) /\ todo = {}
    /\ recorded = FALSE /\ ctxDone = FALSE
    /\ meshnet = {}
    /\ skipDeleteWait = FALSE /\ main = "get" /\ left = Nodes
    /\ waiter = "off" /\ watching = FALSE /\ events = <<>> /\ late = FALSE
    /\ verdict = "none" /\ closed = FALSE /\ result = "none"

(* A panic, of a node's Create or of waitNSDeleted, ends the process. *)
Crashed == waiter = "panic" \/ \E n \in Nodes : job[n].op = "panic"

(* A goroutine that a failed Create has left behind. *)
Busy == \E n \in Nodes : job[n].op # "idle"

(* A client sends a request; what it is for is read under muTopo. *)
Ask(c) ==
    /\ ~Crashed /\ c \notin asking /\ asked < MaxRequests
    /\ asked' = asked + 1
    /\ asking' = asking \cup {c}
    /\ UNCHANGED <<nodeVars, holder, phase, target, todo, recorded, ctxDone, meshnet, deleteVars>>

-----------------------------------------------------------------------------
(* The handler returns: muTopo is unlocked and the request's context ends,    *)
(* which the goroutines left behind notice at their next call.                *)
Respond ==
    /\ asking' = asking \ {holder}
    /\ holder' = NoClient /\ phase' = "none"
    /\ job' = [n \in Nodes |-> IF job[n].op = "idle" THEN job[n] ELSE [job[n] EXCEPT !.dead = TRUE]]

Requests == {"create", "delete", "push", "reset"}

(* AlreadyExists, NotFound, or a change that the kind of node does not        *)
(* implement.                                                                 *)
Unwanted(op, n) ==
    \/ op = "create" <=> recorded
    \/ op = "push" /\ kind[n] \notin DOMAIN PushOf
    \/ op = "reset" /\ kind[n] \notin DOMAIN ResetOf

(* The handler locks muTopo and looks the topology up; it may find a file     *)
(* missing or the topology not valid. Goroutines that an earlier request has  *)
(* left behind end first: a bound, as a node has one operation at a time.     *)
Lock(c) ==
    /\ ~Crashed /\ holder = NoClient /\ c \in asking /\ ~Busy
    /\ waiter \in {"off", "ended"}
    /\ \E op \in Requests, n \in Nodes, valid \in BOOLEAN :
        IF Unwanted(op, n) \/ ~valid
        THEN /\ asking' = asking \ {c}
             /\ UNCHANGED <<holder, phase, target, todo, ctxDone, job, dev, deleteVars>>
        ELSE /\ holder' = c /\ asking' = asking /\ ctxDone' = FALSE
             /\ phase' = CASE op = "create" -> "wait" [] op = "delete" -> "delete" [] OTHER -> "cli"
             /\ target' = IF phase' = "cli" THEN n ELSE target
             /\ todo' = {m \in Nodes : kind[m] = "keysight"}
             /\ job' = IF phase' = "cli" THEN [job EXCEPT ![n] = Begin(op)] ELSE job
             /\ dev' = IF phase' = "cli" THEN [dev EXCEPT ![n] = "before"] ELSE dev
             /\ main' = "get" /\ left' = Nodes
             /\ waiter' = "off" /\ watching' = FALSE /\ events' = <<>> /\ late' = FALSE
             /\ verdict' = "none" /\ closed' = FALSE /\ result' = "none"
             /\ skipDeleteWait' = skipDeleteWait
    /\ ret' = [n \in Nodes |-> NoRet]
    /\ UNCHANGED <<kind, conf, ns, cluster, faults, asked, recorded, meshnet>>

-----------------------------------------------------------------------------
(* CreateTopology: Manager.Create with no timeout. *)
createRest == <<asked, target, ctxDone, deleteVars>>

(* The request fails in its present phase. *)
CreateFailed ==
    /\ Respond
    /\ UNCHANGED <<kind, conf, dev, ret, files, vol, todo, recorded, createRest>>

(* waitClusterReady: every node of the cluster is ready. This need not happen. *)
ClusterReady ==
    /\ phase = "wait" /\ ~ctxDone /\ phase' = "ns"
    /\ UNCHANGED <<nodeVars, asking, holder, todo, recorded, createRest, meshnet>>

WaitFails ==
    /\ phase = "wait"
    /\ (ctxDone /\ faults' = faults) \/ Fault
    /\ CreateFailed
    /\ UNCHANGED <<ns, objs, meshnet>>

(* push: the namespace is created unless there is one, even one that is going *)
(* away.                                                                      *)
CreateNamespace ==
    /\ phase = "ns"
    /\ \/ /\ ~ctxDone /\ phase' = "specs"
          /\ ns' = IF ns = "gone" THEN "active" ELSE ns
          /\ UNCHANGED <<kind, conf, cluster, dev, job, ret, faults, asking, holder, todo, recorded, createRest>>
       \/ /\ (ctxDone /\ faults' = faults) \/ Fault
          /\ CreateFailed /\ ns' = ns /\ objs' = objs
    /\ meshnet' = meshnet

(* topologySpecs: TopologySpecs of a Keysight node creates its custom         *)
(* resource and waits for its state.                                          *)
KeysightSpecs(n) ==
    /\ phase = "specs" /\ n \in todo
    /\ LET possible == ~ctxDone /\ ns = "active" /\ "crd" \notin objs[n] IN
       \/ /\ possible
          /\ objs' = [objs EXCEPT ![n] = @ \cup {"crd"}]
          /\ todo' = todo \ {n}
          /\ UNCHANGED <<kind, conf, ns, files, vol, dev, job, ret, faults, asking, holder, phase, recorded, createRest>>
       \/ /\ (~possible /\ faults' = faults /\ objs' = objs)
             \/ (possible /\ Fault /\ objs' \in {objs, [objs EXCEPT ![n] = @ \cup {"crd"}]})
          /\ CreateFailed /\ ns' = ns
    /\ meshnet' = meshnet

(* createMeshnetTopologies: all are attempted, and one that is there already  *)
(* is an error. Then the nodes' goroutines start.                             *)
CreateMeshnetTopologies ==
    /\ phase = "specs" /\ todo = {}
    /\ LET possible == ~ctxDone /\ ns = "active" IN
       \/ /\ possible /\ meshnet = {}
          /\ meshnet' = Nodes /\ phase' = "nodes"
          /\ job' = [n \in Nodes |-> Begin("create")]
          /\ UNCHANGED <<kind, conf, ns, cluster, dev, ret, faults, asking, holder, todo, recorded, createRest>>
       \/ /\ \/ ~possible /\ meshnet' = meshnet /\ faults' = faults
             \/ possible /\ meshnet # {} /\ meshnet' = Nodes /\ faults' = faults
             \/ possible /\ Fault /\ meshnet' \in {meshnet \cup new : new \in SUBSET Nodes \ {Nodes}}
          /\ CreateFailed /\ ns' = ns /\ objs' = objs

(* Mutation of NodesCreated: the first goroutine to end is enough. *)
NodesCreatedFirst ==
    /\ phase = "nodes" /\ \E n \in Nodes : ret[n].res = "nil"
    /\ phase' = "status"
    /\ UNCHANGED <<nodeVars, asking, holder, todo, recorded, createRest, meshnet>>

(* push returns when every goroutine has ended well, *)
NodesCreated ==
    /\ phase = "nodes" /\ \A n \in Nodes : ret[n].res = "nil"
    /\ phase' = "status"
    /\ UNCHANGED <<nodeVars, asking, holder, todo, recorded, createRest, meshnet>>

(* or on the first error, with the others still running. *)
NodesFailed ==
    /\ phase = "nodes" /\ \E n \in Nodes : ret[n].res = "error"
    /\ CreateFailed
    /\ UNCHANGED <<ns, objs, faults, meshnet>>

(* The nodes are found running. The topology is recorded, whether or not Show *)
(* then succeeds.                                                             *)
CreateSucceeds ==
    /\ phase = "status" /\ \A n \in Nodes : {"pod", "crd"} \cap objs[n] # {}
    /\ recorded' = TRUE
    /\ Respond
    /\ UNCHANGED <<kind, conf, ns, cluster, dev, ret, faults, todo, createRest, meshnet>>

(* A node has failed, or the client no longer waits. *)
StatusFails ==
    /\ phase = "status"
    /\ (ctxDone /\ faults' = faults) \/ Fault
    /\ CreateFailed
    /\ UNCHANGED <<ns, objs, meshnet>>

-----------------------------------------------------------------------------
(* DeleteTopology: Manager.Delete, node by node. *)
deleteRest == <<kind, conf, cluster, dev, faults, handler>>

DeleteNodeStarts(n) ==
    /\ phase = "delete" /\ main = "nodes" /\ n \in left /\ ~Busy /\ ret[n].op # "delete"
    /\ job' = [job EXCEPT ![n] = [Begin("delete") EXCEPT !.dead = ctxDone]]
    /\ UNCHANGED <<kind, conf, ns, cluster, dev, ret, faults, handler, meshnet, deleteVars>>

DeleteNodeEnds(n) ==
    /\ phase = "delete" /\ ret[n].op = "delete"
    /\ D!DeleteNode(n)
    /\ UNCHANGED <<deleteRest, job, ret>>

DeleteStep ==
    /\ phase = "delete"
    /\ \/ D!GetNamespace \/ D!DeleteMeshnetTopologies \/ D!Spawn \/ D!Receive
       \/ ~ctxDone /\ D!DeleteNamespace
       \/ D!DeleteNamespaceFails
    /\ UNCHANGED <<deleteRest, job, ret>>

(* The goroutine of Manager.Delete, which may outlive it. *)
WaiterStep ==
    /\ ~Crashed /\ D!WaiterStep
    /\ UNCHANGED <<deleteRest, job, ret>>

WatchCloses ==
    /\ ~Crashed /\ D!WatchCloses
    /\ UNCHANGED <<deleteRest, job, ret>>

TimeoutPasses ==
    /\ ~Crashed /\ D!TimeoutPasses
    /\ UNCHANGED <<deleteRest, job, ret>>

(* The namespace goes, and with it all that it holds. *)
NamespaceGone ==
    /\ D!NamespaceGone
    /\ objs' = [n \in Nodes |-> {}] /\ vol' = [n \in Nodes |-> "none"]
    /\ UNCHANGED <<kind, conf, files, dev, faults, handler, job, ret>>

(* The topology is forgotten if Manager.Delete returned nil. *)
DeleteEnds ==
    /\ phase = "delete" /\ main = "returned"
    /\ recorded' = (result # "nil")
    /\ Respond
    /\ UNCHANGED <<kind, conf, ns, cluster, dev, ret, faults, asked, target, todo, ctxDone, meshnet, deleteVars>>

-----------------------------------------------------------------------------
(* PushConfig and ResetConfig. *)
CliEnds ==
    /\ phase = "cli" /\ job[target].op = "idle"
    /\ Respond
    /\ UNCHANGED <<kind, conf, ns, cluster, dev, ret, faults, asked, target, todo, recorded, ctxDone, meshnet, deleteVars>>

(* The client gives up: the context ends for the handler and its goroutines.  *)
(* The command line's calls do not heed it, and what Manager.Delete does once *)
(* it waits is the same as when its timeout passes.                           *)
ClientGivesUp ==
    /\ ~Crashed /\ ~ctxDone /\ (phase \in {"wait", "ns", "specs", "nodes", "status"} \/ (phase = "delete" /\ main \in {"nodes", "delete"}))
    /\ ctxDone' = TRUE
    /\ job' = [n \in Nodes |-> IF job[n].op = "idle" THEN job[n] ELSE [job[n] EXCEPT !.dead = TRUE]]
    /\ UNCHANGED <<kind, conf, ns, cluster, dev, ret, faults, asked, asking, holder, phase, target, todo, recorded, meshnet, deleteVars>>

HandlerStep ==
    /\ ~Crashed
    /\ \/ WaitFails \/ CreateNamespace \/ (\E n \in Nodes : KeysightSpecs(n)) \/ CreateMeshnetTopologies
       \/ NodesCreated \/ NodesFailed \/ StatusFails
       \/ (\E n \in Nodes : DeleteNodeStarts(n) \/ DeleteNodeEnds(n)) \/ DeleteStep \/ DeleteEnds
       \/ CliEnds

NodeStep(n) ==
    /\ ~Crashed /\ NodeCall(n)
    /\ UNCHANGED <<handler, meshnet, deleteVars>>

Around(n) ==
    /\ ~Crashed /\ Surroundings(n)
    /\ UNCHANGED <<handler, meshnet, deleteVars>>

Next ==
    \/ \E c \in Clients : Lock(c) \/ Ask(c)
    \/ HandlerStep \/ (~Crashed /\ (ClusterReady \/ CreateSucceeds)) \/ ClientGivesUp
    \/ \E n \in Nodes : NodeStep(n) \/ Around(n)
    \/ WaiterStep \/ WatchCloses \/ TimeoutPasses \/ NamespaceGone

ProgramStep ==
    \/ HandlerStep \/ WaiterStep \/ TimeoutPasses
    \/ (\E c \in Clients : Lock(c)) \/ (\E n \in Nodes : NodeStep(n))

(* Goroutines run, calls return, timers fire, and muTopo is handed to whoever *)
(* waits for it; one condition is enough, as none of them can go on for ever. *)
(* The cluster need not become ready, nor nodes start, nor their command      *)
(* lines come up.                                                             *)
Fairness == WF_vars(ProgramStep)

Spec == Init /\ [][Next]_vars /\ Fairness

-----------------------------------------------------------------------------
(* A topology is recorded only when everything its nodes' Create makes is in  *)
(* the cluster.                                                               *)
RecordedIsWhole == [][~recorded /\ recorded' => meshnet' = Nodes /\ \A n \in Nodes : Whole(n)']_vars

(* When DeleteTopology succeeds, the namespace is gone, with the meshnet      *)
(* resources and all that failed deletions of nodes had left in it.           *)
TopologyGone == D!NilMeansGone /\ (result = "nil" => \A n \in Nodes : objs[n] = {})

(* A node's operation waits for its command line to come up. *)
CliWait == \E n \in Nodes, op \in {"create", "push", "reset"} : Running(n, op) /\ Waits(n, Step(n))

(* Every request is answered, although all of them wait for one mutex, unless *)
(* a node of the cluster never becomes ready, a command line never comes up,  *)
(* the nodes of a new topology never start or the server has crashed: Create  *)
(* is called with no timeout, and waits for the first three under muTopo.     *)
RequestsAnswered ==
    \/ \A c \in Clients : []<>(c \notin asking)
    \/ <>[](Crashed \/ CliWait \/ phase \in {"wait", "status"})
=============================================================================
