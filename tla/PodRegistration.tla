-------------------------- MODULE PodRegistration --------------------------
(***************************************************************************)
(* How the links of a pod come to be plumbed: meshnet's CNI plugin, the     *)
(* daemon's Get and SetAlive, its TopologyCache, informer and reconcile     *)
(* worker. The plugin registers a pod's sandbox in the status of the pod's  *)
(* Topology resource, through the daemon of its node; the daemons of both   *)
(* ends learn of it from the API server and create the wire. Statuses are   *)
(* updated with optimistic concurrency, from copies that the plugin's calls *)
(* read from the daemon's cache and the worker from the API server.         *)
(*                                                                         *)
(* The module has one daemon with its pod, "pod", that has a link with      *)
(* "peer" on another node. What happens over there is taken together into   *)
(* single steps, as is the handshake that creates a wire (WireHandshake);   *)
(* the queue between informer and worker is ReconcileQueue's. The informer  *)
(* has synced and no Topology is created again, so that a resource missing  *)
(* in the cache is not at the API server either. The kubelet calls the      *)
(* plugin for one sandbox of a pod at a time.                               *)
(***************************************************************************)
EXTENDS Integers, Sequences

CONSTANTS MaxFaults,  \* bound on what goes wrong: sandboxes that end, DEL calls, registrations
                      \* given up, calls between the daemons that fail, Topologies deleted
          MaxLag      \* bound on the events of a pod that the watch has yet to deliver

ASSUME RegistrationAssumption == MaxFaults \in Nat /\ MaxLag \in Nat \ {0}

Pods == {"pod", "peer"}
MaxBoxes == MaxFaults + 1  \* the sandboxes that a pod can have, one after the other

VARIABLES
    topo,     \* [Pods -> [is, box, err]]: the resource, if there is one, and its status: the
              \* registered sandbox (src_ip, net_ns, container_id; 0 if none) and plumbing_error
    latest,   \* which copies of the pod's resource have the version the API server has:
              \* a subset of {"cache", "cni", "work"}
    events,   \* the daemon's watch, Seq([pod, obj])
    seen,     \* [Pods -> ...]: the informer's own store
    cache,    \* [Pods -> ...]: the daemon's TopologyCache
    box,      \* [Pods -> [id, up]]: the latest sandbox; up while its netns is there
    cni,      \* the plugin's process at the pod's node
    faults,   \* how much went wrong so far
    pending,  \* "none", "key" (the pod's) or "full": the daemon's reconcile queue
    work,     \* the daemon's reconcile worker
    peerFull, \* the peer's daemon has a full reconciliation to do
    wire      \* [Pods -> [sandbox -> Int]]: the wires of the pod at its node, each with the
              \* sandbox of the other pod it is set to (Unready if to none yet)

api  == <<topo, latest, events>>
vars == <<api, seen, cache, box, cni, faults, pending, work, peerFull, wire>>

Gone    == [is |-> FALSE, box |-> 0, err |-> FALSE]
NewTopo == [is |-> TRUE, box |-> 0, err |-> FALSE]
NoCni   == [op |-> "none", id |-> 0, pc |-> "idle", copy |-> Gone]
Idle    == [pc |-> "idle", for |-> "none", copy |-> Gone, err |-> FALSE]
NoWire  == -1
Unready == 0

NoWires  == [i \in 1..MaxBoxes |-> NoWire]
Wires(p) == {i \in 1..MaxBoxes : wire[p][i] # NoWire}
Other(p) == IF p = "pod" THEN "peer" ELSE "pod"

Init ==
    /\ topo = [p \in Pods |-> NewTopo] /\ events = <<>> /\ latest = {"cache"}
    /\ seen = topo /\ cache = topo
    /\ box = [p \in Pods |-> [id |-> 0, up |-> FALSE]]
    /\ cni = NoCni /\ faults = 0
    /\ pending = "none" /\ work = Idle /\ peerFull = FALSE
    /\ wire = [p \in Pods |-> NoWires]

Fault == faults < MaxFaults /\ faults' = faults + 1

isNetNSValid(p, i) == box[p].up /\ box[p].id = i

(* The API server has a new status of a pod, and an event for the watch. *)
Tell(p, obj) ==
    /\ Len(SelectSeq(events, LAMBDA e : e.pod = p)) < MaxLag
    /\ topo' = [topo EXCEPT ![p] = obj]
    /\ events' = Append(events, [pod |-> p, obj |-> obj])
    /\ latest' = IF p = "pod" THEN {} ELSE latest

(* The pod's resource is put into the cache, in the latest version or not; c  *)
(* is the copy that is done with.                                             *)
Put(obj, isLatest, c) ==
    /\ cache' = [cache EXCEPT !["pod"] = obj]
    /\ latest' = (latest \ {"cache", c}) \cup (IF isLatest THEN {"cache"} ELSE {})

(* The API server takes an update of the version it has, and tells the watch  *)
(* if it changes anything.                                                    *)
UpdateStatus(p, obj) == IF obj = topo[p] THEN UNCHANGED api ELSE Tell(p, obj)

Conflict(c) == c \notin latest

(* DeletePodWires, for all sandboxes of the pod. *)
DeletePodWires(p) == wire' = [wire EXCEPT ![p] = NoWires]

(* GRPCWireDownRemote at the node of pod p takes down the wire of sandbox i,  *)
(* or else any wire of the link.                                              *)
WireDown(w, p, i) ==
    LET has == {j \in DOMAIN w[p] : w[p][j] # NoWire} IN
    {IF j \in has THEN [w EXCEPT ![p][j] = NoWire] ELSE w :
        j \in IF i \in has \/ has = {} THEN {i} ELSE has}

(* Mutation of WithEnd: the wires of the pod's other sandboxes stay. *)
WithEndKeepingOld(w, p, i, v) == [w EXCEPT ![p][i] = v]

(* In the wires w, the end of sandbox i of p is set to v; a new one takes the *)
(* place of those of the pod's other sandboxes (cleanupOldWireLocked).        *)
WithEnd(w, p, i, v) ==
    IF w[p][i] # NoWire THEN [w EXCEPT ![p][i] = v]
    ELSE [w EXCEPT ![p] = [NoWires EXCEPT ![i] = v]]

(* Both ends of the wire between sandbox i of p and j of the other pod. *)
Connected(p, i, j) == WithEnd(WithEnd(wire, p, i, j), Other(p), j, i)

-----------------------------------------------------------------------------
(* The kubelet starts a sandbox, and calls the plugin to add its links. It    *)
(* may have deleted the last one, or found it gone.                           *)
StartBox ==
    /\ cni.pc = "idle" /\ ~box["pod"].up /\ box["pod"].id < MaxBoxes
    /\ box' = [box EXCEPT !["pod"] = [id |-> @.id + 1, up |-> TRUE]]
    /\ cni' = [NoCni EXCEPT !.op = "add", !.id = box["pod"].id + 1, !.pc = "get"]
    /\ UNCHANGED <<api, seen, cache, faults, pending, work, peerFull, wire>>

(* A sandbox goes without a call of the plugin. *)
BoxDies(p) ==
    /\ box[p].up /\ Fault
    /\ box' = [box EXCEPT ![p].up = FALSE]
    /\ UNCHANGED <<api, seen, cache, cni, pending, work, peerFull, wire>>

(* The plugin is called to delete the links of a sandbox: of the latest one,  *)
(* which ends, or (again, or late) of one that has ended.                     *)
StartDel ==
    /\ cni.pc = "idle" /\ Fault
    /\ \E i \in 1..box["pod"].id : cni' = [NoCni EXCEPT !.op = "del", !.id = i, !.pc = "get"]
    /\ UNCHANGED <<api, seen, cache, box, pending, work, peerFull, wire>>

(* The topology is deleted. *)
DeleteTopology(p) ==
    /\ topo[p] # Gone /\ Fault
    /\ Tell(p, Gone)
    /\ UNCHANGED <<seen, cache, box, cni, pending, work, peerFull, wire>>

-----------------------------------------------------------------------------
(* The plugin's process ends; with the DEL of the latest sandbox its netns    *)
(* goes.                                                                      *)
CniEnds ==
    /\ cni' = NoCni
    /\ box' = IF cni.op = "del" /\ cni.id = box["pod"].id THEN [box EXCEPT !["pod"].up = FALSE] ELSE box

CniGoes(pc) == cni' = [cni EXCEPT !.pc = pc] /\ box' = box

(* Get: a pod without a Topology is none of the plugin's business, nor is to  *)
(* delete a sandbox that is not the registered one.                           *)
CniGet ==
    /\ cni.pc = "get"
    /\ IF cache["pod"] = Gone \/ (cni.op = "del" /\ cache["pod"].box # cni.id) THEN CniEnds
       ELSE CniGoes(IF cni.op = "add" THEN "read" ELSE "remove")
    /\ UNCHANGED <<api, seen, cache, faults, pending, work, peerFull, wire>>

RemGRPCWire ==
    /\ cni.pc = "remove"
    /\ DeletePodWires("pod")
    /\ CniGoes("read")
    /\ UNCHANGED <<api, seen, cache, faults, pending, work, peerFull>>

(* SetAlive reads the resource from the cache, *)
AliveRead ==
    /\ cni.pc = "read" /\ cache["pod"] # Gone
    /\ cni' = [cni EXCEPT !.pc = "update",
                          !.copy = [cache["pod"] EXCEPT !.box = IF cni.op = "add" THEN cni.id ELSE 0]]
    /\ latest' = IF "cache" \in latest THEN latest \cup {"cni"} ELSE latest
    /\ UNCHANGED <<topo, events, seen, cache, box, faults, pending, work, peerFull, wire>>

(* and updates its status; on a conflict it reads again. *)
AliveUpdate ==
    /\ cni.pc = "update"
    /\ \/ ~Conflict("cni") /\ UpdateStatus("pod", cni.copy) /\ CniGoes("put")
       \/ /\ Conflict("cni") /\ topo["pod"] # Gone
          /\ CniGoes("read")
          /\ UNCHANGED api
    /\ UNCHANGED <<seen, cache, faults, pending, work, peerFull, wire>>

(* The copy, with the version it had before, goes into the cache, and a full  *)
(* reconciliation is requested. ADD then waits for the wires, for 30 s at the *)
(* most, and changes nothing any more.                                        *)
AlivePut ==
    /\ cni.pc = "put"
    /\ Put(cni.copy, "cni" \in latest, "cni")
    /\ pending' = "full"
    /\ IF cni.op = "add" THEN CniEnds ELSE CniGoes("down")
    /\ UNCHANGED <<topo, events, seen, faults, work, peerFull, wire>>

(* The daemon of the peer is told to remove its end of the wire; for a peer   *)
(* that is not registered the address is empty, which is the pod's own node.  *)
MakeGRPCChanDown ==
    /\ cni.pc = "down"
    /\ LET peer == cache["peer"] IN
       IF peer = Gone THEN wire' = wire
       ELSE wire' \in WireDown(wire, IF peer.box = 0 THEN "pod" ELSE "peer", peer.box)
    /\ CniEnds
    /\ UNCHANGED <<api, seen, cache, faults, pending, work, peerFull>>

(* SetAlive fails: the resource is gone, or there were too many conflicts. A  *)
(* sandbox that could not be added is given up, and a deletion is tried again.*)
AliveFails ==
    /\ \/ cni.pc = "read" /\ cache["pod"] = Gone
       \/ cni.pc = "update" /\ Conflict("cni")
    /\ IF topo["pod"] = Gone THEN faults' = faults ELSE Fault
    /\ IF cni.op = "add"
       THEN /\ cni' = NoCni
            /\ box' = [box EXCEPT !["pod"].up = FALSE]
       ELSE CniGoes("get")
    /\ UNCHANGED <<api, seen, cache, pending, work, peerFull, wire>>

CniStep ==
    \/ CniGet \/ RemGRPCWire \/ AliveRead \/ AliveUpdate \/ AlivePut
    \/ MakeGRPCChanDown \/ AliveFails

-----------------------------------------------------------------------------
(* What is requested after objects were put into the cache: the pod, if it is *)
(* registered, whether its own status has changed or that of the peer, on     *)
(* which it depends.                                                          *)
Request == pending' = IF pending = "none" /\ cache'["pod"].box # 0 THEN "key" ELSE pending

(* The informer has yet to be told of the pod's latest version. *)
Behind(es) == \E i \in DOMAIN es : es[i].pod = "pod"

(* An event of the informer. A deletion also removes the pod's wires. *)
HandleEvent ==
    /\ events # <<>>
    /\ events' = Tail(events)
    /\ LET e == Head(events) IN
       /\ seen' = [seen EXCEPT ![e.pod] = e.obj]
       /\ IF e.pod = "pod" THEN Put(e.obj, ~Behind(events'), "none")
          ELSE cache' = [cache EXCEPT ![e.pod] = e.obj] /\ latest' = latest
       /\ IF e = [pod |-> "pod", obj |-> Gone] THEN DeletePodWires("pod") ELSE wire' = wire
    /\ Request
    /\ UNCHANGED <<topo, box, cni, faults, work, peerFull>>

(* Mutation of Resync: the keys are queued, the cache is left alone. *)
ResyncKeysOnly ==
    /\ cache' = cache
    /\ Request
    /\ UNCHANGED <<api, seen, box, cni, faults, work, peerFull, wire>>

(* Every 60 s the informer hands out again every object it has. *)
Resync ==
    /\ cache' = [p \in Pods |-> IF seen[p] = Gone THEN cache[p] ELSE seen[p]]
    /\ latest' = IF Behind(events) THEN latest \ {"cache"} ELSE latest \cup {"cache"}
    /\ Request
    /\ UNCHANGED <<topo, events, seen, box, cni, faults, work, peerFull, wire>>

-----------------------------------------------------------------------------
(* The worker drains the queue and takes a copy of the pod's resource; in a   *)
(* full reconciliation with the others, which change nothing for pods of      *)
(* other nodes but the error in their statuses (PeerReconcilesAll).           *)
Drain ==
    /\ work.pc = "idle" /\ pending # "none"
    /\ pending' = "none"
    /\ work' = IF cache["pod"] = Gone THEN Idle ELSE [Idle EXCEPT !.pc = "next", !.copy = [cache["pod"] EXCEPT !.err = FALSE]]
    /\ UNCHANGED <<api, seen, cache, box, cni, faults, peerFull, wire>>

(* ReconcilePodLinks of a copy c. The worker goes on to write the outcome     *)
(* into the status, or first to clear the registration.                       *)
Goes(for, err) == work' = [pc |-> "read", for |-> for, copy |-> Gone, err |-> err]

(* The netns of the registered sandbox is gone. *)
StaleNetNS(c) ==
    /\ c.box # 0 /\ ~isNetNSValid("pod", c.box)
    /\ DeletePodWires("pod")
    /\ Goes("clear", FALSE)

WireReady(p, i) == wire[p][i] \notin {NoWire, Unready}

(* The pod is not registered, or its peer is not, or its wire is ready. *)
NothingToDo(c) ==
    /\ c.box = 0 \/ (isNetNSValid("pod", c.box) /\ (cache["peer"].box = 0 \/ WireReady("pod", c.box)))
    /\ Goes("error", FALSE)
    /\ wire' = wire

(* The wire of the registered sandbox i is to be created, with the sandbox j  *)
(* that the cache says the peer has.                                          *)
ToPlumb(c, i, j) ==
    /\ i = c.box /\ i # 0 /\ isNetNSValid("pod", i) /\ ~WireReady("pod", i)
    /\ j = cache["peer"].box /\ j # 0

(* The peer's end can be created unless its netns is gone and has no wire. *)
HasEnd(p, j) == isNetNSValid(p, j) \/ j \in Wires(p)

LocalEnd(i) == IF i \in Wires("pod") THEN wire ELSE WithEnd(wire, "pod", i, Unready)

(* The local end is created, and then the other one. *)
Plumb(c) ==
    \E i, j \in 1..MaxBoxes :
        /\ ToPlumb(c, i, j)
        /\ wire' = IF HasEnd("peer", j) THEN Connected("pod", i, j) ELSE LocalEnd(i)
        /\ Goes("error", ~HasEnd("peer", j))
        /\ faults' = faults

(* The call to the peer's daemon fails; its end may be there all the same. *)
PlumbFails(c) ==
    \E i, j \in 1..MaxBoxes :
        /\ ToPlumb(c, i, j) /\ Fault
        /\ \/ wire' = LocalEnd(i)
           \/ HasEnd("peer", j) /\ wire' = WithEnd(LocalEnd(i), "peer", j, i)
        /\ Goes("error", TRUE)

ReconcilePodLinks ==
    /\ work.pc = "next"
    /\ \/ (StaleNetNS(work.copy) \/ NothingToDo(work.copy)) /\ faults' = faults
       \/ Plumb(work.copy) \/ PlumbFails(work.copy)
    /\ UNCHANGED <<api, seen, cache, box, cni, pending, peerFull>>

(* The end of clearPodAliveStatus, after which an error is removed as well,   *)
(* and of updatePlumbingErrorStatus.                                          *)
StatusDone == IF work.for = "clear" THEN Goes("error", FALSE) ELSE work' = Idle

(* Both read the resource from the API server. The first removes the          *)
(* registration, whichever it is; the second leaves a status alone that says  *)
(* the same already.                                                          *)
StatusRead ==
    /\ work.pc = "read"
    /\ LET status == topo["pod"]
           clear  == work.for = "clear"
       IN IF status = Gone \/ (~clear /\ status.err = work.err) THEN StatusDone /\ latest' = latest
          ELSE /\ work' = [work EXCEPT !.pc = "update",
                             !.copy = IF clear THEN [status EXCEPT !.box = 0, !.err = FALSE]
                                      ELSE [status EXCEPT !.err = work.err]]
               /\ latest' = latest \cup {"work"}
    /\ UNCHANGED <<topo, events, seen, cache, box, cni, faults, pending, peerFull, wire>>

(* Mutation of StatusUpdate: the update does not carry the version. *)
StatusUpdateAnyVersion ==
    /\ work.pc = "update" /\ topo["pod"] # Gone
    /\ UpdateStatus("pod", work.copy)
    /\ work' = [work EXCEPT !.pc = "put"]
    /\ UNCHANGED <<seen, cache, box, cni, faults, pending, peerFull, wire>>

(* The update; after a conflict the resource is read again, or given up. *)
StatusUpdate ==
    /\ work.pc = "update"
    /\ \/ ~Conflict("work") /\ UpdateStatus("pod", work.copy) /\ work' = [work EXCEPT !.pc = "put"]
       \/ /\ Conflict("work")
          /\ \/ topo["pod"] # Gone /\ work' = [work EXCEPT !.pc = "read", !.copy = Gone]
             \/ StatusDone
          /\ UNCHANGED api
    /\ UNCHANGED <<seen, cache, box, cni, faults, pending, peerFull, wire>>

StatusPut ==
    /\ work.pc = "put"
    /\ Put(work.copy, "work" \in latest, "work")
    /\ StatusDone
    /\ UNCHANGED <<topo, events, seen, box, cni, faults, pending, peerFull, wire>>

WorkerStep == Drain \/ ReconcilePodLinks \/ StatusRead \/ StatusUpdate \/ StatusPut

-----------------------------------------------------------------------------
(* The same at the peer's node, in single steps. A sandbox starts and is      *)
(* registered.                                                                *)
PeerStarts ==
    /\ ~box["peer"].up /\ box["peer"].id < MaxBoxes /\ topo["peer"] # Gone
    /\ box' = [box EXCEPT !["peer"] = [id |-> @.id + 1, up |-> TRUE]]
    /\ UpdateStatus("peer", [topo["peer"] EXCEPT !.box = box["peer"].id + 1])
    /\ peerFull' = TRUE
    /\ UNCHANGED <<seen, cache, cni, faults, pending, work, wire>>

(* It is deleted, its registration and both ends of the wire with it. *)
PeerStops ==
    /\ box["peer"].up /\ topo["peer"].box = box["peer"].id /\ Fault
    /\ box' = [box EXCEPT !["peer"].up = FALSE]
    /\ UpdateStatus("peer", [topo["peer"] EXCEPT !.box = 0])
    /\ peerFull' = TRUE
    /\ LET w == [wire EXCEPT !["peer"] = NoWires] IN
       wire' \in IF topo["pod"].box = 0 THEN {w} ELSE WireDown(w, "pod", topo["pod"].box)
    /\ UNCHANGED <<seen, cache, cni, pending, work>>

(* Its worker: a stale registration is cleared, *)
PeerStale ==
    /\ topo["peer"].box # 0 /\ ~isNetNSValid("peer", topo["peer"].box)
    /\ UpdateStatus("peer", [topo["peer"] EXCEPT !.box = 0, !.err = FALSE])
    /\ DeletePodWires("peer")
    /\ UNCHANGED <<seen, cache, box, cni, faults, pending, work, peerFull>>

(* a wire is created that is not ready, *)
PeerPlumbs ==
    LET i == topo["peer"].box
        j == topo["pod"].box
    IN /\ i # 0 /\ isNetNSValid("peer", i) /\ j # 0 /\ ~WireReady("peer", i)
       /\ HasEnd("pod", j)
       /\ wire' = Connected("peer", i, j)
       /\ UNCHANGED <<api, seen, cache, box, cni, faults, pending, work, peerFull>>

(* and a full reconciliation finds nothing wrong with the pods of other nodes,*)
(* and removes the errors in their statuses.                                  *)
PeerReconcilesAll ==
    /\ peerFull
    /\ peerFull' = FALSE
    /\ IF topo["pod"].err THEN UpdateStatus("pod", [topo["pod"] EXCEPT !.err = FALSE])
       ELSE UNCHANGED api
    /\ UNCHANGED <<seen, cache, box, cni, faults, pending, work, wire>>

PeerStep == PeerStale \/ PeerPlumbs \/ PeerReconcilesAll

-----------------------------------------------------------------------------
Next ==
    \/ StartBox \/ StartDel \/ CniStep
    \/ \E p \in Pods : BoxDies(p) \/ DeleteTopology(p)
    \/ HandleEvent \/ Resync \/ WorkerStep
    \/ PeerStarts \/ PeerStops \/ PeerStep

(* The plugin runs; the watch delivers and the other node makes progress; the *)
(* daemon's informer resyncs and its worker runs.                             *)
Fairness ==
    /\ WF_vars(CniStep)
    /\ WF_vars(HandleEvent \/ PeerStep)
    /\ WF_vars(Resync \/ WorkerStep)

Spec == Init /\ [][Next]_vars /\ Fairness

-----------------------------------------------------------------------------
(* Concurrent writers of a status, the plugin through SetAlive and the        *)
(* workers of both daemons, do not undo each other: writing a plumbing error  *)
(* never changes the registration, a registration keeps the error, and        *)
(* neither brings an earlier sandbox back.                                    *)
WritesMerge ==
    [][\A p \in Pods : topo[p] # Gone /\ topo'[p] # Gone =>
        /\ topo'[p].err /\ ~topo[p].err => topo'[p].box = topo[p].box
        /\ topo'[p].box # 0 /\ topo'[p].box # topo[p].box =>
               topo'[p].err = topo[p].err /\ topo'[p].box > topo[p].box]_vars

(* Whatever order updates, events and the cache's own writes come in, the     *)
(* cache ends up with the registrations the API server has.                   *)
CacheCatchesUp == <>[](\A p \in Pods : topo[p] # Gone => cache[p].box = topo[p].box)

Registered(p) == topo[p] # Gone /\ box[p].up /\ topo[p].box = box[p].id

(* Two pods that stay registered end up with one wire between their present   *)
(* sandboxes, with each end set to the other and nothing left of the wires of *)
(* sandboxes they had before, whichever of them were replaced, by a DEL or    *)
(* without one, and whichever call between the daemons failed on the way.     *)
LinksConnected ==
    <>[]((\A p \in Pods : Registered(p)) =>
            \A p \in Pods : wire[p] = [NoWires EXCEPT ![box[p].id] = box[Other(p)].id])

(* A daemon removes a registration only when the netns of the registered      *)
(* sandbox has become invalid (clearPodAliveStatus).                          *)
ClearedIsStale ==
    [][work.pc = "update" /\ work.for = "clear" /\ Registered("pod") => topo' = topo]_vars
=============================================================================
