------------------------------- MODULE NodeStatus -------------------------------
(***************************************************************************)
(* What the vendors' Status makes of a node's pod or custom resource, what *)
(* Manager.Create concludes from it (checkNodeStatus, nodeServicesReady)   *)
(* and what "kne show" concludes from it (Show, Resources,                 *)
(* populateServiceMap, stateMap), in topo/topo.go.                         *)
(*                                                                         *)
(* All of these are functions of what the API server has at one time.      *)
(***************************************************************************)
EXTENDS Naturals, FiniteSets

(* What there is of a node: the phase of its pod and whether it is ready,  *)
(* what the console has logged, the state of its custom resource, and the  *)
(* service that the topology asks for, if it does, with or without the     *)
(* address of its load balancer.                                           *)
Object ==
  [pod : {"absent", "Pending", "Running", "Succeeded", "Failed", "Unknown"}, ready : BOOLEAN,
   log : {"none", "booting", "up", "failed"},
   cr : {"absent", "new", "pending", "running", "failed"},
   svc : {"unasked", "absent", "pending", "ready"}]

Kinds == {"impl", "arista", "xrd", "cisco8000", "lemming", "cdnos", "keysight"}

(***************************************************************************)
(* Status: a phase and whether an error comes with it.                     *)
(***************************************************************************)
Is(phase) == [phase |-> phase, err |-> FALSE]
Err(phase) == [phase |-> phase, err |-> TRUE]

ReadyOrPending(o) == Is(IF o.ready THEN "running" ELSE "pending")

ImplStatus(o) ==
  CASE o.pod = "absent" -> Err("unknown")
    [] o.pod = "Failed" -> Is("failed")
    [] o.pod = "Running" -> ReadyOrPending(o)
    [] OTHER -> Is("pending")

(* Mutation of AristaStatus: a pod that is not there yet is an error.      *)
AristaStatusStrict(o) ==
  CASE o.pod = "absent" -> Err("unknown")
    [] o.pod = "Pending" -> Is("pending")
    [] o.pod = "Running" -> ReadyOrPending(o)
    [] o.pod = "Failed" -> Is("failed")
    [] OTHER -> Is("unknown")

(* The operator makes the pod some time after Create has returned.         *)
AristaStatus(o) ==
  CASE o.pod = "absent" -> Is("unknown")
    [] o.pod = "Pending" -> Is("pending")
    [] o.pod = "Running" -> ReadyOrPending(o)
    [] o.pod = "Failed" -> Is("failed")
    [] OTHER -> Is("unknown")

(* An 8000e also has to say in its log that the router is up; a log that   *)
(* cannot be read, or is empty, is waited for.                             *)
Booted(kind, o) ==
  CASE kind = "xrd" \/ o.log = "up" -> ReadyOrPending(o)
    [] o.log = "failed" -> Err("failed")
    [] OTHER -> Is("pending")

CiscoStatus(kind, o) ==
  CASE o.pod = "absent" -> Err("unknown")
    [] o.pod = "Pending" -> Is("pending")
    [] o.pod = "Failed" -> Is("failed")
    [] o.pod \in {"Succeeded", "Running"} -> Booted(kind, o)
    [] OTHER -> Is("unknown")

LemmingStatus(o) ==
  CASE o.cr = "absent" -> Err("unknown")
    [] o.cr = "new" -> Is("unknown")
    [] OTHER -> Is(o.cr)

CdnosStatus(o) ==
  CASE o.cr = "absent" -> Err("unknown")
    [] o.cr = "new" -> Is("unknown")
    [] OTHER -> Is(o.cr)

(* Any state of an IxiaTG but INITIATED and DEPLOYED is a failure.         *)
KeysightStatus(o) ==
  CASE o.cr = "running" -> Is("running")
    [] o.cr = "pending" -> Is("pending")
    [] o.cr = "new" -> Is("failed")
    [] OTHER -> Err("failed")

Status(kind, o) ==
  CASE kind = "impl" -> ImplStatus(o)     [] kind = "arista" -> AristaStatus(o)
    [] kind \in {"xrd", "cisco8000"} -> CiscoStatus(kind, o)
    [] kind = "lemming" -> LemmingStatus(o) [] kind = "cdnos" -> CdnosStatus(o)
    [] kind = "keysight" -> KeysightStatus(o)

(***************************************************************************)
(* Manager.Create: one round of checkNodeStatus over the nodes that no     *)
(* earlier round has found running, then one of checkServiceStatus.        *)
(***************************************************************************)
RoundOf(nodes) ==
  LET statuses == {Status(n.kind, n.obj) : n \in nodes}
  IN IF \E s \in statuses : s.err \/ s.phase = "failed" THEN "fail"
     ELSE IF \A s \in statuses : s.phase = "running" THEN "done"
     ELSE "wait"

(* A node without services is not asked for any.                           *)
NodeServicesReady(n) == n.obj.svc \in {"unasked", "ready"}

ServicesRound(nodes) == \A n \in nodes : NodeServicesReady(n)

CreateSucceeds(nodes) == RoundOf(nodes) = "done" /\ ServicesRound(nodes)

(***************************************************************************)
(* Manager.Show.  Resources reads the pods and services of every node; a   *)
(* traffic generator's are looked up by the names in its resource, and a   *)
(* name without a pod leaves a nil entry that Show dereferences.  Neither  *)
(* that nor an error is an answer.                                         *)
(***************************************************************************)
PodsFail(n) == IF n.kind = "keysight" THEN n.obj.cr = "absent" ELSE n.obj.pod = "absent"

ServicesFail(n) == IF n.kind = "keysight" THEN n.obj.cr = "absent" ELSE n.obj.svc = "absent"

ResourcesFail(nodes) == \E n \in nodes : PodsFail(n) \/ ServicesFail(n)

HasPods(n) == n.obj.pod # "absent"

(* populateServiceMap fails on a service that is missing or has no address *)
(* yet.                                                                    *)
Populated(n) == n.obj.svc \notin {"absent", "pending"}

TopologyState(phases) ==
  IF \A p \in phases : p = "running" THEN "RUNNING"
  ELSE IF "failed" \in phases THEN "ERROR"
  ELSE IF "pending" \in phases THEN "CREATING"
  ELSE "UNSPECIFIED"

Show(nodes) ==
  IF ResourcesFail(nodes) \/ \E n \in nodes : ~HasPods(n) \/ ~Populated(n) THEN "none"
  ELSE TopologyState({Status(n.kind, n.obj).phase : n \in nodes})

(***************************************************************************)
(* External: what the kubelet and the operators make of a node that Create *)
(* has created.  "impl" stands for the nodes whose pod Create makes, or    *)
(* has waited for (Nokia: in vain, if the watch ends first).  An operator  *)
(* makes the pods later, before the resource says that they run; a         *)
(* resource that Create has waited for (Keysight) has a state from the     *)
(* start.  What no Status of the kind reads is fixed.                      *)
(***************************************************************************)
ByResource == {"lemming", "cdnos", "keysight"}

Created(kind) ==
  {o \in Object :
     /\ kind # "cisco8000" => o.log = "none"
     /\ kind \notin ByResource => o.cr = "new"
     /\ kind \in ByResource => ~o.ready
     /\ o.ready => o.pod = "Running"
     /\ o.pod = "absent" => kind \in ByResource \cup {"arista", "impl"} /\ o.cr # "running"
     /\ o.cr # "absent" /\ (kind = "keysight" => o.cr # "new")}

Starting(kind) ==
  {o \in Created(kind) :
     /\ ~o.ready /\ o.pod \in {"Pending", "Running"} \cup (IF kind = "impl" THEN {} ELSE {"absent"})
     /\ o.log \in {"none", "booting"}
     /\ o.cr \in {"new", "pending"}}

CreatedNodes == UNION {{[kind |-> k, obj |-> o] : o \in Created(k)} : k \in Kinds}

(* Create and "kne show" draw the same conclusions from the same cluster,  *)
(* whatever mixture of vendors the topology has.  A node that is coming up *)
(* keeps Create waiting, and is not taken for a failure by any vendor's    *)
(* Status, but for a Nokia's whose pod is not there yet; when Create would *)
(* return successfully, Show answers RUNNING, and never RUNNING otherwise; *)
(* and Show answers ERROR exactly when Create would give up, as long as    *)
(* Show can answer.                                                        *)
StatusesAgree ==
  /\ \A k \in Kinds : \A o \in Starting(k) : RoundOf({[kind |-> k, obj |-> o]}) = "wait"
  /\ \A m, n \in CreatedNodes :
       LET nodes == {m, n}
       IN /\ CreateSucceeds(nodes) <=> Show(nodes) = "RUNNING"
          /\ Show(nodes) # "none" => (RoundOf(nodes) = "fail" <=> Show(nodes) = "ERROR")
==================================================================================
