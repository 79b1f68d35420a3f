--------------------------- MODULE NodeLifecycle ---------------------------
(***************************************************************************)
(* A topology's nodes (topo/node and the packages of the vendors): what    *)
(* Create, GenerateSelfSigned, Delete, ConfigPush and ResetCfg of each     *)
(* kind of node do, call by call, to the objects of the cluster, the files *)
(* of the host and the device. An operation is a program, a sequence of    *)
(* calls, and runs in the goroutine of its caller; any call may fail.      *)
(***************************************************************************)
EXTENDS Naturals, Sequences

CONSTANTS Nodes,
          Sorts,       \* [Nodes -> the <<kind, conf>> a node may be of], conf being its
                       \* start-up configuration: "none", or an "empty", "small" or "large" one
          Declared,    \* types of the declared services: subset of "lb", "np", "cip"
          ExternalV6,  \* whether a service of type "np" asks for an IPv6 proxy
          Certified,   \* the nodes that ask for a self-signed certificate
          MaxFaults    \* bound on the number of calls that fail of themselves

Services == {"lb", "np", "cip", "peer"}
Objects  == Services \cup {"configMap", "files", "pod", "proxy", "crd"}

VARIABLES
    kind, conf,   \* [Nodes -> ...]: set by the topology
    ns,           \* the namespace: "active", "terminating", "gone"
    objs,         \* [Nodes -> SUBSET Objects]: the node's objects in the cluster
    files,        \* SUBSET Nodes: the host has the file that the node's last CreateConfig
                  \* wrote; one left over from before is not touched again
    vol,          \* [Nodes -> "none", "configMap", "file", "emptyDir"]: what its pod
                  \* mounts as the volume ConfigVolumeName
    dev,          \* [Nodes -> "before", "partial", "push", "reset"]: the device's
                  \* configuration, as to the last request to change it
    job,          \* [Nodes -> the operation under way]
    ret,          \* [Nodes -> the last operation, its result, and the call it ended at
                  \* if that made it return nil before its end]
    faults        \* calls that have failed of themselves

cluster  == <<objs, files, vol>>
nodeVars == <<kind, conf, ns, cluster, dev, job, ret, faults>>

NoJob  == [op |-> "idle", pc |-> 1, made |-> {}, failed |-> FALSE, dead |-> FALSE]
NoRet  == [op |-> "idle", res |-> "none", at |-> "end"]

-----------------------------------------------------------------------------
(* CreateService: one service for each declared type, in a fixed order, then *)
(* the DaemonSet of the IPv6 proxies, which needs an allocated node port.    *)
Declares(t) == IF t \in Declared THEN <<t>> ELSE <<>>
ServiceSteps ==
    Declares("lb") \o Declares("np") \o Declares("cip")
        \o (IF ExternalV6 /\ "np" \in Declared THEN <<"proxy">> ELSE <<>>)

(* What Create of each kind calls. "config" and "srcConfig" store the        *)
(* start-up configuration, the second for a volume of another name;          *)
(* "configMap" stores it whatever its size; "watch" watches the pod, and     *)
(* goes on when the watch ends. Alpine nodes have files and Ciena nodes an   *)
(* equipment file, kept in a config map of their own ("files").              *)
HostCreate      == <<"config", "pod">> \o ServiceSteps
AlpineCreate    == <<"validate", "files", "config", "pod">> \o ServiceSteps
SonicCreate     == <<"validate", "config", "pod">> \o ServiceSteps
CienaCreate     == <<"validate", "files", "config", "pod">> \o ServiceSteps
CiscoCreate     == <<"validate", "config", "pod">> \o ServiceSteps
XRdCreate       == <<"validate", "srcConfig", "pod">> \o ServiceSteps
JuniperCreate   == <<"srcConfig", "pod">> \o ServiceSteps
ForwardCreate   == <<"validate", "config", "pod", "peer">> \o ServiceSteps
AristaCreate    == <<"configMap", "crd">>
NokiaCreate     == <<"validate", "configMap", "crd", "watch">> \o ServiceSteps
DrivenetsCreate == <<"configMap", "crd">>
LemmingCreate   == <<"crd">>
KeysightCreate  == <<"deployed">>

(* GenerateSelfSigned, which follows Create in the same goroutine. That a     *)
(* kind does not implement it is no error.                                    *)
NokiaCert   == <<"watch", "open", "cert">>
JuniperCert == <<"running", "open", "cert", "grpc">>

(* Mutation of ImplDelete: the pod, which DeleteConfig goes by, is deleted first. *)
ImplDeletePodFirst == <<"proxy", "services", "pod", "config">>

(* Delete. "config" is DeleteConfig. *)
ImplDelete      == <<"proxy", "services", "config", "pod">>
CienaDelete     == <<"files">> \o ImplDelete
AristaDelete    == <<"crd", "config">>
NokiaDelete     == <<"crd", "proxy", "services", "config">>
DrivenetsDelete == <<"crd">>
LemmingDelete   == <<"crd">>
KeysightDelete  == <<"crd">>

(* ConfigPush and ResetCfg, for the kinds that implement them; some kinds'   *)
(* ResetCfg does nothing.                                                    *)
AristaPush  == <<"read", "open", "send">>
CiscoPush   == <<"read", "open", "send">>
JuniperPush == <<"read", "open", "stage", "commit">>
NokiaPush   == <<"read", "open", "stage", "commit">>
AristaReset  == <<"open", "commit">>
CiscoReset   == <<"open", "commit">>
XRdReset     == <<"validate", "open", "stage", "commit">>
JuniperReset == <<"open", "override", "grpc">>
NokiaReset   == <<"open", "commit">>
NoopReset    == <<>>

ByOperator == {"arista", "nokia", "drivenets", "lemming", "keysight"}

CreateOf ==
    [host |-> HostCreate, alpine |-> AlpineCreate, sonic |-> SonicCreate, ciena |-> CienaCreate,
     cisco |-> CiscoCreate, xrd |-> XRdCreate, juniper |-> JuniperCreate, forward |-> ForwardCreate,
     arista |-> AristaCreate, nokia |-> NokiaCreate, drivenets |-> DrivenetsCreate,
     lemming |-> LemmingCreate, keysight |-> KeysightCreate]

CertOf(n) ==
    IF n \notin Certified THEN <<>>
    ELSE CASE kind[n] = "nokia" -> NokiaCert [] kind[n] = "juniper" -> JuniperCert [] OTHER -> <<>>

DeleteOf(k) ==
    CASE k = "ciena" -> CienaDelete [] k = "arista" -> AristaDelete [] k = "nokia" -> NokiaDelete
      [] k = "drivenets" -> DrivenetsDelete [] k = "lemming" -> LemmingDelete
      [] k = "keysight" -> KeysightDelete [] OTHER -> ImplDelete

PushOf  == [arista |-> AristaPush, cisco |-> CiscoPush, xrd |-> CiscoPush,
            juniper |-> JuniperPush, nokia |-> NokiaPush]
ResetOf == [arista |-> AristaReset, cisco |-> CiscoReset, xrd |-> XRdReset,
            juniper |-> JuniperReset, nokia |-> NokiaReset,
            lemming |-> NoopReset, drivenets |-> NoopReset]

Program(n) ==
    CASE job[n].op = "create" -> CreateOf[kind[n]] \o CertOf(n)
      [] job[n].op = "delete" -> DeleteOf(kind[n])
      [] job[n].op = "push"   -> PushOf[kind[n]]
      [] job[n].op = "reset"  -> ResetOf[kind[n]]

Running(n, op) == job[n].op = op /\ job[n].pc <= Len(Program(n))
Step(n) == Program(n)[job[n].pc]

Kinds == DOMAIN CreateOf
Confs == {"none", "empty", "small", "large"}

ASSUME SortsAssumption == Sorts \in [Nodes -> SUBSET (Kinds \X Confs)]

NodeInit ==
    /\ \E sort \in [Nodes -> Kinds \X Confs] :
        /\ \A n \in Nodes : sort[n] \in Sorts[n]
        /\ kind = [n \in Nodes |-> sort[n][1]] /\ conf = [n \in Nodes |-> sort[n][2]]
    /\ ns = "gone"
    /\ objs = [n \in Nodes |-> {}] /\ files = {} /\ vol = [n \in Nodes |-> "none"]
    /\ dev = [n \in Nodes |-> "before"]
    /\ job = [n \in Nodes |-> NoJob] /\ ret = [n \in Nodes |-> NoRet]
    /\ faults = 0

(* A call fails of itself. *)
Fault == faults < MaxFaults /\ faults' = faults + 1

Begin(op) == [NoJob EXCEPT !.op = op]
Advance(n) == job' = [job EXCEPT ![n].pc = @ + 1] /\ ret' = ret
FinishAt(n, r, at) ==
    /\ job' = [job EXCEPT ![n] = NoJob]
    /\ ret' = [ret EXCEPT ![n] = [op |-> job[n].op, res |-> r, at |-> IF r = "nil" THEN at ELSE "end"]]
Finish(n, r) == FinishAt(n, r, "end")

-----------------------------------------------------------------------------
(* CreateConfig of the kinds with an operator: a config map for whatever the  *)
(* start-up configuration holds, an empty one and one that is too large too.  *)
StoredAnySize(n) == IF conf[n] = "none" THEN {} ELSE {"configMap"}

(* The objects a call of Create makes, if it succeeds. *)
Creates(n, s) ==
    CASE s \in {"config", "srcConfig"} -> IF conf[n] = "small" THEN {"configMap"} ELSE {}
      [] s = "configMap" -> StoredAnySize(n)
      [] s \in Objects -> {s}
      [] OTHER -> {}

(* A call to the API server needs its context, and a new object its name and  *)
(* a namespace that is not going away. A file needs none of these, nor do     *)
(* the command line's calls.                                                  *)
Possible(n, s) ==
    /\ s = "running" => ~job[n].dead
    /\ s = "deployed" => ~job[n].dead /\ ns = "active" /\ "crd" \in objs[n]
    /\ Creates(n, s) # {} => /\ ~job[n].dead /\ ns = "active" /\ Creates(n, s) \cap objs[n] = {}
                             /\ s = "configMap" => conf[n] # "large"

(* Calls that wait: for the command line without heeding the context. *)
Waits(n, s) == s = "open" \/ (s = "running" /\ ~job[n].dead)

(* Nothing is called for a start-up configuration there is not. *)
CannotFail(n, s) == s \in {"config", "srcConfig", "configMap"} /\ conf[n] = "none"

(* CreatePod uses the volume that CreateConfig returns, which is nil for an   *)
(* empty configuration.                                                       *)
NilVolume(n, s) == s = "config" /\ conf[n] = "empty"

(* The volume named ConfigVolumeName of the pod. *)
PodVolume(n) ==
    CASE kind[n] \in {"juniper", "xrd"} -> "emptyDir"
      [] conf[n] = "small" -> "configMap"
      [] conf[n] = "large" -> "file"
      [] OTHER -> "none"

CreateCall(n) ==
    /\ Running(n, "create")
    /\ LET s == Step(n) IN
       /\ Possible(n, s) /\ ~Waits(n, s) /\ ~NilVolume(n, s)
       /\ objs' = [objs EXCEPT ![n] = @ \cup Creates(n, s)]
       /\ files' = files \cup {m \in {n} : s \in {"config", "srcConfig"} /\ conf[n] = "large"}
       /\ vol' = [vol EXCEPT ![n] = IF s = "pod" THEN PodVolume(n) ELSE @]
       /\ job' = [job EXCEPT ![n].pc = @ + 1, ![n].made = @ \cup (Creates(n, s) \cap Services)]
    /\ UNCHANGED <<kind, conf, ns, dev, ret, faults>>

CreateReturns(n) ==
    /\ job[n].op = "create" /\ ~Running(n, "create")
    /\ Finish(n, "nil")
    /\ UNCHANGED <<kind, conf, ns, cluster, dev, faults>>

(* A failed call ends Create; one of CreateService's has the services of this *)
(* Create deleted first.                                                      *)
CreateFails(n) ==
    /\ Running(n, "create")
    /\ LET s == Step(n) IN
       /\ ~CannotFail(n, s)
       /\ (~Possible(n, s) /\ faults' = faults) \/ Fault
       /\ IF s \in Services \cup {"proxy"}
          THEN job' = [job EXCEPT ![n].op = "rollback"] /\ ret' = ret
          ELSE Finish(n, "error")
    /\ UNCHANGED <<kind, conf, ns, cluster, dev>>

NodePanics(n) ==
    /\ Running(n, "create") /\ NilVolume(n, Step(n))
    /\ job' = [job EXCEPT ![n].op = "panic"]
    /\ UNCHANGED <<kind, conf, ns, cluster, dev, ret, faults>>

(* The deletions use the same context; their errors are ignored. *)
Rollback(n) ==
    /\ job[n].op = "rollback"
    /\ \/ ~job[n].dead /\ objs' = [objs EXCEPT ![n] = @ \ job[n].made] /\ faults' = faults
       \/ ~job[n].dead /\ objs' \in {[objs EXCEPT ![n] = @ \ d] : d \in SUBSET job[n].made} /\ Fault
       \/ job[n].dead /\ objs' = objs /\ faults' = faults
    /\ job' = [job EXCEPT ![n] = NoJob]
    /\ ret' = [ret EXCEPT ![n] = [NoRet EXCEPT !.op = "create", !.res = "error"]]
    /\ UNCHANGED <<kind, conf, ns, files, vol, dev>>

-----------------------------------------------------------------------------
(* DeleteConfig goes by the pod's volumes: without the pod, or without the    *)
(* volume of that name, nothing is removed.                                   *)
Removes(n, s) ==
    CASE s = "services" -> Services
      [] s = "config" -> IF "pod" \in objs[n] /\ vol[n] = "configMap" THEN {"configMap"} ELSE {}
      [] OTHER -> {s}

RemovesFile(n, s) == s = "config" /\ "pod" \in objs[n] /\ vol[n] = "file"

(* An object that is not there is no error, save for a custom resource.       *)
(* DeleteService joins the errors of the proxy and the services.              *)
DeleteCall(n) ==
    /\ Running(n, "delete")
    /\ LET s == Step(n) IN
       /\ ~job[n].dead
       /\ s = "crd" => "crd" \in objs[n]
       /\ objs' = [objs EXCEPT ![n] = @ \ Removes(n, s)]
       /\ files' = files \ {m \in {n} : RemovesFile(n, s)}
       /\ IF job[n].failed /\ s = "services" /\ kind[n] \in ByOperator
          THEN Finish(n, "error") ELSE Advance(n)
    /\ UNCHANGED <<kind, conf, ns, vol, dev, faults>>

(* An error ends the vendors' own Delete. Impl.Delete goes on and joins the   *)
(* errors, but does not delete the pod when DeleteConfig fails. That of the   *)
(* equipment file is only logged.                                             *)
DeleteFails(n) ==
    /\ Running(n, "delete")
    /\ LET s == Step(n)
           hopeless == job[n].dead \/ (s = "crd" /\ "crd" \notin objs[n])
       IN /\ (hopeless /\ faults' = faults) \/ Fault
          /\ objs' \in IF s = "services" /\ ~hopeless
                       THEN {[objs EXCEPT ![n] = @ \ d] : d \in SUBSET Services} ELSE {objs}
          /\ IF (kind[n] \in ByOperator /\ s # "proxy") \/ s = "config"
             THEN Finish(n, "error")
             ELSE /\ job' = [job EXCEPT ![n].pc = @ + 1, ![n].failed = @ \/ s # "files"]
                  /\ ret' = ret
    /\ UNCHANGED <<kind, conf, ns, files, vol, dev>>

DeleteReturns(n) ==
    /\ job[n].op = "delete" /\ ~Running(n, "delete")
    /\ Finish(n, IF job[n].failed THEN "error" ELSE "nil")
    /\ UNCHANGED <<kind, conf, ns, cluster, dev, faults>>

-----------------------------------------------------------------------------
Cli(n) == Running(n, "push") \/ Running(n, "reset")

(* What a call on the command line makes of the device's configuration. The   *)
(* reset of a Juniper first drops the gRPC configuration, then adds it again. *)
Applies(n, s) ==
    CASE s \in {"send", "commit"} -> job[n].op
      [] s = "override" -> "partial"
      [] s = "grpc" -> "reset"
      [] OTHER -> dev[n]

CliCall(n) ==
    /\ Cli(n) /\ ~Waits(n, Step(n))
    /\ dev' = [dev EXCEPT ![n] = Applies(n, Step(n))]
    /\ Advance(n)
    /\ UNCHANGED <<kind, conf, ns, cluster, faults>>

(* ConfigPush of a Juniper returns for an empty configuration, which asks for *)
(* no change. The other kinds go on and send it.                              *)
NothingToPush(n) ==
    /\ Running(n, "push") /\ kind[n] = "juniper" /\ Step(n) = "read"
    /\ dev' = [dev EXCEPT ![n] = "push"]
    /\ Finish(n, "nil")
    /\ UNCHANGED <<kind, conf, ns, cluster, faults>>

(* Mutation of Refused: every kind returns the error of the response before. *)
RefusedAny(n) == IF Step(n) = "commit" THEN {"nil", "error"} ELSE {"error"}

(* What is returned when a call fails. ConfigPush of a Nokia returns the      *)
(* error of an earlier response, nil, when the device refuses the commit;     *)
(* that of a Juniper looks for an empty configuration before it looks at the  *)
(* error of the read, which may have read nothing.                            *)
Refused(n) ==
    IF job[n].op = "push" /\ <<kind[n], Step(n)>> \in {<<"nokia", "commit">>, <<"juniper", "read">>}
    THEN {"nil", "error"} ELSE {"error"}

(* The read fails, a connection cannot be made or breaks, or the device       *)
(* refuses. Lines that are sent one by one may have been applied.             *)
CliFails(n) ==
    /\ Cli(n) /\ Fault
    /\ \E r \in Refused(n) : FinishAt(n, r, Step(n))
    /\ \/ dev' = dev
       \/ Step(n) = "send" /\ dev' = [dev EXCEPT ![n] = "partial"]
    /\ UNCHANGED <<kind, conf, ns, cluster>>

CliReturns(n) ==
    /\ job[n].op \in {"push", "reset"} /\ ~Cli(n)
    /\ Finish(n, "nil")
    /\ UNCHANGED <<kind, conf, ns, cluster, dev, faults>>

-----------------------------------------------------------------------------
(* The vendors' operators make a pod for a custom resource and remove it with *)
(* the resource. The pod may mount the configuration under the name that      *)
(* DeleteConfig looks for. The pods of the kinds that do not call it, nor     *)
(* open a command line, are left out.                                         *)
OperatorCreates(n) ==
    /\ kind[n] \in {"arista", "nokia"} /\ ns = "active" /\ "crd" \in objs[n] /\ "pod" \notin objs[n]
    /\ objs' = [objs EXCEPT ![n] = @ \cup {"pod"}]
    /\ \E v \in {"none"} \cup ({"configMap"} \cap objs[n]) : vol' = [vol EXCEPT ![n] = v]
    /\ UNCHANGED <<kind, conf, ns, files, dev, job, ret, faults>>

OperatorDeletes(n) ==
    /\ kind[n] \in ByOperator /\ "crd" \notin objs[n] /\ "pod" \in objs[n]
    /\ objs' = [objs EXCEPT ![n] = @ \ {"pod"}]
    /\ UNCHANGED <<kind, conf, ns, files, vol, dev, job, ret, faults>>

(* What an operation waits for happens: the pod runs, the command line comes  *)
(* up and is opened. It need not.                                             *)
DeviceReady(n) ==
    /\ \E op \in {"create", "push", "reset"} : Running(n, op) /\ Waits(n, Step(n))
    /\ "pod" \in objs[n]
    /\ Advance(n)
    /\ UNCHANGED <<kind, conf, ns, cluster, dev, faults>>

(* The steps of an operation, which its goroutine goes on with. *)
NodeCall(n) ==
    \/ CreateCall(n) \/ CreateReturns(n) \/ CreateFails(n) \/ NodePanics(n) \/ Rollback(n)
    \/ DeleteCall(n) \/ DeleteFails(n) \/ DeleteReturns(n)
    \/ CliCall(n) \/ NothingToPush(n) \/ CliFails(n) \/ CliReturns(n)

Surroundings(n) == OperatorCreates(n) \/ OperatorDeletes(n) \/ DeviceReady(n)

-----------------------------------------------------------------------------
(* The kinds whose pod mounts the configuration where DeleteConfig looks. *)
PlainConfig == {"host", "alpine", "sonic", "ciena", "cisco", "forward"}

(* What Create has made of a node. *)
Whole(n) ==
    /\ \A i \in 1..Len(CreateOf[kind[n]]) : Creates(n, CreateOf[kind[n]][i]) \subseteq objs[n]
    /\ kind[n] = "keysight" => "crd" \in objs[n]
    /\ kind[n] \notin ByOperator /\ conf[n] = "large" => n \in files

(* Delete of a node that returns nil has left none of its services, its       *)
(* proxy, its pod or custom resource; and, unless the namespace was going     *)
(* away already, neither the config map nor the host file of the start-up     *)
(* configuration that its pod mounted in the plain way, also after a Delete   *)
(* that failed half-way.                                                      *)
NodeDeleted ==
    \A n \in Nodes : ret[n].op = "delete" /\ ret[n].res = "nil" =>
        /\ objs[n] \cap (Services \cup {"proxy", "crd"}) = {}
        /\ kind[n] \notin ByOperator => "pod" \notin objs[n]
        /\ kind[n] \in PlainConfig /\ ns = "active" => "configMap" \notin objs[n] /\ n \notin files

(* A ConfigPush or ResetCfg that returns nil has changed the device's         *)
(* configuration as asked, whichever of its calls fails. The exceptions are   *)
(* three: ConfigPush of a Nokia returns nil for a commit that the device has  *)
(* refused, that of a Juniper for a configuration of which a failing read got *)
(* nothing, and ResetCfg of a Lemming or a Drivenets node does nothing.       *)
ChangesApplied ==
    \A n \in Nodes : ret[n].op \in {"push", "reset"} /\ ret[n].res = "nil" =>
        \/ dev[n] = ret[n].op
        \/ ret[n].op = "push" /\ kind[n] = "nokia" /\ ret[n].at = "commit"
        \/ ret[n].op = "push" /\ kind[n] = "juniper" /\ ret[n].at = "read"
        \/ ret[n].op = "reset" /\ kind[n] \in {"lemming", "drivenets"}
=============================================================================
