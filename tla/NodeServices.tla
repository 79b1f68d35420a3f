------------------------------ MODULE NodeServices ------------------------------
(***************************************************************************)
(* The services of a node, from the ports of the topology file to what     *)
(* "kne show" prints: push names the ports (updateServicePortName), Impl.  *)
(* CreateService makes one Kubernetes service for each type and a proxy    *)
(* for IPv6, Impl.Services finds them again by their label, and            *)
(* populateServiceMap folds them back into the topology's map.             *)
(***************************************************************************)
EXTENDS Naturals, Sequences, SequencesExt

(* The largest port number that CreateService lets through.                *)
MaxUint16 == 65535

(* One entry of the services of a node, keyed by the port outside.         *)
ServiceAsk ==
  [name : {"", "ssh"}, names : {<<>>, <<"", "gnmi">>},
   type : {"UNKNOWN", "LOAD_BALANCER", "NODE_PORT", "CLUSTER_IP"},
   inside : {22, 9339}, node : {0, 30001}, v6 : BOOLEAN]

(***************************************************************************)
(* updateServicePortName: the name, else the first name that is not empty, *)
(* else one made from the key.                                             *)
(***************************************************************************)
NoName == [text |-> "", port |-> 0]

ServicePortName(ask, key) ==
  LET names == SelectSeq(ask.names, LAMBDA n : n # "")
  IN CASE ask.name # "" -> [text |-> ask.name, port |-> 0]
       [] ask.name = "" /\ names # <<>> -> [text |-> Head(names), port |-> 0]
       [] OTHER -> [text |-> "", port |-> key]

(***************************************************************************)
(* Impl.CreateService.                                                     *)
(***************************************************************************)
Types == <<"LoadBalancer", "NodePort", "ClusterIP">>

K8sServiceType(t) ==
  CASE t = "NODE_PORT" -> "NodePort"
    [] t = "CLUSTER_IP" -> "ClusterIP"
    [] OTHER -> "LoadBalancer"

OutOfRange(asks) == \E k \in DOMAIN asks : asks[k].node > MaxUint16 \/ k > MaxUint16

(* Mutation of Group: every port goes to every service.                    *)
GroupAll(asks, type) == DOMAIN asks

Group(asks, type) == {k \in DOMAIN asks : K8sServiceType(asks[k].type) = type}

ServiceFor(asks, type) ==
  [type |-> type,
   ports |-> [k \in Group(asks, type) |->
                [name |-> ServicePortName(asks[k], k), target |-> asks[k].inside, node |-> asks[k].node]]]

(* The services to create, in the order of Types.                          *)
ToCreate(asks) ==
  LET types == SelectSeq(Types, LAMBDA t : Group(asks, t) # {})
  IN [i \in DOMAIN types |-> ServiceFor(asks, types[i])]

(* External: the API server refuses two ports of one name in a service, a  *)
(* node port that is taken, or one for a service inside the cluster; it    *)
(* allocates the node ports of a NodePort service.                         *)
Rejected(services) ==
  \/ \E i \in DOMAIN services : \E j, k \in DOMAIN services[i].ports :
       j # k /\ services[i].ports[j].name = services[i].ports[k].name
  \/ \E h, i \in DOMAIN services :
       \E j \in DOMAIN services[h].ports, k \in DOMAIN services[i].ports :
         /\ <<h, j>> # <<i, k>>
         /\ services[h].ports[j].node # 0
         /\ services[h].ports[j].node = services[i].ports[k].node
  \/ \E i \in DOMAIN services : \E k \in DOMAIN services[i].ports :
       services[i].type = "ClusterIP" /\ services[i].ports[k].node # 0

Allocated(s) ==
  [s EXCEPT !.ports = [k \in DOMAIN @ |->
     IF s.type = "NodePort" /\ @[k].node = 0 THEN [@[k] EXCEPT !.node = 20000 + k] ELSE @[k]]]

Services(asks) == [i \in DOMAIN ToCreate(asks) |-> Allocated(ToCreate(asks)[i])]

(* The node ports that the DaemonSet of proxies listens on over IPv6.      *)
Proxies(asks) ==
  UNION {{s.ports[k].node : k \in {p \in DOMAIN s.ports : asks[p].v6 /\ s.ports[p].node > 0}} :
           s \in ToSet(Services(asks))}

(***************************************************************************)
(* Manager.Show: populateServiceMap for every service of the node.  No two *)
(* of them have a port in common, so their order does not matter.  A port  *)
(* that is not in the map is added to it.                                  *)
(***************************************************************************)
ServiceType(type) ==
  CASE type = "NodePort" -> "NODE_PORT"
    [] type = "LoadBalancer" -> "LOAD_BALANCER"
    [] type = "ClusterIP" -> "CLUSTER_IP"

Populate(shown, s) ==
  [k \in DOMAIN shown \cup DOMAIN s.ports |->
     IF k \notin DOMAIN s.ports THEN shown[k]
     ELSE [name |-> IF k \in DOMAIN shown /\ shown[k].name # NoName THEN shown[k].name
                    ELSE s.ports[k].name,
           outside |-> k, inside |-> s.ports[k].target, node |-> s.ports[k].node,
           type |-> ServiceType(s.type)]]

(* The map of a topology that was read again: push has not named its ports.*)
Loaded(asks) ==
  [k \in DOMAIN asks |->
     [name |-> [NoName EXCEPT !.text = asks[k].name], outside |-> 0, inside |-> asks[k].inside,
      node |-> asks[k].node, type |-> asks[k].type]]

ShowServices(asks, shown) == FoldLeft(Populate, shown, Services(asks))

(***************************************************************************)
(* All topologies with up to two ports on a node, one of them perhaps out  *)
(* of range.                                                               *)
(***************************************************************************)
Keys == {22, 9339, MaxUint16 + 1}

Asks == UNION {[K -> ServiceAsk] : K \in {L \in SUBSET Keys : L # {} /\ L # Keys}}

Accepted(asks) == ~OutOfRange(asks) /\ ~Rejected(ToCreate(asks))

(* What "kne show" prints of the services is what the topology asked for,  *)
(* although CreateService splits the ports over several Kubernetes         *)
(* services and populateServiceMap puts them together again by number:     *)
(* the same ports, each with its own type (a load balancer when the type   *)
(* was left out), target, name and, if one was asked for, node port;       *)
(* showing twice changes nothing; and exactly the node ports of the ports  *)
(* that asked for IPv6 are proxied.                                        *)
ShownAsAsked ==
  \A asks \in {a \in Asks : Accepted(a)} :
    LET shown == ShowServices(asks, Loaded(asks))
    IN /\ DOMAIN shown = DOMAIN asks
       /\ \A k \in DOMAIN asks :
            /\ shown[k].type = IF asks[k].type = "UNKNOWN" THEN "LOAD_BALANCER" ELSE asks[k].type
            /\ shown[k].inside = asks[k].inside /\ shown[k].outside = k
            /\ shown[k].name = ServicePortName(asks[k], k)
            /\ asks[k].node # 0 => shown[k].node = asks[k].node
       /\ ShowServices(asks, shown) = shown
       /\ Proxies(asks) = {shown[k].node : k \in {p \in DOMAIN asks : asks[p].v6 /\ shown[p].node # 0}}
=================================================================================
