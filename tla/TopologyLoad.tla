------------------------------ MODULE TopologyLoad ------------------------------
(***************************************************************************)
(* From a topology file to the links of the pods: Manager.load connects    *)
(* the interfaces of the nodes, every vendor's New may rename or refuse    *)
(* them, TopologySpecs turns them into meshnet links, and topologySpecs    *)
(* (topo/topo.go) replaces the peer node of every link by the peer's pod.  *)
(*                                                                         *)
(* These are functions of their input, up to the order in which Go walks a *)
(* map and the pods that the operator of a traffic generator chooses, so   *)
(* they are operators; one that has several results gives their set.       *)
(***************************************************************************)
EXTENDS Naturals, Sequences, FiniteSets, SequencesExt

(* A topology is [nodes : Seq of [name, vendor, interfaces],               *)
(* links : Seq of [a, ai, z, zi]].                                         *)

(* An interface before a link names it.                                    *)
Unlinked == [peer |-> "", peerInt |-> "", uid |-> 0]

(* nMap: of two nodes with the same name the later one counts.             *)
NodeNames(t) == {t.nodes[i].name : i \in DOMAIN t.nodes}
NodeOf(t, n) == t.nodes[CHOOSE i \in DOMAIN t.nodes :
                          /\ t.nodes[i].name = n
                          /\ \A j \in DOMAIN t.nodes : t.nodes[j].name = n => j <= i]

(***************************************************************************)
(* "kne topology generate ring" writes a topology file: count copies of    *)
(* the first node, without its interfaces, each with "links" links to the  *)
(* next one.  It writes nothing for a ring of one or without links.        *)
(***************************************************************************)
CopyNames == <<"r1-0", "r1-1", "r1-2">>
RingNames == <<"eth1", "eth2", "eth3", "eth4">>

GenerateRing(t, count, links) ==
  IF links <= 0 \/ count <= 1 \/ t.nodes = << >> THEN {}
  ELSE {[nodes |-> [i \in 1 .. count |->
                      [name |-> CopyNames[i], vendor |-> Head(t.nodes).vendor, interfaces |-> {}]],
         links |-> [k \in 1 .. count * links |->
                      LET i == (k - 1) \div links
                          j == ((k - 1) % links) + 1
                      IN [a |-> CopyNames[i + 1], ai |-> RingNames[j],
                          z |-> CopyNames[((i + 1) % count) + 1], zi |-> RingNames[j + links]]]]}

(***************************************************************************)
(* load, first part: the links in their order.  The interfaces a link      *)
(* names are added to their nodes; both must be free; the index of the     *)
(* link is its UID at both ends.                                           *)
(***************************************************************************)
Refused == [n \in {} |-> << >>]

AddInterface(ifs, n, i) ==
  IF i \in DOMAIN ifs[n] THEN ifs
  ELSE [ifs EXCEPT ![n] = [k \in DOMAIN ifs[n] \cup {i} |->
                             IF k = i THEN Unlinked ELSE ifs[n][k]]]

Connect(ifs, l, uid) ==
  IF ifs = Refused \/ {l.a, l.z} \ DOMAIN ifs # {} THEN Refused
  ELSE LET both == AddInterface(AddInterface(ifs, l.a, l.ai), l.z, l.zi)
       IN IF both[l.a][l.ai].peer # "" \/ both[l.z][l.zi].peer # "" THEN Refused
          ELSE [both EXCEPT ![l.a][l.ai] = [peer |-> l.z, peerInt |-> l.zi, uid |-> uid],
                            ![l.z][l.zi] = [peer |-> l.a, peerInt |-> l.ai, uid |-> uid]]

ConnectAll(t) ==
  FoldLeftDomain(LAMBDA ifs, i : Connect(ifs, t.links[i], i - 1),
                 [n \in NodeNames(t) |-> [k \in NodeOf(t, n).interfaces |-> Unlinked]],
                 t.links)

(***************************************************************************)
(* load, second part: node.New for every node.  The interfaces keep their  *)
(* peers and may change their names.                                       *)
(***************************************************************************)

(* The name that SONiC and Alpine nodes give to an interface depends on    *)
(* how many "Ethernet" names the walk through the map has met before it.   *)
EthernetNames == {"Ethernet0", "Ethernet4", "Ethernet8"}
EthNames == <<"eth1", "eth2", "eth3">>

CountedName(order, i) ==
  IF order[i] \notin EthernetNames THEN order[i]
  ELSE EthNames[Cardinality({j \in 1..i : order[j] \in EthernetNames})]

(* Ciena keeps the last number of a port.                                  *)
PortNumber == [p \in {"1", "1/5/1", "2/5/1", "2"} |-> IF p = "2" THEN "eth2" ELSE "eth1"]
PortName(order, i) == IF order[i] \in DOMAIN PortNumber THEN PortNumber[order[i]] ELSE order[i]

NewName(vendor, order, i) ==
  CASE vendor \in {"sonic", "alpine"} -> CountedName(order, i)
    [] vendor = "ciena" -> PortName(order, i)
    [] OTHER -> order[i]

(* Of two interfaces that get the same name the later one stays.           *)
RenamedIn(vendor, ifs, order) ==
  LET name == [i \in DOMAIN order |-> NewName(vendor, order, i)]
      last(m) == CHOOSE i \in DOMAIN order :
                   name[i] = m /\ \A j \in DOMAIN order : name[j] = m => j <= i
  IN [m \in Range(name) |-> ifs[order[last(m)]]]

RenameInterfaces(vendor, ifs) ==
  {RenamedIn(vendor, ifs, order) : order \in SetToSeqs(DOMAIN ifs)}

(* What the constructors refuse: a Cisco port needs a number after "eth",  *)
(* an in-cluster proxy has exactly eth1, and only registered vendors have  *)
(* a constructor.                                                          *)
Vendors == {"host", "sonic", "alpine", "ciena", "keysight", "cisco", "proxy"}
NumberedNames == {"eth0", "eth1", "eth2", "eth3", "eth4"}

New(vendor, ifs) ==
  IF \/ vendor \notin Vendors
     \/ vendor = "cisco" /\ ~(DOMAIN ifs \subseteq NumberedNames)
     \/ vendor = "proxy" /\ DOMAIN ifs # {"eth1"}
  THEN {}
  ELSE RenameInterfaces(vendor, ifs)

(* A link from a node to itself needs a node with a pod per port.          *)
BackToBackLoop(vendor) == vendor = "keysight"

(* The results of load: {} if it fails.                                    *)
Load(t) ==
  LET ifs == ConnectAll(t)
      loops == \E i \in DOMAIN t.links :
                 /\ t.links[i].a = t.links[i].z
                 /\ ~BackToBackLoop(NodeOf(t, t.links[i].a).vendor)
  IN IF ifs = Refused THEN {}
     ELSE {r \in [NodeNames(t) -> UNION {New(NodeOf(t, n).vendor, ifs[n]) : n \in NodeNames(t)}] :
             ~loops /\ \A n \in NodeNames(t) : r[n] \in New(NodeOf(t, n).vendor, ifs[n])}

(***************************************************************************)
(* TopologySpecs.  Most nodes are one pod, whose links are its interfaces  *)
(* except the management interface.  The operator of a traffic generator   *)
(* decides which port is which interface of which pod.                     *)
(***************************************************************************)
LinkOf(n, p, local, i) ==
  [node |-> n, pod |-> p, local |-> local, uid |-> i.uid, peer |-> i.peer]

Failed == {LinkOf("", << >>, "", Unlinked)}

GetNodeLinks(n, ifs) ==
  LET linked == DOMAIN ifs \ {"eth0"}
  IN IF \E k \in linked : ifs[k].peer = "" THEN Failed
     ELSE {LinkOf(n, <<n>>, k, ifs[k]) : k \in linked}

OperatorSpecs(n, ifs) ==
  { {LinkOf(n, <<n, k>>, "eth1", ifs[k]) : k \in DOMAIN ifs},
    {LinkOf(n, <<n, k>>, k, ifs[k]) : k \in DOMAIN ifs},
    {LinkOf(n, <<n, "all">>, k, ifs[k]) : k \in DOMAIN ifs} }

NodeSpecs(vendor, n, ifs) ==
  IF vendor = "keysight" THEN OperatorSpecs(n, ifs) ELSE {GetNodeLinks(n, ifs)}

(* Mutation of Peers: at a node that is its own peer, an end may be its    *)
(* own peer.                                                               *)
PeersAny(links, l) == {p \in links : p.node = l.peer /\ p.uid = l.uid}

(***************************************************************************)
(* setLinkPeer: the ends of the same UID at the peer node; at a node that  *)
(* is its own peer, one whose interface has another name.  The first that  *)
(* the walk meets is taken, so any of them may be.                         *)
(***************************************************************************)
Peers(links, l) ==
  {p \in links : /\ p.node = l.peer
                 /\ p.uid = l.uid
                 /\ ~(l.node = l.peer /\ p.local = l.local)}

(* The results of topologySpecs: all links of all pods, if every one has a *)
(* peer.                                                                   *)
TopologySpecs(t) ==
  UNION {
    {links \in {UNION {s[n] : n \in NodeNames(t)} :
                  s \in {f \in [NodeNames(t) -> UNION {NodeSpecs(NodeOf(t, n).vendor, n, ifs[n]) :
                                                         n \in NodeNames(t)}] :
                           \A n \in NodeNames(t) :
                             f[n] \in NodeSpecs(NodeOf(t, n).vendor, n, ifs[n]) \ {Failed}}} :
       \A l \in links : Peers(links, l) # {}}
    : ifs \in Load(t)}

(***************************************************************************)
(* What the meshnet resources have to say.                                 *)
(***************************************************************************)
Ends(links, uid) == {l \in links : l.uid = uid}

(* An end that never becomes a meshnet link, or may lose its name to       *)
(* another interface of its node.                                          *)
InterfacesOf(t, n) ==
  NodeOf(t, n).interfaces \cup {l.ai : l \in {x \in Range(t.links) : x.a = n}}
                          \cup {l.zi : l \in {x \in Range(t.links) : x.z = n}}
MayVanish(t, n, i) ==
  \/ i = "eth0"
  \/ \E ifs \in RenameInterfaces(NodeOf(t, n).vendor, [k \in InterfacesOf(t, n) |-> k]) :
       i \notin Range(ifs)

(* If the meshnet resources are computed without an error, every link of   *)
(* the topology is in them twice, each end naming the pod and the          *)
(* interface of the other end and nothing else; no end is in them alone.   *)
(* A link may be missing from both its pods only if both its ends may      *)
(* vanish: management interfaces, and interfaces that a vendor's renaming  *)
(* gives a name that is taken (renameInterfaces drops one of them, with no *)
(* error).                                                                 *)
Mirrored(t) ==
  \A links \in TopologySpecs(t) :
    /\ \A i \in DOMAIN t.links :
         LET l == t.links[i]
             ends == Ends(links, i - 1)
         IN \/ ends = {} /\ MayVanish(t, l.a, l.ai) /\ MayVanish(t, l.z, l.zi)
            \/ /\ Cardinality(ends) = 2
               /\ {e.node : e \in ends} = {l.a, l.z}
               /\ \A e \in ends : Peers(links, e) = ends \ {e}
    /\ \A l \in links : l.uid + 1 \in DOMAIN t.links
==================================================================================
