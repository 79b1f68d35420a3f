--------------------------- MODULE MCTopologyCreate ---------------------------
(***************************************************************************)
(* TopologyCreate for TLC, with what Create computes from a topology and   *)
(* from the cluster: its links, defaults, services, ports and states.      *)
(* These are functions, so what is said of them is said once, of all their *)
(* inputs, in a state in which Create is called.                           *)
(***************************************************************************)
EXTENDS TopologyCreate, MCTopologyLoad, NodeDefaults, NodeStatus, NodeServices, NodePorts

AtCall == step = "setup" /\ nodesReady /\ ~callerDone

(* When Create is called, every topology of MCTopologies gets links that   *)
(* are mirrored, from load through the vendors' renaming to what           *)
(* setLinkPeer makes of the peers: every link is in the meshnet resources  *)
(* at both its ends, each naming the other's pod and interface (Mirrored   *)
(* has the exceptions).  Every ring that "generate ring" writes is         *)
(* accepted and has all its links, no interface being used twice.          *)
LinksMirrored ==
  AtCall => /\ \A t \in MCTopologies \cup MCRings : Mirrored(t)
            /\ \A t \in MCRings : /\ TopologySpecs(t) # {}
                                  /\ \A l \in TopologySpecs(t) : Cardinality(l) = 2 * Len(t.links)

(* When Create is called, the vendors' constructors have not panicked,     *)
(* have kept what the user set, and have given every node an image;        *)
(* constructing a node again changes nothing (DefaultsKeepConfig).         *)
UserConfigKept == AtCall => DefaultsKeepConfig

(* Create and "kne show" draw the same conclusions from the same cluster,  *)
(* whatever mixture of vendors the topology has, and no vendor's Status    *)
(* takes a node that is coming up for a failure (StatusesAgree).           *)
ShowAgreesWithCreate == AtCall => StatusesAgree

(* What "kne show" prints of the services is what the topology asked       *)
(* Create for, although CreateService splits them and populateServiceMap   *)
(* puts them together again (ShownAsAsked).                                *)
ServicesShown == AtCall => ShownAsAsked

(* Each interface that the vendors' code accepts is served by one port,    *)
(* card, process or address, and by one only (PortsServe).                 *)
InterfacesServed == AtCall => PortsServe
===============================================================================
