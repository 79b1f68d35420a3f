----------------------------- MODULE MCTopologyLoad -----------------------------
(***************************************************************************)
(* The topologies for which TopologyLoad is evaluated: two nodes of every  *)
(* pair of vendors and up to two links between any of their interfaces,    *)
(* loops included; and, with up to three links, the nodes that rename, a   *)
(* declared interface, a name used twice, a link to a missing node and a   *)
(* vendor without constructor.                                             *)
(***************************************************************************)
EXTENDS TopologyLoad

PortsOf ==
  [host |-> {"eth0", "eth1", "Ethernet0"}, sonic |-> {"eth1", "Ethernet0", "Ethernet4"},
   ciena |-> {"eth1", "1/5/1", "2"}, keysight |-> {"eth1", "eth2"},
   cisco |-> {"eth1", "Ethernet0"}, proxy |-> {"eth1", "eth2"}]

TheNode(n, v, ifs) == [name |-> n, vendor |-> v, interfaces |-> ifs]

LinksFrom(names, ports) ==
  {[a |-> "r1", ai |-> i, z |-> n, zi |-> j] : n \in names, i \in ports, j \in ports}

MCTopologies ==
  UNION {{[nodes |-> <<TheNode("r1", v, {}), TheNode("r2", w, {})>>, links |-> ls] :
            ls \in BoundedSeq(LinksFrom({"r1", "r2"}, PortsOf[v] \cup PortsOf[w]), 2)}
         : v, w \in {"host", "sonic", "keysight"}}
  \cup
  UNION {{[nodes |-> <<TheNode("r1", v, {}), TheNode("r2", v, {})>>, links |-> ls] :
            ls \in BoundedSeq(LinksFrom({"r2"}, PortsOf[v]), 3)}
         : v \in {"sonic", "ciena"}}
  \cup
  UNION {{[nodes |-> <<TheNode("r2", "host", {"eth2"}), TheNode("r1", v, {"eth0"}),
                       TheNode("r2", "keysight", {})>>, links |-> ls] :
            ls \in BoundedSeq(LinksFrom({"r2", "r3"}, PortsOf[v]), 2)}
         : v \in {"host", "cisco", "proxy"}}
  \cup {[nodes |-> <<TheNode("r1", "none", {})>>, links |-> << >>]}

(* Rings of every vendor, and what generate-ring does not write.           *)
MCRings ==
  UNION {GenerateRing([nodes |-> ns, links |-> << >>], count, links) :
           ns \in {<<TheNode("r1", v, {"eth9"})>> : v \in Vendors \ {"proxy"}} \cup {<< >>},
           count \in 1 .. 3, links \in 0 .. 2}
================================================================================
