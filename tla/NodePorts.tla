------------------------------- MODULE NodePorts --------------------------------
(***************************************************************************)
(* What the vendors plug the interfaces of a node into: a port of a Cisco  *)
(* 8000 (getCiscoInterfaceID), a line card of an SR Linux chassis          *)
(* (lineCards), a process of the bridge (wirePlan, peerEndpoint and the    *)
(* containers of forward's CreatePod) and the far address of a proxy's     *)
(* point-to-point link (inclusterproxy's defaults and validate).           *)
(***************************************************************************)
EXTENDS Integers, Sequences, FiniteSets, SequencesExt, TLC

(***************************************************************************)
(* Cisco: the last port of each range of a model and the range's speed;    *)
(* the other models have no limit.                                         *)
(***************************************************************************)
(* Bound: the numbers around the limits of the models.                     *)
Numbers == {0, 1, 2, 80} \cup (23 .. 26) \cup (31 .. 38) \cup (47 .. 50) \cup (59 .. 66) \cup (71 .. 74)

Faceplate(model) ==
  CASE model = "8201" -> <<<<23, 400>>, <<35, 100>>>>
    [] model = "8202" -> <<<<47, 100>>, <<59, 400>>, <<71, 100>>>>
    [] model = "8201-32FH" -> <<<<31, 400>>>>
    [] model = "8101-32H" -> <<<<31, 100>>>>
    [] model = "8102-64H" -> <<<<63, 100>>>>
    [] OTHER -> <<>>

(* The names of interfaces: a word, a number, perhaps more after it, as in *)
(* "eth1/2".                                                               *)
Names == [word : {"e", "et", "eth"}, number : Numbers, more : BOOLEAN]

(* The expression takes "et" for "eth", and what precedes the word, but    *)
(* not "e".                                                                *)
Matches(name) == name.word \in {"et", "eth"}

(* What follows the word, as a number; Atoi's error, with its zero, is     *)
(* ignored.                                                                *)
EthID(name) == IF name.more THEN 0 ELSE name.number

(* Mutation of CiscoPort: interface 1 is taken for port 1.                 *)
CiscoPortFromOne(model, name, named) ==
  LET id == EthID(name)
      fits == SelectSeq(Faceplate(model), LAMBDA r : id <= r[1])
  IN CASE ~Matches(name) -> {}
       [] Matches(name) /\ named # {} -> named
       [] Matches(name) /\ named = {} /\ Faceplate(model) = <<>> -> {[speed |-> 1, id |-> id]}
       [] Matches(name) /\ named = {} /\ fits # <<>> -> {[speed |-> Head(fits)[2], id |-> id]}
       [] OTHER -> {}

(* The port of an interface: none if it is refused, and the named one if   *)
(* the topology names one.                                                 *)
CiscoPort(model, name, named) ==
  LET id == EthID(name) - 1
      fits == SelectSeq(Faceplate(model), LAMBDA r : id <= r[1])
  IN CASE ~Matches(name) -> {}
       [] Matches(name) /\ named # {} -> named
       [] Matches(name) /\ named = {} /\ Faceplate(model) = <<>> -> {[speed |-> 1, id |-> id]}
       [] Matches(name) /\ named = {} /\ fits # <<>> -> {[speed |-> Head(fits)[2], id |-> id]}
       [] OTHER -> {}

(***************************************************************************)
(* Nokia: a card for each slot that an interface names; none at all leaves *)
(* the template of the model, which has a card in slot 1.                  *)
(***************************************************************************)
ModularModels == [ixr6 |-> 4, ixr6e |-> 4, ixr10 |-> 8, ixr10e |-> 8]

LineCards(model, components, slots) ==
  LET derived == {s \in slots : s >= 1 /\ s <= ModularModels[model]}
  IN IF components # {} THEN components
     ELSE IF model \notin DOMAIN ModularModels \/ derived = {1} THEN {}
     ELSE derived

(***************************************************************************)
(* Forward: the wires of a node, and the processes that carry them.        *)
(***************************************************************************)
End ==
  [kind : {"none"}, name : {""}, intf : {""}] \cup
  [kind : {"interface"}, name : {"", "eth1", "eth2", "eth3"}, intf : {""}] \cup
  [kind : {"local", "remote"}, name : {"", "peer"}, intf : {"", "eth9"}]

Wires == [a : End, z : End]

Intf(end) == IF end.kind = "interface" THEN end.name ELSE ""

(* The interface of this node on a wire, if the wire has exactly one.      *)
Local(w) == IF Intf(w.a) # "" THEN Intf(w.a) ELSE Intf(w.z)

PeerEndpointFails(end) == end.kind \notin {"local", "remote"} \/ end.name = ""

WirePlanFails(wires) ==
  \/ \E w \in ToSet(wires) :
       \/ Intf(w.a) # "" /\ Intf(w.z) # ""
       \/ Local(w) = ""
       \/ Intf(w.a) # "" /\ PeerEndpointFails(w.z)
  \/ \E i, j \in DOMAIN wires : i # j /\ Local(wires[i]) = Local(wires[j])

Server == [mode |-> "server", peer |-> "", intf |-> "", remote |-> ""]

Client(w) ==
  [mode |-> "client", peer |-> w.z.name, intf |-> Intf(w.a),
   remote |-> IF w.z.intf = "" THEN Intf(w.a) ELSE w.z.intf]

WirePlan(wires) ==
  LET dials == SelectSeq(wires, LAMBDA w : Intf(w.a) # "")
      clients == [i \in DOMAIN dials |-> Client(dials[i])]
  IN IF Len(dials) < Len(wires) THEN <<Server>> \o clients ELSE clients

(* Without wires there is one process, with the arguments of the topology. *)
Processes(wires) ==
  IF wires = <<>> THEN <<[Server EXCEPT !.mode = "args"]>> ELSE WirePlan(wires)

(* The first container has the name of the node, the others a suffix.      *)
ContainerName(procs, i) == IF i = 1 THEN <<>> ELSE <<procs[i].mode, procs[i].intf>>

(***************************************************************************)
(* The proxy: its own address is the other one of its peer's subnet.       *)
(***************************************************************************)
Address == [v6 : BOOLEAN, net : {0, 1}, host : {0, 1}, prefix : {24, 31, 127}]

DeriveFails(ip) == ip.prefix # IF ip.v6 THEN 127 ELSE 31

DeriveAdjacentIP(ip) == [ip EXCEPT !.host = 1 - @]

ProxyNode ==
  [pool : BOOLEAN, intfs : SUBSET {"eth1", "eth2"}, services : 0 .. 2,
   labels : SUBSET {"peer-ip", "peer-prefix", "target-port"}, peer : Address]

Generated(p) ==
  Cardinality(p.labels) = 3 /\ p.services = 1 /\ ~DeriveFails(p.peer)

ValidateFails(p) ==
  \/ ~p.pool
  \/ p.intfs # {"eth1"}
  \/ p.services # 1
  \/ p.labels # {} /\ (Cardinality(p.labels) # 3 \/ DeriveFails(p.peer))

(***************************************************************************)
(* The bounds: two interfaces of a router, three slots, three wires.       *)
(***************************************************************************)
(* The last interface that a model supports, as the errors say.            *)
Supported ==
  ("8201" :> 36) @@ ("8202" :> 72) @@ ("8201-32FH" :> 32) @@ ("8101-32H" :> 32) @@
  ("8102-64H" :> 64)

Slots == {S \in SUBSET (0 .. 9) : Cardinality(S) <= 3}

WireLists ==
  LET W == {w \in Wires : ~WirePlanFails(<<w>>)}
  IN {wires \in UNION {[1 .. n -> W] : n \in 0 .. 3} : ~WirePlanFails(wires)}

(* Whatever a topology asks for and the vendor's code accepts, each        *)
(* interface is served by one thing and by one only.  A Cisco 8000 takes   *)
(* eth1 to the last interface that its errors name and none beyond, each   *)
(* for a port that the model has, at one of the speeds.  Two names share a *)
(* port only if they read as one number: et1 is eth1, and eth0 and every   *)
(* name with more than a number, which reads as 0, are accepted as port    *)
(* -1, which no model has.  Every slot of the chassis that an SR Linux     *)
(* interface names has a card, and no card is outside the chassis.  Each   *)
(* wire of a forward node is carried by one process, all served wires by   *)
(* the same one, and the containers have different names.  A proxy that    *)
(* validate accepts has a command made from its labels if it has labels,   *)
(* and an address that differs from its peer's in the same subnet.         *)
PortsServe ==
  /\ \A m \in DOMAIN Supported :
       LET port == [name \in Names |-> CiscoPort(m, name, {})]
           taken == {name \in Names : port[name] # {}}
       IN /\ \A name \in Names : name.word = "eth" /\ ~name.more =>
               (name \in taken <=> name.number <= Supported[m])
          /\ \A name \in taken : \A p \in port[name] :
               p.id \in 0 .. Supported[m] - 1 \/ EthID(name) = 0
          /\ \A x, y \in taken : port[x] = port[y] => EthID(x) = EthID(y)
  /\ \A m \in DOMAIN ModularModels, S \in Slots :
       LET cards == IF LineCards(m, {}, S) = {} THEN {1} ELSE LineCards(m, {}, S)
       IN /\ S \cap (1 .. ModularModels[m]) \subseteq cards
          /\ cards \subseteq 1 .. ModularModels[m]
  /\ \A wires \in WireLists :
       LET procs == Processes(wires)
           Carries(p, w) == IF Intf(w.a) = "" THEN p.mode = "server" ELSE p.intf = Intf(w.a)
       IN /\ \A w \in ToSet(wires) : Cardinality({i \in DOMAIN procs : Carries(procs[i], w)}) = 1
          /\ \A i, j \in DOMAIN procs : ContainerName(procs, i) = ContainerName(procs, j) => i = j
  /\ \A p \in {q \in ProxyNode : ~ValidateFails(q)} :
       p.labels # {} =>
         LET own == DeriveAdjacentIP(p.peer)
         IN Generated(p) /\ own # p.peer /\ [own EXCEPT !.host = p.peer.host] = p.peer
================================================================================
