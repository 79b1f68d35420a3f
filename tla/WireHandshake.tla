---------------------------- MODULE WireHandshake ----------------------------
(***************************************************************************)
(* Creation, update, removal and restoration of grpc-wires between the     *)
(* meshnet daemons of two nodes (the grpc-wire part of ReconcilePodLinks   *)
(* in meshnet/controller.go, AddGRPCWiresRemoteBatch and                   *)
(* GRPCWireDownRemote in meshnet/handler.go, grpcwire/gwire_rpc_handlers,  *)
(* gwire_map, grpcwire and gwire_recon).                                   *)
(*                                                                         *)
(* Each end of a wire has an id that is local to its daemon, and stores    *)
(* the id of the other end: frames are sent to that id and written to      *)
(* whatever TAP the receiving daemon has under it.  Either daemon, or both *)
(* at once, may start the handshake.  Every link has one pod on each node, *)
(* active throughout, and a batch holds one wire.                          *)
(***************************************************************************)
EXTENDS Naturals, Sequences, FiniteSets

CONSTANTS Links,        \* link UIDs between the two nodes
          MaxFaults     \* bound: links removed, failed calls and restarts

ASSUME HandshakeAssumption == MaxFaults \in Nat

Nodes == {"A", "B"}
Peer(n) == IF n = "A" THEN "B" ELSE "A"
NoWire == [id |-> 0, peer |-> 0, ready |-> FALSE]
Idle == "idle"

VARIABLES
    desired,    \* SUBSET Links: spec.links of the topologies
    wire,       \* [Nodes -> [Links -> [id, peer : Nat, ready : BOOLEAN]]]: the wire map
    index,      \* [Nodes -> Nat]: indexGen.currId
    stored,     \* [Nodes -> Seq([link, peer])]: GWireKObj status in the API server
    unsaved,    \* [Nodes -> SUBSET Links]: status updates queued by K8sStoreGWire
    call,       \* [Nodes -> Links or Idle]: the worker's AddGRPCWiresRemoteBatch
    seq,        \* [Nodes -> Nat]: calls the worker has given up; numbers its next one
    adds,       \* set of requests on their way: [to, link, id, seq]
    replies,    \* set of replies on their way: [to, link, id, seq]
    downs,      \* set of GRPCWireDownRemote requests on their way: [to, link]
    faults,     \* removals, failed calls and restarts so far
    restarted,  \* BOOLEAN: a daemon has restarted
    removed     \* BOOLEAN: a link has been removed from the topology

wireVars == <<wire, index, unsaved>>
netVars  == <<call, seq, adds, replies, downs>>
boundVars == <<faults, restarted, removed>>
vars == <<desired, wireVars, stored, netVars, boundVars>>

Init ==
    /\ desired = Links
    /\ wire = [n \in Nodes |-> [l \in Links |-> NoWire]]
    /\ index = [n \in Nodes |-> 0]
    /\ stored = [n \in Nodes |-> <<>>]
    /\ unsaved = [n \in Nodes |-> {}]
    /\ call = [n \in Nodes |-> Idle]
    /\ seq = [n \in Nodes |-> 0]
    /\ adds = {} /\ replies = {} /\ downs = {}
    /\ faults = 0 /\ restarted = FALSE /\ removed = FALSE

Exists(n, l) == wire[n][l].id # 0

(* A link is removed from the topology. *)
RemoveLink(l) ==
    /\ l \in desired /\ faults < MaxFaults
    /\ faults' = faults + 1 /\ removed' = TRUE
    /\ desired' = desired \ {l}
    /\ UNCHANGED <<wireVars, stored, netVars, restarted>>

(* A link that was removed is added again. *)
AddLink(l) ==
    /\ l \notin desired
    /\ desired' = desired \cup {l}
    /\ UNCHANGED <<wireVars, stored, netVars, boundVars>>

-----------------------------------------------------------------------------
(* Mutation of CreateWire: the id is taken from the map's size. *)
CreateWireBySize(n, l, peer, ready) ==
    LET id == Cardinality({k \in Links : Exists(n, k)}) + 1
    IN  /\ index' = index
        /\ wire' = [wire EXCEPT ![n][l] = [id |-> id, peer |-> peer, ready |-> ready]]
        /\ unsaved' = [unsaved EXCEPT ![n] = @ \cup {l}]

(* NextIndex, CreateGWire and AddWireInMemNDataStore. *)
CreateWire(n, l, peer, ready) ==
    /\ index' = [index EXCEPT ![n] = @ + 1]
    /\ wire' = [wire EXCEPT ![n][l] = [id |-> index'[n], peer |-> peer, ready |-> ready]]
    /\ unsaved' = [unsaved EXCEPT ![n] = @ \cup {l}]

(* Mutation of UpdateWire: the wire is not marked ready. *)
UpdateWireNotReady(n, l, peer) ==
    /\ wire' = [wire EXCEPT ![n][l].peer = peer]
    /\ unsaved' = [unsaved EXCEPT ![n] = @ \cup {l}]
    /\ index' = index

(* UpdateWire: the peer's id is recorded and the wire marked ready. *)
UpdateWire(n, l, peer) ==
    /\ wire' = [wire EXCEPT ![n][l].peer = peer, ![n][l].ready = TRUE]
    /\ unsaved' = [unsaved EXCEPT ![n] = @ \cup {l}]
    /\ index' = index

(* AddGRPCWiresRemoteBatch is called, with the id of the local end. *)
CallPeer(n, l, id) ==
    /\ call' = [call EXCEPT ![n] = l]
    /\ adds' = adds \cup {[to |-> Peer(n), link |-> l, id |-> id, seq |-> seq[n]]}

(* ReconcilePodLinks of node n: a wire that is missing or not ready is       *)
(* created locally, and the peer is asked to create or update its end.       *)
Reconcile(n, l) ==
    /\ call[n] = Idle
    /\ l \in desired /\ ~wire[n][l].ready
    /\ IF Exists(n, l) THEN UNCHANGED wireVars ELSE CreateWire(n, l, 0, FALSE)
    /\ CallPeer(n, l, wire'[n][l].id)
    /\ UNCHANGED <<desired, stored, seq, replies, downs, boundVars>>

(* Mutation of AddRemote: an existing wire is replaced. *)
AddRemoteRecreates(r) ==
    /\ adds' = adds \ {r}
    /\ CreateWire(r.to, r.link, r.id, TRUE)
    /\ replies' = replies \cup {[to |-> Peer(r.to), link |-> r.link,
                                 id |-> wire'[r.to][r.link].id, seq |-> r.seq]}
    /\ UNCHANGED <<desired, stored, call, seq, downs, boundVars>>

(* AddGRPCWiresRemoteBatch, CreateUpdateGRPCWireRemoteTriggered: an existing *)
(* wire is updated, a missing one is created; the reply carries its id.      *)
AddRemote(r) ==
    /\ adds' = adds \ {r}
    /\ IF Exists(r.to, r.link) THEN UpdateWire(r.to, r.link, r.id)
                               ELSE CreateWire(r.to, r.link, r.id, TRUE)
    /\ replies' = replies \cup {[to |-> Peer(r.to), link |-> r.link,
                                 id |-> wire'[r.to][r.link].id, seq |-> r.seq]}
    /\ UNCHANGED <<desired, stored, call, seq, downs, boundVars>>

Awaited(r) == call[r.to] # Idle /\ seq[r.to] = r.seq

(* The worker gets its reply: UpdateWireByUID on whatever wire the link has. *)
Reply(r) ==
    /\ Awaited(r)
    /\ replies' = replies \ {r}
    /\ call' = [call EXCEPT ![r.to] = Idle]
    /\ IF Exists(r.to, r.link) THEN UpdateWire(r.to, r.link, r.id) ELSE UNCHANGED wireVars
    /\ UNCHANGED <<desired, stored, seq, adds, downs, boundVars>>

(* A reply nobody waits for any more. *)
ReplyIgnored(r) ==
    /\ ~Awaited(r)
    /\ replies' = replies \ {r}
    /\ UNCHANGED <<desired, wireVars, stored, call, seq, adds, downs, boundVars>>

(* The call fails: the request is lost, or (a timeout) still on its way. *)
CallFails(n) ==
    /\ call[n] # Idle /\ faults < MaxFaults
    /\ faults' = faults + 1
    /\ call' = [call EXCEPT ![n] = Idle]
    /\ adds' \in {adds, {r \in adds : r.to = n \/ r.seq # seq[n]}}
    /\ seq' = [seq EXCEPT ![n] = @ + 1]
    /\ UNCHANGED <<desired, wireVars, stored, replies, downs, restarted, removed>>

-----------------------------------------------------------------------------
(* RemoveWireAcrosAll: the map, and after the queue was flushed the data     *)
(* store; one step, as only a restart tells the store from the map.          *)
RemoveWire(n, l) ==
    /\ wire' = [wire EXCEPT ![n][l] = NoWire]
    /\ unsaved' = [unsaved EXCEPT ![n] = @ \ {l}]
    /\ stored' = [stored EXCEPT ![n] = SelectSeq(@, LAMBDA s : s.link # l)]
    /\ index' = index

(* cleanupRemovedPodLinks: the wire of a removed link goes, and the peer is  *)
(* told from a goroutine of its own.                                         *)
CleanupRemoved(n, l) ==
    /\ call[n] = Idle
    /\ l \notin desired /\ Exists(n, l)
    /\ RemoveWire(n, l)
    /\ downs' = downs \cup {[to |-> Peer(n), link |-> l]}
    /\ UNCHANGED <<desired, call, seq, adds, replies, boundVars>>

(* GRPCWireDownRemote: the wire is removed if there is one. *)
WireDown(r) ==
    /\ downs' = downs \ {r}
    /\ IF Exists(r.to, r.link) THEN RemoveWire(r.to, r.link) ELSE UNCHANGED <<wireVars, stored>>
    /\ UNCHANGED <<desired, call, seq, adds, replies, boundVars>>

(* existingMap: where the store has the item of a link. *)
ExistingMap(n, l) == {i \in DOMAIN stored[n] : stored[n][i].link = l}

(* The status queue's worker writes a wire that is still in the map: in its  *)
(* place if the item exists, else at the end.  (Bound: only a restart reads  *)
(* the store, so nothing is written once no restart can follow.)             *)
Persist(n, l) ==
    /\ l \in unsaved[n] /\ faults < MaxFaults
    /\ unsaved' = [unsaved EXCEPT ![n] = @ \ {l}]
    /\ LET item == [link |-> l, peer |-> wire[n][l].peer]
       IN  \/ /\ ExistingMap(n, l) = {}
              /\ stored' = [stored EXCEPT ![n] = Append(@, item)]
           \/ \E i \in ExistingMap(n, l) : stored' = [stored EXCEPT ![n][i] = item]
    /\ UNCHANGED <<desired, wire, index, netVars, boundVars>>

(* The daemon restarts: ids start at one again, and ReconGWires re-creates   *)
(* the stored wires in their order, each one ready.                          *)
Restart(n) ==
    /\ faults < MaxFaults
    /\ faults' = faults + 1 /\ restarted' = TRUE
    /\ wire' = [wire EXCEPT ![n] = [l \in Links |->
                  IF ExistingMap(n, l) = {} THEN NoWire
                  ELSE LET i == CHOOSE i \in ExistingMap(n, l) : TRUE
                       IN  [id |-> i, peer |-> stored[n][i].peer, ready |-> TRUE]]]
    /\ index' = [index EXCEPT ![n] = Len(stored[n])]
    /\ unsaved' = [unsaved EXCEPT ![n] = {}]
    /\ call' = [call EXCEPT ![n] = Idle]
    /\ seq' = [seq EXCEPT ![n] = @ + 1]
    /\ UNCHANGED <<desired, stored, adds, replies, downs, removed>>

-----------------------------------------------------------------------------
NodeStep(n) ==
    \E l \in Links : Reconcile(n, l) \/ CleanupRemoved(n, l)

Deliver ==
    \/ \E r \in adds : AddRemote(r)
    \/ \E r \in replies : Reply(r) \/ ReplyIgnored(r)
    \/ \E r \in downs : WireDown(r)

Next ==
    \/ \E n \in Nodes : NodeStep(n) \/ CallFails(n) \/ Restart(n)
    \/ \E n \in Nodes, l \in Links : Persist(n, l)
    \/ \E l \in Links : RemoveLink(l) \/ AddLink(l)
    \/ Deliver

(* Every worker reconciles again (at the latest with the 60 s resync), and   *)
(* requests that are not lost are handled.                                   *)
Fairness == WF_vars(Deliver) /\ \A n \in Nodes : WF_vars(NodeStep(n))

Spec == Init /\ [][Next]_vars
FairSpec == Spec /\ Fairness

-----------------------------------------------------------------------------
(* A frame is never written to another link's TAP: the id a ready wire sends *)
(* to, if the peer has a wire under it, is the id of the same link's wire.   *)
NoMisdelivery ==
    \A n \in Nodes : \A k, l \in Links :
        /\ Exists(n, l) /\ wire[n][l].ready
        /\ Exists(Peer(n), k) /\ wire[Peer(n)][k].id = wire[n][l].peer
        => k = l

(* As long as no daemon has restarted, whatever calls crossed, failed or     *)
(* came late and whatever links were removed and added again: the ids the    *)
(* wires send to are those of their own link.                                *)
MisdeliveryNeedsRestart == restarted \/ NoMisdelivery

(* Nothing is under way for a link, and its ends have nothing to reconcile.  *)
Settled(l) ==
    /\ l \in desired
    /\ \A r \in adds \cup replies \cup downs : r.link # l
    /\ \A n \in Nodes : wire[n][l].ready /\ call[n] # l

(* Whoever started it, and however calls failed, timed out or crossed: once  *)
(* a handshake has settled the two ends hold each other's id, as long as no  *)
(* daemon has restarted and no link was removed (an answer to a call made    *)
(* before a removal overwrites the id of the wire created after it).         *)
EndsAgree ==
    \A l \in Links :
        Settled(l) /\ ~restarted /\ ~removed
        => \A n \in Nodes : wire[n][l].peer = wire[Peer(n)][l].id

(* What GRPCWireExists asks for, and the sending of frames: the peer's id.   *)
Up(n, l) == wire[n][l].ready /\ wire[n][l].peer # 0

(* The store had the wire from before its handshake was finished when the    *)
(* daemon restarted: it was restored as ready, with no id of a peer.         *)
RestoredUnfinished(n, l) ==
    restarted /\ \E i \in ExistingMap(n, l) : stored[n][i].peer = 0

(* Every wire of the topology comes up at both ends: nothing is under way    *)
(* any more, and each end is ready and has an id to send frames to.  The     *)
(* exception is an end restored from an item that was stored before the      *)
(* handshake was finished: it counts as ready, so its daemon does not start  *)
(* a handshake again.                                                        *)
WiresComeUp ==
    \A l \in Links :
        <>[](l \in desired => Settled(l) /\ \A n \in Nodes : Up(n, l) \/ RestoredUnfinished(n, l))
=============================================================================
