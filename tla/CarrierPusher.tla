---------------------------- MODULE CarrierPusher ----------------------------
(***************************************************************************)
(* How meshnetd lifts the admin state of its grpc-wires to the peer daemon *)
(* (grpcwire/carrier.go): the registry of admin-state watches of one pod   *)
(* network namespace, startCarrier and stopCarrier of the wires that end   *)
(* there, and each wire's carrierPusher with its retries.                  *)
(*                                                                         *)
(* A section under r.mu or p.mu is one step, with the kick that follows it *)
(* (it never blocks; run re-reads the state).  createWireMu, or the single *)
(* thread of ReconGWires at boot, lets one startCarrier run at a time.     *)
(***************************************************************************)
EXTENDS Naturals, Sequences, FiniteSets

CONSTANTS Wires,        \* the wires that end in the namespace
          Answered,     \* those of them whose peer's end comes up
          NoWatch,      \* no entry in r.watches
          MaxChanges,   \* bound: admin changes
          MaxFaults     \* bound: requests that fail or time out, peer restarts, and
                        \* watches after the first one

ASSUME CarrierAssumption ==
    /\ Cardinality(Wires) \in Nat /\ Answered \subseteq Wires /\ NoWatch \notin Wires
    /\ MaxChanges \in Nat /\ MaxFaults \in Nat

(* A wire is registered once: a watch has the name of the wire whose register *)
(* created it.                                                                *)
Watches == Wires
State == {"up", "down"}

VARIABLES
    admin,      \* [Wires -> State]: IFF_UP of the pod-side TAP (the kernel's)
    \* carrierRegistry
    current,    \* the watch of the nsWatch in r.watches, or NoWatch
    wires,      \* SUBSET Wires: its wires
    seen,       \* [Wires -> State or "unknown"]: its adminUp
    owned,      \* BOOLEAN: its stop is set
    watch,      \* [Watches -> ...]: "none", "starting", "open", "stopping", "stopped"
    reports,    \* [Watches -> Seq(Wires \X State)]: updates not yet given to onChange
    \* startCarrier and stopCarrier, by wire
    start,      \* "none", "register", "known", "watch", "opened", "resend", "done"
    held,       \* what register read from nsWatch.adminUp, until it is used
    stopped,    \* p.stop or the wire's StopC is closed
    missed,     \* history: stopCarrier came before the wire was registered
    \* carrierPusher
    pusher,     \* [Wires -> [known, dirty, notify, ready : BOOLEAN, adminUp : State]]
    run,        \* "none", "idle", "next", "sending", "backoff", "ended"
    sent,       \* the admin state of the request being sent, else "down"
    \* the peer daemon
    carrier,    \* [Wires -> State]: the carrier of the peer's TAP
    resync,     \* [Wires -> BOOLEAN]: the peer's RequestSync is on its way
    late,       \* [Wires -> Seq(State)]: timed-out requests not yet handled by the peer
    changes,    \* what MaxChanges bounds
    faults,     \* what MaxFaults bounds
    raced       \* [Wires -> BOOLEAN]: a request that had timed out was applied, or the
                \* pusher given a state that register, or a closing watch, held too long

registryVars == <<current, wires, seen, watch, owned, reports>>
startVars    == <<start, held, stopped, missed>>
runVars      == <<run, sent>>
peerVars     == <<carrier, resync, late>>
boundVars    == <<changes, faults, raced>>
vars == <<admin, registryVars, startVars, pusher, runVars, peerVars, boundVars>>

NothingSeen == [w \in Wires |-> "unknown"]

(* The TAPs are there and up, since CreateOrAttachTAPWithMTU. *)
Init ==
    /\ admin = [w \in Wires |-> "up"]
    /\ current = NoWatch /\ wires = {} /\ seen = NothingSeen /\ owned = FALSE
    /\ watch = [g \in Watches |-> "none"]
    /\ reports = [g \in Watches |-> <<>>]
    /\ start = [w \in Wires |-> "none"]
    /\ held = [w \in Wires |-> "unknown"]
    /\ stopped = [w \in Wires |-> FALSE]
    /\ missed = [w \in Wires |-> FALSE]
    /\ pusher = [w \in Wires |-> [known |-> FALSE, dirty |-> FALSE, notify |-> FALSE,
                                  ready |-> FALSE, adminUp |-> "down"]]
    /\ run = [w \in Wires |-> "none"]
    /\ sent = [w \in Wires |-> "down"]
    /\ carrier = [w \in Wires |-> "up"]
    /\ resync = [w \in Wires |-> FALSE]
    /\ late = [w \in Wires |-> <<>>]
    /\ changes = 0 /\ faults = 0 /\ raced = [w \in Wires |-> FALSE]

-----------------------------------------------------------------------------
Listening(g) == watch[g] \in {"open", "stopping"}

(* The interface is set up or down; every open subscription will report it.  *)
(* (Bound: not after the wire was removed, and its TAP with it.)             *)
AdminChanges(w) ==
    /\ ~stopped[w] /\ changes < MaxChanges
    /\ changes' = changes + 1
    /\ LET s == IF admin[w] = "up" THEN "down" ELSE "up"
       IN  /\ admin' = [admin EXCEPT ![w] = s]
           /\ reports' = [g \in Watches |-> IF Listening(g) THEN Append(reports[g], <<w, s>>)
                                                            ELSE reports[g]]
    /\ UNCHANGED <<current, wires, seen, watch, owned, startVars, pusher, runVars,
                   peerVars, faults, raced>>

(* Mutation of SetAdmin: a pusher that is dirty already is not kicked. *)
SetAdminCoalesced(w, s) ==
    LET changed == ~pusher[w].dirty /\ (~pusher[w].known \/ pusher[w].adminUp # s)
    IN  pusher' = [pusher EXCEPT ![w].known = TRUE, ![w].adminUp = s,
                                 ![w].dirty = @ \/ changed, ![w].notify = @ \/ changed]

(* carrierPusher.setAdmin and its kick: a state is dirty when it is new, and  *)
(* the notify channel has capacity one.                                       *)
SetAdmin(w, s) ==
    LET changed == ~pusher[w].known \/ pusher[w].adminUp # s
    IN  pusher' = [pusher EXCEPT ![w].known = TRUE, ![w].adminUp = s,
                                 ![w].dirty = @ \/ changed, ![w].notify = @ \/ changed]

(* carrierPusher.resend and its kick. *)
Resend(w) == pusher' = [pusher EXCEPT ![w].dirty = TRUE, ![w].notify = TRUE]

(* onAdminChange, called by watch g: the update goes to the watch the        *)
(* registry holds now, be it another one than g, and to the pusher of the    *)
(* wire if it is registered.                                                 *)
OnAdminChange(g) ==
    /\ Listening(g) /\ reports[g] # <<>>
    /\ reports' = [reports EXCEPT ![g] = Tail(@)]
    /\ LET w == Head(reports[g])[1]
           s == Head(reports[g])[2]
       IN  IF current = NoWatch
           THEN UNCHANGED <<seen, pusher, raced>>
           ELSE /\ seen' = [seen EXCEPT ![w] = s]
                /\ IF w \in wires THEN SetAdmin(w, s) ELSE UNCHANGED pusher
                /\ raced' = [raced EXCEPT ![w] = @ \/ (g # current /\ s # admin[w])]
    /\ UNCHANGED <<admin, current, wires, watch, owned, startVars, runVars, peerVars, changes, faults>>

(* The subscription is closed: stop has waited for the watch to end. *)
WatchStops(g) ==
    /\ watch[g] = "stopping"
    /\ watch' = [watch EXCEPT ![g] = "stopped"]
    /\ reports' = [reports EXCEPT ![g] = <<>>]
    /\ UNCHANGED <<admin, current, wires, seen, owned, startVars, pusher, runVars,
                   peerVars, boundVars>>

-----------------------------------------------------------------------------
Starting(w) == start[w] \notin {"none", "done"}

(* startCarrier: the pusher is created and its goroutine started. *)
StartCarrier(w) ==
    /\ start[w] = "none"
    /\ \A v \in Wires : ~Starting(v)
    /\ start' = [start EXCEPT ![w] = "register"]
    /\ run' = [run EXCEPT ![w] = "idle"]
    /\ UNCHANGED <<admin, registryVars, held, stopped, missed, pusher, sent, peerVars, boundVars>>

(* register, the namespace is watched already: the wire joins, and the last  *)
(* observed state is read; it is given to the pusher after r.mu is released. *)
RegisterJoins(w) ==
    /\ start[w] = "register" /\ current # NoWatch
    /\ wires' = wires \cup {w}
    /\ held' = [held EXCEPT ![w] = seen[w]]
    /\ start' = [start EXCEPT ![w] = "known"]
    /\ UNCHANGED <<admin, current, seen, watch, owned, reports, stopped, missed, pusher,
                   runVars, peerVars, boundVars>>

(* An update came while register held its value: it is about to be undone. *)
Overwrites(w) == held[w] # "unknown" /\ pusher[w].known /\ pusher[w].adminUp # held[w]

RegisterSetsAdmin(w) ==
    /\ start[w] = "known"
    /\ start' = [start EXCEPT ![w] = "resend"]
    /\ IF held[w] = "unknown" THEN UNCHANGED pusher ELSE SetAdmin(w, held[w])
    /\ held' = [held EXCEPT ![w] = "unknown"]
    /\ raced' = [raced EXCEPT ![w] = @ \/ Overwrites(w)]
    /\ UNCHANGED <<admin, registryVars, stopped, missed, runVars, peerVars, changes, faults>>

(* register, first wire of the namespace: a new nsWatch. *)
RegisterCreates(w) ==
    /\ start[w] = "register" /\ current = NoWatch
    /\ LET first == \A g \in Watches : watch[g] = "none"
       IN  /\ first \/ faults < MaxFaults
           /\ faults' = IF first THEN faults ELSE faults + 1
    /\ current' = w /\ wires' = {w} /\ seen' = NothingSeen /\ owned' = FALSE
    /\ watch' = [watch EXCEPT ![w] = "starting"]
    /\ start' = [start EXCEPT ![w] = "watch"]
    /\ UNCHANGED <<admin, reports, held, stopped, missed, pusher, runVars, peerVars,
                   changes, raced>>

(* watchAdminState subscribes and lists the existing interfaces, in some order. *)
WatchOpens(w) ==
    /\ start[w] = "watch"
    /\ start' = [start EXCEPT ![w] = "opened"]
    /\ watch' = [watch EXCEPT ![w] = "open"]
    /\ \E all \in [1..Cardinality(Wires) -> Wires] :
          /\ \A v \in Wires : \E i \in DOMAIN all : all[i] = v
          /\ reports' = [reports EXCEPT ![w] = [i \in DOMAIN all |-> <<all[i], admin[all[i]]>>]]
    /\ UNCHANGED <<admin, current, wires, seen, owned, held, stopped, missed, pusher,
                   runVars, peerVars, boundVars>>

(* The namespace's entry is deleted from r.watches. *)
NoEntry == current' = NoWatch /\ wires' = {} /\ seen' = NothingSeen /\ owned' = FALSE

WatchFails(w) ==
    /\ start[w] = "watch"
    /\ start' = [start EXCEPT ![w] = "resend"]
    /\ watch' = [watch EXCEPT ![w] = "stopped"]
    /\ IF current = w THEN NoEntry ELSE UNCHANGED <<current, wires, seen, owned>>
    /\ UNCHANGED <<admin, reports, held, stopped, missed, pusher,
                   runVars, peerVars, boundVars>>

(* Mutation of RegisterOwns: the watch is kept whoever is left. *)
RegisterOwnsAlways(w) ==
    /\ start[w] = "opened"
    /\ start' = [start EXCEPT ![w] = "resend"]
    /\ owned' = TRUE
    /\ UNCHANGED <<admin, current, wires, seen, watch, reports, held, stopped, missed,
                   pusher, runVars, peerVars, boundVars>>

(* register takes r.mu again: the watch is kept, or stopped at once if every *)
(* wire was unregistered while it was starting.                              *)
RegisterOwns(w) ==
    /\ start[w] = "opened"
    /\ start' = [start EXCEPT ![w] = "resend"]
    /\ IF current # w \/ wires = {}
       THEN watch' = [watch EXCEPT ![w] = "stopping"] /\ owned' = owned
       ELSE owned' = TRUE /\ watch' = watch
    /\ UNCHANGED <<admin, current, wires, seen, reports, held, stopped, missed, pusher,
                   runVars, peerVars, boundVars>>

(* startCarrier ends with a resend. *)
StartResends(w) ==
    /\ start[w] = "resend"
    /\ start' = [start EXCEPT ![w] = "done"]
    /\ Resend(w)
    /\ UNCHANGED <<admin, registryVars, held, stopped, missed, runVars, peerVars, boundVars>>

(* stopCarrier: unregister, then close the pusher.  The last wire of the     *)
(* namespace removes the watch, and stops it if it has been started.  A wire *)
(* is in the map, and may be removed, before its startCarrier, which then    *)
(* registers it all the same.                                                *)
StopCarrier(w) ==
    /\ ~stopped[w]
    /\ stopped' = [stopped EXCEPT ![w] = TRUE]
    /\ missed' = [missed EXCEPT ![w] = start[w] \in {"none", "register"}]
    /\ \/ /\ wires = {w}
          /\ NoEntry
          /\ watch' = IF owned THEN [watch EXCEPT ![current] = "stopping"] ELSE watch
       \/ /\ wires # {w}
          /\ wires' = wires \ {w}
          /\ UNCHANGED <<current, seen, owned, watch>>
    /\ UNCHANGED <<admin, reports, start, held, pusher, runVars,
                   peerVars, boundVars>>

(* UpdateWire: the peer's interface id is known; the state is sent again. *)
UpdateWire(w) ==
    /\ w \in Answered /\ start[w] # "none" /\ ~stopped[w] /\ ~pusher[w].ready
    /\ pusher' = [pusher EXCEPT ![w].ready = TRUE, ![w].dirty = TRUE, ![w].notify = TRUE]
    /\ UNCHANGED <<admin, registryVars, startVars, runVars, peerVars, boundVars>>

-----------------------------------------------------------------------------
(* carrierPusher.run wakes up. *)
Wake(w) ==
    /\ run[w] = "idle" /\ pusher[w].notify
    /\ run' = [run EXCEPT ![w] = "next"]
    /\ pusher' = [pusher EXCEPT ![w].notify = FALSE]
    /\ UNCHANGED <<admin, registryVars, startVars, sent, peerVars, boundVars>>

Stops(w) ==
    /\ run[w] \in {"idle", "backoff"} /\ stopped[w]
    /\ run' = [run EXCEPT ![w] = "ended"]
    /\ UNCHANGED <<admin, registryVars, startVars, pusher, sent, peerVars, boundVars>>

(* carrierPusher.next: nothing to send, not ready yet, or a request. *)
NextIdle(w) ==
    /\ run[w] = "next" /\ ~(pusher[w].dirty /\ pusher[w].known)
    /\ run' = [run EXCEPT ![w] = "idle"]
    /\ UNCHANGED <<admin, registryVars, startVars, pusher, sent, peerVars, boundVars>>

NextNotReady(w) ==
    /\ run[w] = "next" /\ pusher[w].dirty /\ pusher[w].known /\ ~pusher[w].ready
    /\ run' = [run EXCEPT ![w] = "backoff"]
    /\ UNCHANGED <<admin, registryVars, startVars, pusher, sent, peerVars, boundVars>>

NextSend(w) ==
    /\ run[w] = "next" /\ pusher[w].dirty /\ pusher[w].known /\ pusher[w].ready
    /\ run' = [run EXCEPT ![w] = "sending"]
    /\ sent' = [sent EXCEPT ![w] = pusher[w].adminUp]
    /\ pusher' = [pusher EXCEPT ![w].dirty = FALSE]
    /\ UNCHANGED <<admin, registryVars, startVars, peerVars, boundVars>>

(* SetWireCarrier at the peer, and its reply. *)
Applied(w) ==
    /\ run[w] = "sending"
    /\ run' = [run EXCEPT ![w] = "next"]
    /\ carrier' = [carrier EXCEPT ![w] = sent[w]]
    /\ sent' = [sent EXCEPT ![w] = "down"]
    /\ UNCHANGED <<admin, registryVars, startVars, pusher, resync, late, boundVars>>

(* Mutation of Retry: the request is given up. *)
RetryNever(w) ==
    /\ run[w] = "sending"
    /\ run' = [run EXCEPT ![w] = "backoff"]
    /\ sent' = [sent EXCEPT ![w] = "down"]
    /\ UNCHANGED pusher

(* carrierPusher.retry. *)
Retry(w) ==
    /\ run[w] = "sending"
    /\ run' = [run EXCEPT ![w] = "backoff"]
    /\ sent' = [sent EXCEPT ![w] = "down"]
    /\ pusher' = [pusher EXCEPT ![w].dirty = TRUE]

(* The peer has no such wire yet, the request is lost, or only its reply is. *)
SendFails(w) ==
    /\ faults < MaxFaults
    /\ faults' = faults + 1
    /\ Retry(w)
    /\ carrier' \in {carrier, [carrier EXCEPT ![w] = sent[w]]}
    /\ UNCHANGED <<admin, registryVars, startVars, resync, late, changes, raced>>

(* The request times out, and the peer handles it later. *)
SendTimesOut(w) ==
    /\ faults < MaxFaults
    /\ faults' = faults + 1
    /\ Retry(w)
    /\ late' = [late EXCEPT ![w] = Append(@, sent[w])]
    /\ UNCHANGED <<admin, registryVars, startVars, carrier, resync, changes, raced>>

LateArrives(w) ==
    /\ late[w] # <<>>
    /\ late' = [late EXCEPT ![w] = Tail(@)]
    /\ carrier' = [carrier EXCEPT ![w] = Head(late[w])]
    /\ raced' = [raced EXCEPT ![w] = TRUE]
    /\ UNCHANGED <<admin, registryVars, startVars, pusher, runVars, resync, changes, faults>>

(* An old peer does not implement SetWireCarrier: run returns for good. *)
SendUnimplemented(w) ==
    /\ run[w] = "sending" /\ faults < MaxFaults
    /\ faults' = faults + 1
    /\ run' = [run EXCEPT ![w] = "ended"]
    /\ UNCHANGED <<admin, registryVars, startVars, pusher, sent, peerVars, changes, raced>>

BackoffEnds(w) ==
    /\ run[w] = "backoff" /\ ~stopped[w]
    /\ run' = [run EXCEPT ![w] = "next"]
    /\ UNCHANGED <<admin, registryVars, startVars, pusher, sent, peerVars, boundVars>>

(* The peer daemon restarts: re-attaching its TAP turns the carrier on, and  *)
(* it asks for this end's state.                                             *)
PeerRestarts(w) ==
    /\ w \in Answered /\ start[w] = "done" /\ ~stopped[w] /\ ~resync[w]
    /\ faults < MaxFaults
    /\ faults' = faults + 1
    /\ carrier' = [carrier EXCEPT ![w] = "up"]
    /\ resync' = [resync EXCEPT ![w] = TRUE]
    /\ UNCHANGED <<admin, registryVars, startVars, pusher, runVars, late, changes, raced>>

(* SetWireCarrier at this end, with RequestSync. *)
SyncArrives(w) ==
    /\ resync[w]
    /\ resync' = [resync EXCEPT ![w] = FALSE]
    /\ Resend(w)
    /\ UNCHANGED <<admin, registryVars, startVars, runVars, carrier, late, boundVars>>

-----------------------------------------------------------------------------
StartStep(w) ==
    \/ RegisterJoins(w) \/ RegisterSetsAdmin(w) \/ RegisterCreates(w)
    \/ WatchOpens(w) \/ RegisterOwns(w) \/ StartResends(w)

RunStep(w) ==
    \/ Wake(w) \/ Stops(w) \/ NextIdle(w) \/ NextNotReady(w) \/ NextSend(w)
    \/ Applied(w) \/ BackoffEnds(w)

Next ==
    \/ \E w \in Wires :
          \/ AdminChanges(w) \/ StartCarrier(w) \/ StartStep(w) \/ WatchFails(w)
          \/ StopCarrier(w) \/ UpdateWire(w) \/ RunStep(w)
          \/ SendFails(w) \/ SendTimesOut(w) \/ SendUnimplemented(w)
          \/ LateArrives(w) \/ PeerRestarts(w) \/ SyncArrives(w)
    \/ \E g \in Watches : OnAdminChange(g) \/ WatchStops(g)

Spec == Init /\ [][Next]_vars

-----------------------------------------------------------------------------
(* A pusher never sleeps on something to send: if its state is dirty and     *)
(* known while run waits for notify, a token is in the channel.              *)
NoLostKick ==
    \A w \in Wires :
        run[w] = "idle" /\ pusher[w].dirty /\ pusher[w].known => pusher[w].notify

(* An open subscription always has somebody to close it: it is the registry's *)
(* current watch with a wire in it whose stopCarrier is still to come, or     *)
(* register is about to decide on it.  Only a wire that was removed before it *)
(* was registered (createWireMu serialises creations, not removals) leaves a  *)
(* subscription that nobody closes.                                           *)
WatchHasOwner ==
    \A g \in Watches :
        watch[g] = "open" =>
            \/ current = g /\ owned /\ \E w \in wires : ~stopped[w] \/ missed[w]
            \/ start[g] = "opened"

(* Everything about w has come to rest, and w is watched. *)
Settled(w) ==
    /\ start[w] = "done" /\ ~stopped[w] /\ run[w] = "idle"
    /\ ~pusher[w].notify /\ pusher[w].ready
    /\ current # NoWatch /\ watch[current] = "open" /\ w \in wires
    /\ \A g \in Watches : \A i \in DOMAIN reports[g] : reports[g][i][1] # w
    /\ late[w] = <<>> /\ ~resync[w]

(* The peer ends with the latest state: when nothing is left to do for a     *)
(* wire, the carrier at the peer is the admin state here, whatever requests  *)
(* or replies were lost; unless the peer applied a request that had timed    *)
(* out, register gave the pusher a state older than the one it had, or a     *)
(* watch that is closing gave its successor a state that is not the latest.  *)
PeerHasLatest == \A w \in Wires : Settled(w) /\ ~raced[w] => carrier[w] = admin[w]
=============================================================================
