----------------------------- MODULE BridgeLink -----------------------------
(***************************************************************************)
(* Link-state propagation of a paired bridge (bridge/link.go, the link     *)
(* state of bridge/bridge.go and bridge/client.go):                        *)
(*                                                                         *)
(*   device S <-veth-> server link <-Wire-> client link <-veth-> device C  *)
(*                                                                         *)
(* A bridge reports the carrier of its interface to the other bridge, and  *)
(* sets its interface administratively up or down to what it is told.  The *)
(* kernel's link updates, the event channel of capacity one, the server's  *)
(* per-stream link channel and the two directions of the stream are        *)
(* queues of their own, so a report may be overtaken by the next change of *)
(* either device.  The server's demux outlives a stream; the client opens  *)
(* its Link anew for each stream.  By the time the client reconnects (2s)  *)
(* the server has drained the broken stream.  Setting an interface up or   *)
(* down succeeds.                                                          *)
(***************************************************************************)
EXTENDS Naturals, Sequences, SequencesExt

CONSTANTS MaxChanges,       \* bound: how often a device changes admin state
          MaxDisconnects    \* bound: how often the stream breaks

ASSUME BoundsAssumption == MaxChanges \in Nat /\ MaxDisconnects \in Nat

Side == {"S", "C"}
Other(i) == IF i = "S" THEN "C" ELSE "S"

VARIABLES
    device,     \* [Side -> BOOLEAN]: the device behind the bridge is admin up
    admin,      \* [Side -> BOOLEAN]: the bridge's interface is admin up
    updates,    \* [Side -> Seq(Observation)]: netlink updates not yet published
    events,     \* [Side -> Seq(Observation)]: Link.Events, capacity 1
    reported,   \* [Side -> LinkState]: linkReporter.reported
    linkChan,   \* Seq(LinkState): the server stream's link channel, capacity 1
    wire,       \* [Side -> Seq(LinkState)]: reports on their way to a side
    client,     \* runStream: "idle", "opened" (Link open), "running"
    demux,      \* the server's demux exists and has a Link
    stream,     \* the server's Transmit is running
    changes, disconnects,
    crossed     \* history: see DeviceChanges

kernelVars == <<device, admin, updates>>
streamVars == <<client, demux, stream>>
boundVars  == <<changes, disconnects, crossed>>
vars == <<kernelVars, events, reported, linkChan, wire, streamVars, boundVars>>

LinkState == {"UNKNOWN", "UP", "DOWN"}
Observation == [up : BOOLEAN, carrier : BOOLEAN]

(* A veth end has carrier while both ends are admin up (external: the kernel). *)
Observed(i) == [up |-> admin[i], carrier |-> admin[i] /\ device[i]]

(* netlinkLink exists: updates of the interface are subscribed to. *)
Subscribed(i) == IF i = "S" THEN demux ELSE client # "idle"

(* Devices that are both down before the first stream have crossed: each     *)
(* bridge reports its down while the other's is still to be applied.         *)
Init ==
    /\ device \in [Side -> BOOLEAN]
    /\ admin = [i \in Side |-> TRUE]
    /\ updates = [i \in Side |-> <<>>]
    /\ events = [i \in Side |-> <<>>]
    /\ reported = [i \in Side |-> "UNKNOWN"]
    /\ linkChan = <<>>
    /\ wire = [i \in Side |-> <<>>]
    /\ client = "idle"
    /\ demux = FALSE
    /\ stream = FALSE
    /\ changes = 0
    /\ disconnects = 0
    /\ crossed = (device = [i \in Side |-> FALSE])

(* The kernel notifies a subscriber when the flags of its interface changed. *)
Notify(i) ==
    updates' = IF Subscribed(i) /\ Observed(i)' # Observed(i)
               THEN [updates EXCEPT ![i] = Append(@, Observed(i)')]
               ELSE updates

(* Mutation of Report: the carrier is reported while the bridge itself holds *)
(* its interface down.                                                       *)
ReportWhileDown(r, o) == IF o.carrier THEN "UP" ELSE "DOWN"

(* linkReporter.observe: the reporter's next state; it is sent if it is new. *)
Report(r, o) ==
    IF ~o.up THEN "UNKNOWN" ELSE IF o.carrier THEN "UP" ELSE "DOWN"

(* Reports of j's bridge that the other bridge may still have to apply. *)
Travelling(j) ==
    LET seen == ToSet(updates[j]) \cup ToSet(events[j])
    IN  {Report("UNKNOWN", o) : o \in seen} \cup ToSet(wire[Other(j)])
        \cup (IF j = "S" THEN ToSet(linkChan) ELSE {})
        \cup (IF stream /\ seen = {} THEN {} ELSE {reported[j]})

(* A down of device j has not yet fully reached the other bridge. *)
DownUnderWay(j) ==
    \/ "DOWN" \in Travelling(j)
    \/ ~device[j] /\ (admin[Other(j)] \/ "UP" \in Travelling(j))

(* Somebody sets a device up or down.  The downs of the two devices cross if *)
(* the second goes down while the down of the first is still under way, be   *)
(* it that no stream has carried it yet.                                     *)
DeviceChanges(i) ==
    /\ changes < MaxChanges
    /\ changes' = changes + 1
    /\ device' = [device EXCEPT ![i] = ~@]
    /\ admin' = admin
    /\ Notify(i)
    /\ crossed' = (crossed \/ (device[i] /\ DownUnderWay(Other(i))))
    /\ UNCHANGED <<events, reported, linkChan, wire, streamVars, disconnects>>

(* netlinkLink.watch: publishLatest replaces an unread event. *)
Publish(i) ==
    /\ updates[i] # <<>>
    /\ updates' = [updates EXCEPT ![i] = Tail(@)]
    /\ events' = [events EXCEPT ![i] = <<Head(updates[i])>>]
    /\ UNCHANGED <<device, admin, reported, linkChan, wire, streamVars, boundVars>>

(* Mutation of ToSend: a state is sent only if it differs from the last known. *)
ToSendNever(r, s) == IF s = "UNKNOWN" \/ r # "UNKNOWN" THEN <<>> ELSE <<s>>

ToSend(r, s) == IF s = "UNKNOWN" \/ s = r THEN <<>> ELSE <<s>>

(* demux.observeLink: the report replaces an unread one in the link channel. *)
ServerObserves ==
    /\ events["S"] # <<>>
    /\ LET s    == Report(reported["S"], Head(events["S"]))
           send == ToSend(reported["S"], s)
       IN  /\ reported' = [reported EXCEPT !["S"] = s]
           /\ linkChan' = IF stream /\ send # <<>> THEN send ELSE linkChan
    /\ events' = [events EXCEPT !["S"] = <<>>]
    /\ UNCHANGED <<kernelVars, wire, streamVars, boundVars>>

(* Transmit's egress loop sends what is in the link channel. *)
ServerEgress ==
    /\ stream
    /\ linkChan # <<>>
    /\ linkChan' = <<>>
    /\ wire' = [wire EXCEPT !["C"] = @ \o linkChan]
    /\ UNCHANGED <<kernelVars, events, reported, streamVars, boundVars>>

(* runStream's link-state loop observes an event and sends on the stream. *)
ClientObserves ==
    /\ client = "running"
    /\ events["C"] # <<>>
    /\ LET s == Report(reported["C"], Head(events["C"]))
       IN  /\ reported' = [reported EXCEPT !["C"] = s]
           /\ wire' = [wire EXCEPT !["S"] = @ \o ToSend(reported["C"], s)]
    /\ events' = [events EXCEPT !["C"] = <<>>]
    /\ UNCHANGED <<kernelVars, linkChan, streamVars, boundVars>>

(* applyLinkState, setLinkState: the ingress loop of either side. *)
Apply(i) ==
    /\ wire[i] # <<>>
    /\ IF i = "S" THEN stream ELSE client = "running"
    /\ wire' = [wire EXCEPT ![i] = Tail(@)]
    /\ admin' = [admin EXCEPT ![i] = (Head(wire[i]) = "UP")]
    /\ device' = device
    /\ Notify(i)
    /\ UNCHANGED <<events, reported, linkChan, streamVars, boundVars>>

(* runStream opens the Link and starts the stream; its reporter is new. *)
ClientOpens ==
    /\ client = "idle"
    /\ client' = "opened"
    /\ reported' = [reported EXCEPT !["C"] = "UNKNOWN"]
    /\ UNCHANGED <<kernelVars, events, linkChan, wire, demux, stream, boundVars>>

(* The server's Transmit: getOrCreateDemux attaches a Link to a new demux and *)
(* observes it; subscribeLinkState queues the last reported state.            *)
ServerAccepts ==
    /\ client # "idle"
    /\ ~stream
    /\ stream' = TRUE
    /\ demux' = TRUE
    /\ LET r == IF demux THEN reported["S"] ELSE Report("UNKNOWN", Observed("S"))
       IN  /\ reported' = [reported EXCEPT !["S"] = r]
           /\ linkChan' = ToSend("UNKNOWN", r)
    /\ UNCHANGED <<kernelVars, events, wire, client, boundVars>>

(* runStream reads the current state, sends it, and starts its loops. *)
ClientStarts ==
    /\ client = "opened"
    /\ client' = "running"
    /\ LET s == Report("UNKNOWN", Observed("C"))
       IN  /\ reported' = [reported EXCEPT !["C"] = s]
           /\ wire' = [wire EXCEPT !["S"] = @ \o ToSend("UNKNOWN", s)]
    /\ UNCHANGED <<kernelVars, events, linkChan, demux, stream, boundVars>>

(* The connection breaks: what is in flight is lost, the client closes its  *)
(* Link, the server unsubscribes the stream and keeps its demux.            *)
Disconnect ==
    /\ stream
    /\ disconnects < MaxDisconnects
    /\ disconnects' = disconnects + 1
    /\ client' = "idle"
    /\ stream' = FALSE
    /\ wire' = [i \in Side |-> <<>>]
    /\ linkChan' = <<>>
    /\ updates' = [updates EXCEPT !["C"] = <<>>]
    /\ events' = [events EXCEPT !["C"] = <<>>]
    /\ UNCHANGED <<device, admin, reported, demux, changes, crossed>>

BridgeStep(i) == Publish(i) \/ Apply(i)

Next ==
    \/ \E i \in Side : DeviceChanges(i) \/ BridgeStep(i)
    \/ ServerObserves \/ ServerEgress \/ ServerAccepts
    \/ ClientObserves \/ ClientOpens \/ ClientStarts
    \/ Disconnect

(* Every goroutine of the bridges keeps running, and the client keeps        *)
(* reconnecting (Run); devices and the network owe nothing.                  *)
Fairness ==
    /\ \A i \in Side : WF_vars(Publish(i)) /\ WF_vars(Apply(i))
    /\ WF_vars(ServerObserves) /\ WF_vars(ServerEgress) /\ WF_vars(ServerAccepts)
    /\ WF_vars(ClientObserves) /\ WF_vars(ClientOpens) /\ WF_vars(ClientStarts)

Spec == Init /\ [][Next]_vars /\ Fairness

-----------------------------------------------------------------------------
(* The two bridges take both interfaces down only if the downs of the two    *)
(* devices crossed, or both were down before a stream could tell; then no    *)
(* report can ever be sent again, which is the limitation the bridge         *)
(* documentation admits.  linkReporter's silence while its interface is down *)
(* is what keeps every other history from latching.                          *)
LatchNeedsCrossing == (\A i \in Side : ~admin[i]) => crossed

(* Once the devices stop changing, a device that is up has carrier exactly   *)
(* if the other device is up, unless their downs crossed: no interleaving of *)
(* coalesced events, late reports and reconnects leaves a stale carrier.     *)
CarrierFollows ==
    <>[](crossed \/ \A i \in Side : device[i] => (admin[i] = device[Other(i)]))
=============================================================================
