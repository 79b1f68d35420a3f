----------------------------- MODULE BridgeDemux -----------------------------
(***************************************************************************)
(* Lifetime of the bridge server's InterfaceDemux for one interface        *)
(* (bridge/bridge.go): Transmit handlers that share a demux, the demux's   *)
(* read loop with its deferred teardown, the goroutine that closes the     *)
(* socket when the context ends, the Link attached after the read loop has *)
(* started, and Server.Close.                                              *)
(*                                                                         *)
(* A section under one mutex is one step.  s.mu is a variable because      *)
(* getOrCreateDemux holds it while it opens sockets and attaches the Link, *)
(* with the new read loop already running.                                 *)
(***************************************************************************)
EXTENDS Naturals, FiniteSets

CONSTANTS Streams,          \* gRPC streams (Transmit calls) at a time
          MaxDemux,         \* bound: demuxes at a time, from their creation to the end of
                            \* their teardown
          MaxSubscribers,   \* maxSubscribersPerDemux
          QueueCap          \* channelBufferCap

ASSUME DemuxAssumption ==
    /\ MaxDemux \in Nat \ {0}
    /\ MaxSubscribers \in Nat \ {0}
    /\ QueueCap \in Nat \ {0}
    /\ 0 \notin Streams

Demux == 1..MaxDemux

VARIABLES
    \* Server
    ctxDone,        \* s.ctx is cancelled
    demuxer,        \* s.demuxers[ifaceName], 0 if absent
    mu,             \* the stream that holds s.mu in getOrCreateDemux, 0 if none
    \* InterfaceDemux, by demux
    cancelled,      \* d.cancel was called
    socket,         \* the handler: "none", "open", "closed"
    loop,           \* readLoop: "none", "read", then the steps of its defer
    closed,         \* d.closed
    listeners,      \* d.listeners: the streams whose channels are registered
    link,           \* the Link of d: "none", "open", "closed"
    attached,       \* d.link # nil
    linkClosed,     \* d.linkClosed
    \* Transmit, by stream
    pc,             \* where the handler is
    demuxOf,        \* its demux, 0 if it has none
    chan,           \* its packet channel: "none", "open", "closed"
    queued,         \* frames buffered in it
    egressDone,     \* its egress loop has returned
    \* Server.Close
    closer,         \* "idle", "cancelled", "closing", "returned"
    closing         \* the demuxes Close collected and has not waited for yet

serverVars == <<ctxDone, demuxer, mu>>
linkVars   == <<link, attached, linkClosed>>
demuxVars  == <<cancelled, socket, loop, closed, listeners, linkVars>>
streamVars == <<pc, demuxOf, chan, queued, egressDone>>
closeVars  == <<closer, closing>>
vars == <<serverVars, demuxVars, streamVars, closeVars>>

Init ==
    /\ ctxDone = FALSE /\ demuxer = 0 /\ mu = 0
    /\ cancelled = [d \in Demux |-> FALSE]
    /\ socket = [d \in Demux |-> "none"]
    /\ loop = [d \in Demux |-> "none"]
    /\ closed = [d \in Demux |-> FALSE]
    /\ listeners = [d \in Demux |-> {}]
    /\ link = [d \in Demux |-> "none"]
    /\ attached = [d \in Demux |-> FALSE]
    /\ linkClosed = [d \in Demux |-> FALSE]
    /\ pc = [s \in Streams |-> "new"]
    /\ demuxOf = [s \in Streams |-> 0]
    /\ chan = [s \in Streams |-> "none"]
    /\ queued = [s \in Streams |-> 0]
    /\ egressDone = [s \in Streams |-> FALSE]
    /\ closer = "idle" /\ closing = {}

(* d.ctx.Err() # nil: its own cancel, or its parent's. *)
Ended(d) == ctxDone \/ cancelled[d]

(* The map holds a demux whose context has not ended. *)
LiveDemux == demuxer # 0 /\ ~Ended(demuxer)

-----------------------------------------------------------------------------
(* getOrCreateDemux: a live demux is shared. *)
ShareDemux(s) ==
    /\ pc[s] = "new" /\ mu = 0 /\ ~ctxDone
    /\ LiveDemux
    /\ pc' = [pc EXCEPT ![s] = "subscribe"]
    /\ demuxOf' = [demuxOf EXCEPT ![s] = demuxer]
    /\ UNCHANGED <<serverVars, demuxVars, chan, queued, egressDone, closeVars>>

(* The read loop of a demux is gone, and its socket and Link are closed. *)
Finished(d) == loop[d] \in {"none", "done"} /\ socket[d] # "open" /\ link[d] # "open"

(* A demux that nobody refers to any more; a new one may have its name. *)
Over(d) ==
    /\ Finished(d) /\ demuxer # d /\ d \notin closing
    /\ \A s \in Streams : demuxOf[s] # d

(* newInterfaceDemux, and its read loop started. *)
NewDemux(d) ==
    /\ Over(d) /\ \A e \in Demux : Over(e) => d <= e
    /\ demuxer' = d
    /\ socket' = [socket EXCEPT ![d] = "open"]
    /\ loop' = [loop EXCEPT ![d] = "read"]
    /\ cancelled' = [cancelled EXCEPT ![d] = FALSE]
    /\ closed' = [closed EXCEPT ![d] = FALSE]
    /\ link' = [link EXCEPT ![d] = "none"]
    /\ attached' = [attached EXCEPT ![d] = FALSE]
    /\ linkClosed' = [linkClosed EXCEPT ![d] = FALSE]

(* getOrCreateDemux: otherwise a new one is made and its read loop started;  *)
(* s.mu stays held until the Link is attached.                               *)
CreateDemux(s) ==
    /\ pc[s] = "new" /\ mu = 0 /\ ~ctxDone
    /\ ~LiveDemux
    /\ \E d \in Demux : NewDemux(d) /\ demuxOf' = [demuxOf EXCEPT ![s] = d]
    /\ mu' = s
    /\ pc' = [pc EXCEPT ![s] = "openLink"]
    /\ UNCHANGED <<ctxDone, listeners, chan, queued, egressDone, closeVars>>

(* getOrCreateDemux fails: the server is shutting down, or the socket cannot *)
(* be opened, after a dead demux was dropped from the map.                   *)
NoDemux(s) ==
    /\ pc[s] = "new" /\ mu = 0
    /\ ctxDone \/ ~LiveDemux
    /\ demuxer' = IF ctxDone THEN demuxer ELSE 0
    /\ UNCHANGED <<ctxDone, mu, demuxVars, streamVars, closeVars>>

OpenLink(s) ==
    /\ pc[s] = "openLink"
    /\ link' = [link EXCEPT ![demuxOf[s]] = "open"]
    /\ pc' = [pc EXCEPT ![s] = "attachLink"]
    /\ UNCHANGED <<serverVars, cancelled, socket, loop, closed, listeners, attached,
                   linkClosed, demuxOf, chan, queued, egressDone, closeVars>>

(* The link opener fails: frames are bridged without link state. *)
OpenLinkFails(s) ==
    /\ pc[s] = "openLink"
    /\ mu' = 0
    /\ pc' = [pc EXCEPT ![s] = "subscribe"]
    /\ UNCHANGED <<ctxDone, demuxer, demuxVars, demuxOf, chan, queued,
                   egressDone, closeVars>>

(* Mutation of AttachLink: linkClosed is not looked at. *)
AttachLinkUnchecked(s) ==
    /\ pc[s] = "attachLink"
    /\ attached' = [attached EXCEPT ![demuxOf[s]] = TRUE]
    /\ mu' = 0
    /\ pc' = [pc EXCEPT ![s] = "subscribe"]
    /\ UNCHANGED <<ctxDone, demuxer, cancelled, socket, loop, closed, listeners,
                   link, linkClosed, demuxOf, chan, queued, egressDone, closeVars>>

(* attachLink: a demux that has already closed its link state does not keep  *)
(* the Link; it is closed at once.                                           *)
AttachLink(s) ==
    LET d == demuxOf[s]
    IN  /\ pc[s] = "attachLink"
        /\ IF linkClosed[d]
           THEN link' = [link EXCEPT ![d] = "closed"] /\ attached' = attached
           ELSE attached' = [attached EXCEPT ![d] = TRUE] /\ link' = link
        /\ mu' = 0
        /\ pc' = [pc EXCEPT ![s] = "subscribe"]
        /\ UNCHANGED <<ctxDone, demuxer, cancelled, socket, loop, closed, listeners,
                       linkClosed, demuxOf, chan, queued, egressDone, closeVars>>

(* Mutation of Subscribe: a demux that is shutting down is subscribed to. *)
SubscribeUnchecked(s) ==
    LET d == demuxOf[s]
    IN  /\ pc[s] = "subscribe"
        /\ Cardinality(listeners[d]) < MaxSubscribers
        /\ listeners' = [listeners EXCEPT ![d] = @ \cup {s}]
        /\ chan' = [chan EXCEPT ![s] = "open"]
        /\ pc' = [pc EXCEPT ![s] = "run"]
        /\ UNCHANGED <<serverVars, cancelled, socket, loop, closed, linkVars, demuxOf,
                       queued, egressDone, closeVars>>

Subscribe(s) ==
    LET d == demuxOf[s]
    IN  /\ pc[s] = "subscribe"
        /\ ~closed[d] /\ ~Ended(d)
        /\ Cardinality(listeners[d]) < MaxSubscribers
        /\ listeners' = [listeners EXCEPT ![d] = @ \cup {s}]
        /\ chan' = [chan EXCEPT ![s] = "open"]
        /\ pc' = [pc EXCEPT ![s] = "run"]
        /\ UNCHANGED <<serverVars, cancelled, socket, loop, closed, linkVars, demuxOf,
                       queued, egressDone, closeVars>>

(* Transmit returns; another call may take the place of this one. *)
Returns(s) ==
    /\ pc' = [pc EXCEPT ![s] = "new"]
    /\ demuxOf' = [demuxOf EXCEPT ![s] = 0]
    /\ chan' = [chan EXCEPT ![s] = "none"]
    /\ queued' = [queued EXCEPT ![s] = 0]
    /\ egressDone' = [egressDone EXCEPT ![s] = FALSE]

(* subscribe returns an error and so does Transmit. *)
SubscribeFails(s) ==
    LET d == demuxOf[s]
    IN  /\ pc[s] = "subscribe"
        /\ closed[d] \/ Ended(d) \/ Cardinality(listeners[d]) >= MaxSubscribers
        /\ Returns(s)
        /\ UNCHANGED <<serverVars, demuxVars, closeVars>>

(* The egress loop takes a frame and sends it; Send blocks until the client  *)
(* takes the frame (flow control) or the stream is gone.                     *)
EgressSends(s) ==
    /\ chan[s] # "none" /\ ~egressDone[s] /\ queued[s] > 0
    /\ queued' = [queued EXCEPT ![s] = @ - 1]
    /\ UNCHANGED <<serverVars, demuxVars, pc, demuxOf, chan, egressDone, closeVars>>

(* The egress loop finds its channel closed and empty. *)
EgressEnds(s) ==
    /\ chan[s] = "closed" /\ ~egressDone[s] /\ queued[s] = 0
    /\ egressDone' = [egressDone EXCEPT ![s] = TRUE]
    /\ UNCHANGED <<serverVars, demuxVars, pc, demuxOf, chan, queued, closeVars>>

(* The egress loop returns on its own: Send fails, or the stream is gone. *)
EgressFails(s) ==
    /\ pc[s] \in {"run", "leave", "wait"} /\ ~egressDone[s]
    /\ egressDone' = [egressDone EXCEPT ![s] = TRUE]
    /\ queued' = [queued EXCEPT ![s] = 0]
    /\ UNCHANGED <<serverVars, demuxVars, pc, demuxOf, chan, closeVars>>

(* Something arrives in errChan: the client has gone, a write was fatal, or  *)
(* the egress loop ended.                                                    *)
StreamErrs(s) ==
    /\ pc[s] = "run"
    /\ pc' = [pc EXCEPT ![s] = "leave"]
    /\ UNCHANGED <<serverVars, demuxVars, demuxOf, chan, queued, egressDone,
                   closeVars>>

EgressErrs(s) == egressDone[s] /\ StreamErrs(s)
ClientErrs(s) == ~egressDone[s] /\ StreamErrs(s)

(* unsubscribe closes the channel unless the read loop already did. *)
Unsubscribe(s) ==
    LET d == demuxOf[s]
    IN  /\ pc[s] = "leave"
        /\ IF s \in listeners[d]
           THEN /\ listeners' = [listeners EXCEPT ![d] = @ \ {s}]
                /\ chan' = [chan EXCEPT ![s] = IF chan[s] = "closed" THEN "closed twice"
                                                                     ELSE "closed"]
           ELSE UNCHANGED <<listeners, chan>>
        /\ pc' = [pc EXCEPT ![s] = "wait"]
        /\ UNCHANGED <<serverVars, cancelled, socket, loop, closed, linkVars, demuxOf,
                       queued, egressDone, closeVars>>

(* egressWG.Wait, then Transmit returns. *)
TransmitReturns(s) ==
    /\ pc[s] = "wait" /\ egressDone[s]
    /\ Returns(s)
    /\ UNCHANGED <<serverVars, demuxVars, closeVars>>

-----------------------------------------------------------------------------
(* The read loop hands a frame to every listener; a full queue drops it.     *)
(* Frames that no egress loop will take any more are not counted.            *)
ReadFrame(d) ==
    LET takers == {s \in listeners[d] : ~egressDone[s] /\ queued[s] < QueueCap}
    IN  /\ loop[d] = "read" /\ socket[d] = "open" /\ ~Ended(d) /\ ~closed[d]
        /\ takers # {}
        /\ queued' = [s \in Streams |-> IF s \in takers THEN queued[s] + 1 ELSE queued[s]]
        /\ UNCHANGED <<serverVars, demuxVars, pc, demuxOf, chan, egressDone, closeVars>>

(* closeHandler: closeOnce makes it idempotent. *)
CloseSocket(d) == socket' = [socket EXCEPT ![d] = "closed"]

(* ReadPacket fails, for a reason of its own, because the socket was closed, *)
(* or the context has ended; the defer starts with d.cancel and closeHandler.*)
ReadFails(d) ==
    /\ loop[d] = "read"
    /\ cancelled' = [cancelled EXCEPT ![d] = TRUE]
    /\ CloseSocket(d)
    /\ loop' = [loop EXCEPT ![d] = "closeChannels"]
    /\ UNCHANGED <<serverVars, closed, listeners, linkVars, streamVars, closeVars>>

ReadFailsByItself(d) == socket[d] = "open" /\ ~Ended(d) /\ ReadFails(d)
ReadInterrupted(d)   == (socket[d] = "closed" \/ Ended(d)) /\ ReadFails(d)

(* The goroutine of newInterfaceDemux: the socket is closed when d.ctx ends. *)
ContextCloses(d) ==
    /\ socket[d] = "open" /\ Ended(d)
    /\ CloseSocket(d)
    /\ UNCHANGED <<serverVars, cancelled, loop, closed, listeners, linkVars, streamVars,
                   closeVars>>

(* Under d.mu: d.closed is set and every listener's channel is closed. *)
CloseChannels(d) ==
    /\ loop[d] = "closeChannels"
    /\ closed' = [closed EXCEPT ![d] = TRUE]
    /\ chan' = [s \in Streams |-> IF s \notin listeners[d] THEN chan[s]
                                  ELSE IF chan[s] = "closed" THEN "closed twice" ELSE "closed"]
    /\ listeners' = [listeners EXCEPT ![d] = {}]
    /\ loop' = [loop EXCEPT ![d] = "closeLink"]
    /\ UNCHANGED <<serverVars, cancelled, socket, linkVars, pc, demuxOf, queued,
                   egressDone, closeVars>>

(* closeLink: linkClosed is set under linkMu; an attached Link is closed. *)
CloseLink(d) ==
    /\ loop[d] = "closeLink"
    /\ linkClosed' = [linkClosed EXCEPT ![d] = TRUE]
    /\ link' = [link EXCEPT ![d] = IF attached[d] THEN "closed" ELSE @]
    /\ loop' = [loop EXCEPT ![d] = "onClose"]
    /\ UNCHANGED <<serverVars, cancelled, socket, closed, listeners, attached, streamVars,
                   closeVars>>

(* Mutation of OnClose: whatever demux the map has is removed. *)
OnCloseAny(d) ==
    /\ loop[d] = "onClose" /\ mu = 0
    /\ demuxer' = 0
    /\ loop' = [loop EXCEPT ![d] = "done"]
    /\ UNCHANGED <<ctxDone, mu, cancelled, socket, closed, listeners, linkVars,
                   streamVars, closeVars>>

(* onClose removes this demux from the map, never a successor; the loop's    *)
(* wait group is done.                                                       *)
OnClose(d) ==
    /\ loop[d] = "onClose" /\ mu = 0
    /\ demuxer' = IF demuxer = d THEN 0 ELSE demuxer
    /\ loop' = [loop EXCEPT ![d] = "done"]
    /\ UNCHANGED <<ctxDone, mu, cancelled, socket, closed, listeners, linkVars,
                   streamVars, closeVars>>

-----------------------------------------------------------------------------
(* Server.Close: s.cancel. *)
CloseCancels ==
    /\ closer = "idle"
    /\ closer' = "cancelled"
    /\ ctxDone' = TRUE
    /\ UNCHANGED <<demuxer, mu, demuxVars, streamVars, closing>>

(* Under s.mu, the demuxes in the map are collected. *)
CloseCollects ==
    /\ closer = "cancelled" /\ mu = 0
    /\ closer' = "closing"
    /\ closing' = {demuxer} \ {0}
    /\ UNCHANGED <<serverVars, demuxVars, streamVars>>

(* d.close, then d.wait: the read loop and the goroutine that ranges over    *)
(* the Link's events are done.                                               *)
CloseDemux(d) ==
    /\ closer = "closing" /\ d \in closing
    /\ ~cancelled[d] \/ socket[d] = "open"
    /\ cancelled' = [cancelled EXCEPT ![d] = TRUE]
    /\ CloseSocket(d)
    /\ UNCHANGED <<serverVars, loop, closed, listeners, linkVars, streamVars, closeVars>>

CloseWaited(d) ==
    /\ closer = "closing" /\ d \in closing
    /\ loop[d] = "done" /\ link[d] # "open"
    /\ closing' = closing \ {d}
    /\ UNCHANGED <<serverVars, demuxVars, streamVars, closer>>

CloseReturns ==
    /\ closer = "closing" /\ closing = {}
    /\ closer' = "returned"
    /\ UNCHANGED <<serverVars, demuxVars, streamVars, closing>>

-----------------------------------------------------------------------------
Handler(s) ==
    \/ ShareDemux(s) \/ CreateDemux(s) \/ NoDemux(s)
    \/ OpenLink(s) \/ OpenLinkFails(s) \/ AttachLink(s)
    \/ Subscribe(s) \/ SubscribeFails(s)
    \/ EgressErrs(s) \/ Unsubscribe(s) \/ TransmitReturns(s)

Egress(s) == EgressSends(s) \/ EgressEnds(s)

TearDown(d) ==
    \/ ReadInterrupted(d) \/ CloseChannels(d)
    \/ CloseLink(d) \/ OnClose(d)

Closer ==
    \/ CloseCollects \/ CloseReturns
    \/ \E d \in Demux : CloseDemux(d) \/ CloseWaited(d)

Next ==
    \/ \E s \in Streams : Handler(s) \/ Egress(s) \/ EgressFails(s) \/ ClientErrs(s)
    \/ \E d \in Demux : ReadFrame(d) \/ ReadFailsByItself(d) \/ ContextCloses(d) \/ TearDown(d)
    \/ CloseCancels \/ Closer

(* What happens without a read error, a client that leaves or Close. *)
System ==
    \/ \E s \in Streams : Handler(s) \/ Egress(s)
    \/ \E d \in Demux : TearDown(d) \/ ContextCloses(d)
    \/ Closer

(* While there are goroutines that can run, one of them does: a client reads *)
(* its stream or goes away, so a Send ends.                                  *)
Fairness == WF_vars(System)

Spec == Init /\ [][Next]_vars
FairSpec == Spec /\ Fairness

-----------------------------------------------------------------------------
(* The registered channels are exactly the open ones.  The read loop sends   *)
(* only on open channels, and unsubscribe and teardown never close one twice *)
(* (both would panic); and no subscriber is left waiting on a demux that is  *)
(* past closing its channels.                                                *)
ListenersOpen ==
    /\ \A d \in Demux : \A s \in listeners[d] : chan[s] = "open" /\ demuxOf[s] = d
    /\ \A s \in Streams :
        chan[s] = "open" => s \in listeners[demuxOf[s]] /\ ~closed[demuxOf[s]]

(* One raw socket reader per interface, as InterfaceDemux promises, however  *)
(* often a failed demux is replaced while it is torn down: the late onClose  *)
(* of a dead one does not hide its successor from the next stream.           *)
SingleReader ==
    \A d, e \in Demux : loop[d] = "read" /\ loop[e] = "read" => d = e

(* Once Server.Close has cancelled s.ctx, which it stays, Close returns, as  *)
(* nobody holds s.mu forever and every collected demux finishes; and then,   *)
(* or a little later, every socket and Link ever opened is closed for good   *)
(* and no read loop is left, whether or not Close knew of the demux.         *)
EverythingReleased == <>[](ctxDone => closer = "returned" /\ \A d \in Demux : Finished(d))
=============================================================================
