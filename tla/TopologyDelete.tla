--------------------------- MODULE TopologyDelete ---------------------------
(***************************************************************************)
(* Manager.Delete (topo/topo.go): the nodes and the meshnet resources of a *)
(* topology are deleted, a goroutine (waitNSDeleted) starts to watch for   *)
(* the end of its namespace, the namespace is deleted, and Delete waits    *)
(* for the goroutine's word on an unbuffered channel that it closes when   *)
(* it returns.                                                             *)
(***************************************************************************)
EXTENDS Naturals, Sequences, FiniteSets

CONSTANTS Nodes,    \* the topology's nodes
          MayFail   \* calls that may fail: subset of {"nodes", "namespace", "watch"}

VARIABLES
    skipDeleteWait,   \* the Manager's option
    main,      \* Delete: "get", "nodes", "meshnet", "spawn", "delete", "receive", "returned"
    left,      \* nodes still to be deleted by the loop
    meshnet,   \* nodes whose meshnet resource exists
    ns,        \* the namespace: "active", "terminating", "gone"
    waiter,    \* waitNSDeleted: "off", "start", "loop", "send", "ended", "panic"
    watching,  \* its watch is open
    events,    \* Seq of "present", "deleted": events of the namespace on the watch
    late,      \* its context's timeout has passed
    verdict,   \* what it has to send: "none", "nil", "context", "closed", "watch"
    closed,    \* the channel is closed
    result     \* "none", "nil", "absent", "delete", "wait"

vars == <<skipDeleteWait, main, left, meshnet, ns, waiter, watching, events, late, verdict, closed, result>>
waitVars == <<waiter, watching, events, late, verdict>>

Init ==
    /\ skipDeleteWait \in BOOLEAN
    /\ main = "get"
    /\ left = Nodes /\ meshnet \in SUBSET Nodes
    /\ ns \in {"active", "terminating", "gone"}
    /\ waiter = "off" /\ watching = FALSE /\ events = <<>> /\ late = FALSE
    /\ verdict = "none"
    /\ closed = FALSE
    /\ result = "none"

(* Delete returns; a channel it has made is closed by the deferred call. *)
Return(r) ==
    /\ main' = "returned"
    /\ result' = r
    /\ closed' = (waiter # "off")

(* Any error of this call is taken for an absent namespace. *)
GetNamespace ==
    /\ main = "get"
    /\ \/ (ns = "gone" \/ "namespace" \in MayFail) /\ Return("absent")
       \/ ns # "gone" /\ main' = "nodes" /\ UNCHANGED <<closed, result>>
    /\ UNCHANGED <<skipDeleteWait, left, meshnet, ns, waitVars>>

(* A node's Delete; a failure is only logged. *)
DeleteNode(n) ==
    /\ main = "nodes" /\ n \in left
    /\ left' = left \ {n}
    /\ main' = IF left' = {} THEN "meshnet" ELSE main
    /\ UNCHANGED <<skipDeleteWait, meshnet, ns, waitVars, closed, result>>

(* deleteMeshnetTopologies: each resource that is listed is deleted, unless  *)
(* that fails, which is only logged.                                         *)
DeleteMeshnetTopologies ==
    /\ main = "meshnet"
    /\ meshnet' \in IF "nodes" \in MayFail THEN SUBSET meshnet ELSE {{}}
    /\ main' = IF skipDeleteWait THEN "delete" ELSE "spawn"
    /\ UNCHANGED <<skipDeleteWait, left, ns, waitVars, closed, result>>

(* The goroutine is started, its timeout running. *)
Spawn ==
    /\ main = "spawn" /\ main' = "delete"
    /\ waiter' = "start"
    /\ UNCHANGED <<skipDeleteWait, left, meshnet, ns, watching, events, late, verdict, closed, result>>

(* The API server tells an open watch. *)
Tell(e) == events' = IF watching THEN Append(events, e) ELSE events

(* The deletion is accepted, again if the namespace is terminating already. *)
DeleteNamespace ==
    /\ main = "delete" /\ ns # "gone"
    /\ ns' = "terminating"
    /\ Tell("present")
    /\ IF skipDeleteWait
       THEN Return("nil")
       ELSE main' = "receive" /\ UNCHANGED <<closed, result>>
    /\ UNCHANGED <<skipDeleteWait, left, meshnet, waiter, watching, late, verdict>>

(* It fails, or finds that the namespace has gone meanwhile. *)
DeleteNamespaceFails ==
    /\ main = "delete" /\ ("namespace" \in MayFail \/ ns = "gone")
    /\ Return("delete")
    /\ UNCHANGED <<skipDeleteWait, left, meshnet, ns, waitVars>>

(* Mutation of Receive: what was received is not looked at. *)
ReceiveAny ==
    /\ main = "receive" /\ waiter = "send"
    /\ waiter' = "ended"
    /\ Return("nil")
    /\ UNCHANGED <<skipDeleteWait, left, meshnet, ns, watching, events, late, verdict>>

(* err := <-c, the goroutine's send and this receive being one step. *)
Receive ==
    /\ main = "receive" /\ waiter = "send"
    /\ waiter' = "ended"
    /\ Return(IF verdict = "nil" THEN "nil" ELSE "wait")
    /\ UNCHANGED <<skipDeleteWait, left, meshnet, ns, watching, events, late, verdict>>

-----------------------------------------------------------------------------
rest == <<skipDeleteWait, main, left, meshnet, ns, closed, result>>

(* The watch is opened: the namespace is on it if it is still there. *)
OpenWatch ==
    /\ waiter = "start" /\ ~late
    /\ waiter' = "loop"
    /\ watching' = TRUE
    /\ events' = IF ns = "gone" THEN <<>> ELSE <<"present">>
    /\ UNCHANGED <<late, verdict, rest>>

Conclude(v) == waiter' = "send" /\ verdict' = v

(* The watch cannot be opened. *)
OpenWatchFails ==
    /\ waiter = "start" /\ (late \/ "watch" \in MayFail)
    /\ Conclude("watch")
    /\ UNCHANGED <<watching, events, late, rest>>

(* An event of the namespace; those of other namespaces are skipped. *)
HandleEvent ==
    /\ waiter = "loop" /\ events # <<>>
    /\ events' = Tail(events)
    /\ IF Head(events) = "deleted"
       THEN Conclude("nil")
       ELSE UNCHANGED <<waiter, verdict>>
    /\ UNCHANGED <<watching, late, rest>>

(* Mutation of GiveUp: the context is not looked at. *)
GiveUpNever ==
    /\ waiter = "loop" /\ late /\ FALSE
    /\ Conclude("context")
    /\ UNCHANGED <<watching, events, late, rest>>

(* The context has ended. *)
GiveUp ==
    /\ waiter = "loop" /\ late
    /\ Conclude("context")
    /\ UNCHANGED <<watching, events, late, rest>>

(* The API server ends the watch. *)
WatchCloses ==
    /\ waiter = "loop" /\ "watch" \in MayFail
    /\ Conclude("closed")
    /\ UNCHANGED <<watching, events, late, rest>>

(* A send on the closed channel panics. *)
SendOnClosed ==
    /\ waiter = "send" /\ closed
    /\ waiter' = "panic"
    /\ UNCHANGED <<watching, events, late, verdict, rest>>

-----------------------------------------------------------------------------
(* deleteWatchTimeout passes. *)
TimeoutPasses ==
    /\ waiter \in {"start", "loop"} /\ ~late
    /\ late' = TRUE
    /\ UNCHANGED <<waiter, watching, events, verdict, rest>>

(* The namespace's contents are gone, and so is the namespace. *)
NamespaceGone ==
    /\ ns = "terminating"
    /\ ns' = "gone" /\ meshnet' = {}
    /\ Tell("deleted")
    /\ UNCHANGED <<skipDeleteWait, main, left, waiter, watching, late, verdict, closed, result>>

MainStep ==
    \/ GetNamespace \/ (\E n \in Nodes : DeleteNode(n)) \/ DeleteMeshnetTopologies
    \/ Spawn \/ DeleteNamespace \/ DeleteNamespaceFails \/ Receive

WaiterStep == OpenWatch \/ OpenWatchFails \/ HandleEvent \/ GiveUp \/ SendOnClosed

Next == MainStep \/ WaiterStep \/ WatchCloses \/ TimeoutPasses \/ NamespaceGone

(* Both goroutines run and the timer fires; the namespace need not end. *)
Fairness == WF_vars(MainStep) /\ WF_vars(WaiterStep) /\ WF_vars(TimeoutPasses)

Spec == Init /\ [][Next]_vars /\ Fairness

-----------------------------------------------------------------------------
(* Delete that waits returns nil only when the namespace is gone, and with it *)
(* what the failed deletions before had left.                                 *)
NilMeansGone == result = "nil" /\ ~skipDeleteWait => ns = "gone" /\ meshnet = {}

(* The goroutine writes its word to a channel that is open. *)
NoSendOnClosed == waiter # "panic"
=============================================================================
