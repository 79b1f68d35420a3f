------------------------- MODULE ReconcileRequests -------------------------
(***************************************************************************)
(* What meshnetd's reconcile queue promises its callers, without timers,   *)
(* channels or a worker: a requested pod stays due until the worker reads  *)
(* its Topology, however requests are coalesced.  ReconcileQueue is shown  *)
(* to implement this specification.                                        *)
(***************************************************************************)
CONSTANT Keys       \* the pods, "namespace/name" in the code

VARIABLES due,      \* the pods with a request that no pass has read yet
          read      \* the pods whose Topology was read in the last step

absVars == <<due, read>>

AbsInit == due = {} /\ read = {}

(* enqueueReconcile, enqueueFullReconcile: requests only add. *)
Request ==
    /\ due \subseteq due'
    /\ due' \subseteq Keys
    /\ read' = {}

(* The worker reads some pods.  Only these may stop being due, and one that *)
(* has been requested again in the meantime stays due.                      *)
Serve ==
    /\ read' \subseteq Keys
    /\ due \ read' \subseteq due'
    /\ due' \subseteq due

AbsNext == Request \/ Serve

AbsSpec == AbsInit /\ [][AbsNext]_absVars
=============================================================================
