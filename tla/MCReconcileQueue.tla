-------------------------- MODULE MCReconcileQueue --------------------------
(* ReconcileQueue for TLC, and mutations of its actions. *)
EXTENDS ReconcileQueue
=============================================================================
