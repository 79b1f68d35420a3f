--------------------------- MODULE MCTopologyDelete ---------------------------
(* TopologyDelete for TLC. *)
EXTENDS TopologyDelete
=============================================================================
