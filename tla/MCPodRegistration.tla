------------------------- MODULE MCPodRegistration -------------------------
(* PodRegistration for TLC. *)
EXTENDS PodRegistration
=============================================================================
