---------------------------- MODULE MCBridgeDemux ----------------------------
(* BridgeDemux for TLC. *)
EXTENDS BridgeDemux
=============================================================================
