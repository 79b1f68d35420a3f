---------------------------- MODULE MCBridgeLink ----------------------------
(* BridgeLink for TLC. *)
EXTENDS BridgeLink
=============================================================================
