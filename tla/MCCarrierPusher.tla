--------------------------- MODULE MCCarrierPusher ---------------------------
(* CarrierPusher for TLC. *)
EXTENDS CarrierPusher
=============================================================================
