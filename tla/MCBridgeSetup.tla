--------------------------- MODULE MCBridgeSetup ---------------------------
(* Small instances of BridgeSetup for TLC. *)
EXTENDS BridgeSetup

CONSTANTS c1
=============================================================================
