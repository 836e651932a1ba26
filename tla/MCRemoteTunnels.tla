--------------------------- MODULE MCRemoteTunnels ---------------------------
(* Small instances of RemoteTunnels for TLC. *)
EXTENDS RemoteTunnels

CONSTANTS e1, e2, c1, c2
=============================================================================
