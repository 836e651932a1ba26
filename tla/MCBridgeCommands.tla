-------------------------- MODULE MCBridgeCommands --------------------------
(* Small instances of BridgeCommands for TLC. *)
EXTENDS BridgeCommands, TLC

CONSTANTS m1, v1, v2

\* Bounds on the faults of the runs.
EachOnce == [f \in Faults |-> IF f = "renew" THEN 0 ELSE 1]
ServerStaysUp ==
    [f \in Faults |-> IF f = "server" THEN 0 ELSE IF f = "network" THEN 2 ELSE 1]
=============================================================================
