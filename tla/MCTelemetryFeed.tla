-------------------------- MODULE MCTelemetryFeed --------------------------
(* Small instances of TelemetryFeed for TLC. *)
EXTENDS TelemetryFeed

CONSTANTS m1, m2
=============================================================================
