--------------------------- MODULE MCFleetSignals ---------------------------
(* Small instances of FleetSignals for TLC. *)
EXTENDS FleetSignals, TLC

CONSTANTS r1, l1, fast, slow, p0, p1, d1, k1

\* A webhook for everything, or for what is high in the bridge's target.
Hook(floor, rules) == [dests |-> [d \in Destinations |-> [on |-> TRUE, floor |-> floor]], rules |-> rules]
BridgeRule == [dests |-> {d1}, targets |-> {r1}, floor |-> 1]
Hooks == {Hook(1, {}), Hook(2, {BridgeRule})}

OneDemand == {{"auth"}, {"version"}}

\* A bridge's target that is not synced, and the local one.
BridgeTable == {[t \in Targets |-> [enabled |-> t = Local, options |-> DefaultOptions]]}
=============================================================================
