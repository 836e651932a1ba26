-------------------------- MODULE CommandContract --------------------------
(***************************************************************************)
(* What the control plane promises about remote commands, with no leases,  *)
(* messages, restarts or files: a command becomes known, may be granted    *)
(* the right to run, has effects on its machine, and gets at most one      *)
(* verdict, which never changes and never reports an outcome that no run   *)
(* had.  One save of the store may settle several commands at once, so a   *)
(* step is a conjunction over the commands.                                *)
(***************************************************************************)
CONSTANTS
    Commands,   \* the commands there may be
    Statuses    \* what a run may end with

VARIABLES
    known,      \* commands the operator can rely on
    granted,    \* known commands that may run
    effects,    \* the statuses the runs of a command really had
    verdict     \* "open", a status, or how the command was given up

vars == <<known, granted, effects, verdict>>

GivenUp == {"rejected", "deadletter"}

Init ==
    /\ known = {} /\ granted = {}
    /\ effects = [c \in Commands |-> {}]
    /\ verdict = [c \in Commands |-> "open"]

\* Only a granted command has effects on its machine.
Act ==
    \E c \in granted, s \in Statuses :
        /\ effects' = [effects EXCEPT ![c] = @ \cup {s}]
        /\ UNCHANGED <<known, granted, verdict>>

\* The operator's view moves on: nothing known or granted is taken back, an
\* open command may get a verdict, and a status is a verdict only if a run
\* had it.
Settle ==
    /\ known \subseteq known' /\ known' \subseteq Commands
    /\ granted \subseteq granted' /\ granted' \subseteq known'
    /\ verdict' \in [Commands -> {"open"} \cup Statuses \cup GivenUp]
    /\ \A c \in Commands : verdict'[c] # verdict[c] =>
        /\ verdict[c] = "open" /\ c \in known'
        /\ verdict'[c] \in GivenUp \/ (verdict'[c] \in effects[c] /\ c \in granted)
    /\ UNCHANGED effects

Next == Act \/ Settle

Spec == Init /\ [][Next]_vars
=============================================================================
