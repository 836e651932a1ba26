---------------------------- MODULE CommandQueue ----------------------------
(***************************************************************************)
(* Changes of a target's openclaw.json: the queue of CLI commands of       *)
(* OpenClawCommandQueue, its apply with the snapshot it rolls back to, the *)
(* recipes that apply commands of their own, and the rollback route.       *)
(*                                                                         *)
(* A queue is an array that its apply walks over while it awaits the CLI:  *)
(* commands queued meanwhile join it, a discard or the end of another      *)
(* apply only takes it out of the map of queues.                           *)
(***************************************************************************)
EXTENDS Naturals, Sequences, FiniteSets, Functions

CONSTANTS
    Commands,       \* CLI commands; each writes an entry of its own
    Edits,          \* what others write into the file: the bridge's sync, an editor
    Calls,          \* calls of apply and of a recipe's apply
    MaxBatch,       \* BOUND: commands of one request
    MaxChanges,     \* BOUND: discards, rollbacks and edits
    MaxFaults,      \* BOUND: failed commands, failed rollbacks
    MaxCrashes      \* BOUND: ends of the server

ASSUME QueueAssumption ==
    /\ Commands \cap Edits = {} /\ IsFiniteSet(Commands)
    /\ MaxBatch \in Nat \ {0} /\ MaxChanges \in Nat
    /\ MaxFaults \in Nat /\ MaxCrashes \in Nat

VARIABLES
    arrays,         \* every array of commands there has been
    queues,         \* the target's entry in the map: an array, or 0
    call,           \* the calls of applyCommands
    config, exists, \* what openclaw.json contains; whether it is there
    snapshots,      \* contents, in order of creation
    changes, faults, crashes,
    ran,            \* history: how often the CLI was started with a command
    given,          \* history: commands queued
    withdrawn,      \* history: commands discarded, behind a failed one, or lost in a crash
    crossed,        \* history: an apply was met by a discard or another apply
    meddled         \* history: calls during which something else wrote the file

vars == <<arrays, queues, call, config, exists, snapshots, changes, faults, crashes,
          ran, given, withdrawn, crossed, meddled>>
queueVars == <<arrays, queues, given, withdrawn>>
fileVars == <<config, exists, meddled>>
boundVars == <<changes, faults, crashes>>

Content == SUBSET (Commands \cup Edits)

\* at is the position of the command that the CLI runs; before is the snapshot.
\* "stranded": failed, and the rollback failed too; the answer is the same.
Call == [state : {"new", "queue", "recipe", "succeeded", "failed", "stranded", "killed"},
         list : 0 .. Len(arrays), at : Nat, before : 0 .. Len(snapshots)]
Running(a) == call[a].state \in {"queue", "recipe"}
List(a) == arrays[call[a].list]
InQueue == IF queues = 0 THEN {} ELSE Range(arrays[queues])

TypeOK ==
    /\ arrays \in Seq(Seq(Commands)) /\ queues \in 0 .. Len(arrays)
    /\ call \in [Calls -> Call]
    /\ config \in Content /\ exists \in BOOLEAN /\ (~exists => config = {})
    /\ snapshots \in Seq(Content)
    /\ changes \in 0 .. MaxChanges /\ faults \in 0 .. MaxFaults
    /\ crashes \in 0 .. MaxCrashes
    /\ ran \in [Commands -> Nat]
    /\ given \subseteq Commands /\ withdrawn \subseteq given /\ InQueue \subseteq given
    /\ crossed \in BOOLEAN /\ meddled \subseteq Calls
    /\ \A a \in Calls : Running(a) => call[a].at \in 1 .. Len(List(a)) /\ call[a].before > 0

Init ==
    /\ arrays = <<>> /\ queues = 0
    /\ call = [a \in Calls |-> [state |-> "new", list |-> 0, at |-> 0, before |-> 0]]
    /\ config = {} /\ exists \in BOOLEAN
    /\ snapshots = <<>>
    /\ changes = 0 /\ faults = 0 /\ crashes = 0
    /\ ran = [c \in Commands |-> 0]
    /\ given = {} /\ withdrawn = {} /\ crossed = FALSE /\ meddled = {}

-----------------------------------------------------------------------------
(* Queueing.                                                               *)

Batches(C) == UNION {Injection(1 .. n, C) : n \in 1 .. MaxBatch}

\* queue(): to the array of the target's entry, if it has one.
Queue(b) ==
    /\ IF queues = 0
       THEN arrays' = Append(arrays, b) /\ queues' = Len(arrays) + 1
       ELSE arrays' = [arrays EXCEPT ![queues] = @ \o b] /\ UNCHANGED queues
    /\ given' = given \cup Range(b)
    /\ UNCHANGED <<call, fileVars, snapshots, boundVars, ran, withdrawn, crossed>>

Discard ==
    /\ changes < MaxChanges /\ changes' = changes + 1
    /\ queues' = 0
    /\ withdrawn' = withdrawn \cup InQueue
    /\ crossed' = (crossed \/ \E a \in Calls : call[a].state = "queue")
    /\ UNCHANGED <<arrays, call, fileVars, snapshots, faults, crashes, ran, given>>

-----------------------------------------------------------------------------
(* applyCommands.                                                          *)

Others(a) == {b \in Calls \ {a} : Running(b)}

\* Mutant: the snapshot is taken after the first command was started.
StartedLate(a, state, i, list) ==
    /\ call' = [call EXCEPT ![a] = [state |-> state, list |-> i, at |-> 1,
                                    before |-> Len(snapshots) + 1]]
    /\ \E wrote \in BOOLEAN :
           snapshots' = Append(snapshots, IF wrote THEN config \cup {list[1]} ELSE config)
    /\ ran' = [ran EXCEPT ![list[1]] = @ + 1]

\* createSnapshot, and the first command.
Started(a, state, i, list) ==
    /\ call' = [call EXCEPT ![a] = [state |-> state, list |-> i, at |-> 1,
                                    before |-> Len(snapshots) + 1]]
    /\ snapshots' = Append(snapshots, config)
    /\ ran' = [ran EXCEPT ![list[1]] = @ + 1]

\* apply(); the array is the queue's own.
Apply(a) ==
    /\ call[a].state = "new" /\ queues # 0
    /\ Started(a, "queue", queues, arrays[queues])
    /\ crossed' = (crossed \/ \E b \in Calls : call[b].state = "queue")
    /\ UNCHANGED <<queueVars, fileVars, boundVars>>

\* POST /recipes/:recipeId/apply.
Recipe(a, b) ==
    /\ call[a].state = "new"
    /\ arrays' = Append(arrays, b)
    /\ Started(a, "recipe", Len(arrays) + 1, b)
    /\ UNCHANGED <<queues, given, withdrawn, fileVars, boundVars, crossed>>

\* Mutant: a failed recipe counts as a queue.
EndedMixed(a, state, left) ==
    /\ call' = [call EXCEPT ![a].state = state]
    /\ queues' = 0 /\ withdrawn' = withdrawn \cup left
    /\ UNCHANGED <<arrays, given>>

\* Mutant: the end of a recipe deletes the queue too.
EndedAny(a, state, left) ==
    /\ call' = [call EXCEPT ![a].state = state]
    /\ queues' = 0 /\ withdrawn' = withdrawn \cup (left \cap given)
    /\ UNCHANGED <<arrays, given>>

\* What the end of a call does to the map; `left' are commands it did not run.
Ended(a, state, left) ==
    /\ call' = [call EXCEPT ![a].state = state]
    /\ IF call[a].state = "queue"
       THEN queues' = 0 /\ withdrawn' = withdrawn \cup left
       ELSE UNCHANGED <<queues, withdrawn>>
    /\ UNCHANGED <<arrays, given>>

\* The command succeeded: its entry is in the file.
Succeed(a) ==
    LET next == call[a].at + 1 IN
    /\ Running(a)
    /\ config' = config \cup {List(a)[call[a].at]} /\ exists' = TRUE
    /\ meddled' = meddled \cup Others(a)
    /\ IF next <= Len(List(a))
       THEN /\ call' = [call EXCEPT ![a].at = next]
            /\ ran' = [ran EXCEPT ![List(a)[next]] = @ + 1]
            /\ UNCHANGED queueVars
       ELSE Ended(a, "succeeded", {}) /\ UNCHANGED ran
    /\ UNCHANGED <<snapshots, boundVars, crossed>>

\* rollbackToSnapshot(s), after a command that left `now' in the file.  Without
\* a file there is nothing to roll back; its write may throw.
RolledBack(s, now, there) ==
    /\ exists' = there
    /\ config' = IF there THEN snapshots[s] ELSE now
NotRolledBack(now, there) == exists' = there /\ config' = now

\* The command failed, before or after it wrote; the rest is not run.
Fail(a) ==
    LET cmd == List(a)[call[a].at]
        left == {List(a)[i] : i \in call[a].at + 1 .. Len(List(a))}
    IN
    /\ Running(a)
    /\ faults < MaxFaults /\ faults' = faults + 1
    /\ \E wrote \in BOOLEAN :
           LET now == IF wrote THEN config \cup {cmd} ELSE config
               there == exists \/ wrote
           IN \/ RolledBack(call[a].before, now, there) /\ Ended(a, "failed", left)
              \/ there /\ NotRolledBack(now, there) /\ Ended(a, "stranded", left)
    /\ meddled' = meddled \cup Others(a)
    /\ UNCHANGED <<snapshots, changes, crashes, ran, crossed>>

-----------------------------------------------------------------------------
(* Other writers, and the end of the server.                               *)

Meddle == meddled' = meddled \cup {a \in Calls : Running(a)}

\* POST /openclaw/targets/:targetId/config-snapshots/:snapId/rollback
Rollback(s) ==
    /\ changes < MaxChanges /\ changes' = changes + 1
    /\ exists
    /\ snapshots' = Append(snapshots, config)
    /\ config' = snapshots[s]
    /\ Meddle
    /\ UNCHANGED <<exists, queueVars, call, faults, crashes, ran, crossed>>

\* The file is changed or replaced by something that is not this queue.
Edit(e) ==
    /\ changes < MaxChanges /\ changes' = changes + 1
    /\ config' \in {{e}, config \cup {e}} /\ exists' = TRUE
    /\ Meddle
    /\ UNCHANGED <<queueVars, call, snapshots, faults, crashes, ran, crossed>>

\* The queues are only in memory; a command that was started may still finish.
Crash ==
    /\ crashes < MaxCrashes /\ crashes' = crashes + 1
    /\ queues' = 0
    /\ withdrawn' = withdrawn \cup given
    /\ call' = [a \in Calls |->
           IF Running(a) THEN [call[a] EXCEPT !.state = "killed"] ELSE call[a]]
    /\ \/ UNCHANGED <<config, exists>>
       \/ \E a \in Calls : Running(a) /\ config' = config \cup {List(a)[call[a].at]}
                                      /\ exists' = TRUE
    /\ UNCHANGED <<arrays, given, meddled, snapshots, changes, faults, ran, crossed>>

Fresh == {c \in Commands : \A i \in DOMAIN arrays : c \notin Range(arrays[i])}

Next ==
    \/ \E b \in Batches(Fresh) : Queue(b) \/ \E a \in Calls : Recipe(a, b)
    \/ Discard \/ Crash
    \/ \E a \in Calls : Apply(a) \/ Succeed(a) \/ Fail(a)
    \/ \E s \in DOMAIN snapshots : Rollback(s)
    \/ \E e \in Edits : Edit(e)

Spec == Init /\ [][Next]_vars

-----------------------------------------------------------------------------
(* Properties.                                                             *)

\* Every command that was queued waits, has run, or was withdrawn where its
\* operator could see it, and none runs twice - unless the queue's apply was met
\* by a discard or another apply: two applies walk over one array, and the end of
\* an apply deletes whatever queue the target has by then.
QueuedOnce == ~crossed =>
    /\ given \subseteq InQueue \cup withdrawn \cup {c \in Commands : ran[c] > 0}
    /\ \A c \in Commands : ran[c] <= 1

\* An apply that nothing else wrote beside is all or nothing: the file then has
\* every command of the array, those queued during the apply too, or (after a
\* failure and a rollback that could write) what it had before.
AllOrNothing == [][\A a \in Calls \ meddled : Running(a) =>
    /\ call'[a].state = "succeeded" =>
           config' = snapshots[call[a].before] \cup Range(List(a))
    /\ call'[a].state = "failed" => config' = snapshots[call[a].before]]_vars
=============================================================================
