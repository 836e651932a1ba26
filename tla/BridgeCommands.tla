--------------------------- MODULE BridgeCommands ---------------------------
(***************************************************************************)
(* The remote-control channel of the control plane: the durable command    *)
(* table of the API server (bridge-command-store.ts and the handlers of    *)
(* index.ts that drive it), one polling bridge per machine                 *)
(* (control-poller.ts), and the HTTP calls between them, which may be      *)
(* lost before the server sees them, lost on the way back, or arrive after *)
(* the caller has given up (AbortSignal.timeout).  Server and bridges      *)
(* crash and restart from what they wrote to disk.                         *)
(*                                                                         *)
(* Time is not counted: a lease is "live" until Lapse turns it "lapsed",   *)
(* which is all that `leaseUntil <= now' tells the code.                   *)
(***************************************************************************)
EXTENDS Naturals, Sequences, FiniteSets

CONSTANTS
    Machines,          \* machine ids, one bridge process each
    Versions,          \* hashes of the target's openclaw config
    MaxCommands,       \* BOUND: commands created in a behaviour
    MaxApprovals,      \* BOUND: approve calls per command
    MaxRestarts,       \* BOUND: restarts of each bridge
    ReceiptCap,        \* receipts kept on disk (500 in the code)
    DeadletterAfter,   \* DEADLETTER_*_ATTEMPTS (3 in the code)
    Limit              \* BOUND: how often each kind of fault may happen

Ids == 1..MaxCommands
Null == 0                       \* `null', for a command id
None == "none"                  \* an absent machine, result or lease

Faults == {"network", "server", "save", "renew"}
Statuses == {"succeeded", "failed"}
Terminal == Statuses \cup {"rejected", "deadletter"}
States == Terminal \cup {"absent", "queued", "leased", "running", "expired"}
Kinds == {"probe", "plain", "mutation"}

ASSUME ConstantsAssumption ==
    /\ MaxCommands \in Nat /\ MaxApprovals \in Nat /\ MaxRestarts \in Nat
    /\ ReceiptCap \in Nat \ {0}
    /\ DeadletterAfter \in Nat \ {0}
    /\ Limit \in [Faults -> Nat]

\* A BridgeCommandRecord.  `kind' stands for the snapshot's createdBy and
\* approvalRequired: only a "mutation" needs approval, only a "probe" is
\* created by probeRuntimeChannelsForTarget.
Command ==
    [state: States, machine: Machines \cup {None}, kind: Kinds, version: Versions \cup {None},
     approved: BOOLEAN, owner: Machines \cup {None},
     lease: {None, "live", "lapsed"},
     leaseAttempts: Nat, executionAttempts: Nat,
     result: Statuses \cup {None}]

Receipt == [cmd: Ids, status: Statuses]

\* What a bridge may ask of the server.
Request ==
    [kind: {"poll"}, machine: Machines, cmd: {Null}, status: {None}]
        \cup [kind: {"ack"}, machine: Machines, cmd: Ids, status: {None}]
        \cup [kind: {"result"}, machine: Machines, cmd: Ids, status: Statuses]

\* Where a tick is: nothing in hand, a command in hand, or its result too.
Idle == [pc |-> "idle", cmd |-> Null, status |-> None]

Bridge ==
    {Idle} \cup [pc: {"leased", "acked"}, cmd: Ids, status: {None}]
           \cup [pc: {"executed", "pushing"}, cmd: Ids, status: Statuses]

VARIABLES
    cmds,       \* the store's `commands' in memory, by creation order
    disk,       \* bridge-commands.json
    version,    \* the hash of each target's config (one target a machine)
    waiting,    \* probes whose waitForBridgeCommandCompletion is running
    bridge,     \* where each bridge's tick is, and the command it holds
    receipts,   \* each bridge's receipts map, in insertion order
    saved,      \* each bridge's receipt file
    late,       \* requests whose caller has given up, still under way
    spent,      \* faults so far, against Limit
    restarts,   \* restarts of each bridge so far
    approvals,  \* approve calls that changed each command
    runs,       \* how often the CLI really ran each command
    outcomes,   \* the statuses those runs really had
    forgot      \* runs whose receipt a restart of the bridge lost

serverVars == <<cmds, disk, version, waiting, approvals>>
bridgeVars == <<bridge, receipts, saved, restarts, runs, outcomes, forgot>>
vars == <<serverVars, bridgeVars, late, spent>>

-----------------------------------------------------------------------------
(* Helpers *)

Spend(fault) ==
    /\ spent[fault] < Limit[fault]
    /\ spent' = [spent EXCEPT ![fault] = @ + 1]

IsTerminalState(s) == s \in Terminal

Created(c) == cmds[c].state # "absent"

ApprovalRequired(r) == r.kind = "mutation"

\* Mutant: only the newest receipt is looked up.
LastReceiptOnly(m, c) == receipts[m] # << >> /\ receipts[m][Len(receipts[m])].cmd = c

HasReceipt(m, c) == \E i \in DOMAIN receipts[m] : receipts[m][i].cmd = c

OnDisk(m, c) == \E i \in DOMAIN saved[m] : saved[m][i].cmd = c

LastOf(s, n) == IF Len(s) <= n THEN s ELSE SubSeq(s, Len(s) - n + 1, Len(s))

\* `this.commands = new; this.save()'.  When writeFileSync or renameSync
\* throws, the table in memory has already changed and the caller gets a 500.
Persist(new, ok) == cmds' = new /\ disk' = IF ok THEN new ELSE disk

Commit(new) ==
    \/ Persist(new, TRUE) /\ UNCHANGED spent
    \/ Persist(new, FALSE) /\ Spend("save")

NewCommand(m, kind) ==
    [state |-> "queued", machine |-> m, kind |-> kind, version |-> version[m],
     approved |-> FALSE, owner |-> None, lease |-> None,
     leaseAttempts |-> 0, executionAttempts |-> 0, result |-> None]

Absent ==
    [state |-> "absent", machine |-> None, kind |-> "plain", version |-> None,
     approved |-> FALSE, owner |-> None, lease |-> None,
     leaseAttempts |-> 0, executionAttempts |-> 0, result |-> None]

Init ==
    /\ cmds = [c \in Ids |-> Absent] /\ disk = cmds
    /\ version \in [Machines -> Versions]
    /\ waiting = {} /\ late = {}
    /\ bridge = [m \in Machines |-> Idle]
    /\ receipts = [m \in Machines |-> << >>] /\ saved = receipts
    /\ spent = [f \in Faults |-> 0]
    /\ restarts = [m \in Machines |-> 0]
    /\ approvals = [c \in Ids |-> 0] /\ runs = [c \in Ids |-> 0]
    /\ outcomes = [c \in Ids |-> {}] /\ forgot = [c \in Ids |-> 0]

-----------------------------------------------------------------------------
(* Operator side: creating, approving and probing *)

\* The next free slot of the table: `this.commands.push(record)'.
IsNextId(c) == ~Created(c) /\ \A d \in Ids : d < c => Created(d)

\* POST /control/commands.  Probes come from ProbeStart only.
Create(c, m, kind) ==
    /\ kind # "probe"
    /\ IsNextId(c)
    /\ Commit([cmds EXCEPT ![c] = NewCommand(m, kind)])
    /\ UNCHANGED <<version, waiting, approvals, bridgeVars, late>>

\* POST .../approve: the version the operator saw must be both the target's
\* current one and the one the command was created for.  A command that is
\* leased or running goes back to "queued" with its lease fields intact.
Approve(c) ==
    LET r == cmds[c] IN
    /\ Created(c)
    /\ r.version = version[r.machine]
    /\ ApprovalRequired(r)
    /\ ~IsTerminalState(r.state)
    /\ approvals[c] < MaxApprovals
    /\ approvals' = [approvals EXCEPT ![c] = @ + 1]
    /\ Commit([cmds EXCEPT ![c] = [@ EXCEPT !.state = "queued", !.approved = TRUE]])
    /\ UNCHANGED <<version, waiting, bridgeVars, late>>

\* The target's config file changes under the pending commands.
ConfigChange(m, v) ==
    /\ v # version[m]
    /\ version' = [version EXCEPT ![m] = v]
    /\ UNCHANGED <<cmds, disk, waiting, approvals, bridgeVars, late, spent>>

Reject(r) == IF IsTerminalState(r.state) THEN r ELSE [r EXCEPT !.state = "rejected"]

Probes(m) == {c \in Ids : Created(c) /\ cmds[c].kind = "probe" /\ cmds[c].machine = m}

InProgress(s) == s \in {"queued", "leased", "running"}

\* probeRuntimeChannelsForTarget up to its wait, for the one target of m.
\* `old' is the newest command created at least 60 s ago.  Probes up to it
\* that are still in progress are rejected, newest first, one save each.
\* Then the most recent probe decides: if it is younger and in progress, or
\* has succeeded with a readable answer, no new command is created.  An
\* "expired" probe is neither rejected nor waited for.
ProbeStart(c, m, old) ==
    LET stale == {p \in Probes(m) : p <= old /\ InProgress(cmds[p].state)}
        Swept(low) == [d \in Ids |-> IF d \in stale /\ d >= low THEN Reject(cmds[d])
                                                               ELSE cmds[d]]
        recent == {p \in Probes(m) : \A q \in Probes(m) : q <= p}
        busy == \E p \in recent : p > old /\ InProgress(cmds[p].state)
        answered == \E p \in recent : cmds[p].state = "succeeded"
        new == [Swept(1) EXCEPT ![c] = NewCommand(m, "probe")]
    IN
    /\ \A p \in waiting : cmds[p].machine # m      \* channelRuntimeProbeInFlight
    /\ IsNextId(c)
    /\ old < c
    /\ \/ /\ busy \/ answered
          /\ stale # {}
          /\ Persist(Swept(1), TRUE)
          /\ UNCHANGED <<waiting, spent>>
       \/ /\ ~busy
          /\ Persist(new, TRUE)
          /\ waiting' = waiting \cup {c}
          /\ UNCHANGED spent
       \/ \E p \in stale :                        \* a reject's save throws
          /\ cmds' = Swept(p)
          /\ disk' = IF \E d \in stale : d > p THEN Swept(p + 1) ELSE disk
          /\ Spend("save")
          /\ UNCHANGED waiting
       \/ /\ ~busy                                 \* create's save throws
          /\ cmds' = new
          /\ disk' = IF stale # {} THEN Swept(1) ELSE disk
          /\ Spend("save")
          /\ UNCHANGED waiting
    /\ UNCHANGED <<version, approvals, bridgeVars, late>>

\* The wait of a probe ends: a terminal command is simply returned, any other
\* is rejected when the 8 s are over.
ProbeEnd(c) ==
    /\ c \in waiting
    /\ waiting' = waiting \ {c}
    /\ \/ IsTerminalState(cmds[c].state) /\ UNCHANGED <<cmds, disk, spent>>
       \/ ~IsTerminalState(cmds[c].state) /\ Commit([cmds EXCEPT ![c] = Reject(@)])
    /\ UNCHANGED <<version, approvals, bridgeVars, late>>

-----------------------------------------------------------------------------
(* Server side of the bridge's calls: poll, ack, result, heartbeat.  The     *)
(* reply is the id of the record the store returns, or Null.                 *)

Held(s) == s \in {"leased", "running"}

\* Mutant: any record with a lapsed lease expires, a rejected one too.
ExpireAnyState(r) ==
    IF r.lease = "lapsed"
    THEN [r EXCEPT !.state = "expired", !.owner = None, !.lease = None]
    ELSE r

\* Mutant: an acknowledged command never expires.
ExpireLeasedOnly(r) ==
    IF r.state = "leased" /\ r.lease = "lapsed"
    THEN [r EXCEPT !.state = IF r.leaseAttempts >= DeadletterAfter
                             THEN "deadletter" ELSE "expired",
                   !.owner = None, !.lease = None]
    ELSE r

\* expireLeases on one record.
Expire(r) ==
    IF Held(r.state) /\ r.lease = "lapsed"
    THEN [r EXCEPT !.state = IF \/ r.executionAttempts >= DeadletterAfter
                                \/ r.leaseAttempts >= DeadletterAfter
                             THEN "deadletter" ELSE "expired",
                   !.owner = None, !.lease = None]
    ELSE r

Pollable(r, m) ==
    /\ r.machine = m
    /\ r.state \in {"queued", "expired"}
    /\ ApprovalRequired(r) => r.approved

\* Mutant: leaseAttempts counts down the attempts that are left.
LeaseCountsDown(r, m) ==
    [r EXCEPT !.state = "leased", !.owner = m, !.lease = "live",
              !.leaseAttempts = @ - 1]

\* Mutant: every lease is the first.
LeaseStartsOver(r, m) ==
    [r EXCEPT !.state = "leased", !.owner = m, !.lease = "live",
              !.leaseAttempts = 1]

Lease(r, m) ==
    [r EXCEPT !.state = "leased", !.owner = m, !.lease = "live",
              !.leaseAttempts = @ + 1]

\* poll: expire the lapsed leases of every machine, then lease the first
\* command of this one.  Each of the two may save, and the save may fail.
HandlePoll(m, reply, ok) ==
    LET swept == [c \in Ids |-> Expire(cmds[c])]
        First(c) == /\ Pollable(swept[c], m)
                    /\ \A d \in Ids : Pollable(swept[d], m) => c <= d
    IN
    \/ /\ reply = Null
       /\ \A c \in Ids : ~Pollable(swept[c], m)
       /\ IF swept = cmds THEN ok /\ UNCHANGED <<cmds, disk>>
                          ELSE Persist(swept, ok)
    \/ \E c \in Ids :
       /\ First(c)
       /\ \/ ok /\ reply = c /\ Persist([swept EXCEPT ![c] = Lease(@, m)], TRUE)
          \/ ~ok /\ reply = Null /\ swept = cmds
                 /\ Persist([swept EXCEPT ![c] = Lease(@, m)], FALSE)
          \/ ~ok /\ reply = Null /\ swept # cmds /\ Persist(swept, FALSE)
          \/ ~ok /\ reply = Null /\ swept # cmds /\ disk' = swept
                 /\ cmds' = [swept EXCEPT ![c] = Lease(@, m)]

OwnedBy(r, m) == r.machine = m /\ Held(r.state) /\ r.owner \in {None, m}

Acknowledge(r, m) ==
    [r EXCEPT !.state = "running", !.owner = m,
              !.executionAttempts = IF r.state = "running" THEN @ ELSE @ + 1]

\* ackRunning.
HandleAck(m, c, reply, ok) ==
    LET r == cmds[c] IN
    \/ /\ OwnedBy(r, m) /\ reply = c
       /\ Persist([cmds EXCEPT ![c] = Acknowledge(@, m)], ok)
    \/ ~OwnedBy(r, m) /\ reply = Null /\ ok /\ UNCHANGED <<cmds, disk>>

Conclude(r, m, status) ==
    [r EXCEPT !.state = status, !.owner = m, !.lease = None, !.result = status]

\* pushResult: a result for a command that has one already is accepted and
\* dropped.
HandleResult(m, c, status, reply, ok) ==
    LET r == cmds[c] IN
    \/ r.machine = m /\ r.state \in Statuses /\ reply = c /\ ok
       /\ UNCHANGED <<cmds, disk>>
    \/ /\ OwnedBy(r, m) /\ reply = c
       /\ Persist([cmds EXCEPT ![c] = Conclude(@, m, status)], ok)
    \/ /\ ~(r.machine = m /\ r.state \in Statuses) /\ ~OwnedBy(r, m)
       /\ reply = Null /\ ok /\ UNCHANGED <<cmds, disk>>

Handle(req, reply, ok) ==
    \/ req.kind = "poll" /\ HandlePoll(req.machine, reply, ok)
    \/ req.kind = "ack" /\ HandleAck(req.machine, req.cmd, reply, ok)
    \/ req.kind = "result" /\ HandleResult(req.machine, req.cmd, req.status, reply, ok)

\* renewLease.  The shipped bridge never calls it; another client may.
RenewLease(c) ==
    /\ Held(cmds[c].state)
    /\ cmds[c].owner # None
    /\ Spend("renew")
    /\ Persist([cmds EXCEPT ![c] = [@ EXCEPT !.lease = "live"]], TRUE)
    /\ UNCHANGED <<version, waiting, approvals, bridgeVars, late>>

Lapsed(r) == IF r.lease = "live" THEN [r EXCEPT !.lease = "lapsed"] ELSE r

\* leaseUntil passes, for the table and for what is on disk.
Lapse(c) ==
    /\ Held(cmds[c].state)
    /\ cmds[c].lease = "live"
    /\ cmds' = [cmds EXCEPT ![c] = Lapsed(@)]
    /\ disk' = [disk EXCEPT ![c] = Lapsed(@)]
    /\ UNCHANGED <<version, waiting, approvals, bridgeVars, late, spent>>

\* The server restarts: load() brings back the last table that was saved,
\* and no probe waits any more.
ServerRestart ==
    /\ Spend("server")
    /\ cmds' = disk /\ UNCHANGED disk
    /\ waiting' = {}
    /\ approvals' = [c \in Ids |-> IF disk[c].state = "absent" THEN 0 ELSE approvals[c]]
    /\ UNCHANGED <<version, bridgeVars, late>>

-----------------------------------------------------------------------------
(* The bridge: one tick at a time (`inFlight'), each await one step.         *)

Replies == Ids \cup {Null}

\* One fetch of bridge m that, answered with a 2xx or 409, leaves it in
\* after[reply].  An exception of any other kind ends the tick.
Call(m, req, after) ==
    \/ \E reply \in Replies :                            \* answered
          /\ Handle(req, reply, TRUE)
          /\ bridge' = [bridge EXCEPT ![m] = after[reply]]
          /\ UNCHANGED <<late, spent>>
    \/ \E reply \in Replies :                            \* the answer is lost
          /\ Handle(req, reply, TRUE)
          /\ bridge' = [bridge EXCEPT ![m] = Idle]
          /\ Spend("network") /\ UNCHANGED late
    \/ \E reply \in Replies :                            \* 500: save() threw
          /\ Handle(req, reply, FALSE)
          /\ bridge' = [bridge EXCEPT ![m] = Idle]
          /\ Spend("save") /\ UNCHANGED late
    \/ /\ bridge' = [bridge EXCEPT ![m] = Idle]          \* lost, or too late
       /\ late' \in {late, late \cup {req}}
       /\ Spend("network") /\ UNCHANGED <<cmds, disk>>

EndOfTick == [reply \in Replies |-> Idle]

ServerOnly == UNCHANGED <<version, waiting, approvals>>
RecordsUnchanged == UNCHANGED <<receipts, saved, restarts, runs, outcomes, forgot>>

Poll(m) ==
    /\ bridge[m].pc = "idle"
    /\ Call(m, [kind |-> "poll", machine |-> m, cmd |-> Null, status |-> None],
            [c \in Replies |-> IF c = Null THEN Idle
                               ELSE [pc |-> "leased", cmd |-> c, status |-> None]])
    /\ ServerOnly /\ RecordsUnchanged

\* The command was run before: report the receipt again, run nothing.
PushReceipt(m) ==
    /\ bridge[m].pc = "leased"
    /\ \E i \in DOMAIN receipts[m] :
       /\ receipts[m][i].cmd = bridge[m].cmd
       /\ Call(m, [kind |-> "result", machine |-> m, cmd |-> bridge[m].cmd,
                   status |-> receipts[m][i].status], EndOfTick)
    /\ ServerOnly /\ RecordsUnchanged

Ack(m) ==
    /\ bridge[m].pc = "leased"
    /\ ~HasReceipt(m, bridge[m].cmd)
    /\ Call(m, [kind |-> "ack", machine |-> m, cmd |-> bridge[m].cmd, status |-> None],
            [reply \in Replies |-> IF reply = Null THEN Idle
                                   ELSE [bridge[m] EXCEPT !.pc = "acked"]])
    /\ ServerOnly /\ RecordsUnchanged

\* controller.execute: the CLI runs, with either outcome.
Execute(m, status) ==
    LET c == bridge[m].cmd IN
    /\ bridge[m].pc = "acked"
    /\ bridge' = [bridge EXCEPT ![m].pc = "executed", ![m].status = status]
    /\ runs' = [runs EXCEPT ![c] = @ + 1]
    /\ outcomes' = [outcomes EXCEPT ![c] = @ \cup {status}]
    /\ UNCHANGED <<serverVars, receipts, saved, restarts, forgot, late, spent>>

\* rememberReceipt: into the map, then to disk.  If saveReceipts throws the
\* tick ends there, with the receipt in memory only.
Remember(m) ==
    LET new == Append(receipts[m], [cmd |-> bridge[m].cmd, status |-> bridge[m].status])
    IN
    /\ bridge[m].pc = "executed"
    /\ receipts' = [receipts EXCEPT ![m] = new]
    /\ \/ /\ saved' = [saved EXCEPT ![m] = LastOf(new, ReceiptCap)]
          /\ bridge' = [bridge EXCEPT ![m].pc = "pushing"]
          /\ UNCHANGED spent
       \/ /\ Spend("save")
          /\ bridge' = [bridge EXCEPT ![m] = Idle]
          /\ UNCHANGED saved
    /\ UNCHANGED <<serverVars, restarts, runs, outcomes, forgot, late>>

Push(m) ==
    /\ bridge[m].pc = "pushing"
    /\ Call(m, [kind |-> "result", machine |-> m, cmd |-> bridge[m].cmd,
                status |-> bridge[m].status], EndOfTick)
    /\ ServerOnly /\ RecordsUnchanged

\* m's bridge knows that it ran c: it holds the result, or a receipt.
Remembers(m, c) ==
    \/ bridge[m].pc = "executed" /\ bridge[m].cmd = c
    \/ HasReceipt(m, c)

\* The bridge process dies anywhere and starts again from its receipt file.
BridgeRestart(m) ==
    /\ restarts[m] < MaxRestarts
    /\ restarts' = [restarts EXCEPT ![m] = @ + 1]
    /\ bridge' = [bridge EXCEPT ![m] = Idle]
    /\ receipts' = [receipts EXCEPT ![m] = saved[m]]
    /\ forgot' = [c \in Ids |-> IF Remembers(m, c) /\ ~OnDisk(m, c)
                                THEN forgot[c] + 1 ELSE forgot[c]]
    /\ UNCHANGED <<serverVars, saved, runs, outcomes, late, spent>>

\* A request whose caller has given up reaches the server after all.
LateArrival(req) ==
    /\ req \in late
    /\ late' = late \ {req}
    /\ \E reply \in Replies : Handle(req, reply, TRUE)
    /\ UNCHANGED <<version, waiting, approvals, bridgeVars, spent>>

BridgeStep(m) ==
    \/ Poll(m) \/ PushReceipt(m) \/ Ack(m) \/ Remember(m) \/ Push(m)
    \/ \E status \in Statuses : Execute(m, status)

Next ==
    \/ \E c \in Ids, m \in Machines, kind \in Kinds : Create(c, m, kind)
    \/ \E c \in Ids, m \in Machines, old \in Ids \cup {Null} : ProbeStart(c, m, old)
    \/ \E c \in Ids : Approve(c) \/ ProbeEnd(c) \/ RenewLease(c) \/ Lapse(c)
    \/ \E m \in Machines, v \in Versions : ConfigChange(m, v)
    \/ ServerRestart
    \/ \E m \in Machines : BridgeStep(m) \/ BridgeRestart(m)
    \/ \E req \in late : LateArrival(req)

Spec == Init /\ [][Next]_vars

\* setInterval keeps every bridge ticking, each await ends (10 s on a fetch,
\* 30 s on the CLI), and time passes.
Fairness ==
    /\ \A m \in Machines : WF_vars(BridgeStep(m))
    /\ \A c \in Ids : WF_vars(Lapse(c))

FairSpec == Spec /\ Fairness

-----------------------------------------------------------------------------
(* Properties *)

TypeOK ==
    /\ cmds \in [Ids -> Command] /\ disk \in [Ids -> Command]
    /\ version \in [Machines -> Versions]
    /\ waiting \subseteq Ids
    /\ bridge \in [Machines -> Bridge]
    /\ receipts \in [Machines -> Seq(Receipt)] /\ saved \in [Machines -> Seq(Receipt)]
    /\ late \subseteq Request
    /\ spent \in [Faults -> Nat] /\ restarts \in [Machines -> Nat]
    /\ approvals \in [Ids -> Nat] /\ runs \in [Ids -> Nat]
    /\ outcomes \in [Ids -> SUBSET Statuses] /\ forgot \in [Ids -> Nat]

\* A bridge runs a command a second time only when a restart made it forget
\* the first run: it died between controller.execute and the write of the
\* receipt, or the receipt file had already dropped the command.  Lost or
\* late answers, expired leases, repeated approvals and server restarts
\* never cause a second run (executeCommand, rememberReceipt).
RunOnceUnlessForgotten == \A c \in Ids : runs[c] <= 1 + forgot[c]

\* A mutation that ran on a machine has been approved, in the table and in
\* the file, whatever was lost in between (hasMutationArgs, poll, approve).
ApprovedBeforeRun ==
    \A c \in Ids, t \in {cmds, disk} :
        runs[c] > 0 /\ ApprovalRequired(t[c]) => t[c].approved

\* executionAttempts counts acknowledged leases: it never passes
\* leaseAttempts and is behind it while the newest lease is not acknowledged,
\* though an ack may arrive in a later lease than the one it was sent for
\* (poll, ackRunning); and no command is given up before it had its
\* DeadletterAfter leases (expireLeases).
AttemptsAgree ==
    \A c \in Ids :
        /\ cmds[c].executionAttempts <= cmds[c].leaseAttempts
        /\ cmds[c].state = "leased" => cmds[c].executionAttempts < cmds[c].leaseAttempts
        /\ cmds[c].state = "deadletter" => cmds[c].leaseAttempts >= DeadletterAfter

\* A verdict that reached the disk is never changed, neither by late
\* requests nor by a restart or a later save.
DurableVerdict ==
    [][\A c \in Ids : IsTerminalState(disk[c].state) =>
           disk'[c].state = disk[c].state /\ disk'[c].result = disk[c].result]_vars

\* How a record may change, in memory and from the file to memory: it keeps
\* its machine, its kind, its approval, its leases and its verdict.
Evolves(r, q) ==
    r.state # "absent" =>
        /\ q.state # "absent" /\ q.machine = r.machine /\ q.kind = r.kind
        /\ r.approved => q.approved
        /\ r.leaseAttempts <= q.leaseAttempts
        /\ IsTerminalState(r.state) => q.state = r.state /\ q.result = r.result

MayRun(r) == r.state # "absent" /\ (ApprovalRequired(r) => r.approved)

\* What a bridge has in hand is in the file, its own and free to run, and it
\* acknowledges only what it has no receipt of.
InHand(m) ==
    /\ bridge[m].pc # "idle" =>
           disk[bridge[m].cmd].machine = m /\ MayRun(disk[bridge[m].cmd])
    /\ bridge[m].pc = "acked" => ~HasReceipt(m, bridge[m].cmd)

\* Of the runs of a command, all but the forgotten ones are one, which the
\* machine of the command remembers.
RunsAccounted(c) ==
    runs[c] > forgot[c] =>
        /\ runs[c] = forgot[c] + 1
        /\ disk[c].machine \in Machines
        /\ Remembers(disk[c].machine, c)

\* Why a command runs once and only when approved: the memory is never behind
\* the file, and the file never behind what the bridges know.
RunInv ==
    /\ \A c \in Ids : Evolves(disk[c], cmds[c])
    /\ \A m \in Machines : InHand(m)
    /\ \A c \in Ids : runs[c] > 0 => MayRun(disk[c])
    /\ \A c \in Ids : RunsAccounted(c)

\* The store and its bridges implement the contract: a command is known once
\* it is in the file, granted once the file says that it may be polled, and
\* its verdict is the terminal state in the file.
KnownOnDisk == {c \in Ids : disk[c].state # "absent"}
Contract == INSTANCE CommandContract WITH
    Commands <- Ids,
    known <- KnownOnDisk,
    granted <- {c \in KnownOnDisk : ApprovalRequired(disk[c]) => disk[c].approved},
    effects <- outcomes,
    verdict <- [c \in Ids |-> IF IsTerminalState(disk[c].state) THEN disk[c].state ELSE "open"]

ImplementsContract == Contract!Spec

\* Every command that may run gets its verdict: the bridge keeps polling and
\* leases keep expiring, so it ends with a result or in the dead letters.
EventuallySettled ==
    \A c \in Ids :
        (Created(c) /\ (ApprovalRequired(cmds[c]) => cmds[c].approved))
            ~> IsTerminalState(cmds[c].state)
=============================================================================
