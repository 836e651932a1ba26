------------------------ MODULE BridgeCommandsProofs ------------------------
(***************************************************************************)
(* Theorems about BridgeCommands, for any machines, commands and bounds.   *)
(***************************************************************************)
EXTENDS BridgeCommands, SequenceTheorems, TLAPS

-----------------------------------------------------------------------------
(* Type correctness *)

\* What expireLeases, reject, poll, ackRunning, pushResult, approve, renewLease
\* and the passing of time make of a command record is a command record.
LEMMA RecordTypes ==
    ASSUME NEW r \in Command
    PROVE  /\ Expire(r) \in Command
           /\ Reject(r) \in Command
           /\ \A m \in Machines : Lease(r, m) \in Command /\ Acknowledge(r, m) \in Command
           /\ \A m \in Machines, s \in Statuses : Conclude(r, m, s) \in Command
           /\ [r EXCEPT !.state = "queued", !.approved = TRUE] \in Command
           /\ [r EXCEPT !.lease = "live"] \in Command
           /\ Lapsed(r) \in Command
<1>1. Expire(r) \in Command
  BY ZenonT(60) DEF Expire, Command, States, Terminal
<1>2. Reject(r) \in Command
  BY DEF Reject, Command, States, Terminal
<1>3. \A m \in Machines : Lease(r, m) \in Command
  <2> SUFFICES ASSUME NEW m \in Machines
               PROVE  Lease(r, m) \in Command
    OBVIOUS
  <2>1. r.leaseAttempts + 1 \in Nat
    BY DEF Command
  <2> DEFINE n == r.leaseAttempts + 1
  <2>2. Lease(r, m) = [r EXCEPT !.state = "leased", !.owner = m, !.lease = "live",
                                !.leaseAttempts = n]
    BY DEF Lease
  <2>3. n \in Nat
    BY <2>1
  <2> HIDE DEF n
  <2> QED
    BY <2>2, <2>3 DEF Command, States
<1>4. \A m \in Machines : Acknowledge(r, m) \in Command
  <2> SUFFICES ASSUME NEW m \in Machines
               PROVE  Acknowledge(r, m) \in Command
    OBVIOUS
  <2>1. r.executionAttempts + 1 \in Nat
    BY DEF Command
  <2> DEFINE n == IF r.state = "running" THEN r.executionAttempts
                                         ELSE r.executionAttempts + 1
  <2>2. Acknowledge(r, m) = [r EXCEPT !.state = "running", !.owner = m,
                                      !.executionAttempts = n]
    BY DEF Acknowledge
  <2>3. n \in Nat
    BY <2>1 DEF Command
  <2> HIDE DEF n
  <2> QED
    BY <2>2, <2>3 DEF Command, States
<1>5. \A m \in Machines, s \in Statuses : Conclude(r, m, s) \in Command
  BY DEF Conclude, Command, States, Terminal
<1>6. /\ [r EXCEPT !.state = "queued", !.approved = TRUE] \in Command
      /\ [r EXCEPT !.lease = "live"] \in Command
      /\ Lapsed(r) \in Command
  BY ZenonT(60) DEF Lapsed, Command, States
<1> QED
  BY <1>1, <1>2, <1>3, <1>4, <1>5, <1>6

LEMMA NewTypes ==
    ASSUME TypeOK, NEW m \in Machines, NEW kind \in Kinds
    PROVE  NewCommand(m, kind) \in Command
  BY DEF NewCommand, TypeOK, Command, States

LEMMA LastOfType ==
    ASSUME NEW S, NEW s \in Seq(S), NEW n \in Nat
    PROVE  LastOf(s, n) \in Seq(S)
<1>1. CASE Len(s) <= n
  BY <1>1 DEF LastOf
<1>2. CASE ~(Len(s) <= n)
  <2>1. Len(s) \in Nat
    OBVIOUS
  <2>2. Len(s) - n + 1 \in 1..Len(s) + 1 /\ Len(s) \in Nat
    BY <1>2, <2>1
  <2>3. \A i \in Len(s) - n + 1..Len(s) : i \in 1..Len(s)
    BY <2>2, <2>1
  <2> QED
    BY <1>2, <2>1, <2>2, <2>3, SubSeqProperties DEF LastOf
<1> QED
  BY <1>1, <1>2

\* A request leaves two well-typed tables behind, saved or not.
LEMMA HandleTypes ==
    ASSUME TypeOK, NEW req \in Request, NEW reply, NEW ok \in BOOLEAN,
           Handle(req, reply, ok)
    PROVE  cmds' \in [Ids -> Command] /\ disk' \in [Ids -> Command]
<1> DEFINE swept == [c \in Ids |-> Expire(cmds[c])]
<1>1. cmds \in [Ids -> Command] /\ disk \in [Ids -> Command] /\ req.machine \in Machines
  BY DEF TypeOK, Request
<1>2. CASE req.kind = "poll" /\ HandlePoll(req.machine, reply, ok)
  <2>1. swept \in [Ids -> Command]
    BY <1>1, RecordTypes
  <2>2. \A c \in Ids : [swept EXCEPT ![c] = Lease(@, req.machine)] \in [Ids -> Command]
    BY <2>1, <1>1, RecordTypes
  <2> HIDE DEF swept
  <2> QED
    BY <1>1, <1>2, <2>1, <2>2 DEF HandlePoll, Persist, swept
<1>3. CASE req.kind = "ack" /\ HandleAck(req.machine, req.cmd, reply, ok)
  <2>1. [cmds EXCEPT ![req.cmd] = Acknowledge(@, req.machine)] \in [Ids -> Command]
    <3>1. req.cmd \in Ids
      BY <1>3 DEF Request
    <3> QED
      BY <1>1, <3>1, RecordTypes
  <2> QED
    BY <1>1, <1>3, <2>1 DEF HandleAck, Persist
<1>4. CASE req.kind = "result" /\ HandleResult(req.machine, req.cmd, req.status, reply, ok)
  <2>1. req.status \in Statuses /\ req.cmd \in Ids
    BY <1>4 DEF Request
  <2>2. [cmds EXCEPT ![req.cmd] = Conclude(@, req.machine, req.status)] \in [Ids -> Command]
    BY <1>1, <2>1, RecordTypes
  <2> QED
    BY <1>1, <1>4, <2>2 DEF HandleResult, Persist
<1> QED
  BY <1>2, <1>3, <1>4 DEF Handle

\* Spending keeps `spent' a table of counters.
LEMMA SpendType ==
    ASSUME TypeOK, NEW f \in Faults, Spend(f)
    PROVE  spent' \in [Faults -> Nat]
  BY DEF TypeOK, Spend

\* A call of a bridge keeps every variable it touches in its type.
LEMMA CallTypes ==
    ASSUME TypeOK, NEW m \in Machines, NEW req \in Request,
           NEW after \in [Replies -> Bridge], Call(m, req, after)
    PROVE  /\ cmds' \in [Ids -> Command] /\ disk' \in [Ids -> Command]
           /\ bridge' \in [Machines -> Bridge]
           /\ late' \subseteq Request /\ spent' \in [Faults -> Nat]
<1>1. Idle \in Bridge
  BY DEF Bridge
<1>2. "network" \in Faults /\ "save" \in Faults
  BY DEF Faults
<1>3. cmds' \in [Ids -> Command] /\ disk' \in [Ids -> Command]
  BY HandleTypes DEF Call, TypeOK
<1>4. bridge' \in [Machines -> Bridge]
  BY <1>1 DEF Call, TypeOK
<1>5. late' \subseteq Request
  BY DEF Call, TypeOK
<1>6. spent' \in [Faults -> Nat]
  BY <1>2, SpendType DEF Call, TypeOK
<1> QED
  BY <1>3, <1>4, <1>5, <1>6

\* The steps of the operator, of time and of the server's own.
LEMMA ServerTypes ==
    ASSUME TypeOK
    PROVE  /\ \A c \in Ids, m \in Machines, kind \in Kinds : Create(c, m, kind) => TypeOK'
           /\ \A c \in Ids, m \in Machines, old \in Ids \cup {Null} :
                  ProbeStart(c, m, old) => TypeOK'
           /\ \A c \in Ids : Approve(c) \/ ProbeEnd(c) \/ RenewLease(c) \/ Lapse(c) => TypeOK'
           /\ \A m \in Machines, v \in Versions : ConfigChange(m, v) => TypeOK'
           /\ ServerRestart => TypeOK'
           /\ \A req \in late : LateArrival(req) => TypeOK'
<1>0. "save" \in Faults /\ "server" \in Faults /\ "renew" \in Faults
  BY DEF Faults
<1> USE DEF vars, serverVars, bridgeVars
<1>1. ASSUME NEW c \in Ids, NEW m \in Machines, NEW kind \in Kinds, Create(c, m, kind)
      PROVE  TypeOK'
  <2>1. [cmds EXCEPT ![c] = NewCommand(m, kind)] \in [Ids -> Command]
    BY NewTypes DEF TypeOK
  <2> QED
    BY <1>0, <1>1, <2>1, SpendType DEF Create, Commit, Persist, TypeOK
<1>2. ASSUME NEW c \in Ids, NEW m \in Machines, NEW old \in Ids \cup {Null},
             ProbeStart(c, m, old)
      PROVE  TypeOK'
  <2> DEFINE stale == {p \in Probes(m) : p <= old /\ InProgress(cmds[p].state)}
             Swept(low) == [d \in Ids |-> IF d \in stale /\ d >= low THEN Reject(cmds[d])
                                                                    ELSE cmds[d]]
             new == [Swept(1) EXCEPT ![c] = NewCommand(m, "probe")]
  <2>1. \A low : Swept(low) \in [Ids -> Command]
    BY RecordTypes DEF TypeOK
  <2>2. new \in [Ids -> Command]
    BY <2>1, NewTypes DEF Kinds
  <2>3. /\ cmds' \in {Swept(1), new} \cup {Swept(p) : p \in stale}
        /\ disk' \in {Swept(1), new, disk} \cup {Swept(p + 1) : p \in stale}
        /\ waiting' \in {waiting, waiting \cup {c}}
        /\ spent' = spent \/ Spend("save")
        /\ UNCHANGED <<version, approvals, bridgeVars, late>>
    BY <1>2 DEF ProbeStart, Persist
  <2> HIDE DEF stale, Swept, new
  <2> QED
    BY <1>0, <2>1, <2>2, <2>3, SpendType, ZenonT(60) DEF TypeOK
<1>3. ASSUME NEW c \in Ids, Approve(c) PROVE TypeOK'
  <2>1. [cmds EXCEPT ![c] = [@ EXCEPT !.state = "queued", !.approved = TRUE]]
            \in [Ids -> Command]
    BY RecordTypes DEF TypeOK
  <2>2. approvals' \in [Ids -> Nat]
    BY <1>3 DEF Approve, TypeOK
  <2> QED
    BY <1>0, <1>3, <2>1, <2>2, SpendType DEF Approve, Commit, Persist, TypeOK
<1>4. ASSUME NEW c \in Ids, ProbeEnd(c) PROVE TypeOK'
  <2>1. [cmds EXCEPT ![c] = Reject(@)] \in [Ids -> Command]
    BY RecordTypes DEF TypeOK
  <2> QED
    BY <1>0, <1>4, <2>1, SpendType DEF ProbeEnd, Commit, Persist, TypeOK
<1>5. ASSUME NEW c \in Ids, RenewLease(c) PROVE TypeOK'
  <2>1. [cmds EXCEPT ![c] = [@ EXCEPT !.lease = "live"]] \in [Ids -> Command]
    BY RecordTypes DEF TypeOK
  <2> QED
    BY <1>0, <1>5, <2>1, SpendType DEF RenewLease, Persist, TypeOK
<1>6. ASSUME NEW c \in Ids, Lapse(c) PROVE TypeOK'
  BY <1>6, RecordTypes DEF Lapse, TypeOK
<1>7. ASSUME NEW m \in Machines, NEW v \in Versions, ConfigChange(m, v) PROVE TypeOK'
  BY <1>7 DEF ConfigChange, TypeOK
<1>8. ASSUME ServerRestart PROVE TypeOK'
  BY <1>0, <1>8, SpendType DEF ServerRestart, TypeOK
<1>9. ASSUME NEW req \in late, LateArrival(req) PROVE TypeOK'
  BY <1>9, HandleTypes DEF LateArrival, TypeOK
<1> QED
  BY <1>1, <1>2, <1>3, <1>4, <1>5, <1>6, <1>7, <1>8, <1>9

\* The steps of a bridge.
LEMMA BridgeTypes ==
    ASSUME TypeOK, NEW m \in Machines, BridgeStep(m) \/ BridgeRestart(m)
    PROVE  TypeOK'
<1> USE DEF serverVars, bridgeVars
<1> DEFINE b == bridge[m]
<1>0. /\ b \in Bridge /\ Idle \in Bridge /\ Null \in Replies /\ "save" \in Faults
      /\ EndOfTick \in [Replies -> Bridge]
  BY DEF TypeOK, Bridge, Replies, EndOfTick, Faults
<1>1. CASE Poll(m)
  <2>1. [kind |-> "poll", machine |-> m, cmd |-> Null, status |-> None] \in Request
    BY DEF Request
  <2>2. [c \in Replies |-> IF c = Null THEN Idle
                           ELSE [pc |-> "leased", cmd |-> c, status |-> None]]
            \in [Replies -> Bridge]
    BY DEF Replies, Bridge
  <2> QED
    BY <1>1, <2>1, <2>2, CallTypes DEF Poll, ServerOnly, RecordsUnchanged, TypeOK
<1>2. CASE PushReceipt(m)
  <2>1. PICK i \in DOMAIN receipts[m] :
            Call(m, [kind |-> "result", machine |-> m, cmd |-> b.cmd,
                     status |-> receipts[m][i].status], EndOfTick)
    BY <1>2 DEF PushReceipt
  <2>2. receipts[m][i] \in Receipt
    BY <2>1 DEF TypeOK
  <2>3. b.cmd \in Ids
    BY <1>0, <1>2 DEF PushReceipt, Bridge, Idle
  <2>4. [kind |-> "result", machine |-> m, cmd |-> b.cmd,
         status |-> receipts[m][i].status] \in Request
    BY <2>2, <2>3 DEF Request, Receipt
  <2> QED
    BY <1>0, <1>2, <2>1, <2>4, CallTypes DEF PushReceipt, ServerOnly, RecordsUnchanged, TypeOK
<1>3. CASE Ack(m)
  <2>1. b.pc = "leased" /\ b.cmd \in Ids /\ b.status = None
    BY <1>0, <1>3 DEF Ack, Bridge, Idle
  <2>2. [kind |-> "ack", machine |-> m, cmd |-> b.cmd, status |-> None] \in Request
    BY <2>1 DEF Request
  <2>3. [b EXCEPT !.pc = "acked"] \in Bridge
    BY <1>0, <2>1 DEF Bridge, Idle
  <2>4. [reply \in Replies |-> IF reply = Null THEN Idle ELSE [b EXCEPT !.pc = "acked"]]
            \in [Replies -> Bridge]
    BY <1>0, <2>3
  <2> QED
    BY <1>3, <2>2, <2>4, CallTypes DEF Ack, ServerOnly, RecordsUnchanged, TypeOK
<1>4. ASSUME NEW status \in Statuses, Execute(m, status) PROVE TypeOK'
  <2>1. b.pc = "acked" /\ b.cmd \in Ids
    BY <1>0, <1>4 DEF Execute, Bridge, Idle
  <2>2. [b EXCEPT !.pc = "executed", !.status = status] \in Bridge
    BY <1>0, <2>1 DEF Bridge, Idle
  <2>3. bridge' \in [Machines -> Bridge]
    BY <1>4, <2>2 DEF Execute, TypeOK
  <2>4. runs' \in [Ids -> Nat] /\ outcomes' \in [Ids -> SUBSET Statuses]
    BY <1>4, <2>1 DEF Execute, TypeOK
  <2> QED
    BY <1>4, <2>3, <2>4 DEF Execute, TypeOK
<1>5. CASE Remember(m)
  <2> DEFINE new == Append(receipts[m], [cmd |-> b.cmd, status |-> b.status])
  <2>1. b.pc = "executed" /\ b.cmd \in Ids /\ b.status \in Statuses
    BY <1>0, <1>5 DEF Remember, Bridge, Idle
  <2>2. new \in Seq(Receipt)
    <3>1. [cmd |-> b.cmd, status |-> b.status] \in Receipt
      BY <2>1 DEF Receipt
    <3>2. receipts[m] \in Seq(Receipt)
      BY DEF TypeOK
    <3> QED
      BY <3>1, <3>2
  <2>3. LastOf(new, ReceiptCap) \in Seq(Receipt)
    BY <2>2, LastOfType, ConstantsAssumption
  <2>4. [b EXCEPT !.pc = "pushing"] \in Bridge
    BY <1>0, <2>1 DEF Bridge, Idle
  <2> HIDE DEF new
  <2>5. receipts' \in [Machines -> Seq(Receipt)] /\ saved' \in [Machines -> Seq(Receipt)]
    BY <1>5, <2>2, <2>3 DEF Remember, TypeOK, new
  <2>6. bridge' \in [Machines -> Bridge] /\ spent' \in [Faults -> Nat]
    BY <1>0, <1>5, <2>4, SpendType DEF Remember, TypeOK
  <2> QED
    BY <1>5, <2>5, <2>6 DEF Remember, TypeOK
<1>6. CASE Push(m)
  <2>1. b.pc = "pushing" /\ b.cmd \in Ids /\ b.status \in Statuses
    BY <1>0, <1>6 DEF Push, Bridge, Idle
  <2>2. [kind |-> "result", machine |-> m, cmd |-> b.cmd, status |-> b.status] \in Request
    BY <2>1 DEF Request
  <2> QED
    BY <1>0, <1>6, <2>2, CallTypes DEF Push, ServerOnly, RecordsUnchanged, TypeOK
<1>7. CASE BridgeRestart(m)
  BY <1>0, <1>7 DEF BridgeRestart, TypeOK
<1> QED
  BY <1>1, <1>2, <1>3, <1>4, <1>5, <1>6, <1>7 DEF BridgeStep

\* Every variable keeps its type: a command record, a receipt or a request is
\* never malformed, whatever is lost, late or restarted.
THEOREM TypeCorrect == Spec => []TypeOK
<1>1. Init => TypeOK
  BY ConstantsAssumption DEF Init, TypeOK, Absent, Command, States, Terminal, Statuses,
     Kinds, Bridge, Ids
<1>2. TypeOK /\ [Next]_vars => TypeOK'
  <2>1. ASSUME TypeOK, Next PROVE TypeOK'
    BY <2>1, ServerTypes, BridgeTypes DEF Next
  <2>2. ASSUME TypeOK, UNCHANGED vars PROVE TypeOK'
    BY <2>2 DEF vars, serverVars, bridgeVars, TypeOK
  <2> QED
    BY <2>1, <2>2
<1> QED
  BY <1>1, <1>2, PTL DEF Spec

-----------------------------------------------------------------------------
(* What the table and the file keep of a command                             *)

\* The records only move forward, and so does what is built from them.
LEMMA EvolvesOrder ==
    ASSUME NEW r \in Command, NEW q \in Command, NEW s \in Command
    PROVE  Evolves(r, r) /\ (Evolves(r, q) /\ Evolves(q, s) => Evolves(r, s))
  BY DEF Evolves, Command

\* Each change of a record that the store makes moves it forward.
LEMMA RecordsEvolve ==
    ASSUME NEW r \in Command
    PROVE  /\ Evolves(r, Expire(r)) /\ Evolves(r, Reject(r)) /\ Evolves(r, Lapsed(r))
           /\ Evolves(r, [r EXCEPT !.lease = "live"])
           /\ ~IsTerminalState(r.state) =>
                  Evolves(r, [r EXCEPT !.state = "queued", !.approved = TRUE])
           /\ \A m : Pollable(r, m) => Evolves(r, Lease(r, m))
           /\ \A m : OwnedBy(r, m) =>
                  /\ Evolves(r, Acknowledge(r, m))
                  /\ \A status \in Statuses : Evolves(r, Conclude(r, m, status))
<1> USE DEF Evolves, Command, IsTerminalState, Terminal, Statuses, Held
<1>1. Evolves(r, Expire(r))
  BY DEF Expire
<1>2. Evolves(r, Reject(r)) /\ Evolves(r, Lapsed(r))
  BY DEF Reject, Lapsed
<1>3. Evolves(r, [r EXCEPT !.lease = "live"])
  OBVIOUS
<1>4. ASSUME ~IsTerminalState(r.state)
      PROVE  Evolves(r, [r EXCEPT !.state = "queued", !.approved = TRUE])
  BY <1>4
<1>5. ASSUME NEW m, Pollable(r, m) PROVE Evolves(r, Lease(r, m))
  BY <1>5 DEF Pollable, Lease
<1>6. ASSUME NEW m, OwnedBy(r, m) PROVE Evolves(r, Acknowledge(r, m))
  BY <1>6 DEF OwnedBy, Acknowledge
<1>7. ASSUME NEW m, OwnedBy(r, m), NEW status \in Statuses
      PROVE  Evolves(r, Conclude(r, m, status))
  BY <1>7 DEF OwnedBy, Conclude
<1> QED
  BY <1>1, <1>2, <1>3, <1>4, <1>5, <1>6, <1>7

\* t is not behind s, command by command.
Ahead(s, t) == \A c \in Ids : Evolves(s[c], t[c])

LEMMA AheadOrder ==
    ASSUME NEW s \in [Ids -> Command], NEW t \in [Ids -> Command],
           NEW u \in [Ids -> Command]
    PROVE  Ahead(s, s) /\ (Ahead(s, t) /\ Ahead(t, u) => Ahead(s, u))
  BY EvolvesOrder DEF Ahead

\* Replacing one record by a later one keeps the table ahead.
LEMMA AheadOne ==
    ASSUME NEW s \in [Ids -> Command], NEW c \in Ids, NEW r \in Command,
           Evolves(s[c], r)
    PROVE  Ahead(s, [s EXCEPT ![c] = r])
  BY EvolvesOrder DEF Ahead

\* A request moves the table and the file forward and leaves the file behind
\* the table; the record a poll returns is in the file, as a command of the
\* machine that may run, with one more lease than the file had.
LEMMA HandleEvolves ==
    ASSUME TypeOK, Ahead(disk, cmds),
           NEW req \in Request, NEW reply, NEW ok \in BOOLEAN, Handle(req, reply, ok)
    PROVE  /\ Ahead(disk, disk') /\ Ahead(disk', cmds')
           /\ req.kind = "poll" /\ reply # Null =>
                 /\ reply \in Ids
                 /\ disk'[reply].machine = req.machine /\ MayRun(disk'[reply])
                 /\ disk'[reply].leaseAttempts >= 1
                 /\ disk[reply].state # "absent" =>
                        disk'[reply].leaseAttempts >= disk[reply].leaseAttempts + 1
<1> DEFINE swept == [c \in Ids |-> Expire(cmds[c])]
<1>1. cmds \in [Ids -> Command] /\ disk \in [Ids -> Command] /\ req.machine \in Machines
  BY DEF TypeOK, Request
<1>2. CASE req.kind = "poll" /\ HandlePoll(req.machine, reply, ok)
  <2>1. swept \in [Ids -> Command]
    BY <1>1, RecordTypes
  <2>2. Ahead(cmds, swept)
    BY <1>1, RecordsEvolve DEF Ahead
  <2>3. Ahead(disk, swept)
    BY <1>1, <2>1, <2>2, AheadOrder
  <2> DEFINE leased(c) == [swept EXCEPT ![c] = Lease(@, req.machine)]
  <2>4. ASSUME NEW c \in Ids, Pollable(swept[c], req.machine)
        PROVE  /\ leased(c) \in [Ids -> Command]
               /\ Ahead(swept, leased(c)) /\ Ahead(disk, leased(c))
               /\ leased(c)[c].machine = req.machine /\ MayRun(leased(c)[c])
               /\ leased(c)[c].leaseAttempts >= 1
               /\ disk[c].state # "absent" =>
                      leased(c)[c].leaseAttempts >= disk[c].leaseAttempts + 1
    <3>0. swept[c] \in Command /\ disk[c] \in Command
      BY <1>1, <2>1
    <3>1. Lease(swept[c], req.machine) \in Command
      BY <1>1, <3>0, RecordTypes
    <3>2. Evolves(swept[c], Lease(swept[c], req.machine))
      BY <2>4, <3>0, RecordsEvolve
    <3>3. leased(c) = [swept EXCEPT ![c] = Lease(swept[c], req.machine)]
      OBVIOUS
    <3>4. leased(c) \in [Ids -> Command] /\ leased(c)[c] = Lease(swept[c], req.machine)
      BY <2>1, <3>1
    <3> HIDE DEF swept, leased
    <3>5. Ahead(swept, leased(c))
      BY <2>1, <3>1, <3>2, <3>3, AheadOne
    <3>6. Ahead(disk, leased(c))
      BY <1>1, <2>1, <2>3, <3>4, <3>5, AheadOrder
    <3>7. leased(c)[c].machine = req.machine /\ MayRun(leased(c)[c])
      BY <2>4, <3>0, <3>4 DEF Pollable, Lease, MayRun, ApprovalRequired, Command
    <3>8. swept[c].leaseAttempts >= disk[c].leaseAttempts \/ disk[c].state = "absent"
      BY <2>3, <3>0 DEF Ahead, Evolves, Command
    <3>9. leased(c)[c].leaseAttempts = swept[c].leaseAttempts + 1
      BY <3>0, <3>4 DEF Lease, Command
    <3>10. /\ leased(c)[c].leaseAttempts >= 1
           /\ disk[c].state # "absent" =>
                  leased(c)[c].leaseAttempts >= disk[c].leaseAttempts + 1
      BY <3>0, <3>8, <3>9 DEF Command
    <3> QED
      BY <3>4, <3>5, <3>6, <3>7, <3>10
  <2>5. \/ cmds' = swept /\ disk' \in {swept, disk} /\ reply = Null
        \/ cmds' = cmds /\ disk' = disk /\ reply = Null
        \/ \E c \in Ids : /\ Pollable(swept[c], req.machine)
                         /\ cmds' = leased(c)
                         /\ \/ reply = c /\ disk' = leased(c)
                            \/ reply = Null /\ disk' \in {disk, swept}
    BY <1>2 DEF HandlePoll, Persist
  <2> HIDE DEF swept, leased
  <2> QED
    BY <1>1, <2>1, <2>2, <2>3, <2>4, <2>5, AheadOrder
<1>3. CASE req.kind = "ack" /\ HandleAck(req.machine, req.cmd, reply, ok)
  <2> DEFINE r == Acknowledge(cmds[req.cmd], req.machine)
  <2>1. req.cmd \in Ids /\ cmds[req.cmd] \in Command /\ r \in Command
    BY <1>1, <1>3, RecordTypes DEF Request
  <2>2. ASSUME OwnedBy(cmds[req.cmd], req.machine) PROVE Evolves(cmds[req.cmd], r)
    BY <2>1, <2>2, RecordsEvolve
  <2> HIDE DEF r
  <2>3. \/ cmds' = cmds /\ disk' = disk
        \/ /\ OwnedBy(cmds[req.cmd], req.machine)
           /\ cmds' = [cmds EXCEPT ![req.cmd] = r] /\ disk' \in {disk, cmds'}
    BY <1>3 DEF HandleAck, Persist, r
  <2>4. Ahead(cmds, cmds') /\ cmds' \in [Ids -> Command]
    BY <1>1, <2>1, <2>2, <2>3, AheadOne, AheadOrder
  <2> QED
    BY <1>1, <1>3, <2>3, <2>4, AheadOrder
<1>4. CASE req.kind = "result" /\ HandleResult(req.machine, req.cmd, req.status, reply, ok)
  <2> DEFINE r == Conclude(cmds[req.cmd], req.machine, req.status)
  <2>1. /\ req.cmd \in Ids /\ req.status \in Statuses
        /\ cmds[req.cmd] \in Command /\ r \in Command
    BY <1>1, <1>4, RecordTypes DEF Request
  <2>2. ASSUME OwnedBy(cmds[req.cmd], req.machine) PROVE Evolves(cmds[req.cmd], r)
    BY <2>1, <2>2, RecordsEvolve
  <2> HIDE DEF r
  <2>3. \/ cmds' = cmds /\ disk' = disk
        \/ /\ OwnedBy(cmds[req.cmd], req.machine)
           /\ cmds' = [cmds EXCEPT ![req.cmd] = r] /\ disk' \in {disk, cmds'}
    BY <1>4 DEF HandleResult, Persist, r
  <2>4. Ahead(cmds, cmds') /\ cmds' \in [Ids -> Command]
    BY <1>1, <2>1, <2>2, <2>3, AheadOne, AheadOrder
  <2> QED
    BY <1>1, <1>4, <2>3, <2>4, AheadOrder
<1> QED
  BY <1>2, <1>3, <1>4 DEF Handle

\* A call moves the table and the file forward; a call of another kind than a
\* poll leaves the bridge idle or where it would be after the answer.
LEMMA CallEvolves ==
    ASSUME TypeOK, Ahead(disk, cmds),
           NEW m \in Machines, NEW req \in Request, NEW after, Call(m, req, after)
    PROVE  Ahead(disk, disk') /\ Ahead(disk', cmds')
<1>1. CASE UNCHANGED <<cmds, disk>>
  BY <1>1, AheadOrder DEF TypeOK
<1>2. CASE \E reply \in Replies, ok \in BOOLEAN : Handle(req, reply, ok)
  BY <1>2, HandleEvolves
<1> QED
  BY <1>1, <1>2 DEF Call

\* Every step moves the file forward and leaves it behind the table.
LEMMA NextEvolves ==
    ASSUME TypeOK, Ahead(disk, cmds), [Next]_vars
    PROVE  Ahead(disk, disk') /\ Ahead(disk', cmds')
<1> USE DEF serverVars, bridgeVars
<1>0. cmds \in [Ids -> Command] /\ disk \in [Ids -> Command]
  BY DEF TypeOK
\* Most steps of the server make one new table and save it, or fail to.
<1>a. ASSUME NEW t \in [Ids -> Command], Ahead(cmds, t), cmds' = t, disk' \in {disk, t}
      PROVE  Ahead(disk, disk') /\ Ahead(disk', cmds')
  BY <1>0, <1>a, AheadOrder
<1>1. ASSUME NEW c \in Ids, NEW m \in Machines, NEW kind \in Kinds, Create(c, m, kind)
      PROVE  Ahead(disk, disk') /\ Ahead(disk', cmds')
  <2> DEFINE r == NewCommand(m, kind)
  <2>1. r \in Command /\ cmds[c].state = "absent"
    BY <1>1, NewTypes DEF Create, IsNextId, Created
  <2>2. Evolves(cmds[c], r)
    BY <2>1 DEF Evolves
  <2>3. cmds' = [cmds EXCEPT ![c] = r] /\ disk' \in {disk, cmds'}
    BY <1>1 DEF Create, Commit, Persist
  <2> HIDE DEF r
  <2>4. Ahead(cmds, cmds') /\ cmds' \in [Ids -> Command]
    BY <1>0, <2>1, <2>2, <2>3, AheadOne
  <2> QED
    BY <1>a, <2>3, <2>4
<1>2. ASSUME NEW c \in Ids, NEW m \in Machines, NEW old \in Ids \cup {Null},
             ProbeStart(c, m, old)
      PROVE  Ahead(disk, disk') /\ Ahead(disk', cmds')
  <2> DEFINE stale == {p \in Probes(m) : p <= old /\ InProgress(cmds[p].state)}
             Swept(low) == [d \in Ids |-> IF d \in stale /\ d >= low THEN Reject(cmds[d])
                                                                    ELSE cmds[d]]
             new == [Swept(1) EXCEPT ![c] = NewCommand(m, "probe")]
  <2>1. /\ \/ cmds' = Swept(1) /\ disk' = Swept(1)
           \/ cmds' = new /\ disk' \in {new, Swept(1), disk}
           \/ \E p \in stale : cmds' = Swept(p) /\ disk' \in {disk, Swept(p + 1)}
        /\ cmds[c].state = "absent"
    BY <1>2 DEF ProbeStart, Persist, IsNextId, Created
  <2>2. \A low : Swept(low) \in [Ids -> Command] /\ Ahead(cmds, Swept(low))
    <3>1. \A d \in Ids : /\ cmds[d] \in Command /\ Reject(cmds[d]) \in Command
                         /\ Evolves(cmds[d], cmds[d]) /\ Evolves(cmds[d], Reject(cmds[d]))
      BY <1>0, RecordTypes, RecordsEvolve, EvolvesOrder
    <3> HIDE DEF stale
    <3> QED
      BY <3>1 DEF Ahead
  <2>3. \A p \in stale : Ahead(Swept(p + 1), Swept(p))
    <3> SUFFICES ASSUME NEW p \in stale, NEW d \in Ids
                 PROVE  Evolves(Swept(p + 1)[d], Swept(p)[d])
      BY DEF Ahead
    <3>1. p \in Nat /\ d \in Nat
      BY DEF Probes, Ids
    <3>2. d >= p + 1 => d >= p
      BY <3>1
    <3>3. Swept(p + 1)[d] \in {cmds[d], Swept(p)[d]}
      BY <3>2
    <3>4. Evolves(cmds[d], Swept(p)[d])
      BY <2>2 DEF Ahead
    <3>5. cmds[d] \in Command /\ Swept(p)[d] \in Command
      BY <1>0, <2>2
    <3> HIDE DEF Swept
    <3> QED
      BY <3>3, <3>4, <3>5, EvolvesOrder
  <2>4. c \notin stale
    BY <2>1 DEF Probes, Created
  <2>5. Swept(1)[c] = cmds[c]
    BY <2>4
  <2>6. Evolves(Swept(1)[c], NewCommand(m, "probe")) /\ NewCommand(m, "probe") \in Command
    BY <2>1, <2>5, NewTypes DEF Evolves, Kinds
  <2> HIDE DEF stale, Swept
  <2>7. new \in [Ids -> Command] /\ Ahead(Swept(1), new)
    BY <2>2, <2>6, AheadOne
  <2>8. Ahead(cmds, new)
    BY <1>0, <2>2, <2>7, AheadOrder
  <2> HIDE DEF new
  <2> QED
    BY <1>0, <2>1, <2>2, <2>3, <2>7, <2>8, AheadOrder
<1>3. ASSUME NEW c \in Ids, Approve(c)
      PROVE  Ahead(disk, disk') /\ Ahead(disk', cmds')
  <2> DEFINE r == [cmds[c] EXCEPT !.state = "queued", !.approved = TRUE]
  <2>1. r \in Command /\ Evolves(cmds[c], r)
    BY <1>0, <1>3, RecordTypes, RecordsEvolve DEF Approve
  <2>2. cmds' = [cmds EXCEPT ![c] = r] /\ disk' \in {disk, cmds'}
    BY <1>3 DEF Approve, Commit, Persist
  <2> HIDE DEF r
  <2>3. Ahead(cmds, cmds') /\ cmds' \in [Ids -> Command]
    BY <1>0, <2>1, <2>2, AheadOne
  <2> QED
    BY <1>a, <2>2, <2>3
<1>4. ASSUME NEW c \in Ids, ProbeEnd(c)
      PROVE  Ahead(disk, disk') /\ Ahead(disk', cmds')
  <2> DEFINE r == Reject(cmds[c])
  <2>1. r \in Command /\ Evolves(cmds[c], r)
    BY <1>0, RecordTypes, RecordsEvolve
  <2>2. \/ UNCHANGED <<cmds, disk>>
        \/ cmds' = [cmds EXCEPT ![c] = r] /\ disk' \in {disk, cmds'}
    BY <1>4 DEF ProbeEnd, Commit, Persist
  <2> HIDE DEF r
  <2>3. Ahead(cmds, cmds') /\ cmds' \in [Ids -> Command]
    BY <1>0, <2>1, <2>2, AheadOne, AheadOrder
  <2> QED
    BY <1>a, <2>2, <2>3
<1>5. ASSUME NEW c \in Ids, RenewLease(c)
      PROVE  Ahead(disk, disk') /\ Ahead(disk', cmds')
  <2> DEFINE r == [cmds[c] EXCEPT !.lease = "live"]
  <2>1. r \in Command /\ Evolves(cmds[c], r)
    BY <1>0, RecordTypes, RecordsEvolve
  <2>2. cmds' = [cmds EXCEPT ![c] = r] /\ disk' \in {disk, cmds'}
    BY <1>5 DEF RenewLease, Persist
  <2> HIDE DEF r
  <2>3. Ahead(cmds, cmds') /\ cmds' \in [Ids -> Command]
    BY <1>0, <2>1, <2>2, AheadOne
  <2> QED
    BY <1>a, <2>2, <2>3
<1>6. ASSUME NEW c \in Ids, Lapse(c)
      PROVE  Ahead(disk, disk') /\ Ahead(disk', cmds')
  <2>1. /\ cmds' = [cmds EXCEPT ![c] = Lapsed(cmds[c])]
        /\ disk' = [disk EXCEPT ![c] = Lapsed(disk[c])]
    BY <1>6 DEF Lapse
  <2>2. cmds[c] \in Command /\ disk[c] \in Command
    BY <1>0
  <2>3. Lapsed(disk[c]) \in Command /\ Evolves(disk[c], Lapsed(disk[c]))
    BY <2>2, RecordTypes, RecordsEvolve
  <2>4. Ahead(disk, disk')
    BY <1>0, <2>1, <2>3, AheadOne
  <2>5. Evolves(Lapsed(disk[c]), Lapsed(cmds[c]))
    BY <2>2 DEF Ahead, Evolves, Lapsed, Command
  <2>6. Ahead(disk', cmds')
    BY <1>0, <2>1, <2>5 DEF Ahead
  <2> QED
    BY <2>4, <2>6
<1>7. ASSUME NEW m \in Machines, BridgeStep(m)
      PROVE  Ahead(disk, disk') /\ Ahead(disk', cmds')
  <2>1. CASE UNCHANGED <<cmds, disk>>
    BY <1>0, <2>1, AheadOrder
  <2>2. CASE \E after : \E req \in Request : Call(m, req, after)
    BY <2>2, CallEvolves
  <2>3. bridge[m] \in Bridge
    BY DEF TypeOK
  <2>4. CASE Poll(m)
    <3>1. [kind |-> "poll", machine |-> m, cmd |-> Null, status |-> None] \in Request
      BY DEF Request
    <3> QED
      BY <2>2, <2>4, <3>1 DEF Poll
  <2>5. CASE PushReceipt(m)
    <3>1. PICK i \in DOMAIN receipts[m] :
              Call(m, [kind |-> "result", machine |-> m, cmd |-> bridge[m].cmd,
                       status |-> receipts[m][i].status], EndOfTick)
      BY <2>5 DEF PushReceipt
    <3>2. receipts[m][i] \in Receipt /\ bridge[m].cmd \in Ids
      BY <2>3, <2>5, <3>1 DEF TypeOK, PushReceipt, Bridge, Idle
    <3>3. [kind |-> "result", machine |-> m, cmd |-> bridge[m].cmd,
           status |-> receipts[m][i].status] \in Request
      BY <3>2 DEF Receipt, Request
    <3> QED
      BY <2>2, <3>1, <3>3
  <2>6. CASE Ack(m)
    <3>1. bridge[m].cmd \in Ids
      BY <2>3, <2>6 DEF Ack, Bridge, Idle
    <3>2. [kind |-> "ack", machine |-> m, cmd |-> bridge[m].cmd, status |-> None] \in Request
      BY <3>1 DEF Request
    <3> QED
      BY <2>2, <2>6, <3>2 DEF Ack
  <2>7. CASE Push(m)
    <3>1. bridge[m].cmd \in Ids /\ bridge[m].status \in Statuses
      BY <2>3, <2>7 DEF Push, Bridge, Idle
    <3>2. [kind |-> "result", machine |-> m, cmd |-> bridge[m].cmd,
           status |-> bridge[m].status] \in Request
      BY <3>1 DEF Request
    <3> QED
      BY <2>2, <2>7, <3>2 DEF Push
  <2> QED
    BY <1>7, <2>1, <2>4, <2>5, <2>6, <2>7 DEF BridgeStep, Execute, Remember
<1>8. ASSUME ServerRestart
      PROVE  Ahead(disk, disk') /\ Ahead(disk', cmds')
  BY <1>0, <1>8, AheadOrder DEF ServerRestart
<1>9. ASSUME NEW req \in late, LateArrival(req)
      PROVE  Ahead(disk, disk') /\ Ahead(disk', cmds')
  BY <1>9, HandleEvolves DEF LateArrival, TypeOK
<1>10. CASE UNCHANGED <<cmds, disk>>
  BY <1>0, <1>10, AheadOrder
<1> QED
  BY <1>1, <1>2, <1>3, <1>4, <1>5, <1>6, <1>7, <1>8, <1>9, <1>10
  DEF Next, vars, ConfigChange, BridgeRestart

\* A verdict in the file is final: no late request, later save or restart
\* changes it.
THEOREM VerdictsAreDurable == Spec => DurableVerdict
<1>1. Init => Ahead(disk, cmds)
  BY DEF Init, Ahead, Evolves, Absent
<1>2. TypeOK /\ Ahead(disk, cmds) /\ [Next]_vars => Ahead(disk, cmds)'
  <2> SUFFICES ASSUME TypeOK, Ahead(disk, cmds), [Next]_vars PROVE Ahead(disk', cmds')
    BY DEF Ahead
  <2> QED
    BY NextEvolves
<1>3. TypeOK /\ Ahead(disk, cmds) /\ [Next]_vars =>
          [\A c \in Ids : IsTerminalState(disk[c].state) =>
              disk'[c].state = disk[c].state /\ disk'[c].result = disk[c].result]_vars
  <2> SUFFICES ASSUME TypeOK, Ahead(disk, cmds), [Next]_vars,
                      NEW c \in Ids, IsTerminalState(disk[c].state)
               PROVE  disk'[c].state = disk[c].state /\ disk'[c].result = disk[c].result
    OBVIOUS
  <2>1. Evolves(disk[c], disk'[c])
    BY NextEvolves DEF Ahead
  <2> QED
    BY <2>1 DEF Evolves, IsTerminalState, Terminal, Statuses
<1> QED
  BY <1>1, <1>2, <1>3, TypeCorrect, PTL DEF Spec, DurableVerdict

-----------------------------------------------------------------------------
(* Runs *)

\* What RunInv says of the records carries over to the next state.
LEMMA KeptOnDisk ==
    ASSUME TypeOK, RunInv, [Next]_vars, NEW c \in Ids
    PROVE  /\ Evolves(disk'[c], cmds'[c])
           /\ MayRun(disk[c]) => MayRun(disk'[c]) /\ disk'[c].machine = disk[c].machine
<1>1. Ahead(disk, cmds)
  BY DEF RunInv, Ahead
<1>2. Evolves(disk[c], disk'[c]) /\ Evolves(disk'[c], cmds'[c])
  BY <1>1, NextEvolves DEF Ahead
<1> QED
  BY <1>2 DEF Evolves, MayRun, ApprovalRequired

\* A machine has a receipt of a command after appending one to its list, and
\* keeps those it had.
LEMMA AppendReceipt ==
    ASSUME NEW s \in Seq(Receipt), NEW r \in Receipt, NEW c \in Ids
    PROVE  (\E i \in DOMAIN Append(s, r) : Append(s, r)[i].cmd = c)
               <=> r.cmd = c \/ \E i \in DOMAIN s : s[i].cmd = c
<1>1. /\ Len(s) \in Nat
      /\ DOMAIN s = 1..Len(s) /\ DOMAIN Append(s, r) = 1..(Len(s) + 1)
      /\ Append(s, r)[Len(s) + 1] = r
      /\ \A i \in 1..Len(s) : Append(s, r)[i] = s[i]
  BY AppendProperties
<1>2. \A i : i \in 1..(Len(s) + 1) <=> i \in 1..Len(s) \/ i = Len(s) + 1
  BY <1>1
<1> QED
  BY <1>1, <1>2

\* A machine whose bridge and receipts stay as they are keeps InHand.
LEMMA InHandFrame ==
    ASSUME TypeOK, RunInv, [Next]_vars, NEW m \in Machines,
           bridge'[m] = bridge[m], receipts'[m] = receipts[m]
    PROVE  InHand(m)'
<1>1. bridge[m].pc # "idle" => bridge[m].cmd \in Ids
  BY DEF TypeOK, Bridge, Idle
<1>2. InHand(m)
  BY DEF RunInv
<1> QED
  BY <1>1, <1>2, KeptOnDisk DEF InHand, HasReceipt

\* A command stays accounted for while its count and its forgotten runs stay,
\* and its machine remembers what it did.
LEMMA AccountFrame ==
    ASSUME TypeOK, RunInv, [Next]_vars, NEW c \in Ids,
           runs'[c] = runs[c], forgot'[c] = forgot[c],
           \A m \in Machines : Remembers(m, c) => Remembers(m, c)'
    PROVE  RunsAccounted(c)'
<1> SUFFICES ASSUME runs[c] > forgot[c] PROVE RunsAccounted(c)'
  BY DEF RunsAccounted
<1>1. runs[c] > 0
  BY DEF TypeOK
<1>2. disk'[c].machine = disk[c].machine
  BY <1>1, KeptOnDisk DEF RunInv
<1>3. /\ runs[c] = forgot[c] + 1 /\ disk[c].machine \in Machines
      /\ Remembers(disk[c].machine, c)
  BY DEF RunInv, RunsAccounted
<1>4. Remembers(disk[c].machine, c)'
  BY <1>2, <1>3
<1> QED
  BY <1>2, <1>3, <1>4 DEF RunsAccounted, Remembers, HasReceipt

\* What a bridge holds after a poll is in the file as its own and may run.
LEMMA PollInHand ==
    ASSUME TypeOK, RunInv, NEW m \in Machines, Poll(m)
    PROVE  InHand(m)'
<1> DEFINE req == [kind |-> "poll", machine |-> m, cmd |-> Null, status |-> None]
<1>1. req \in Request
  BY DEF Request
<1>2. Ahead(disk, cmds)
  BY DEF RunInv, Ahead
<1>3. \/ bridge'[m] = Idle
      \/ \E reply \in Replies : /\ Handle(req, reply, TRUE)
                               /\ bridge'[m] = IF reply = Null THEN Idle
                                   ELSE [pc |-> "leased", cmd |-> reply, status |-> None]
  <2> DEFINE after == [c \in Replies |-> IF c = Null THEN Idle
                          ELSE [pc |-> "leased", cmd |-> c, status |-> None]]
  <2>1. Call(m, req, after)
    BY DEF Poll
  <2>2. \A reply \in Replies : after[reply] =
            IF reply = Null THEN Idle ELSE [pc |-> "leased", cmd |-> reply, status |-> None]
    OBVIOUS
  <2> HIDE DEF req, after
  <2>3. \/ bridge'[m] = Idle
        \/ \E reply \in Replies : Handle(req, reply, TRUE) /\ bridge'[m] = after[reply]
    BY <2>1 DEF Call, TypeOK
  <2> QED
    BY <2>2, <2>3
<1>4. CASE bridge'[m] = Idle
  BY <1>4 DEF InHand, Idle
<1>5. ASSUME NEW reply \in Replies, reply # Null, Handle(req, reply, TRUE),
             bridge'[m] = [pc |-> "leased", cmd |-> reply, status |-> None]
      PROVE  InHand(m)'
  <2>1. disk'[reply].machine = m /\ MayRun(disk'[reply])
    BY <1>1, <1>2, <1>5, HandleEvolves
  <2>2. bridge'[m].pc = "leased" /\ bridge'[m].cmd = reply
    BY <1>5
  <2> QED
    BY <2>1, <2>2 DEF InHand, MayRun, ApprovalRequired
<1> QED
  BY <1>3, <1>4, <1>5

\* Every step of a bridge keeps RunInv.
LEMMA BridgeStepRunInv ==
    ASSUME TypeOK, RunInv, NEW m \in Machines, BridgeStep(m)
    PROVE  RunInv'
<1> DEFINE b == bridge[m]
<1>0. Next
  BY DEF Next
<1>1. b \in Bridge /\ bridge \in [Machines -> Bridge] /\ InHand(m)
  BY DEF TypeOK, RunInv
<1>2. \A c \in Ids : Evolves(disk'[c], cmds'[c])
  BY <1>0, KeptOnDisk
\* A call leaves receipts and runs alone: it is enough that the bridge has
\* not executed, and that InHand holds after it.
<1>3. ASSUME RecordsUnchanged, \A n \in Machines : n # m => bridge'[n] = bridge[n],
             b.pc # "executed", InHand(m)'
      PROVE  RunInv'
  <2>1. \A n \in Machines : InHand(n)'
    BY <1>0, <1>3, InHandFrame DEF RecordsUnchanged
  <2>2. \A n \in Machines, c \in Ids : Remembers(n, c) => Remembers(n, c)'
    BY <1>3 DEF Remembers, HasReceipt, RecordsUnchanged
  <2>3. \A c \in Ids : RunsAccounted(c)'
    BY <1>0, <1>3, <2>2, AccountFrame DEF RecordsUnchanged
  <2>4. \A c \in Ids : runs'[c] > 0 => MayRun(disk'[c])
    BY <1>0, <1>3, KeptOnDisk DEF RunInv, RecordsUnchanged
  <2> QED
    BY <1>2, <2>1, <2>3, <2>4 DEF RunInv, MayRun, ApprovalRequired
<1>4. CASE Poll(m)
  <2>1. b.pc # "executed" /\ RecordsUnchanged /\ \A n \in Machines : n # m => bridge'[n] = bridge[n]
    BY <1>4 DEF Poll, Call, TypeOK
  <2> QED
    BY <1>3, <1>4, <2>1, PollInHand
<1>5. ASSUME bridge'[m] = Idle PROVE InHand(m)'
  BY <1>5 DEF InHand, Idle
<1>6. CASE PushReceipt(m) \/ Push(m)
  <2>1. PICK req : Call(m, req, EndOfTick)
    BY <1>6 DEF PushReceipt, Push
  <2>2. bridge'[m] = Idle /\ \A n \in Machines : n # m => bridge'[n] = bridge[n]
    BY <2>1 DEF Call, EndOfTick, TypeOK
  <2>3. b.pc # "executed" /\ RecordsUnchanged
    BY <1>6 DEF PushReceipt, Push
  <2> QED
    BY <1>3, <1>5, <2>2, <2>3
<1>7. CASE Ack(m)
  <2> DEFINE after == [reply \in Replies |-> IF reply = Null THEN Idle
                                             ELSE [b EXCEPT !.pc = "acked"]]
  <2>1. b.pc = "leased" /\ b.cmd \in Ids /\ ~HasReceipt(m, b.cmd) /\ RecordsUnchanged
    BY <1>1, <1>7 DEF Ack, Bridge, Idle
  <2>2. PICK req : Call(m, req, after)
    BY <1>7 DEF Ack
  <2>3. \A reply \in Replies : after[reply] \in {Idle, [b EXCEPT !.pc = "acked"]}
    OBVIOUS
  <2> HIDE DEF after
  <2>4. /\ bridge'[m] \in {Idle, [b EXCEPT !.pc = "acked"]}
        /\ \A n \in Machines : n # m => bridge'[n] = bridge[n]
    BY <2>2, <2>3 DEF Call, TypeOK
  <2>5. ASSUME bridge'[m] = [b EXCEPT !.pc = "acked"] PROVE InHand(m)'
    <3>1. bridge'[m].pc = "acked" /\ bridge'[m].cmd = b.cmd
      BY <1>1, <2>1, <2>5 DEF Bridge, Idle
    <3>2. disk[b.cmd].machine = m /\ MayRun(disk[b.cmd])
      BY <1>1, <2>1 DEF InHand
    <3>3. disk'[b.cmd].machine = m /\ MayRun(disk'[b.cmd])
      BY <1>0, <2>1, <3>2, KeptOnDisk
    <3> QED
      BY <2>1, <3>1, <3>3 DEF InHand, HasReceipt, RecordsUnchanged, MayRun, ApprovalRequired
  <2> QED
    BY <1>3, <1>5, <2>1, <2>4, <2>5
<1>8. ASSUME NEW status \in Statuses, Execute(m, status) PROVE RunInv'
  <2>1. b.pc = "acked" /\ b.cmd \in Ids
    BY <1>1, <1>8 DEF Execute, Bridge, Idle
  <2>2. disk[b.cmd].machine = m /\ MayRun(disk[b.cmd]) /\ ~HasReceipt(m, b.cmd)
    BY <1>1, <2>1 DEF InHand
  <2>3. /\ bridge'[m].pc = "executed" /\ bridge'[m].cmd = b.cmd
        /\ \A n \in Machines : n # m => bridge'[n] = bridge[n]
        /\ disk' = disk /\ receipts' = receipts /\ forgot' = forgot
        /\ runs' = [runs EXCEPT ![b.cmd] = @ + 1]
    BY <1>1, <1>8 DEF Execute, serverVars, Bridge, Idle
  <2>4. \A n \in Machines : InHand(n)'
    <3>1. InHand(m)'
      BY <2>2, <2>3 DEF InHand, HasReceipt, MayRun, ApprovalRequired
    <3> QED
      BY <1>0, <2>3, <3>1, InHandFrame
  <2>5. runs[b.cmd] <= forgot[b.cmd]
    <3>1. ~Remembers(disk[b.cmd].machine, b.cmd)
      BY <2>1, <2>2 DEF Remembers
    <3>2. RunsAccounted(b.cmd) /\ runs[b.cmd] \in Nat /\ forgot[b.cmd] \in Nat
      BY <2>1 DEF RunInv, TypeOK
    <3> QED
      BY <3>1, <3>2 DEF RunsAccounted
  <2>6. \A c \in Ids : RunsAccounted(c)'
    <3> SUFFICES ASSUME NEW c \in Ids PROVE RunsAccounted(c)'
      OBVIOUS
    <3>1. CASE c = b.cmd
      <4>1. runs'[c] = runs[c] + 1 /\ runs[c] \in Nat /\ forgot[c] \in Nat
        BY <2>3, <3>1 DEF TypeOK
      <4>2. runs'[c] > forgot'[c] => runs'[c] = forgot'[c] + 1
        BY <2>3, <2>5, <3>1, <4>1
      <4>3. disk'[c].machine = m
        BY <2>2, <2>3, <3>1
      <4>4. bridge'[m].pc = "executed" /\ bridge'[m].cmd = c
        BY <2>3, <3>1
      <4> QED
        BY <4>2, <4>3, <4>4 DEF RunsAccounted, Remembers
    <3>2. CASE c # b.cmd
      <4>1. runs'[c] = runs[c]
        BY <2>1, <2>3, <3>2 DEF TypeOK
      <4>2. \A n \in Machines : Remembers(n, c) => Remembers(n, c)'
        BY <2>1, <2>3 DEF Remembers, HasReceipt
      <4> QED
        BY <1>0, <2>3, <4>1, <4>2, AccountFrame
    <3> QED
      BY <3>1, <3>2
  <2>7. \A c \in Ids : runs'[c] > 0 => MayRun(disk'[c])
    <3> SUFFICES ASSUME NEW c \in Ids, runs'[c] > 0 PROVE MayRun(disk'[c])
      OBVIOUS
    <3>1. CASE c = b.cmd
      BY <2>2, <2>3, <3>1
    <3>2. CASE c # b.cmd
      BY <2>1, <2>3, <3>2 DEF RunInv, TypeOK
    <3> QED
      BY <3>1, <3>2
  <2> QED
    BY <1>2, <2>4, <2>6, <2>7 DEF RunInv, MayRun, ApprovalRequired
<1>9. CASE Remember(m)
  <2> DEFINE r == [cmd |-> b.cmd, status |-> b.status]
  <2>1. b.pc = "executed" /\ b.cmd \in Ids /\ b.status \in Statuses
    BY <1>1, <1>9 DEF Remember, Bridge, Idle
  <2>2. r \in Receipt /\ receipts[m] \in Seq(Receipt) /\ r.cmd = b.cmd
    BY <2>1 DEF Receipt, TypeOK
  <2>3. /\ receipts' = [receipts EXCEPT ![m] = Append(receipts[m], r)]
        /\ bridge' \in {[bridge EXCEPT ![m].pc = "pushing"], [bridge EXCEPT ![m] = Idle]}
        /\ disk' = disk /\ runs' = runs /\ forgot' = forgot
    BY <1>9 DEF Remember, serverVars
  <2> HIDE DEF r
  <2>4. /\ receipts'[m] = Append(receipts[m], r)
        /\ \A n \in Machines : n # m => receipts'[n] = receipts[n] /\ bridge'[n] = bridge[n]
    BY <1>1, <2>3 DEF TypeOK
  <2>5. bridge'[m] = Idle \/ (bridge'[m].pc = "pushing" /\ bridge'[m].cmd = b.cmd)
    BY <1>1, <2>1, <2>3 DEF Bridge, Idle
  <2>6. \A c \in Ids : HasReceipt(m, c)' <=> c = b.cmd \/ HasReceipt(m, c)
    BY <2>2, <2>4, AppendReceipt DEF HasReceipt
  <2>7. InHand(m)'
    BY <1>1, <1>5, <2>1, <2>3, <2>5 DEF InHand, MayRun, ApprovalRequired
  <2>8. \A n \in Machines : InHand(n)'
    BY <1>0, <2>4, <2>7, InHandFrame
  <2>9. \A n \in Machines, c \in Ids : Remembers(n, c) => Remembers(n, c)'
    <3>1. \A c \in Ids : Remembers(m, c) => Remembers(m, c)'
      BY <2>1, <2>6 DEF Remembers
    <3>2. \A n \in Machines, c \in Ids : n # m /\ Remembers(n, c) => Remembers(n, c)'
      BY <2>4 DEF Remembers, HasReceipt
    <3> QED
      BY <3>1, <3>2
  <2>10. \A c \in Ids : RunsAccounted(c)'
    BY <1>0, <2>3, <2>9, AccountFrame
  <2>11. \A c \in Ids : runs'[c] > 0 => MayRun(disk'[c])
    BY <2>3 DEF RunInv
  <2> QED
    BY <1>2, <2>8, <2>10, <2>11 DEF RunInv, MayRun, ApprovalRequired
<1> QED
  BY <1>4, <1>6, <1>7, <1>8, <1>9 DEF BridgeStep

\* A restart forgets the runs whose receipt is not on disk, and no others.
LEMMA RestartRunInv ==
    ASSUME TypeOK, RunInv, NEW m \in Machines, BridgeRestart(m)
    PROVE  RunInv'
<1>0. Next
  BY DEF Next
<1>1. \A c \in Ids : Evolves(disk'[c], cmds'[c])
  BY <1>0, KeptOnDisk
<1>2. /\ bridge'[m] = Idle /\ receipts'[m] = saved[m]
      /\ \A n \in Machines : n # m => receipts'[n] = receipts[n] /\ bridge'[n] = bridge[n]
      /\ disk' = disk /\ runs' = runs
      /\ forgot' = [c \in Ids |-> IF Remembers(m, c) /\ ~OnDisk(m, c)
                                  THEN forgot[c] + 1 ELSE forgot[c]]
  BY DEF BridgeRestart, TypeOK, serverVars
<1>3. InHand(m)'
  BY <1>2 DEF InHand, Idle
<1>4. \A n \in Machines : InHand(n)'
  BY <1>0, <1>2, <1>3, InHandFrame
<1>5. \A c \in Ids : runs'[c] > 0 => MayRun(disk'[c])
  BY <1>2 DEF RunInv
<1>6. ASSUME NEW c \in Ids PROVE RunsAccounted(c)'
  <2>1. runs[c] \in Nat /\ forgot[c] \in Nat /\ RunsAccounted(c)
    BY DEF TypeOK, RunInv
  <2>2. CASE Remembers(m, c) /\ ~OnDisk(m, c)
    <3>1. forgot'[c] = forgot[c] + 1 /\ runs'[c] = runs[c]
      BY <1>2, <2>2
    <3>2. ~(runs'[c] > forgot'[c])
      BY <2>1, <3>1 DEF RunsAccounted
    <3> QED
      BY <3>2 DEF RunsAccounted
  <2>3. CASE ~(Remembers(m, c) /\ ~OnDisk(m, c))
    <3>1. forgot'[c] = forgot[c] /\ runs'[c] = runs[c]
      BY <1>2, <2>3
    <3>2. Remembers(m, c) => Remembers(m, c)'
      BY <1>2, <2>3 DEF Remembers, OnDisk, HasReceipt
    <3>3. \A n \in Machines : n # m => (Remembers(n, c) => Remembers(n, c)')
      BY <1>2 DEF Remembers, HasReceipt
    <3> QED
      BY <1>0, <3>1, <3>2, <3>3, AccountFrame
  <2> QED
    BY <2>2, <2>3
<1> QED
  BY <1>1, <1>4, <1>5, <1>6 DEF RunInv, MayRun, ApprovalRequired

\* RunInv holds always: memory, file and bridges agree on what ran.
THEOREM RunInvHolds == Spec => []RunInv
<1>1. Init => RunInv
  BY DEF Init, RunInv, InHand, RunsAccounted, Evolves, Absent, Idle
<1>2. TypeOK /\ RunInv /\ [Next]_vars => RunInv'
  <2> SUFFICES ASSUME TypeOK, RunInv, [Next]_vars PROVE RunInv'
    OBVIOUS
  <2>1. ASSUME UNCHANGED <<bridge, receipts, runs, forgot>> PROVE RunInv'
    <3>1. \A m \in Machines : InHand(m)'
      BY <2>1, InHandFrame
    <3>2. \A m \in Machines, c \in Ids : Remembers(m, c) => Remembers(m, c)'
      BY <2>1 DEF Remembers, HasReceipt
    <3>3. \A c \in Ids : RunsAccounted(c)'
      BY <2>1, <3>2, AccountFrame
    <3>4. \A c \in Ids : Evolves(disk'[c], cmds'[c]) /\ (runs'[c] > 0 => MayRun(disk'[c]))
      BY <2>1, KeptOnDisk DEF RunInv
    <3> QED
      BY <3>1, <3>3, <3>4 DEF RunInv, MayRun, ApprovalRequired
  <2>2. ASSUME NEW m \in Machines, BridgeStep(m) \/ BridgeRestart(m) PROVE RunInv'
    BY <2>2, BridgeStepRunInv, RestartRunInv
  <2> QED
    BY <2>1, <2>2, ZenonT(60) DEF Next, Create, ProbeStart, Approve, ProbeEnd, RenewLease, Lapse,
       ConfigChange, ServerRestart, LateArrival, vars, bridgeVars
<1> QED
  BY <1>1, <1>2, TypeCorrect, PTL DEF Spec

\* A bridge runs a command again only after a restart made it forget the
\* first run.
THEOREM RunsOnce == Spec => []RunOnceUnlessForgotten
<1>1. TypeOK /\ RunInv => RunOnceUnlessForgotten
  <2> SUFFICES ASSUME TypeOK, RunInv, NEW c \in Ids PROVE runs[c] <= 1 + forgot[c]
    BY DEF RunOnceUnlessForgotten
  <2>1. RunsAccounted(c) /\ runs[c] \in Nat /\ forgot[c] \in Nat
    BY DEF RunInv, TypeOK
  <2> QED
    BY <2>1 DEF RunsAccounted
<1> QED
  BY <1>1, TypeCorrect, RunInvHolds, PTL

\* No mutation runs on a machine without an approval that the file keeps.
THEOREM RunsAreApproved == Spec => []ApprovedBeforeRun
<1>1. RunInv => ApprovedBeforeRun
  BY DEF RunInv, ApprovedBeforeRun, MayRun, Evolves, ApprovalRequired
<1> QED
  BY <1>1, RunInvHolds, PTL

-----------------------------------------------------------------------------
(* Attempts and verdicts                                                     *)

\* The counters of a record agree with each other and with its state.
Agreeing(r) ==
    /\ r.executionAttempts <= r.leaseAttempts
    /\ r.state = "leased" => r.executionAttempts < r.leaseAttempts
    /\ r.state = "deadletter" => r.leaseAttempts >= DeadletterAfter

\* They do, and the record reports only what a run of c ended with.
Sound(c, r) == Agreeing(r) /\ (r.state \in Statuses => r.state \in outcomes[c])

SoundTable(t) == \A c \in Ids : Sound(c, t[c])

\* Each change of a record that the store makes keeps it sound.
LEMMA RecordsSound ==
    ASSUME NEW c \in Ids, NEW r \in Command, Sound(c, r)
    PROVE  /\ Sound(c, Expire(r)) /\ Sound(c, Reject(r)) /\ Sound(c, Lapsed(r))
           /\ Sound(c, [r EXCEPT !.lease = "live"])
           /\ Sound(c, [r EXCEPT !.state = "queued", !.approved = TRUE])
           /\ \A m : Sound(c, Lease(r, m))
           /\ \A m : OwnedBy(r, m) =>
                  /\ Sound(c, Acknowledge(r, m))
                  /\ \A status \in outcomes[c] \cap Statuses : Sound(c, Conclude(r, m, status))
<1> USE ConstantsAssumption DEF ConstantsAssumption, Sound, Agreeing
<1>0. /\ r.leaseAttempts \in Nat /\ r.executionAttempts \in Nat
      /\ "queued" \notin Statuses /\ "expired" \notin Statuses /\ "deadletter" \notin Statuses
      /\ "rejected" \notin Statuses /\ "leased" \notin Statuses /\ "running" \notin Statuses
  BY DEF Command, Statuses
<1>1. Sound(c, Expire(r))
  <2> DEFINE q == Expire(r)
  <2>1. /\ q.leaseAttempts = r.leaseAttempts /\ q.executionAttempts = r.executionAttempts
        /\ \/ q.state = r.state
           \/ q.state = "expired"
           \/ /\ q.state = "deadletter"
              /\ r.executionAttempts >= DeadletterAfter \/ r.leaseAttempts >= DeadletterAfter
    BY DEF Expire, Command
  <2> HIDE DEF q
  <2> QED
    BY <1>0, <2>1 DEF q
<1>2. /\ Sound(c, Reject(r)) /\ Sound(c, Lapsed(r))
      /\ Sound(c, [r EXCEPT !.lease = "live"])
      /\ Sound(c, [r EXCEPT !.state = "queued", !.approved = TRUE])
  BY <1>0 DEF Reject, Lapsed, Command
<1>3. ASSUME NEW m PROVE Sound(c, Lease(r, m))
  <2> DEFINE q == Lease(r, m)
  <2>1. /\ q.leaseAttempts = r.leaseAttempts + 1 /\ q.executionAttempts = r.executionAttempts
        /\ q.state = "leased"
    BY DEF Lease, Command
  <2> HIDE DEF q
  <2> QED
    BY <1>0, <2>1 DEF q
<1>4. ASSUME NEW m, OwnedBy(r, m) PROVE Sound(c, Acknowledge(r, m))
  <2> DEFINE q == Acknowledge(r, m)
  <2>1. /\ q.leaseAttempts = r.leaseAttempts /\ q.state = "running"
        /\ q.executionAttempts =
               IF r.state = "running" THEN r.executionAttempts ELSE r.executionAttempts + 1
    BY DEF Acknowledge, Command
  <2>2. r.state \in {"leased", "running"}
    BY <1>4 DEF OwnedBy, Held
  <2> HIDE DEF q
  <2> QED
    BY <1>0, <2>1, <2>2 DEF q
<1>5. ASSUME NEW m, NEW status \in outcomes[c] \cap Statuses PROVE Sound(c, Conclude(r, m, status))
  <2> DEFINE q == Conclude(r, m, status)
  <2>1. /\ q.leaseAttempts = r.leaseAttempts /\ q.executionAttempts = r.executionAttempts
        /\ q.state = status
    BY DEF Conclude, Command
  <2> HIDE DEF q
  <2> QED
    BY <1>0, <2>1 DEF q
<1> QED
  BY <1>1, <1>2, <1>3, <1>4, <1>5

LEMMA NewSound ==
    ASSUME NEW c \in Ids, NEW m \in Machines, NEW kind \in Kinds
    PROVE  Sound(c, NewCommand(m, kind))
BY DEF Sound, Agreeing, NewCommand, Statuses

\* Replacing one record by a sound one keeps the table sound.
LEMMA SoundOne ==
    ASSUME NEW t \in [Ids -> Command], SoundTable(t), NEW c \in Ids, NEW r, Sound(c, r)
    PROVE  SoundTable([t EXCEPT ![c] = r])
BY DEF SoundTable

\* A request whose result a run had leaves sound tables, saved or not.
LEMMA HandleSound ==
    ASSUME TypeOK, SoundTable(cmds), SoundTable(disk),
           NEW req \in Request, NEW reply, NEW ok \in BOOLEAN, Handle(req, reply, ok),
           req.kind = "result" => req.status \in outcomes[req.cmd]
    PROVE  SoundTable(cmds') /\ SoundTable(disk')
<1> DEFINE swept == [c \in Ids |-> Expire(cmds[c])]
<1>1. cmds \in [Ids -> Command] /\ disk \in [Ids -> Command]
  BY DEF TypeOK
<1>2. CASE req.kind = "poll" /\ HandlePoll(req.machine, reply, ok)
  <2>1. swept \in [Ids -> Command] /\ SoundTable(swept)
    BY <1>1, RecordTypes, RecordsSound DEF SoundTable
  <2>2. \A c \in Ids : SoundTable([swept EXCEPT ![c] = Lease(swept[c], req.machine)])
    BY <2>1, RecordsSound, SoundOne DEF SoundTable
  <2>3. \A c \in Ids : SoundTable([swept EXCEPT ![c] = Lease(@, req.machine)])
    BY <2>2
  <2> HIDE DEF swept
  <2> QED
    BY <1>2, <2>1, <2>3 DEF HandlePoll, Persist, swept
<1>3. CASE req.kind = "ack" /\ HandleAck(req.machine, req.cmd, reply, ok)
  <2>1. req.cmd \in Ids
    BY <1>3 DEF Request
  <2>2. ASSUME OwnedBy(cmds[req.cmd], req.machine)
        PROVE  SoundTable([cmds EXCEPT ![req.cmd] = Acknowledge(@, req.machine)])
    BY <1>1, <2>1, <2>2, RecordsSound, SoundOne DEF SoundTable
  <2> QED
    BY <1>3, <2>2 DEF HandleAck, Persist
<1>4. CASE req.kind = "result" /\ HandleResult(req.machine, req.cmd, req.status, reply, ok)
  <2>1. req.cmd \in Ids /\ req.status \in outcomes[req.cmd] \cap Statuses
    BY <1>4 DEF Request
  <2>2. ASSUME OwnedBy(cmds[req.cmd], req.machine)
        PROVE  SoundTable([cmds EXCEPT ![req.cmd] = Conclude(@, req.machine, req.status)])
    BY <1>1, <2>1, <2>2, RecordsSound, SoundOne DEF SoundTable
  <2> QED
    BY <1>4, <2>2 DEF HandleResult, Persist
<1> QED
  BY <1>2, <1>3, <1>4 DEF Handle

LEMMA CallSound ==
    ASSUME TypeOK, SoundTable(cmds), SoundTable(disk),
           NEW m \in Machines, NEW req \in Request, NEW after, Call(m, req, after),
           req.kind = "result" => req.status \in outcomes[req.cmd]
    PROVE  SoundTable(cmds') /\ SoundTable(disk')
<1>1. CASE UNCHANGED <<cmds, disk>>
  BY <1>1
<1>2. CASE \E reply \in Replies, ok \in BOOLEAN : Handle(req, reply, ok)
  BY <1>2, HandleSound
<1> QED
  BY <1>1, <1>2 DEF Call

\* The steps of the operator, of time and of the server's own leave sound tables.
LEMMA ServerSound ==
    ASSUME TypeOK, SoundTable(cmds), SoundTable(disk)
    PROVE  /\ \A c \in Ids, m \in Machines, kind \in Kinds :
                  Create(c, m, kind) => SoundTable(cmds') /\ SoundTable(disk')
           /\ \A c \in Ids, m \in Machines, old \in Ids \cup {Null} :
                  ProbeStart(c, m, old) => SoundTable(cmds') /\ SoundTable(disk')
           /\ \A c \in Ids : Approve(c) \/ ProbeEnd(c) \/ RenewLease(c) \/ Lapse(c) =>
                  SoundTable(cmds') /\ SoundTable(disk')
           /\ ServerRestart => SoundTable(cmds') /\ SoundTable(disk')
<1>0. /\ cmds \in [Ids -> Command] /\ disk \in [Ids -> Command]
      /\ \A c \in Ids : Sound(c, cmds[c]) /\ Sound(c, disk[c])
  BY DEF TypeOK, SoundTable
\* Most make one new table and save it, or fail to.
<1>a. ASSUME NEW c \in Ids, NEW r, Sound(c, r),
             cmds' = [cmds EXCEPT ![c] = r], disk' \in {disk, cmds'}
      PROVE  SoundTable(cmds') /\ SoundTable(disk')
  <2>1. SoundTable([cmds EXCEPT ![c] = r])
    BY <1>0, <1>a, SoundOne
  <2>2. SoundTable(cmds')
    BY <1>a, <2>1 DEF SoundTable
  <2>3. CASE disk' = disk
    BY <2>2, <2>3 DEF SoundTable
  <2>4. CASE disk' = cmds'
    BY <1>a, <2>1, <2>4 DEF SoundTable
  <2> QED
    BY <1>a, <2>2, <2>3, <2>4
<1>1. ASSUME NEW c \in Ids, NEW m \in Machines, NEW kind \in Kinds, Create(c, m, kind)
      PROVE  SoundTable(cmds') /\ SoundTable(disk')
  BY <1>1, <1>a, NewSound DEF Create, Commit, Persist
<1>2. ASSUME NEW c \in Ids, NEW m \in Machines, NEW old \in Ids \cup {Null},
             ProbeStart(c, m, old)
      PROVE  SoundTable(cmds') /\ SoundTable(disk')
  <2> DEFINE stale == {p \in Probes(m) : p <= old /\ InProgress(cmds[p].state)}
             Swept(low) == [d \in Ids |-> IF d \in stale /\ d >= low THEN Reject(cmds[d])
                                                                    ELSE cmds[d]]
             new == [Swept(1) EXCEPT ![c] = NewCommand(m, "probe")]
  <2>1. /\ cmds' \in {Swept(1), new} \cup {Swept(p) : p \in stale}
        /\ disk' \in {Swept(1), new, disk} \cup {Swept(p + 1) : p \in stale}
    BY <1>2 DEF ProbeStart, Persist
  <2>2. \A low : Swept(low) \in [Ids -> Command] /\ SoundTable(Swept(low))
    <3>1. \A d \in Ids : Reject(cmds[d]) \in Command /\ Sound(d, Reject(cmds[d]))
      BY <1>0, RecordTypes, RecordsSound
    <3> HIDE DEF stale
    <3> QED
      BY <1>0, <3>1 DEF SoundTable
  <2> HIDE DEF stale, Swept
  <2>3. Sound(c, NewCommand(m, "probe"))
    BY NewSound DEF Kinds
  <2>4. SoundTable(new)
    BY <2>2, <2>3, SoundOne
  <2> QED
    BY <2>1, <2>2, <2>4
<1>3. ASSUME NEW c \in Ids, Approve(c) PROVE SoundTable(cmds') /\ SoundTable(disk')
  <2>1. Sound(c, [cmds[c] EXCEPT !.state = "queued", !.approved = TRUE])
    BY <1>0, RecordsSound
  <2> QED
    BY <1>3, <1>a, <2>1 DEF Approve, Commit, Persist
<1>4. ASSUME NEW c \in Ids, ProbeEnd(c) PROVE SoundTable(cmds') /\ SoundTable(disk')
  <2>1. Sound(c, Reject(cmds[c]))
    BY <1>0, RecordsSound
  <2>2. CASE UNCHANGED <<cmds, disk>>
    BY <2>2
  <2> QED
    BY <1>4, <1>a, <2>1, <2>2 DEF ProbeEnd, Commit, Persist
<1>5. ASSUME NEW c \in Ids, RenewLease(c) PROVE SoundTable(cmds') /\ SoundTable(disk')
  <2>1. Sound(c, [cmds[c] EXCEPT !.lease = "live"])
    BY <1>0, RecordsSound
  <2> QED
    BY <1>5, <1>a, <2>1 DEF RenewLease, Persist
<1>6. ASSUME NEW c \in Ids, Lapse(c) PROVE SoundTable(cmds') /\ SoundTable(disk')
  <2>1. Sound(c, Lapsed(cmds[c])) /\ Sound(c, Lapsed(disk[c]))
    BY <1>0, RecordsSound
  <2> QED
    BY <1>0, <1>6, <2>1, SoundOne DEF Lapse
<1>7. ASSUME ServerRestart PROVE SoundTable(cmds') /\ SoundTable(disk')
  BY <1>7 DEF ServerRestart
<1> QED
  BY <1>1, <1>2, <1>3, <1>4, <1>5, <1>6, <1>7

\* Whatever a bridge knows or has said of a result, a run had it.
Told(m) ==
    /\ bridge[m].pc \in {"executed", "pushing"} => bridge[m].status \in outcomes[bridge[m].cmd]
    /\ \A i \in DOMAIN receipts[m] : receipts[m][i].status \in outcomes[receipts[m][i].cmd]
    /\ \A i \in DOMAIN saved[m] : saved[m][i].status \in outcomes[saved[m][i].cmd]

Honest ==
    /\ \A m \in Machines : Told(m)
    /\ \A req \in late : req.kind = "result" => req.status \in outcomes[req.cmd]
    /\ \A c \in Ids : outcomes[c] # {} => runs[c] > 0

SoundInv == SoundTable(cmds) /\ SoundTable(disk) /\ Honest

\* The receipts that are written are some of those in memory.
LEMMA LastOfElements ==
    ASSUME NEW s \in Seq(Receipt), NEW n \in Nat
    PROVE  \A i \in DOMAIN LastOf(s, n) : \E j \in DOMAIN s : LastOf(s, n)[i] = s[j]
<1>0. Len(s) \in Nat /\ DOMAIN s = 1 .. Len(s)
  OBVIOUS
<1>1. CASE Len(s) <= n
  BY <1>1 DEF LastOf
<1>2. CASE ~(Len(s) <= n)
  <2> DEFINE a == Len(s) - n + 1
  <2>1. a \in 1 .. Len(s) + 1 /\ \A i \in a .. Len(s) : i \in 1 .. Len(s)
    BY <1>0, <1>2
  <2>2. LastOf(s, n) = SubSeq(s, a, Len(s))
    BY <1>2 DEF LastOf
  <2>3. /\ Len(SubSeq(s, a, Len(s))) = Len(s) - a + 1
        /\ DOMAIN SubSeq(s, a, Len(s)) = 1 .. (Len(s) - a + 1)
        /\ \A i \in 1 .. (Len(s) - a + 1) : SubSeq(s, a, Len(s))[i] = s[a + i - 1]
    <3> HIDE DEF a
    <3>1. SubSeq(s, a, Len(s)) \in Seq(Receipt)
      BY <1>0, <2>1, SubSeqProperties
    <3>2. Len(SubSeq(s, a, Len(s))) = IF a <= Len(s) THEN Len(s) - a + 1 ELSE 0
      BY <1>0, <2>1, SubSeqProperties
    <3>3. Len(SubSeq(s, a, Len(s))) = Len(s) - a + 1
      BY <1>0, <2>1, <3>2
    <3>4. \A i \in 1 .. (Len(s) - a + 1) : SubSeq(s, a, Len(s))[i] = s[a + i - 1]
      BY <1>0, <2>1, SubSeqProperties
    <3> QED
      BY <3>1, <3>3, <3>4
  <2>4. \A i \in 1 .. (Len(s) - a + 1) : a + i - 1 \in 1 .. Len(s)
    BY <1>0, <2>1
  <2> HIDE DEF a
  <2> QED
    BY <1>0, <2>2, <2>3, <2>4
<1> QED
  BY <1>1, <1>2

\* What is sound stays sound when runs have more outcomes.
LEMMA SoundGrows ==
    ASSUME NEW t, SoundTable(t), \A c \in Ids : outcomes[c] \subseteq outcomes'[c]
    PROVE  \A c \in Ids : Agreeing(t[c]) /\ (t[c].state \in Statuses => t[c].state \in outcomes'[c])
BY DEF SoundTable, Sound

\* A call leaves sound tables and honest requests.
LEMMA CallHonest ==
    ASSUME TypeOK, SoundInv, NEW m \in Machines, NEW req \in Request, NEW after,
           Call(m, req, after), RecordsUnchanged,
           req.kind = "result" => req.status \in outcomes[req.cmd],
           bridge'[m].pc \notin {"executed", "pushing"}
    PROVE  SoundInv'
<1>1. SoundTable(cmds') /\ SoundTable(disk')
  BY CallSound DEF SoundInv
<1>2. outcomes' = outcomes /\ receipts' = receipts /\ saved' = saved /\ runs' = runs
  BY DEF RecordsUnchanged
<1>3. late' \subseteq late \cup {req} /\ \A n \in Machines : n # m => bridge'[n] = bridge[n]
  BY DEF Call, TypeOK
<1>4. \A n \in Machines : Told(n)'
  <2> SUFFICES ASSUME NEW n \in Machines PROVE Told(n)'
    OBVIOUS
  <2>1. Told(n)
    BY DEF SoundInv, Honest
  <2> QED
    BY <1>2, <1>3, <2>1 DEF Told
<1>5. \A q \in late' : q.kind = "result" => q.status \in outcomes'[q.cmd]
  BY <1>2, <1>3 DEF SoundInv, Honest
<1>6. \A c \in Ids : outcomes'[c] # {} => runs'[c] > 0
  BY <1>2 DEF SoundInv, Honest
<1> QED
  BY <1>1, <1>2, <1>4, <1>5, <1>6 DEF SoundInv, Honest, SoundTable, Sound

\* The steps of a bridge.
LEMMA BridgeSound ==
    ASSUME TypeOK, SoundInv, NEW m \in Machines, BridgeStep(m) \/ BridgeRestart(m)
    PROVE  SoundInv'
<1> DEFINE b == bridge[m]
<1>0. /\ b \in Bridge /\ bridge \in [Machines -> Bridge] /\ Told(m)
      /\ receipts \in [Machines -> Seq(Receipt)] /\ saved \in [Machines -> Seq(Receipt)]
      /\ \A n \in Machines : Told(n)
  BY DEF TypeOK, SoundInv, Honest
<1>1. CASE Poll(m)
  <2> DEFINE req == [kind |-> "poll", machine |-> m, cmd |-> Null, status |-> None]
             after == [c \in Replies |-> IF c = Null THEN Idle
                           ELSE [pc |-> "leased", cmd |-> c, status |-> None]]
  <2>1. req \in Request /\ req.kind # "result"
    BY DEF Request
  <2>2. Call(m, req, after) /\ RecordsUnchanged
    BY <1>1 DEF Poll
  <2>3. \A reply \in Replies : after[reply].pc \in {"idle", "leased"}
    BY DEF Idle
  <2> HIDE DEF req, after
  <2>4. bridge'[m].pc \in {"idle", "leased"}
    <3>1. bridge'[m] = Idle \/ \E reply \in Replies : bridge'[m] = after[reply]
      BY <1>0, <2>2 DEF Call
    <3> QED
      BY <2>3, <3>1 DEF Idle
  <2> QED
    BY <2>1, <2>2, <2>4, CallHonest
<1>2. CASE PushReceipt(m)
  <2>1. PICK i \in DOMAIN receipts[m] :
            /\ receipts[m][i].cmd = b.cmd
            /\ Call(m, [kind |-> "result", machine |-> m, cmd |-> b.cmd,
                        status |-> receipts[m][i].status], EndOfTick)
    BY <1>2 DEF PushReceipt
  <2> DEFINE req == [kind |-> "result", machine |-> m, cmd |-> b.cmd,
                     status |-> receipts[m][i].status]
  <2>2. receipts[m][i] \in Receipt /\ receipts[m][i].status \in outcomes[b.cmd]
    BY <1>0, <2>1 DEF Told
  <2>3. b.cmd \in Ids
    BY <2>1, <2>2 DEF Receipt
  <2>4. req \in Request /\ req.status \in outcomes[req.cmd]
    BY <2>2, <2>3 DEF Request, Receipt
  <2>5. Call(m, req, EndOfTick) /\ RecordsUnchanged
    BY <1>2, <2>1 DEF PushReceipt
  <2> HIDE DEF req
  <2>6. bridge'[m].pc = "idle"
    <3>1. bridge'[m] = Idle
      BY <1>0, <2>5 DEF Call, EndOfTick
    <3> QED
      BY <3>1 DEF Idle
  <2> QED
    BY <2>4, <2>5, <2>6, CallHonest
<1>3. CASE Ack(m)
  <2> DEFINE req == [kind |-> "ack", machine |-> m, cmd |-> b.cmd, status |-> None]
             after == [reply \in Replies |-> IF reply = Null THEN Idle
                                             ELSE [b EXCEPT !.pc = "acked"]]
  <2>1. b.pc = "leased" /\ b.cmd \in Ids
    BY <1>0, <1>3 DEF Ack, Bridge, Idle
  <2>2. req \in Request /\ req.kind # "result"
    BY <2>1 DEF Request
  <2>3. Call(m, req, after) /\ RecordsUnchanged
    BY <1>3 DEF Ack
  <2>4. \A reply \in Replies : after[reply].pc \in {"idle", "acked"}
    BY <1>0 DEF Idle, Bridge
  <2> HIDE DEF req, after
  <2>5. bridge'[m].pc \in {"idle", "acked"}
    <3>1. bridge'[m] = Idle \/ \E reply \in Replies : bridge'[m] = after[reply]
      BY <1>0, <2>3 DEF Call
    <3> QED
      BY <2>4, <3>1 DEF Idle
  <2> QED
    BY <2>2, <2>3, <2>5, CallHonest
<1>4. ASSUME NEW status \in Statuses, Execute(m, status) PROVE SoundInv'
  <2>1. b.pc = "acked" /\ b.cmd \in Ids
    BY <1>0, <1>4 DEF Execute, Bridge, Idle
  <2>2. /\ bridge'[m].pc = "executed" /\ bridge'[m].cmd = b.cmd /\ bridge'[m].status = status
        /\ \A n \in Machines : n # m => bridge'[n] = bridge[n]
        /\ cmds' = cmds /\ disk' = disk /\ receipts' = receipts /\ saved' = saved
        /\ late' = late
        /\ outcomes' = [outcomes EXCEPT ![b.cmd] = @ \cup {status}]
        /\ runs' = [runs EXCEPT ![b.cmd] = @ + 1]
    BY <1>0, <1>4, <2>1 DEF Execute, serverVars, Bridge, Idle
  <2>3. /\ outcomes \in [Ids -> SUBSET Statuses] /\ runs \in [Ids -> Nat]
        /\ late \subseteq Request
    BY DEF TypeOK
  <2>4. /\ \A c \in Ids : outcomes[c] \subseteq outcomes'[c]
        /\ status \in outcomes'[b.cmd]
    BY <2>1, <2>2, <2>3
  <2>5. \A c \in Ids : outcomes'[c] # {} => runs'[c] > 0
    <3> SUFFICES ASSUME NEW c \in Ids, outcomes'[c] # {} PROVE runs'[c] > 0
      OBVIOUS
    <3>1. CASE c = b.cmd
      BY <2>2, <2>3, <3>1
    <3>2. CASE c # b.cmd
      <4>1. outcomes'[c] = outcomes[c] /\ runs'[c] = runs[c]
        BY <2>1, <2>2, <2>3, <3>2
      <4> QED
        BY <4>1 DEF SoundInv, Honest
    <3> QED
      BY <3>1, <3>2
  <2>6. \A n \in Machines : Told(n)'
    <3> SUFFICES ASSUME NEW n \in Machines PROVE Told(n)'
      OBVIOUS
    <3>1. \A i \in DOMAIN receipts[n] : receipts[n][i].cmd \in Ids
      <4>1. receipts[n] \in Seq(Receipt)
        BY <1>0
      <4>2. \A i \in DOMAIN receipts[n] : receipts[n][i] \in Receipt
        BY <4>1
      <4> QED
        BY <4>2 DEF Receipt
    <3>2. \A i \in DOMAIN saved[n] : saved[n][i].cmd \in Ids
      <4>1. saved[n] \in Seq(Receipt)
        BY <1>0
      <4>2. \A i \in DOMAIN saved[n] : saved[n][i] \in Receipt
        BY <4>1
      <4> QED
        BY <4>2 DEF Receipt
    <3>3. bridge[n].pc \in {"executed", "pushing"} => bridge[n].cmd \in Ids
      BY <1>0 DEF Bridge, Idle
    <3> QED
      BY <1>0, <2>2, <2>4, <3>1, <3>2, <3>3 DEF Told
  <2>7. \A req \in late' : req.kind = "result" => req.status \in outcomes'[req.cmd]
    <3>1. \A req \in late : req.kind = "result" => req.cmd \in Ids
      BY <2>3 DEF Request
    <3> QED
      BY <2>2, <2>4, <3>1 DEF SoundInv, Honest
  <2>8. SoundTable(cmds)' /\ SoundTable(disk)'
    BY <2>2, <2>4, SoundGrows DEF SoundInv, SoundTable, Sound
  <2> QED
    BY <2>5, <2>6, <2>7, <2>8 DEF SoundInv, Honest
<1>5. CASE Remember(m)
  <2> DEFINE r == [cmd |-> b.cmd, status |-> b.status]
  <2>1. b.pc = "executed" /\ b.cmd \in Ids /\ b.status \in Statuses
    BY <1>0, <1>5 DEF Remember, Bridge, Idle
  <2>2. r \in Receipt /\ r.status \in outcomes[r.cmd] /\ receipts[m] \in Seq(Receipt)
    BY <1>0, <2>1 DEF Receipt, Told
  <2> DEFINE new == Append(receipts[m], r)
  <2>3. /\ receipts' = [receipts EXCEPT ![m] = new]
        /\ \/ saved' = [saved EXCEPT ![m] = LastOf(new, ReceiptCap)]
           \/ saved' = saved
        /\ bridge' \in {[bridge EXCEPT ![m].pc = "pushing"], [bridge EXCEPT ![m] = Idle]}
        /\ UNCHANGED <<cmds, disk, late, outcomes, runs>>
    BY <1>5 DEF Remember, serverVars
  <2> HIDE DEF r
  <2>4. new \in Seq(Receipt) /\ \A i \in DOMAIN new : new[i].status \in outcomes[new[i].cmd]
    <3>1. /\ Len(receipts[m]) \in Nat /\ DOMAIN receipts[m] = 1 .. Len(receipts[m])
          /\ new \in Seq(Receipt) /\ DOMAIN new = 1 .. Len(receipts[m]) + 1
          /\ new[Len(receipts[m]) + 1] = r
          /\ \A i \in 1 .. Len(receipts[m]) : new[i] = receipts[m][i]
      BY <2>2, AppendProperties
    <3> HIDE DEF new
    <3>2. \A i \in 1 .. Len(receipts[m]) + 1 : i \in 1 .. Len(receipts[m]) \/ i = Len(receipts[m]) + 1
      BY <3>1
    <3> QED
      BY <1>0, <2>2, <3>1, <3>2 DEF Told
  <2> HIDE DEF new
  <2>5. \A i \in DOMAIN LastOf(new, ReceiptCap) :
            LastOf(new, ReceiptCap)[i].status \in outcomes[LastOf(new, ReceiptCap)[i].cmd]
    BY <2>4, LastOfElements, ConstantsAssumption
  <2>6. /\ receipts'[m] = new /\ saved'[m] \in {LastOf(new, ReceiptCap), saved[m]}
        /\ \A n \in Machines : n # m =>
               receipts'[n] = receipts[n] /\ saved'[n] = saved[n] /\ bridge'[n] = bridge[n]
        /\ bridge'[m].pc = "idle"
              \/ (bridge'[m].pc = "pushing" /\ bridge'[m].cmd = b.cmd /\ bridge'[m].status = b.status)
    BY <1>0, <2>1, <2>3 DEF Bridge, Idle
  <2>7. \A n \in Machines : Told(n)'
    <3>1. Told(m)'
      BY <1>0, <2>1, <2>3, <2>4, <2>5, <2>6 DEF Told
    <3>2. \A n \in Machines : n # m => Told(n)'
      BY <1>0, <2>3, <2>6 DEF Told
    <3> QED
      BY <3>1, <3>2
  <2> QED
    BY <2>3, <2>7 DEF SoundInv, Honest, SoundTable, Sound
<1>6. CASE Push(m)
  <2>1. b.pc = "pushing" /\ b.cmd \in Ids /\ b.status \in Statuses
    BY <1>0, <1>6 DEF Push, Bridge, Idle
  <2> DEFINE req == [kind |-> "result", machine |-> m, cmd |-> b.cmd, status |-> b.status]
  <2>2. req \in Request /\ req.status \in outcomes[req.cmd]
    BY <1>0, <2>1 DEF Request, Told
  <2>3. Call(m, req, EndOfTick) /\ RecordsUnchanged
    BY <1>6 DEF Push
  <2> HIDE DEF req
  <2>4. bridge'[m].pc = "idle"
    <3>1. bridge'[m] = Idle
      BY <1>0, <2>3 DEF Call, EndOfTick
    <3> QED
      BY <3>1 DEF Idle
  <2> QED
    BY <2>2, <2>3, <2>4, CallHonest
<1>7. CASE BridgeRestart(m)
  <2>1. /\ bridge'[m] = Idle /\ receipts'[m] = saved[m]
        /\ \A n \in Machines : n # m => receipts'[n] = receipts[n] /\ bridge'[n] = bridge[n]
        /\ UNCHANGED <<cmds, disk, late, saved, outcomes, runs>>
    BY <1>0, <1>7 DEF BridgeRestart, serverVars
  <2>2. \A n \in Machines : Told(n)'
    <3>1. Told(m)'
      BY <1>0, <2>1 DEF Told, Idle
    <3>2. \A n \in Machines : n # m => Told(n)'
      BY <1>0, <2>1 DEF Told
    <3> QED
      BY <3>1, <3>2
  <2> QED
    BY <2>1, <2>2 DEF SoundInv, Honest, SoundTable, Sound
<1> QED
  BY <1>1, <1>2, <1>3, <1>4, <1>5, <1>6, <1>7 DEF BridgeStep

LEMMA SoundInvariant == Spec => []SoundInv
<1>1. Init => SoundInv
  BY DEF Init, SoundInv, SoundTable, Sound, Agreeing, Absent, Honest, Told, Idle, Statuses
<1>2. TypeOK /\ SoundInv /\ [Next]_vars => SoundInv'
  <2> SUFFICES ASSUME TypeOK, SoundInv, [Next]_vars PROVE SoundInv'
    OBVIOUS
  <2>1. ASSUME SoundTable(cmds'), SoundTable(disk'), late' \subseteq late, UNCHANGED bridgeVars
        PROVE  SoundInv'
    <3>1. \A m \in Machines : Told(m)'
      BY <2>1 DEF SoundInv, Honest, Told, bridgeVars
    <3> QED
      BY <2>1, <3>1 DEF SoundInv, Honest, SoundTable, Sound, bridgeVars
  <2>2. SoundTable(cmds) /\ SoundTable(disk)
    BY DEF SoundInv
  <2>3. ASSUME NEW c \in Ids, NEW m \in Machines, NEW kind \in Kinds, Create(c, m, kind)
        PROVE  SoundInv'
    BY <2>1, <2>2, <2>3, ServerSound DEF Create
  <2>4. ASSUME NEW c \in Ids, NEW m \in Machines, NEW old \in Ids \cup {Null},
               ProbeStart(c, m, old)
        PROVE  SoundInv'
    <3>1. UNCHANGED <<bridgeVars, late>>
      BY <2>4 DEF ProbeStart
    <3> QED
      BY <2>1, <2>2, <2>4, <3>1, ServerSound
  <2>5. ASSUME NEW c \in Ids, Approve(c) \/ ProbeEnd(c) \/ RenewLease(c) \/ Lapse(c)
        PROVE  SoundInv'
    <3>1. UNCHANGED <<bridgeVars, late>>
      BY <2>5 DEF Approve, ProbeEnd, RenewLease, Lapse
    <3> QED
      BY <2>1, <2>2, <2>5, <3>1, ServerSound
  <2>6. ASSUME NEW m \in Machines, NEW v \in Versions, ConfigChange(m, v) PROVE SoundInv'
    BY <2>1, <2>2, <2>6 DEF ConfigChange, SoundTable
  <2>7. ASSUME ServerRestart PROVE SoundInv'
    BY <2>1, <2>2, <2>7, ServerSound DEF ServerRestart
  <2>8. ASSUME NEW m \in Machines, BridgeStep(m) \/ BridgeRestart(m) PROVE SoundInv'
    BY <2>8, BridgeSound
  <2>9. ASSUME NEW req \in late, LateArrival(req) PROVE SoundInv'
    <3>1. req \in Request /\ (req.kind = "result" => req.status \in outcomes[req.cmd])
      BY DEF TypeOK, SoundInv, Honest
    <3>2. SoundTable(cmds') /\ SoundTable(disk')
      BY <2>2, <2>9, <3>1, HandleSound DEF LateArrival
    <3> QED
      BY <2>1, <2>9, <3>2 DEF LateArrival
  <2>10. CASE UNCHANGED vars
    BY <2>1, <2>2, <2>10 DEF vars, serverVars, SoundTable
  <2> QED
    BY <2>3, <2>4, <2>5, <2>6, <2>7, <2>8, <2>9, <2>10 DEF Next
<1> QED
  BY <1>1, <1>2, TypeCorrect, PTL DEF Spec

\* However leases lapse, are renewed or acknowledged late, a command's counters
\* agree, and it is given up only when its attempts are used up.
THEOREM CountersAgree == Spec => []AttemptsAgree
<1>1. SoundInv => AttemptsAgree
  BY DEF SoundInv, SoundTable, Sound, Agreeing, AttemptsAgree
<1> QED
  BY <1>1, SoundInvariant, PTL

-----------------------------------------------------------------------------
(* The refinement                                                            *)

Granted == {c \in KnownOnDisk : ApprovalRequired(disk[c]) => disk[c].approved}
Verdict == [c \in Ids |-> IF IsTerminalState(disk[c].state) THEN disk[c].state ELSE "open"]

\* A step that runs nothing settles commands, or is not seen.
LEMMA SettleStep ==
    ASSUME TypeOK, RunInv, SoundInv, SoundInv', TypeOK', [Next]_vars, UNCHANGED outcomes
    PROVE  Contract!Settle
<1>1. /\ disk \in [Ids -> Command] /\ disk' \in [Ids -> Command]
      /\ \A c \in Ids : Evolves(disk[c], disk'[c])
  <2>1. Ahead(disk, cmds)
    BY DEF RunInv, Ahead
  <2> QED
    BY <2>1, NextEvolves DEF Ahead, TypeOK
<1>2. KnownOnDisk \subseteq KnownOnDisk' /\ KnownOnDisk' \subseteq Ids
  BY <1>1 DEF KnownOnDisk, Evolves
<1>3. Granted \subseteq Granted' /\ Granted' \subseteq KnownOnDisk'
  BY <1>1, <1>2 DEF Granted, KnownOnDisk, Evolves, ApprovalRequired
<1>4. Verdict' \in [Ids -> {"open"} \cup Statuses \cup {"rejected", "deadletter"}]
  BY DEF Verdict, IsTerminalState, Terminal
<1>5. ASSUME NEW c \in Ids, Verdict'[c] # Verdict[c]
      PROVE  /\ Verdict[c] = "open" /\ c \in KnownOnDisk'
             /\ \/ Verdict'[c] \in {"rejected", "deadletter"}
                \/ Verdict'[c] \in outcomes[c] /\ c \in Granted
  <2>1. /\ Verdict[c] = IF IsTerminalState(disk[c].state) THEN disk[c].state ELSE "open"
        /\ Verdict'[c] = IF IsTerminalState(disk'[c].state) THEN disk'[c].state ELSE "open"
    BY DEF Verdict
  <2>2. ~ IsTerminalState(disk[c].state)
    BY <1>1, <1>5, <2>1 DEF Evolves, IsTerminalState, Terminal, Statuses
  <2>3. IsTerminalState(disk'[c].state) /\ Verdict'[c] = disk'[c].state /\ Verdict[c] = "open"
    BY <1>5, <2>1, <2>2
  <2>4. c \in KnownOnDisk'
    BY <2>3 DEF KnownOnDisk, IsTerminalState, Terminal, Statuses
  <2>5. ASSUME disk'[c].state \in Statuses
        PROVE  disk'[c].state \in outcomes[c] /\ c \in Granted
    <3>1. disk'[c].state \in outcomes[c]
      BY <2>5 DEF SoundInv, SoundTable, Sound
    <3>2. runs[c] > 0
      BY <3>1 DEF SoundInv, Honest
    <3>3. MayRun(disk[c])
      BY <3>2 DEF RunInv
    <3> QED
      BY <3>1, <3>3 DEF Granted, KnownOnDisk, MayRun
  <2> QED
    BY <2>3, <2>4, <2>5 DEF IsTerminalState, Terminal
<1> QED
  BY <1>2, <1>3, <1>4, <1>5 DEF Contract!Settle, Contract!GivenUp, Granted, Verdict

\* A run of the CLI is the contract's act.
LEMMA ActStep ==
    ASSUME TypeOK, RunInv, NEW m \in Machines, NEW status \in Statuses, Execute(m, status)
    PROVE  Contract!Act
<1> DEFINE b == bridge[m]
<1>1. b \in Bridge /\ b.pc = "acked" /\ b.cmd \in Ids
  BY DEF TypeOK, Execute, Bridge, Idle
<1>2. MayRun(disk[b.cmd])
  BY <1>1 DEF RunInv, InHand
<1>3. b.cmd \in Granted
  BY <1>1, <1>2 DEF Granted, KnownOnDisk, MayRun
<1>4. outcomes' = [outcomes EXCEPT ![b.cmd] = @ \cup {status}] /\ disk' = disk
  BY DEF Execute, serverVars
<1>5. KnownOnDisk' = KnownOnDisk /\ Granted' = Granted /\ Verdict' = Verdict
  BY <1>4 DEF KnownOnDisk, Granted, Verdict
<1> QED
  BY <1>3, <1>4, <1>5 DEF Contract!Act, Granted, Verdict

\* The store, its bridges and the calls between them keep the contract of
\* CommandContract, through every fault of network, disk and processes.
THEOREM StoreImplementsContract == Spec => ImplementsContract
<1>1. Init => Contract!Init
  <2> SUFFICES ASSUME Init PROVE Contract!Init
    OBVIOUS
  <2>1. \A c \in Ids : disk[c].state = "absent"
    BY DEF Init, Absent
  <2>2. KnownOnDisk = {} /\ outcomes = [c \in Ids |-> {}]
    BY <2>1 DEF KnownOnDisk, Init
  <2>3. \A c \in Ids : ~ IsTerminalState(disk[c].state)
    BY <2>1 DEF IsTerminalState, Terminal, Statuses
  <2> QED
    BY <2>2, <2>3 DEF Contract!Init
<1>2. TypeOK /\ TypeOK' /\ RunInv /\ SoundInv /\ SoundInv' /\ [Next]_vars
          => [Contract!Next]_(Contract!vars)
  <2> SUFFICES ASSUME TypeOK, TypeOK', RunInv, SoundInv, SoundInv', [Next]_vars
               PROVE  Contract!Next
    OBVIOUS
  <2>1. CASE UNCHANGED outcomes
    BY <2>1, SettleStep DEF Contract!Next
  <2>2. ASSUME NEW m \in Machines, NEW status \in Statuses, Execute(m, status)
        PROVE  Contract!Next
    BY <2>2, ActStep DEF Contract!Next
  <2> QED
    BY <2>1, <2>2, ZenonT(60) DEF Next, BridgeStep, Create, ProbeStart, Approve, ProbeEnd,
       RenewLease, Lapse, ConfigChange, ServerRestart, LateArrival, BridgeRestart, Poll,
       PushReceipt, Ack, Remember, Push, RecordsUnchanged, vars, bridgeVars
<1> QED
  BY <1>1, <1>2, TypeCorrect, RunInvHolds, SoundInvariant, PTL
  DEF Spec, ImplementsContract, Contract!Spec
=============================================================================
