------------------------------ MODULE CronSync ------------------------------
(***************************************************************************)
(* The mirror of a machine's OpenClaw files: the CronPusher of its bridge  *)
(* and the cron-sync route of the server.                                  *)
(*                                                                         *)
(* A push reads everything, sends what changed since the last one that was *)
(* answered and waits; the timer starts the next without looking.  A hash  *)
(* stands for the content it was made of, an offset for the records before *)
(* it; a line is a record once it is complete.                             *)
(***************************************************************************)
EXTENDS Naturals, FiniteSets, FiniteSetsExt

CONSTANTS
    JobLists,       \* what jobs.json may contain
    Configs,        \* what openclaw.json may contain
    Unparsable,     \* contents of jobs.json that readJobs makes nothing of
    Missing,        \* no such file; of jobs.json also: no jobs
    Nothing,        \* no hash yet; not part of a payload
    Jobs,           \* jobs; each has a file of run records
    Pushes,         \* requests that may be under way at once
    BodyLimit,      \* run records that CRON_SYNC_BODY_LIMIT_BYTES has room for
    MaxRecords,     \* BOUND: run records of a job
    MaxChanges,     \* BOUND: changes of files and of the target
    MaxFaults,      \* BOUND: requests that fail, writes that fail
    MaxCrashes      \* BOUND: ends of the bridge

ASSUME CronSyncAssumption ==
    /\ Unparsable \subseteq JobLists
    /\ Missing \notin JobLists \cup Configs
    /\ Nothing \notin JobLists \cup Configs \cup {Missing}
    /\ {"jobs", "config"} \cap Jobs = {} /\ IsFiniteSet(Jobs)
    /\ BodyLimit \in Nat /\ MaxRecords \in Nat
    /\ MaxChanges \in Nat /\ MaxFaults \in Nat /\ MaxCrashes \in Nat

Files == {"jobs", "config"}

VARIABLES
    file, runs,     \* on the machine: the two files, the records of each job
    bridge,         \* "down", in its first push, or "running"
    hash, offset,   \* CronPusher: of what was answered last
    saved,          \* the same in its state file
    push,           \* the requests
    mirror, copies, \* on the server: the two files, how often it has each record
    target,         \* whether the server has a target for the machine
    changes, faults, crashes,
    truncated,      \* history: jobs whose file was cut
    doubt           \* history: what was sent without an answer, twice at once or half

vars == <<file, runs, bridge, hash, offset, saved, push, mirror, copies, target,
          changes, faults, crashes, truncated, doubt>>
sourceVars == <<file, runs, truncated>>
bridgeVars == <<bridge, hash, offset, saved>>
serverVars == <<mirror, copies, target>>
boundVars == <<changes, faults, crashes>>

Content == JobLists \cup Configs \cup {Missing}
ContentsOf(x) == (IF x = "jobs" THEN JobLists ELSE Configs) \cup {Missing}
Awaited == {"sent", "handled"}

\* "handled": the server has answered, the bridge has not read it; "late": the
\* bridge no longer waits, the request may still arrive.
Request == [at : {"none", "late"} \cup Awaited,
            sent : [Files -> Content \cup {Nothing}],   \* jobs as readJobs returns them
            hash : [Files -> Content \cup {Nothing}],
            from : [Jobs -> 0 .. MaxRecords],           \* the records after from, up to next
            next : [Jobs -> 0 .. MaxRecords]]

State == [hash : [Files -> Content \cup {Nothing}], offset : [Jobs -> 0 .. MaxRecords]]

TypeOK ==
    /\ file \in [Files -> Content] /\ runs \in [Jobs -> 0 .. MaxRecords]
    /\ \A x \in Files : file[x] \in ContentsOf(x) /\ mirror[x] \in ContentsOf(x)
    /\ bridge \in {"down", "first", "running"}
    /\ [hash |-> hash, offset |-> offset] \in State /\ saved \in State
    /\ push \in [Pushes -> Request]
    /\ bridge = "down" => hash = saved.hash /\ offset = saved.offset
    /\ bridge = "down" => \A p \in Pushes : push[p].at \notin Awaited
    /\ mirror \in [Files -> Content]
    /\ copies \in [Jobs -> [1 .. MaxRecords -> Nat]]
    /\ target \in BOOLEAN
    /\ changes \in 0 .. MaxChanges /\ faults \in 0 .. MaxFaults
    /\ crashes \in 0 .. MaxCrashes
    /\ truncated \subseteq Jobs /\ doubt \subseteq Files \cup Jobs

NoRequest == [at |-> "none", sent |-> [x \in Files |-> Nothing],
              hash |-> [x \in Files |-> Nothing],
              from |-> [f \in Jobs |-> 0], next |-> [f \in Jobs |-> 0]]

Init ==
    /\ file \in {g \in [Files -> Content] : \A x \in Files : g[x] \in ContentsOf(x)}
    /\ runs = [f \in Jobs |-> 0]
    /\ bridge = "down"
    /\ hash = [x \in Files |-> Nothing] /\ offset = [f \in Jobs |-> 0]
    /\ saved = [hash |-> hash, offset |-> offset]
    /\ push = [p \in Pushes |-> NoRequest]
    /\ mirror = [x \in Files |-> Missing]
    /\ copies = [f \in Jobs |-> [n \in 1 .. MaxRecords |-> 0]]
    /\ target = FALSE
    /\ changes = 0 /\ faults = 0 /\ crashes = 0
    /\ truncated = {} /\ doubt = {}

Change == changes < MaxChanges /\ changes' = changes + 1
Fault == faults < MaxFaults /\ faults' = faults + 1

\* readJobs
Parsed(v) == IF v \in Unparsable THEN Missing ELSE v
Read(x, v) == IF x = "jobs" THEN Parsed(v) ELSE v

\* What a request brings.
Brings(q) == {x \in Files : q.sent[x] # Nothing} \cup {f \in Jobs : q.from[f] < q.next[f]}
Records(q) == MapThenSumSet(LAMBDA f : q.next[f] - q.from[f], Jobs)
InFlight == {p \in Pushes : push[p].at # "none"}

-----------------------------------------------------------------------------
(* The machine.                                                            *)

WriteFile(x, v) ==
    /\ Change
    /\ v # file[x]
    /\ file' = [file EXCEPT ![x] = v]
    /\ UNCHANGED <<runs, truncated, bridgeVars, push, serverVars, faults, crashes, doubt>>

Record(f) ==
    /\ runs[f] < MaxRecords
    /\ runs' = [runs EXCEPT ![f] = @ + 1]
    /\ UNCHANGED <<file, truncated, bridgeVars, push, serverVars, boundVars, doubt>>

Truncate(f) ==
    /\ Change
    /\ runs[f] > 0
    /\ \E n \in 0 .. runs[f] - 1 : runs' = [runs EXCEPT ![f] = n]
    /\ truncated' = truncated \cup {f}
    /\ UNCHANGED <<file, bridgeVars, push, serverVars, faults, crashes, doubt>>

-----------------------------------------------------------------------------
(* CronPusher.                                                             *)

\* start(), up to its first push, or without one (skipInitialSync).
Start ==
    /\ bridge = "down"
    /\ bridge' \in {"first", "running"}
    /\ UNCHANGED <<sourceVars, hash, offset, saved, push, serverVars, boundVars, doubt>>

\* The first push has ended: start() sets the interval.
Arm ==
    /\ bridge = "first"
    /\ \A p \in Pushes : push[p].at \notin Awaited
    /\ bridge' = "running"
    /\ UNCHANGED <<sourceVars, hash, offset, saved, push, serverVars, boundVars, doubt>>

\* readDelta: from the start if the file is now shorter than the offset.
SafeOffset(f) == IF offset[f] > runs[f] THEN 0 ELSE offset[f]

\* The body of a push; `later' is jobs.json when readJobs reads it again.
Delta(later) ==
    [at |-> "sent",
     hash |-> file,
     sent |-> [x \in Files |-> IF hash[x] = file[x] THEN Nothing
                               ELSE IF x = "jobs" THEN Parsed(later) ELSE file[x]],
     from |-> [f \in Jobs |-> SafeOffset(f)],
     next |-> runs]

\* Two requests say the same of a file, as far as they or their answers count.
Agree(q, r, x) ==
    /\ q.at \in Awaited /\ r.at \in Awaited => q.hash[x] = r.hash[x]
    /\ x \in Brings(q) \cap Brings(r) => q.sent[x] = r.sent[x]

\* Two requests say the same of a job's records.
AgreeOnRuns(q, r, f) ==
    /\ f \notin Brings(q) \cap Brings(r)
    /\ q.at \in Awaited => q.next[f] = r.next[f]

\* Where a new request crosses one under way.
Crossed(new) ==
    {x \in Files : \E o \in InFlight : ~Agree(push[o], new, x)}
        \cup {f \in Jobs : \E o \in InFlight : ~AgreeOnRuns(push[o], new, f)}

\* pushDelta up to the answer.  It has no guard against a push under way.
Push(p) ==
    /\ \/ bridge = "running"
       \/ bridge = "first" /\ \A q \in Pushes : push[q].at \notin Awaited
    /\ push[p].at = "none"
    /\ \E later \in ContentsOf("jobs") :
           LET new == Delta(later) IN
           /\ IF later = file["jobs"] THEN UNCHANGED <<file, changes>>
              ELSE Change /\ new.sent["jobs"] # Nothing /\ file' = [file EXCEPT !["jobs"] = later]
           /\ Brings(new) # {}
           /\ push' = [push EXCEPT ![p] = new]
           /\ doubt' = doubt \cup Crossed(new)
    /\ UNCHANGED <<runs, truncated, bridgeVars, serverVars, faults, crashes>>

\* Mutant: the offsets are read again after the answer.
AcknowledgedNow(q) == [hash |-> q.hash, offset |-> runs]

\* What an answered request leaves in the pusher.
Acknowledged(q) == [hash |-> q.hash, offset |-> q.next]

\* An answer, and saveState, which may fail.
Answer(p) ==
    LET q == push[p]
        now == Acknowledged(q)
    IN
    /\ q.at = "handled"
    /\ hash' = now.hash /\ offset' = now.offset
    /\ \/ saved' = now /\ UNCHANGED faults
       \/ Fault /\ UNCHANGED saved
    /\ push' = [push EXCEPT ![p] = NoRequest]
    /\ UNCHANGED <<sourceVars, bridge, serverVars, changes, crashes, doubt>>

\* Mutant: the request is still waited for.
LateAwaited(q) == q

Late(q) == [q EXCEPT !.at = "late", !.hash = [x \in Files |-> Nothing]]

\* 10 s without an answer, or a broken connection.
GiveUp(p) ==
    /\ push[p].at \in Awaited
    /\ Fault
    /\ push' = [push EXCEPT ![p] =
           IF @.at = "sent" THEN Late(@) ELSE NoRequest]
    /\ doubt' = doubt \cup Brings(push[p])
    /\ UNCHANGED <<sourceVars, bridgeVars, serverVars, changes, crashes>>

\* The end of the bridge, and what the next CronPusher loads (loadState).
Crash ==
    /\ bridge # "down"
    /\ crashes < MaxCrashes /\ crashes' = crashes + 1
    /\ bridge' = "down"
    /\ hash' = saved.hash /\ offset' = saved.offset
    /\ push' = [p \in Pushes |->
           CASE push[p].at = "sent" -> Late(push[p])
             [] push[p].at = "handled" -> NoRequest
             [] OTHER -> push[p]]
    /\ doubt' = doubt \cup (UNION {Brings(push[p]) : p \in InFlight})
                  \cup {x \in Files : hash[x] # saved.hash[x]}
                  \cup {f \in Jobs : offset[f] # saved.offset[f]}
    /\ UNCHANGED <<sourceVars, saved, serverVars, changes, faults>>

-----------------------------------------------------------------------------
(* POST /openclaw/bridge/cron-sync.                                        *)

\* Mutant: a file that is gone is taken for one that was not sent.
MirroredKept(q, X) ==
    [x \in Files |-> IF x \in X /\ q.sent[x] \notin {Nothing, Missing}
                     THEN q.sent[x] ELSE mirror[x]]

\* writeBridgeJobsFile and writeBridgeConfigFile, of the files in X.
Mirrored(q, X) ==
    [x \in Files |-> IF x \in X /\ q.sent[x] # Nothing THEN q.sent[x] ELSE mirror[x]]

\* appendBridgeRuns, for the jobs in F.
Appended(q, F) ==
    [f \in Jobs |-> [n \in 1 .. MaxRecords |->
        IF f \in F /\ n \in q.from[f] + 1 .. q.next[f] THEN copies[f][n] + 1 ELSE copies[f][n]]]

Arrived(p) == push[p].at \in {"sent", "late"}
TooLarge(q) == Records(q) > BodyLimit

\* jobs.json was not the same when it was read again.
Torn(q) == {x \in Files \cap Brings(q) : q.sent[x] # Read(x, q.hash[x])}

\* What the server now has from p alone, while the bridge waits for the answer.
Settled(p) ==
    {x \in Files \cap Brings(push[p]) :
        push[p].at = "sent" /\ \A q \in InFlight : Agree(push[p], push[q], x)}

Handle(p) ==
    /\ Arrived(p) /\ ~TooLarge(push[p])
    /\ target' = TRUE
    /\ mirror' = Mirrored(push[p], Files)
    /\ copies' = Appended(push[p], Jobs)
    /\ push' = [push EXCEPT ![p] =
           IF @.at = "sent" THEN [@ EXCEPT !.at = "handled"] ELSE NoRequest]
    /\ doubt' = (doubt \ Settled(p)) \cup Torn(push[p])
    /\ UNCHANGED <<sourceVars, bridgeVars, boundVars>>

\* A write throws, or the server dies between two of them: jobs come first, then
\* the config, then the records job by job.
HandlePartly(p) ==
    /\ Arrived(p) /\ ~TooLarge(push[p])
    /\ Fault
    /\ target' = TRUE
    /\ \E X \in {{}, {"jobs"}, Files}, F \in SUBSET Jobs :
           /\ F # {} => X = Files
           /\ mirror' = Mirrored(push[p], X)
           /\ copies' = Appended(push[p], F)
    /\ push' = [push EXCEPT ![p] = NoRequest]
    /\ doubt' = doubt \cup Brings(push[p])
    /\ UNCHANGED <<sourceVars, bridgeVars, changes, crashes>>

\* 413, 429 or another refusal; or it never arrives.
Refuse(p) ==
    /\ Arrived(p)
    /\ IF push[p].at = "late" \/ TooLarge(push[p]) THEN UNCHANGED faults ELSE Fault
    /\ push' = [push EXCEPT ![p] = NoRequest]
    /\ UNCHANGED <<sourceVars, bridgeVars, serverVars, changes, crashes, doubt>>

-----------------------------------------------------------------------------
(* What else changes the target.                                           *)

\* DELETE /openclaw/targets/:targetId: the files stay.
Remove ==
    /\ Change
    /\ target
    /\ target' = FALSE
    /\ UNCHANGED <<sourceVars, bridgeVars, push, mirror, copies, faults, crashes, doubt>>

\* A queue of commands, a rollback or a policy writes the target's openclaw.json.
Configure(v) ==
    /\ Change
    /\ target /\ v # mirror["config"]
    /\ mirror' = [mirror EXCEPT !["config"] = v]
    /\ doubt' = doubt \cup {"config"}
    /\ UNCHANGED <<sourceVars, bridgeVars, push, copies, target, faults, crashes>>

-----------------------------------------------------------------------------
Next ==
    \/ \E x \in Files : \E v \in ContentsOf(x) : WriteFile(x, v)
    \/ \E f \in Jobs : Record(f) \/ Truncate(f)
    \/ Start \/ Arm \/ Crash
    \/ \E p \in Pushes :
           Push(p) \/ Answer(p) \/ GiveUp(p) \/ Handle(p) \/ HandlePartly(p) \/ Refuse(p)
    \/ Remove
    \/ \E v \in Configs : Configure(v)

Spec == Init /\ [][Next]_vars

-----------------------------------------------------------------------------
(* Properties.                                                             *)

\* No record before an offset, in memory or in the state file, is missing on the
\* server, however requests, answers and crashes fall, unless its file was cut;
\* and none is there twice, unless a request with records of its job had no
\* answer, failed half-way, was sent while another was under way, or was
\* forgotten in a crash.
RecordsMirrored ==
    \A f \in Jobs \ truncated, n \in 1 .. MaxRecords :
        /\ n <= offset[f] \/ n <= saved.offset[f] => copies[f][n] > 0
        /\ f \notin doubt => copies[f][n] <= 1

\* The server's copy of a file is what the pusher's hash says, so that the pusher
\* may leave the file out, once no request with it is under way - unless the last
\* one had no answer, met one with another content, or failed half-way, or jobs.json
\* changed between its two readings, or someone wrote the copy.
HashIsOfMirror ==
    \A x \in Files \ doubt :
        hash[x] # Nothing /\ (\A p \in InFlight : x \notin Brings(push[p])) =>
            mirror[x] = Read(x, hash[x])
=============================================================================
