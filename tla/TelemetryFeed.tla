--------------------------- MODULE TelemetryFeed ---------------------------
(***************************************************************************)
(* From the heartbeats that bridges post to what an operator sees.  The    *)
(* server keeps the events of its own node, and of one mirror node per     *)
(* attached remote server, and projects them in the order of their         *)
(* timestamps (TelemetryAggregator).  It marks a silent machine offline    *)
(* with an event of its own (heartbeatChecker).  A control client fetches  *)
(* /snapshot once, then applies the frames of /events as they arrive; the  *)
(* desktop's ControlMonitorService makes a new client for each connect.    *)
(*                                                                         *)
(* Sessions and runs are projected as machines are (the last event of the  *)
(* order wins), so only heartbeats are followed.  Run details and logs     *)
(* are left out, and so are ghosts (nameless machines, hidden after 2      *)
(* minutes) and the cap of the remembered ids.                             *)
(***************************************************************************)
EXTENDS Naturals, Sequences

CONSTANTS
    Machines,
    MaxTime,      \* the timestamps of the machines' heartbeats are 1..MaxTime
    MaxPending,   \* SSE_MAX_PENDING_CHUNKS
    MaxOps,       \* bound on connects and disconnects
    MaxBreaks,    \* bound on requests and streams the network breaks
    MaxRestarts,  \* bound on restarts of the server
    MaxFrames     \* bound on the frames a remote server sends

ASSUME FeedAssumption ==
    /\ {MaxTime, MaxOps} \subseteq Nat \ {0}
    /\ {MaxPending, MaxBreaks, MaxRestarts, MaxFrames} \subseteq Nat

Ops == 1 .. MaxOps
Nodes == {"local", "remote"}

\* Two heartbeats of a machine differ in their time, which identifies them.
Beats == [machine : Machines, ts : 1 .. MaxTime, status : {"online"}]

\* The server's clock counts the reports of the checker.
Reports == [machine : Machines, ts : Nat \ {0}, status : {"offline"}]
Offline(m, t) == [machine |-> m, ts |-> t, status |-> "offline"]
Events == Beats \cup Reports

Statuses == {"online", "offline", "none"}
NoView == [on |-> [m \in Machines |-> "none"], forced |-> TRUE]
Views == [on : [Machines -> Statuses], forced : BOOLEAN]

VARIABLES
    log,        \* the aggregator's log of each node: its own and the mirror
    attached,   \* whether the remote server is attached
    heard,      \* the keys of lastHeartbeatByMachine
    now,        \* the server's clock: a heartbeat of this time precedes the next report
    open,       \* whether the server still writes to the client's /events response
    queue,      \* its chunks: pending, in sockets and in the reader
    pc,         \* where each operation's client is: start and runSseLoop
    view, seen, \* the current client's snapshot and seenEventIds
    answer,     \* the body of a /snapshot response on its way to it
    op, client, status, shown, \* ControlMonitorService
    used,       \* counts of breaks, restarts and frames
    \* history
    ahead,      \* machines that posted a heartbeat from the server's future
    off         \* machines of which the client may show another status

serverVars == <<log, attached, heard, now>>
streamVars == <<open, queue>>
clientVars == <<pc, view, seen, answer>>
monitorVars == <<op, client, status, shown>>
history == <<ahead, off>>
vars == <<serverVars, streamVars, clientVars, monitorVars, used, history>>

Init ==
    /\ log = [n \in Nodes |-> {}] /\ attached = FALSE
    /\ heard = {} /\ now = 1
    /\ open = FALSE /\ queue = <<>>
    /\ pc = [c \in Ops |-> "new"] /\ view = NoView /\ seen = {} /\ answer = NoView.on
    /\ op = 0 /\ client = 0 /\ status = "idle" /\ shown = NoView
    /\ used = [breaks |-> 0, restarts |-> 0, frames |-> 0]
    /\ ahead = {} /\ off = {}

Use(what, max) == used[what] < max /\ used' = [used EXCEPT ![what] = @ + 1]

-----------------------------------------------------------------------------
(* The server's projection.                                                *)

\* compareOrderedEvents: by time, then by id ("evt_..." before "synth_...").
Before(d, e) == \/ d.ts < e.ts
                \/ d.ts = e.ts /\ d.status = "online" /\ e.status = "offline"

\* computeUnifiedSnapshot: the last event of each machine, in that order.
Newest(S, e) == \A d \in S : d.machine = e.machine => d = e \/ Before(d, e)
Projection(S) ==
    [m \in Machines |->
        IF \E e \in S : e.machine = m
        THEN (CHOOSE e \in S : e.machine = m /\ Newest(S, e)).status
        ELSE "none"]
Unified == Projection(log["local"] \cup log["remote"])

\* Mutant: a slow response holds any number of chunks.
Unbounded(e) == queue' = (IF open THEN Append(queue, e) ELSE queue) /\ open' = open

\* Mutant: a chunk too many is dropped and the response goes on.
DropChunk(e) ==
    /\ queue' = IF open /\ Len(queue) < MaxPending THEN Append(queue, e) ELSE queue
    /\ open' = open

\* createBoundedSseWriter: the response gets the chunk; one that has too many
\* is destroyed, and its end of the stream is what the client gets.
Enqueue(e) ==
    LET full == Len(queue) >= MaxPending IN
    /\ queue' = IF open /\ ~full THEN Append(queue, e) ELSE queue
    /\ open' = (open /\ ~full)

\* The client's entry for e's machine may differ from the server's once it
\* misses e, takes e for the newest though it is not, or skips e as repeated.
NoteOff(e) ==
    LET newest == Newest(log["local"] \cup log["remote"], e)
        follows == open /\ e \notin seen
    IN
    off' = IF newest /\ follows THEN off \ {e.machine}
           ELSE IF newest \/ follows THEN off \cup {e.machine}
           ELSE off

\* appendEvent, emitEvent and the recompute: what a node's log has is dropped.
Publish(n, e) ==
    IF e \in log[n] THEN UNCHANGED <<log, streamVars, off>>
    ELSE /\ log' = [log EXCEPT ![n] = @ \cup {e}]
         /\ Enqueue(e)
         /\ NoteOff(e)

\* What a bridge posts, and what the streams of a server send: an ingested
\* event, which has lost the version of its envelope.
Version == "telemetry.v1"
Envelope(e) == [event |-> e, version |-> Version]
Frame(e) == [event |-> e]
Accepts(input) == "version" \in DOMAIN input /\ input.version = Version

Ingest(n, input) ==
    IF Accepts(input) THEN Publish(n, input.event)
    ELSE UNCHANGED <<log, streamVars, off>>

-----------------------------------------------------------------------------
(* The server.                                                             *)

\* POST /ingest: a heartbeat, early or late by any clock, perhaps again.
Post(e) ==
    /\ Ingest("local", Envelope(e))
    /\ heard' = IF e \in log["local"] THEN heard ELSE heard \cup {e.machine}
    /\ ahead' = IF e.ts > now THEN ahead \cup {e.machine} ELSE ahead
    /\ UNCHANGED <<attached, now, clientVars, monitorVars, used>>

\* Mutant: the id of a report has no time, so a second one is a repetition.
CheckOnce(m) ==
    /\ m \in heard
    /\ IF \E e \in log["local"] : e.machine = m /\ e.status = "offline"
       THEN UNCHANGED <<log, streamVars, off>>
       ELSE Ingest("local", Envelope(Offline(m, now)))
    /\ heard' = heard \ {m}
    /\ now' = now + 1
    /\ UNCHANGED <<attached, clientVars, monitorVars, used, ahead>>

\* heartbeatChecker, for a machine of which HEARTBEAT_TIMEOUT_MS brought no
\* event: it is reported offline and forgotten.  (The listener that takes the
\* report for a heartbeat is undone at once.)
Check(m) ==
    /\ m \in heard
    /\ Ingest("local", Envelope(Offline(m, now)))
    /\ heard' = heard \ {m}
    /\ now' = now + 1
    /\ UNCHANGED <<attached, clientVars, monitorVars, used, ahead>>

\* The remote server is attached: an empty mirror node, then its stream.
Attach ==
    /\ ~attached
    /\ used["frames"] < MaxFrames
    /\ attached' = TRUE
    /\ UNCHANGED <<log, heard, now, streamVars, clientVars, monitorVars, used, history>>

\* A frame of its stream reaches the mirror node's ingestor.
RemoteFrame(e) ==
    /\ attached
    /\ Use("frames", MaxFrames)
    /\ Ingest("remote", Frame(e))
    /\ UNCHANGED <<attached, heard, now, clientVars, monitorVars, ahead>>

Detach ==
    /\ attached
    /\ attached' = FALSE
    /\ log' = [log EXCEPT !["remote"] = {}]
    /\ UNCHANGED <<heard, now, streamVars, clientVars, monitorVars, used, ahead, off>>

\* Nothing of this is on disk; the bridges may send what was not answered again.
ServerRestart ==
    /\ Use("restarts", MaxRestarts)
    /\ log' = [n \in Nodes |-> {}] /\ attached' = FALSE
    /\ heard' = {}
    /\ open' = FALSE /\ queue' = <<>>
    /\ off' = Machines
    /\ UNCHANGED <<now, clientVars, monitorVars, ahead>>

-----------------------------------------------------------------------------
(* The monitor and its control client.  A client that was stopped keeps      *)
(* reading to the end of a chunk, but its snapshots have no listener: only   *)
(* how its start() ends is followed.                                         *)

\* onSnapshot's listener.
Emit(v) ==
    /\ shown' = v
    /\ status' = IF v.forced \/ \E m \in Machines : v.on[m] = "offline"
                 THEN "degraded" ELSE "connected"
    /\ UNCHANGED <<op, client>>

Goto(place) == pc' = [pc EXCEPT ![op] = place]
At(places) == client = op /\ op # 0 /\ pc[op] \in places

\* connect and disconnect: a new operation, the old client stopped.
Operation(new, state) ==
    /\ op < MaxOps
    /\ op' = op + 1 /\ client' = (IF new THEN op' ELSE 0)
    /\ status' = state /\ shown' = NoView
    /\ pc' = [c \in Ops |-> IF new /\ c = op' THEN "start"
                            ELSE IF pc[c] \in {"new", "start"} THEN pc[c] ELSE "ended"]
    /\ open' = FALSE /\ queue' = <<>>
    /\ view' = NoView /\ seen' = {} /\ answer' = NoView.on /\ off' = {}
    /\ UNCHANGED <<serverVars, used, ahead>>

Connect == status # "connecting" /\ Operation(TRUE, "connecting")
Disconnect == Operation(FALSE, "idle")

\* GET /snapshot is answered.  What is published from here on, until the
\* stream is open, the client never learns from its stream.
Snapshot ==
    /\ \/ At({"start"}) /\ Goto("started")
       \/ At({"refresh"}) /\ Goto("refreshed")
    /\ answer' = Unified
    /\ off' = {}
    /\ UNCHANGED <<serverVars, streamVars, view, seen, monitorVars, used, ahead>>

\* The client takes the snapshot, and asks for /events.
Take ==
    /\ At({"started", "refreshed"}) /\ Goto("connecting")
    /\ view' = [on |-> answer, forced |-> FALSE]
    /\ Emit(view')
    /\ UNCHANGED <<serverVars, streamVars, seen, answer, used, history>>

Subscribe ==
    /\ At({"connecting"}) /\ Goto("reading")
    /\ open' = TRUE
    /\ UNCHANGED <<serverVars, queue, view, seen, answer, monitorVars, used, history>>

\* dispatchFrame: a frame whose id was seen is skipped, any other is applied
\* as it comes.
Read ==
    LET e == Head(queue) IN
    /\ At({"reading"}) /\ queue # <<>>
    /\ IF e \in seen THEN UNCHANGED <<view, monitorVars>>
       ELSE /\ view' = [on |-> [view.on EXCEPT ![e.machine] = e.status], forced |-> FALSE]
            /\ Emit(view')
    /\ seen' = seen \cup {e}
    /\ queue' = Tail(queue)
    /\ UNCHANGED <<serverVars, open, pc, answer, used, history>>

\* A stream ends, once the server has closed it or when the network breaks, or
\* a request of the loop fails: the catch and the backoff of runSseLoop.
Break ==
    /\ \/ At({"reading"}) /\ ~open /\ UNCHANGED used
       \/ At({"reading", "connecting", "refresh", "refreshed"}) /\ Use("breaks", MaxBreaks)
    /\ Goto("backoff")
    /\ open' = FALSE /\ queue' = <<>>
    /\ view' = [view EXCEPT !.forced = TRUE]
    /\ Emit(view')
    /\ UNCHANGED <<serverVars, seen, answer, history>>

\* The backoff is over: the next round of the loop starts with a new snapshot.
Retry ==
    /\ At({"backoff"}) /\ Goto("refresh")
    /\ UNCHANGED <<serverVars, streamVars, view, seen, answer, monitorVars, used, history>>

\* Mutant: the failure of an older operation is reported too.
StartFailsLate(c) ==
    /\ \/ pc[c] = "start" /\ c # client /\ UNCHANGED used
       \/ c = client /\ pc[c] \in {"start", "started"} /\ Use("breaks", MaxBreaks)
    /\ pc' = [pc EXCEPT ![c] = "ended"]
    /\ client' = 0 /\ status' = "error" /\ shown' = NoView /\ op' = op
    /\ UNCHANGED <<serverVars, streamVars, view, seen, answer, history>>

\* start() rejects: its fetch was aborted by stop(), or failed.  Only the
\* failure of the current operation is the monitor's.
StartFails(c) ==
    /\ \/ pc[c] = "start" /\ c # client /\ UNCHANGED used
       \/ c = client /\ pc[c] \in {"start", "started"} /\ Use("breaks", MaxBreaks)
    /\ pc' = [pc EXCEPT ![c] = "ended"]
    /\ IF c = op THEN client' = 0 /\ status' = "error" /\ shown' = NoView /\ op' = op
                 ELSE UNCHANGED monitorVars
    /\ UNCHANGED <<serverVars, streamVars, view, seen, answer, history>>

ServerStep ==
    \/ \E e \in Beats : Post(e) \/ RemoteFrame(e)
    \/ \E m \in Machines : Check(m)
    \/ Attach \/ Detach \/ ServerRestart

ClientStep ==
    \/ Snapshot \/ Take \/ Subscribe \/ Read \/ Break \/ Retry
    \/ \E c \in Ops : StartFails(c)

Next == ServerStep \/ Connect \/ Disconnect \/ ClientStep

Spec == Init /\ [][Next]_vars

\* setInterval keeps checking, and a timeout goes by sooner or later.
FairSpec == Spec /\ \A m \in Machines : WF_vars(Check(m))

-----------------------------------------------------------------------------
(* Properties.                                                             *)

TypeOK ==
    /\ log \in [Nodes -> SUBSET Events] /\ attached \in BOOLEAN
    /\ heard \subseteq Machines /\ now \in Nat \ {0}
    /\ open \in BOOLEAN /\ queue \in Seq(Events) /\ Len(queue) <= MaxPending
    /\ pc \in [Ops -> {"new", "start", "started", "refresh", "refreshed", "connecting",
                       "reading", "backoff", "ended"}]
    /\ view \in Views /\ seen \subseteq Events /\ answer \in [Machines -> Statuses]
    /\ op \in 0 .. MaxOps /\ client \in {0, op} /\ shown \in Views
    /\ status \in {"idle", "connecting", "connected", "degraded", "error"}
    /\ DOMAIN used = {"breaks", "restarts", "frames"}
    /\ ahead \subseteq Machines
    /\ off \subseteq Machines

\* An operator whose client has read all of its open stream sees the server's
\* own status of every machine, but for those whose events fell between the
\* snapshot and the stream, came out of the order of their times, or had been
\* seen before a restart of the server, or if it restarted between the two
\* (the snapshot of toFrontendUnifiedSnapshot against reduceFrontendSnapshot's).
ViewsAgree ==
    status \in {"connected", "degraded"} /\ open /\ queue = <<>> =>
        \A m \in Machines \ off : shown.on[m] = Unified[m]

\* What the monitor shows is the current operation's: its client's snapshot,
\* "connected" only between a snapshot and the end of its stream, and an
\* error only if its own start failed, whatever older clients still do.
StatusIsOwn ==
    /\ status \in {"idle", "error"} => client = 0 /\ shown = NoView
    /\ status = "error" => pc[op] = "ended"
    /\ status = "connecting" => client = op /\ pc[op] \in {"start", "started"}
    /\ status \in {"connected", "degraded"} => client = op /\ shown = view
    /\ status = "connected" => pc[op] \in {"connecting", "reading"}

\* A machine that falls silent ends up offline in the server's projection,
\* unless it once posted a time later than the server's (heartbeatChecker's
\* event sorts before it then).
OfflineReported ==
    <>[](\A m \in Machines \ ahead : Unified[m] # "online")
=============================================================================
