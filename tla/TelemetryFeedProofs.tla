------------------------ MODULE TelemetryFeedProofs ------------------------
(***************************************************************************)
(* Theorems about TelemetryFeed, for any machines and bounds.              *)
(***************************************************************************)
EXTENDS TelemetryFeed, SequenceTheorems, TLAPS

-----------------------------------------------------------------------------
(* The projection *)

\* Each machine with an event in S has a last one.
HasNewest(S) ==
    \A e \in S : \E f \in S : f.machine = e.machine /\ Newest(S, f)

\* The parts of an event.
LEMMA EventParts ==
    ASSUME NEW e \in Events
    PROVE  /\ e.machine \in Machines
           /\ e.ts \in Nat
           /\ e.status \in {"online", "offline"}
           /\ e = [machine |-> e.machine, ts |-> e.ts, status |-> e.status]
<1>1. CASE e \in Beats
  BY <1>1, FeedAssumption DEF Beats, FeedAssumption
<1>2. CASE e \in Reports
  BY <1>2 DEF Reports
<1> QED
  BY <1>1, <1>2 DEF Events

\* The order of the events of one machine is total and strict.
LEMMA EventOrder ==
    ASSUME NEW d \in Events, NEW e \in Events, NEW f \in Events
    PROVE  /\ d.machine = e.machine => d = e \/ Before(d, e) \/ Before(e, d)
           /\ ~ (Before(d, e) /\ Before(e, d))
           /\ ~ Before(d, d)
           /\ Before(d, e) /\ Before(e, f) => Before(d, f)
<1>1. d = [machine |-> d.machine, ts |-> d.ts, status |-> d.status] /\ d.ts \in Nat
      /\ d.status \in {"online", "offline"}
  BY EventParts
<1>2. e = [machine |-> e.machine, ts |-> e.ts, status |-> e.status] /\ e.ts \in Nat
      /\ e.status \in {"online", "offline"}
  BY EventParts
<1>3. f.ts \in Nat
  BY EventParts
<1> QED
  BY <1>1, <1>2, <1>3 DEF Before

\* Two last events of a machine are one.
LEMMA NewestUnique ==
    ASSUME NEW S \in SUBSET Events, NEW d \in S, NEW e \in S,
           d.machine = e.machine, Newest(S, d), Newest(S, e)
    PROVE  d = e
BY EventOrder DEF Newest

\* A projection shows the status of the last event.
LEMMA ProjectionIs ==
    ASSUME NEW S \in SUBSET Events, NEW e \in S, Newest(S, e)
    PROVE  Projection(S)[e.machine] = e.status
<1> DEFINE Last(d) == d.machine = e.machine /\ Newest(S, d)
<1> DEFINE last == CHOOSE d \in S : d.machine = e.machine /\ Newest(S, d)
<1>1. e.machine \in Machines
  BY EventParts
<1>2. last \in S /\ last.machine = e.machine /\ Newest(S, last)
  OBVIOUS
<1>3. last = e
  BY <1>2, NewestUnique
<1> QED
  BY <1>1, <1>3 DEF Projection

\* A projection shows nothing of a machine without an event.
LEMMA ProjectionNone ==
    ASSUME NEW S, NEW m \in Machines, \A e \in S : e.machine # m
    PROVE  Projection(S)[m] = "none"
BY DEF Projection

\* A projection has a status for each machine.
LEMMA ProjectionType ==
    ASSUME NEW S \in SUBSET Events, HasNewest(S)
    PROVE  Projection(S) \in [Machines -> Statuses]
<1> SUFFICES ASSUME NEW m \in Machines PROVE Projection(S)[m] \in Statuses
  BY DEF Projection
<1>1. CASE \E e \in S : e.machine = m
  <2>1. PICK f \in S : f.machine = m /\ Newest(S, f)
    BY <1>1 DEF HasNewest
  <2>2. Projection(S)[m] = f.status
    BY <2>1, ProjectionIs
  <2> QED
    BY <2>2, EventParts DEF Statuses
<1>2. CASE \A e \in S : e.machine # m
  BY <1>2, ProjectionNone DEF Statuses
<1> QED
  BY <1>1, <1>2

\* What one event more does to a projection.
LEMMA ProjectionStep ==
    ASSUME NEW S \in SUBSET Events, HasNewest(S), NEW e \in Events, e \notin S
    PROVE  /\ HasNewest(S \cup {e})
           /\ \A m \in Machines :
                Projection(S \cup {e})[m] =
                    IF m = e.machine /\ Newest(S, e) THEN e.status
                    ELSE Projection(S)[m]
<1> DEFINE T == S \cup {e}
<1>t. T \in SUBSET Events /\ e \in T
  OBVIOUS
<1>1. Newest(S, e) => Newest(T, e)
  BY DEF Newest
<1>2. ASSUME NEW f \in S, Newest(S, f), f.machine # e.machine \/ ~ Newest(S, e)
      PROVE  Newest(T, f)
  <2>1. CASE f.machine # e.machine
    BY <1>2, <2>1 DEF Newest
  <2>2. CASE f.machine = e.machine /\ ~ Newest(S, e)
    <3>1. PICK d \in S : d.machine = e.machine /\ ~ Before(d, e)
      BY <2>2 DEF Newest
    <3>2. Before(e, d)
      BY <3>1, EventOrder
    <3>3. d = f \/ Before(d, f)
      BY <1>2, <3>1, <2>2 DEF Newest
    <3>4. Before(e, f)
      BY <3>2, <3>3, EventOrder
    <3> QED
      BY <3>4, <1>2 DEF Newest
  <2> QED
    BY <1>2, <2>1, <2>2
<1>3. HasNewest(T)
  <2> SUFFICES ASSUME NEW d \in T
               PROVE  \E f \in T : f.machine = d.machine /\ Newest(T, f)
    BY DEF HasNewest
  <2>1. CASE d.machine = e.machine /\ Newest(S, e)
    BY <2>1, <1>1
  <2>2. CASE d.machine # e.machine
    BY <2>2, <1>2 DEF HasNewest
  <2>3. CASE d.machine = e.machine /\ ~ Newest(S, e)
    <3>1. PICK c \in S : c.machine = e.machine
      BY <2>3 DEF Newest
    <3>2. PICK f \in S : f.machine = e.machine /\ Newest(S, f)
      BY <3>1 DEF HasNewest
    <3> QED
      BY <3>2, <2>3, <1>2
  <2> QED
    BY <2>1, <2>2, <2>3
<1>4. ASSUME NEW m \in Machines
      PROVE  Projection(T)[m] = IF m = e.machine /\ Newest(S, e) THEN e.status
                                ELSE Projection(S)[m]
  <2>1. CASE m = e.machine /\ Newest(S, e)
    BY <2>1, <1>1, <1>t, ProjectionIs
  <2>2. CASE ~ (m = e.machine /\ Newest(S, e)) /\ \E d \in S : d.machine = m
    <3>1. PICK f \in S : f.machine = m /\ Newest(S, f)
      BY <2>2 DEF HasNewest
    <3>2. Newest(T, f)
      BY <3>1, <2>2, <1>2
    <3>3. Projection(S)[m] = f.status
      BY <3>1, ProjectionIs
    <3>4. Projection(T)[m] = f.status
      BY <3>1, <3>2, <1>t, ProjectionIs
    <3> QED
      BY <2>2, <3>3, <3>4
  <2>3. CASE ~ (m = e.machine /\ Newest(S, e)) /\ \A d \in S : d.machine # m
    <3>1. m # e.machine
      BY <2>3 DEF Newest
    <3>2. Projection(S)[m] = "none"
      BY <2>3, ProjectionNone
    <3>3. Projection(T)[m] = "none"
      BY <2>3, <3>1, ProjectionNone
    <3> QED
      BY <3>1, <3>2, <3>3
  <2> QED
    BY <2>1, <2>2, <2>3
<1> QED
  BY <1>3, <1>4

-----------------------------------------------------------------------------
(* Type correctness *)

\* Nothing gets into the mirror of a remote server, and each machine has a last
\* event in the server's own log.
LogInv == log["remote"] = {} /\ HasNewest(log["local"])

TypeInv == TypeOK /\ LogInv

\* What all of the client's and the monitor's steps leave alone.
LogSame == UNCHANGED <<log, heard, now, attached>>

\* The types of what the server does not write.
ClientTypes ==
    /\ pc \in [Ops -> {"new", "start", "started", "refresh", "refreshed", "connecting",
                       "reading", "backoff", "ended"}]
    /\ view \in Views /\ seen \subseteq Events /\ answer \in [Machines -> Statuses]
    /\ op \in 0 .. MaxOps /\ client \in {0, op} /\ shown \in Views
    /\ status \in {"idle", "connecting", "connected", "degraded", "error"}

\* The types of what the server writes, and of the stream.
ServerTypes ==
    /\ log \in [Nodes -> SUBSET Events] /\ attached \in BOOLEAN
    /\ heard \subseteq Machines /\ now \in Nat \ {0}
    /\ ahead \subseteq Machines
StreamTypes ==
    /\ open \in BOOLEAN /\ queue \in Seq(Events) /\ Len(queue) <= MaxPending
    /\ off \subseteq Machines
UsedTypes == DOMAIN used = {"breaks", "restarts", "frames"}

LEMMA Parts == TypeOK <=> ServerTypes /\ StreamTypes /\ ClientTypes /\ UsedTypes
BY DEF TypeOK, ServerTypes, StreamTypes, ClientTypes, UsedTypes

\* An event for the server's own node.
LEMMA PublishLocal ==
    ASSUME TypeInv, NEW e \in Events, Publish("local", e)
    PROVE  /\ log' = [log EXCEPT !["local"] = @ \cup {e}]
           /\ log' \in [Nodes -> SUBSET Events]
           /\ LogInv'
           /\ StreamTypes'
<1> USE DEF Nodes
<1>1. log \in [Nodes -> SUBSET Events] /\ StreamTypes /\ LogInv
  BY Parts DEF TypeInv, ServerTypes
<1>2. CASE e \in log["local"]
  <2>1. log' = log /\ UNCHANGED <<open, queue, off>>
    BY <1>2 DEF Publish, streamVars
  <2>2. log' = [log EXCEPT !["local"] = @ \cup {e}]
    BY <1>1, <1>2, <2>1
  <2> QED
    BY <1>1, <2>1, <2>2 DEF LogInv, StreamTypes
<1>3. CASE e \notin log["local"]
  <2>1. log' = [log EXCEPT !["local"] = @ \cup {e}] /\ Enqueue(e) /\ NoteOff(e)
    BY <1>3 DEF Publish
  <2>2. log'["local"] = log["local"] \cup {e} /\ log'["remote"] = log["remote"]
    BY <1>1, <2>1
  <2>3. log["local"] \in SUBSET Events /\ HasNewest(log["local"])
    BY <1>1 DEF LogInv
  <2>4. HasNewest(log["local"] \cup {e})
    BY <2>3, <1>3, ProjectionStep
  <2>5. LogInv'
    <3> USE DEF HasNewest, Newest, Before
    <3> QED
      BY <1>1, <2>2, <2>4 DEF LogInv
  <2>6. off' \subseteq Machines
    BY <1>1, <2>1, EventParts DEF NoteOff, StreamTypes
  <2>7. open' \in BOOLEAN /\ queue' \in Seq(Events) /\ Len(queue') <= MaxPending
    <3>1. queue \in Seq(Events) /\ Len(queue) \in Nat /\ Len(queue) <= MaxPending
          /\ MaxPending \in Nat /\ open \in BOOLEAN
      BY <1>1, FeedAssumption DEF StreamTypes, FeedAssumption
    <3>2. Append(queue, e) \in Seq(Events) /\ Len(Append(queue, e)) = Len(queue) + 1
      BY <3>1
    <3> QED
      BY <3>1, <3>2, <2>1 DEF Enqueue
  <2>8. log' \in [Nodes -> SUBSET Events]
    BY <1>1, <2>1
  <2> QED
    BY <2>1, <2>5, <2>6, <2>7, <2>8 DEF StreamTypes
<1> QED
  BY <1>2, <1>3

\* A frame of a remote server's stream is refused.
LEMMA FrameRefused ==
    ASSUME NEW e, Ingest("remote", Frame(e))
    PROVE  UNCHANGED <<log, open, queue, off>>
BY DEF Ingest, Accepts, Frame, streamVars

\* What a bridge posts, or the checker, is taken.
LEMMA EnvelopeTaken ==
    ASSUME NEW e, Ingest("local", Envelope(e))
    PROVE  Publish("local", e)
BY DEF Ingest, Accepts, Envelope, Version

\* The server's status of each machine.
LEMMA UnifiedType ==
    ASSUME TypeInv
    PROVE  Unified = Projection(log["local"]) /\ Unified \in [Machines -> Statuses]
<1>1. log["local"] \in SUBSET Events /\ HasNewest(log["local"])
      /\ log["local"] \cup log["remote"] = log["local"]
  BY DEF TypeInv, LogInv, TypeOK, Nodes
<1> QED
  BY <1>1, ProjectionType DEF Unified

LEMMA NoChunk == <<>> \in Seq(Events) /\ Len(<<>>) = 0 /\ 0 <= MaxPending
BY FeedAssumption DEF FeedAssumption

LEMMA NoViewType == NoView \in Views
BY DEF NoView, Views, Statuses

\* What a step of the server alone has to show.
LEMMA ServerSteps ==
    ASSUME TypeInv, ServerStep
    PROVE  TypeInv'
<1>0. ServerTypes /\ StreamTypes /\ ClientTypes /\ UsedTypes /\ LogInv
  BY Parts DEF TypeInv
<1>c. UNCHANGED <<clientVars, monitorVars>> => ClientTypes'
  BY <1>0 DEF ClientTypes, clientVars, monitorVars
<1>1. ASSUME NEW e \in Beats, Post(e) PROVE TypeInv'
  <2>1. e \in Events /\ Publish("local", e) /\ e.machine \in Machines
    BY <1>1, EnvelopeTaken, EventParts DEF Post, Events
  <2>2. log' \in [Nodes -> SUBSET Events] /\ LogInv' /\ StreamTypes'
    BY <2>1, PublishLocal
  <2>3. heard' \subseteq Machines /\ ahead' \subseteq Machines /\ attached' = attached
        /\ now' = now
    BY <1>1, <2>1, <1>0 DEF Post, ServerTypes
  <2>4. ClientTypes' /\ UsedTypes'
    BY <1>1, <1>c, <1>0 DEF Post, UsedTypes
  <2>5. ServerTypes'
    BY <2>2, <2>3, <1>0 DEF ServerTypes
  <2> QED
    BY <2>2, <2>4, <2>5 DEF TypeInv, TypeOK, ServerTypes, StreamTypes, ClientTypes, UsedTypes
<1>2. ASSUME NEW m \in Machines, Check(m) PROVE TypeInv'
  <2> DEFINE e == Offline(m, now)
  <2>1. e \in Events
    BY <1>0 DEF Events, Reports, Offline, ServerTypes
  <2>2. Publish("local", e)
    BY <1>2, EnvelopeTaken DEF Check
  <2> HIDE DEF e
  <2>3. log' \in [Nodes -> SUBSET Events] /\ LogInv' /\ StreamTypes'
    BY <2>1, <2>2, PublishLocal
  <2>4. heard' \subseteq Machines /\ ahead' = ahead /\ attached' = attached
        /\ now' \in Nat \ {0}
    BY <1>2, <1>0 DEF Check, ServerTypes
  <2>5. ClientTypes' /\ UsedTypes'
    BY <1>2, <1>c, <1>0 DEF Check, UsedTypes
  <2>6. ServerTypes'
    BY <2>3, <2>4, <1>0 DEF ServerTypes
  <2> QED
    BY <2>3, <2>5, <2>6 DEF TypeInv, TypeOK, ServerTypes, StreamTypes, ClientTypes, UsedTypes
<1>3. ASSUME NEW e \in Beats, RemoteFrame(e) PROVE TypeInv'
  <2>1. UNCHANGED <<log, open, queue, off>>
    BY <1>3, FrameRefused DEF RemoteFrame
  <2>2. UsedTypes'
    BY <1>3, <1>0 DEF RemoteFrame, Use, UsedTypes
  <2>3. ServerTypes' /\ StreamTypes' /\ LogInv'
    BY <1>3, <2>1, <1>0 DEF RemoteFrame, ServerTypes, StreamTypes, LogInv
  <2>4. ClientTypes'
    BY <1>3, <1>c DEF RemoteFrame
  <2> QED
    BY <2>2, <2>3, <2>4 DEF TypeInv, TypeOK, ServerTypes, StreamTypes, ClientTypes, UsedTypes
<1>4. CASE Attach
  <2>1. ClientTypes'
    BY <1>4, <1>c DEF Attach
  <2>2. ServerTypes' /\ StreamTypes' /\ UsedTypes' /\ LogInv'
    BY <1>4, <1>0 DEF Attach, ServerTypes, StreamTypes, UsedTypes, LogInv, streamVars, history
  <2> QED
    BY <2>1, <2>2 DEF TypeInv, TypeOK, ServerTypes, StreamTypes, ClientTypes, UsedTypes
<1>5. CASE Detach
  <2>1. ClientTypes'
    BY <1>5, <1>c DEF Detach
  <2>2. log' = log
    BY <1>5, <1>0 DEF Detach, LogInv, ServerTypes, Nodes
  <2>3. ServerTypes' /\ StreamTypes' /\ UsedTypes' /\ LogInv'
    BY <1>5, <2>2, <1>0 DEF Detach, ServerTypes, StreamTypes, UsedTypes, LogInv, streamVars
  <2> QED
    BY <2>1, <2>3 DEF TypeInv, TypeOK, ServerTypes, StreamTypes, ClientTypes, UsedTypes
<1>6. CASE ServerRestart
  <2>1. ClientTypes'
    BY <1>6, <1>c DEF ServerRestart
  <2>2. LogInv'
    BY <1>6 DEF ServerRestart, LogInv, HasNewest, Nodes
  <2>3. UsedTypes'
    BY <1>6, <1>0 DEF ServerRestart, Use, UsedTypes
  <2>4. ServerTypes'
    BY <1>6, <1>0 DEF ServerRestart, ServerTypes
  <2>5. StreamTypes'
    BY <1>6, NoChunk DEF ServerRestart, StreamTypes
  <2> QED
    BY <2>1, <2>2, <2>3, <2>4, <2>5
    DEF TypeInv, TypeOK, ServerTypes, StreamTypes, ClientTypes, UsedTypes
<1> QED
  BY <1>1, <1>2, <1>3, <1>4, <1>5, <1>6 DEF ServerStep

LEMMA ClientSteps ==
    ASSUME TypeInv, Connect \/ Disconnect \/ ClientStep \/ UNCHANGED vars
    PROVE  TypeInv'
<1>0. ServerTypes /\ StreamTypes /\ ClientTypes /\ UsedTypes /\ LogInv
      /\ MaxOps \in Nat /\ MaxPending \in Nat
  BY Parts, FeedAssumption DEF TypeInv, FeedAssumption
<1>s. UNCHANGED serverVars /\ ahead' = ahead => ServerTypes' /\ LogInv'
  BY <1>0 DEF ServerTypes, LogInv, serverVars
<1>b. ASSUME NEW what, NEW max, Use(what, max) PROVE UsedTypes'
  BY <1>0, <1>b DEF Use, UsedTypes
<1>a. op \in 0 .. MaxOps /\ client \in {0, op}
      /\ \A places : At(places) => client = op /\ op \in Ops
  BY <1>0 DEF ClientTypes, At, Ops
<1> DEFINE Places == {"new", "start", "started", "refresh", "refreshed", "connecting",
                      "reading", "backoff", "ended"}
<1>g. ASSUME NEW place \in Places, Goto(place) PROVE pc' \in [Ops -> Places]
  BY <1>0, <1>g DEF ClientTypes, Goto
<1>e. ASSUME NEW v \in Views, Emit(v)
      PROVE  /\ shown' \in Views /\ status' \in {"degraded", "connected"}
             /\ op' = op /\ client' = client
  BY <1>e DEF Emit
<1>q. queue = <<>> \/ queue # <<>>
  OBVIOUS
<1>1. ASSUME NEW new \in BOOLEAN, NEW state \in {"connecting", "idle"}, Operation(new, state)
      PROVE  TypeInv'
  <2>1. ServerTypes' /\ LogInv' /\ UsedTypes'
    BY <1>1, <1>s, <1>0 DEF Operation, UsedTypes
  <2>2. StreamTypes'
    BY <1>1, NoChunk DEF Operation, StreamTypes
  <2>3. pc' \in [Ops -> Places]
    <3>1. pc \in [Ops -> Places]
      BY <1>0 DEF ClientTypes
    <3>2. \A c \in Ops :
             (IF new /\ c = op' THEN "start"
              ELSE IF pc[c] \in {"new", "start"} THEN pc[c] ELSE "ended") \in Places
      BY <3>1
    <3>3. pc' = [c \in Ops |-> IF new /\ c = op' THEN "start"
                              ELSE IF pc[c] \in {"new", "start"} THEN pc[c] ELSE "ended"]
      BY <1>1 DEF Operation
    <3> QED
      BY <3>2, <3>3
  <2>4. op' \in 0 .. MaxOps /\ client' \in {0, op'}
    BY <1>1, <1>0, <1>a DEF Operation
  <2>5. /\ view' \in Views /\ seen' \subseteq Events /\ shown' \in Views
        /\ status' \in {"idle", "connecting", "connected", "degraded", "error"}
    BY <1>1, NoViewType DEF Operation
  <2>6. answer' \in [Machines -> Statuses]
    BY <1>1 DEF Operation, NoView, Statuses
  <2> QED
    BY <2>1, <2>2, <2>3, <2>4, <2>5, <2>6
    DEF TypeInv, TypeOK, ServerTypes, StreamTypes, ClientTypes, UsedTypes
<1>2. CASE Snapshot
  <2>1. ServerTypes' /\ LogInv' /\ UsedTypes'
    BY <1>2, <1>s, <1>0 DEF Snapshot, UsedTypes
  <2>2. StreamTypes'
    BY <1>2, <1>0 DEF Snapshot, StreamTypes, streamVars
  <2>3. answer' \in [Machines -> Statuses]
    BY <1>2, UnifiedType DEF Snapshot
  <2>4. pc' \in [Ops -> Places]
    BY <1>2, <1>g DEF Snapshot
  <2>5. ClientTypes'
    BY <1>2, <1>0, <2>3, <2>4 DEF Snapshot, ClientTypes, monitorVars
  <2> QED
    BY <2>1, <2>2, <2>5 DEF TypeInv, TypeOK, ServerTypes, StreamTypes, ClientTypes, UsedTypes
<1>3. CASE Take
  <2>1. ServerTypes' /\ LogInv' /\ UsedTypes'
    BY <1>3, <1>s, <1>0 DEF Take, UsedTypes, history
  <2>2. StreamTypes'
    BY <1>3, <1>0 DEF Take, StreamTypes, streamVars, history
  <2>3. view' \in Views
    BY <1>3, <1>0 DEF Take, Views, ClientTypes
  <2>4. /\ shown' \in Views /\ status' \in {"degraded", "connected"}
        /\ op' = op /\ client' = client
    BY <1>3, <2>3, <1>e DEF Take
  <2>5. pc' \in [Ops -> Places]
    BY <1>3, <1>g DEF Take
  <2>6. ClientTypes'
    BY <1>3, <1>0, <2>3, <2>4, <2>5 DEF Take, ClientTypes
  <2> QED
    BY <2>1, <2>2, <2>6 DEF TypeInv, TypeOK, ServerTypes, StreamTypes, ClientTypes, UsedTypes
<1>4. CASE Subscribe \/ Retry
  <2>1. ServerTypes' /\ LogInv' /\ UsedTypes'
    BY <1>4, <1>s, <1>0 DEF Subscribe, Retry, UsedTypes, history
  <2>2. StreamTypes'
    BY <1>4, <1>0 DEF Subscribe, Retry, StreamTypes, streamVars, history
  <2>3. pc' \in [Ops -> Places]
    BY <1>4, <1>g DEF Subscribe, Retry
  <2>4. ClientTypes'
    BY <1>4, <1>0, <2>3 DEF Subscribe, Retry, ClientTypes, monitorVars
  <2> QED
    BY <2>1, <2>2, <2>4 DEF TypeInv, TypeOK, ServerTypes, StreamTypes, ClientTypes, UsedTypes
<1>5. CASE Read
  <2> DEFINE e == Head(queue)
  <2>1. ServerTypes' /\ LogInv' /\ UsedTypes'
    BY <1>5, <1>s, <1>0 DEF Read, UsedTypes, history
  <2>2. queue \in Seq(Events) /\ queue # <<>> /\ Len(queue) \in Nat
    BY <1>5, <1>0 DEF Read, StreamTypes
  <2>3. e \in Events /\ Tail(queue) \in Seq(Events) /\ Len(Tail(queue)) = Len(queue) - 1
    BY <2>2, HeadTailProperties
  <2>4. StreamTypes'
    BY <1>5, <1>0, <2>2, <2>3 DEF Read, StreamTypes, history
  <2> HIDE DEF e
  <2>5. e.machine \in Machines /\ e.status \in Statuses
    BY <2>3, EventParts DEF Statuses
  <2>6. seen' \subseteq Events /\ UNCHANGED <<pc, answer>>
    BY <1>5, <1>0, <2>3 DEF Read, ClientTypes, e
  <2>7. CASE UNCHANGED <<view, monitorVars>>
    <3>1. ClientTypes'
      BY <1>0, <2>6, <2>7 DEF ClientTypes, monitorVars
    <3> QED
      BY <2>1, <2>4, <3>1 DEF TypeInv, TypeOK, ServerTypes, StreamTypes, ClientTypes, UsedTypes
  <2>8. CASE /\ view' = [on |-> [view.on EXCEPT ![e.machine] = e.status], forced |-> FALSE]
             /\ Emit(view')
    <3>1. view.on \in [Machines -> Statuses]
      BY <1>0 DEF ClientTypes, Views
    <3>2. view' \in Views
      BY <2>5, <2>8, <3>1 DEF Views
    <3>3. /\ shown' \in Views /\ status' \in {"degraded", "connected"}
          /\ op' = op /\ client' = client
      BY <2>8, <3>2, <1>e
    <3>4. ClientTypes'
      BY <1>0, <2>6, <3>2, <3>3 DEF ClientTypes
    <3> QED
      BY <2>1, <2>4, <3>4 DEF TypeInv, TypeOK, ServerTypes, StreamTypes, ClientTypes, UsedTypes
  <2> QED
    BY <1>5, <2>7, <2>8 DEF Read, e
<1>6. CASE Break
  <2>1. ServerTypes' /\ LogInv'
    BY <1>6, <1>s DEF Break, history
  <2>2. UsedTypes'
    <3>1. CASE UNCHANGED used
      BY <3>1, <1>0 DEF UsedTypes
    <3>2. CASE Use("breaks", MaxBreaks)
      BY <3>2, <1>b
    <3> QED
      BY <1>6, <3>1, <3>2 DEF Break
  <2>3. StreamTypes'
    BY <1>6, <1>0, NoChunk DEF Break, StreamTypes, history
  <2>4. view' \in Views
    BY <1>6, <1>0 DEF Break, Views, ClientTypes
  <2>5. /\ shown' \in Views /\ status' \in {"degraded", "connected"}
        /\ op' = op /\ client' = client
    BY <1>6, <2>4, <1>e DEF Break
  <2>6. pc' \in [Ops -> Places]
    BY <1>6, <1>g DEF Break
  <2>7. ClientTypes'
    BY <1>6, <1>0, <2>4, <2>5, <2>6 DEF Break, ClientTypes
  <2> QED
    BY <2>1, <2>2, <2>3, <2>7
    DEF TypeInv, TypeOK, ServerTypes, StreamTypes, ClientTypes, UsedTypes
<1>7. ASSUME NEW c \in Ops, StartFails(c) PROVE TypeInv'
  <2>1. ServerTypes' /\ LogInv'
    BY <1>7, <1>s DEF StartFails, history
  <2>2. UsedTypes'
    <3>1. CASE UNCHANGED used
      BY <3>1, <1>0 DEF UsedTypes
    <3>2. CASE Use("breaks", MaxBreaks)
      BY <3>2, <1>b
    <3> QED
      BY <1>7, <3>1, <3>2 DEF StartFails
  <2>3. StreamTypes'
    BY <1>7, <1>0 DEF StartFails, StreamTypes, streamVars, history
  <2>4. pc' \in [Ops -> Places]
    BY <1>7, <1>0 DEF StartFails, ClientTypes
  <2>5. /\ op' = op /\ client' \in {client, 0} /\ shown' \in {shown, NoView}
        /\ status' \in {status, "error"}
    BY <1>7 DEF StartFails, monitorVars
  <2>6. ClientTypes'
    BY <1>7, <1>0, <2>4, <2>5, NoViewType DEF StartFails, ClientTypes
  <2> QED
    BY <2>1, <2>2, <2>3, <2>6
    DEF TypeInv, TypeOK, ServerTypes, StreamTypes, ClientTypes, UsedTypes
<1>8. CASE UNCHANGED vars
  BY <1>8, <1>0 DEF vars, serverVars, streamVars, clientVars, monitorVars, history,
     TypeInv, TypeOK, LogInv
<1> QED
  BY <1>1, <1>2, <1>3, <1>4, <1>5, <1>6, <1>7, <1>8 DEF ClientStep, Connect, Disconnect

LEMMA TypeInit == Init => TypeInv
<1> SUFFICES ASSUME Init PROVE TypeInv
  OBVIOUS
<1>1. ServerTypes /\ LogInv
  <2>1. log = [n \in Nodes |-> {}] /\ log["local"] = {} /\ log["remote"] = {}
    BY DEF Init, Nodes
  <2>2. LogInv
    BY <2>1 DEF LogInv, HasNewest
  <2>3. log \in [Nodes -> SUBSET Events]
    BY <2>1
  <2>4. attached \in BOOLEAN /\ heard \subseteq Machines /\ now \in Nat \ {0}
        /\ ahead \subseteq Machines
    <3>1. attached = FALSE /\ heard = {} /\ now = 1 /\ ahead = {}
      BY Zenon DEF Init
    <3>2. attached \in BOOLEAN
      BY <3>1, Zenon
    <3>3. heard \subseteq Machines /\ ahead \subseteq Machines
      BY <3>1
    <3>4. now \in Nat \ {0}
      BY <3>1
    <3> QED
      BY <3>2, <3>3, <3>4
  <2> QED
    BY <2>2, <2>3, <2>4 DEF ServerTypes
<1>2. StreamTypes /\ UsedTypes
  BY NoChunk DEF Init, StreamTypes, UsedTypes
<1>3. ClientTypes
  BY NoViewType, FeedAssumption DEF Init, ClientTypes, FeedAssumption, NoView, Statuses
<1> QED
  BY <1>1, <1>2, <1>3, Parts DEF TypeInv

LEMMA TypeNext == TypeInv /\ [Next]_vars => TypeInv'
BY ServerSteps, ClientSteps DEF Next

LEMMA TypeInvariant == Spec => []TypeInv
BY TypeInit, TypeNext, PTL DEF Spec

\* TypeOK: in every reachable state the variables hold values of their types,
\* and the server never has more than MaxPending chunks in a response.
THEOREM FeedTypeCorrect == Spec => []TypeOK
<1>1. TypeInv => TypeOK
  BY DEF TypeInv
<1> QED
  BY <1>1, TypeInvariant, PTL

-----------------------------------------------------------------------------
(* What the monitor shows *)

\* A stream has chunks only while the current client reads it, the operations
\* to come have no client, and one whose start() is under way is the current
\* one or was given up for a younger one.
OwnInv ==
    /\ StatusIsOwn
    /\ open \/ queue # <<>> => At({"reading"})
    /\ \A c \in Ops : c > op => pc[c] = "new"
    /\ op \in Ops /\ pc[op] = "start" => client = op
    /\ status = "error" => op \in Ops

\* A step that leaves the client and the monitor alone.
LEMMA OwnSame ==
    ASSUME OwnInv, UNCHANGED <<clientVars, monitorVars>>,
           open' \/ queue' # <<>> => open \/ queue # <<>>
    PROVE  OwnInv'
BY DEF OwnInv, StatusIsOwn, At, clientVars, monitorVars

\* An event does not open a stream.
LEMMA PublishStream ==
    ASSUME TypeInv, NEW n, NEW e \in Events, Publish(n, e)
    PROVE  open' \/ queue' # <<>> => open \/ queue # <<>>
<1>1. open \in BOOLEAN
  BY DEF TypeInv, TypeOK
<1> QED
  BY <1>1 DEF Publish, Enqueue, streamVars

LEMMA OwnServer ==
    ASSUME TypeInv, OwnInv, ServerStep
    PROVE  OwnInv'
<1>1. UNCHANGED <<clientVars, monitorVars>>
  BY DEF ServerStep, Post, RemoteFrame, Check, Attach, Detach, ServerRestart
<1> DEFINE Kept == open' \/ queue' # <<>> => open \/ queue # <<>>
<1>2. Kept
  <2>1. ASSUME NEW e \in Beats, Post(e) PROVE Kept
    <3>1. e \in Events /\ Publish("local", e)
      BY <2>1, EnvelopeTaken DEF Post, Events
    <3> QED
      BY <3>1, PublishStream
  <2>2. ASSUME NEW m \in Machines, Check(m) PROVE Kept
    <3>1. Offline(m, now) \in Events
      BY DEF TypeInv, TypeOK, Events, Reports, Offline
    <3>2. Publish("local", Offline(m, now))
      BY <2>2, EnvelopeTaken DEF Check
    <3> QED
      BY <3>1, <3>2, PublishStream
  <2>3. ASSUME NEW e \in Beats, RemoteFrame(e) PROVE Kept
    BY <2>3, FrameRefused DEF RemoteFrame
  <2>4. CASE Attach \/ Detach \/ ServerRestart
    BY <2>4 DEF Attach, Detach, ServerRestart, streamVars
  <2> QED
    BY <2>1, <2>2, <2>3, <2>4 DEF ServerStep
<1> QED
  BY <1>1, <1>2, OwnSame

LEMMA OwnClient ==
    ASSUME TypeInv, OwnInv, Connect \/ Disconnect \/ ClientStep \/ UNCHANGED vars
    PROVE  OwnInv'
<1>0. /\ op \in Nat /\ op <= MaxOps /\ MaxOps \in Nat /\ client \in {0, op}
      /\ Ops = 1 .. MaxOps /\ DOMAIN pc = Ops
      /\ \A places : At(places) => client = op /\ op \in Ops /\ pc[op] \in places
  BY FeedAssumption DEF TypeInv, TypeOK, FeedAssumption, At, Ops
<1>g. ASSUME NEW place, Goto(place), op \in Ops
      PROVE  pc'[op] = place /\ \A c \in Ops \ {op} : pc'[c] = pc[c]
  BY <1>g, <1>0 DEF Goto
<1>n. StatusIsOwn /\ (open \/ queue # <<>> => At({"reading"}))
      /\ (\A c \in Ops : c > op => pc[c] = "new")
      /\ (op \in Ops /\ pc[op] = "start" => client = op)
      /\ (status = "error" => op \in Ops)
  BY DEF OwnInv
<1>1. ASSUME NEW new \in BOOLEAN, NEW state,
             state = (IF new THEN "connecting" ELSE "idle"), Operation(new, state)
      PROVE  OwnInv'
  <2>1. op < MaxOps /\ op' = op + 1 /\ op' \in Ops
    BY <1>1, <1>0 DEF Operation
  <2>2. /\ client' = IF new THEN op' ELSE 0
        /\ status' = state /\ shown' = NoView
        /\ open' = FALSE /\ queue' = <<>>
    BY <1>1 DEF Operation
  <2>3. pc' = [c \in Ops |-> IF new /\ c = op' THEN "start"
                            ELSE IF pc[c] \in {"new", "start"} THEN pc[c] ELSE "ended"]
    BY <1>1 DEF Operation
  <2>4. pc[op'] = "new"
    BY <2>1, <1>0, <1>n
  <2>5. pc'[op'] = IF new THEN "start" ELSE "new"
    BY <2>1, <2>3, <2>4
  <2>6. \A c \in Ops : c > op' => pc'[c] = "new"
    BY <2>1, <2>3, <1>0, <1>n
  <2> QED
    BY <1>1, <2>1, <2>2, <2>5, <2>6 DEF OwnInv, StatusIsOwn
<1>2. CASE Snapshot \/ Subscribe \/ Retry
  <2>1. op \in Ops /\ client = op /\ op # 0
    BY <1>2, <1>0 DEF Snapshot, Subscribe, Retry, At
  <2>2. PICK place \in {"started", "refreshed", "reading", "refresh"} :
           /\ Goto(place)
           /\ place = "started" => pc[op] = "start"
           /\ place = "refreshed" => pc[op] = "refresh"
           /\ place = "reading" => pc[op] = "connecting"
           /\ place = "refresh" => pc[op] = "backoff"
           /\ open' \/ queue' # <<>> => place = "reading" \/ open \/ queue # <<>>
    BY <1>2 DEF Snapshot, Subscribe, Retry, At, streamVars
  <2>3. pc'[op] = place /\ \A c \in Ops \ {op} : pc'[c] = pc[c]
    BY <2>1, <2>2, <1>g
  <2>4. UNCHANGED <<view, op, client, status, shown>>
    BY <1>2 DEF Snapshot, Subscribe, Retry, monitorVars
  <2>5. open' \/ queue' # <<>> => place = "reading"
    BY <2>2, <1>n DEF At
  <2> QED
    BY <2>1, <2>2, <2>3, <2>4, <2>5, <1>0, <1>n DEF OwnInv, StatusIsOwn, At
<1>3. CASE Take
  <2>1. op \in Ops /\ client = op /\ op # 0 /\ pc[op] \in {"started", "refreshed"}
    BY <1>3, <1>0 DEF Take, At
  <2>2. pc'[op] = "connecting" /\ \A c \in Ops \ {op} : pc'[c] = pc[c]
    BY <1>3, <2>1, <1>g DEF Take
  <2>3. /\ shown' = view' /\ status' \in {"connected", "degraded"}
        /\ UNCHANGED <<op, client, open, queue>>
    BY <1>3 DEF Take, Emit, streamVars
  <2>4. ~ open /\ queue = <<>>
    BY <2>1, <1>n DEF At
  <2> QED
    BY <2>1, <2>2, <2>3, <2>4, <1>0, <1>n DEF OwnInv, StatusIsOwn, At
<1>4. CASE Read
  <2>1. op \in Ops /\ client = op /\ op # 0 /\ pc[op] = "reading"
    BY <1>4, <1>0 DEF Read, At
  <2>2. UNCHANGED <<pc, op, client>>
    BY <1>4 DEF Read, Emit, monitorVars
  <2>3. \/ UNCHANGED <<view, status, shown>>
        \/ shown' = view' /\ status' \in {"connected", "degraded"}
    BY <1>4 DEF Read, Emit, monitorVars
  <2> QED
    BY <2>1, <2>2, <2>3, <1>0, <1>n DEF OwnInv, StatusIsOwn, At
<1>5. CASE Break
  <2>1. op \in Ops /\ client = op /\ op # 0
    BY <1>5, <1>0 DEF Break, At
  <2>2. pc'[op] = "backoff" /\ \A c \in Ops \ {op} : pc'[c] = pc[c]
    BY <1>5, <2>1, <1>g DEF Break
  <2>3. view \in Views
    BY DEF TypeInv, TypeOK
  <2>4. view'.forced = TRUE
    BY <1>5, <2>3 DEF Break, Views
  <2>5. /\ shown' = view' /\ status' = "degraded"
        /\ UNCHANGED <<op, client>> /\ open' = FALSE /\ queue' = <<>>
    BY <1>5, <2>4 DEF Break, Emit
  <2> QED
    BY <2>1, <2>2, <2>5, <1>0, <1>n DEF OwnInv, StatusIsOwn, At
<1>6. ASSUME NEW c \in Ops, StartFails(c) PROVE OwnInv'
  <2>1. pc'[c] = "ended" /\ \A d \in Ops \ {c} : pc'[d] = pc[d]
    BY <1>6, <1>0 DEF StartFails
  <2>2. UNCHANGED <<open, queue, view, op>>
    BY <1>6 DEF StartFails, streamVars, monitorVars
  <2>3. pc[c] \in {"start", "started"} /\ (c # client => pc[c] = "start")
    BY <1>6 DEF StartFails
  <2>4. c <= op
    BY <2>3, <1>0, <1>n
  <2>5. CASE c = op
    <3>1. client' = 0 /\ status' = "error" /\ shown' = NoView
      BY <1>6, <2>5 DEF StartFails
    <3>2. ~ open /\ queue = <<>>
      BY <2>3, <2>5, <1>n DEF At
    <3> QED
      BY <2>1, <2>2, <2>5, <3>1, <3>2, <1>0, <1>n DEF OwnInv, StatusIsOwn
  <2>6. CASE c # op
    <3>1. UNCHANGED <<client, status, shown>>
      BY <1>6, <2>6 DEF StartFails, monitorVars
    <3>2. op \in Ops /\ pc'[op] = pc[op]
      BY <2>1, <2>4, <2>6, <1>0
    <3> QED
      BY <2>1, <2>2, <2>4, <2>6, <3>1, <3>2, <1>0, <1>n DEF OwnInv, StatusIsOwn, At
  <2> QED
    BY <2>5, <2>6
<1>7. CASE UNCHANGED vars
  BY <1>7, OwnSame DEF vars, streamVars
<1>8. CASE Connect
  <2>1. Operation(TRUE, "connecting")
    BY <1>8 DEF Connect
  <2> QED
    BY <2>1, <1>1
<1>9. CASE Disconnect
  BY <1>9, <1>1 DEF Disconnect
<1> QED
  BY <1>2, <1>3, <1>4, <1>5, <1>6, <1>7, <1>8, <1>9 DEF ClientStep

LEMMA OwnInit == Init => OwnInv
<1> SUFFICES ASSUME Init PROVE OwnInv
  OBVIOUS
<1>1. /\ open = FALSE /\ queue = <<>> /\ op = 0 /\ client = 0 /\ status = "idle"
      /\ shown = NoView /\ \A c \in Ops : pc[c] = "new"
  BY DEF Init
<1>2. op \notin Ops
  BY <1>1 DEF Ops
<1> QED
  BY <1>1, <1>2 DEF OwnInv, StatusIsOwn

LEMMA OwnInvariant == Spec => [](TypeInv /\ OwnInv)
<1>1. Init => TypeInv /\ OwnInv
  BY TypeInit, OwnInit
<1>2. TypeInv /\ OwnInv /\ [Next]_vars => (TypeInv /\ OwnInv)'
  BY TypeNext, OwnServer, OwnClient DEF Next
<1> QED
  BY <1>1, <1>2, PTL DEF Spec

\* StatusIsOwn: what the monitor shows is the current operation's, whatever the
\* clients of older operations still do.
THEOREM StatusIsTheOperations == Spec => []StatusIsOwn
<1>1. OwnInv => StatusIsOwn
  BY DEF OwnInv
<1> QED
  BY <1>1, OwnInvariant, PTL

-----------------------------------------------------------------------------
(* What the client follows *)

\* The chunk at place i is an event of m that the client has not seen.
Unseen(i, m) == queue[i].machine = m /\ queue[i] \notin seen

\* What the client will show of m once it has read its stream is the server's
\* status: the last unseen chunk of m says so, or what is shown already.
LastSays(i, m) ==
    /\ Unseen(i, m) /\ queue[i].status = Unified[m]
    /\ \A j \in DOMAIN queue : j > i => ~ Unseen(j, m)
Brings(m) ==
    \/ \E i \in DOMAIN queue : LastSays(i, m)
    \/ (\A i \in DOMAIN queue : ~ Unseen(i, m)) /\ view.on[m] = Unified[m]

\* A snapshot under way, a snapshot taken and a stream agree with the server;
\* the chunks of a stream differ and are in the server's log.
Chunks ==
    /\ \A i \in DOMAIN queue : queue[i] \in log["local"]
    /\ \A i, j \in DOMAIN queue : queue[i] = queue[j] => i = j
Follows(m) ==
    /\ At({"started", "refreshed"}) => answer[m] = Unified[m]
    /\ At({"connecting"}) => view.on[m] = Unified[m]
    /\ open => Brings(m)
FollowInv == Chunks /\ \A m \in Machines \ off : Follows(m)

\* Steps that change nothing that the invariant reads.
LEMMA FollowSame ==
    ASSUME FollowInv, UNCHANGED <<open, queue, pc, view, seen, answer, op, client, off>>,
           log'["local"] = log["local"], Unified' = Unified
    PROVE  FollowInv'
BY DEF FollowInv, Chunks, Follows, Brings, LastSays, Unseen, At

\* What an event does to the server's status of each machine.
LEMMA PublishUnified ==
    ASSUME TypeInv, TypeInv', NEW e \in Events, e \notin log["local"], Publish("local", e)
    PROVE  \A m \in Machines :
              Unified'[m] = IF m = e.machine /\ Newest(log["local"], e) THEN e.status
                            ELSE Unified[m]
<1>1. log["local"] \in SUBSET Events /\ HasNewest(log["local"])
  BY DEF TypeInv, LogInv, TypeOK, Nodes
<1>2. log' = [log EXCEPT !["local"] = @ \cup {e}]
  BY PublishLocal
<1>3. log'["local"] = log["local"] \cup {e} /\ log'["remote"] = {}
  BY <1>2 DEF TypeInv, LogInv, TypeOK, Nodes
<1>4. Unified' = Projection(log["local"] \cup {e})
  <2>1. log'["local"] \cup log'["remote"] = log["local"] \cup {e}
    BY <1>3
  <2> QED
    BY <2>1 DEF Unified
<1>5. Unified = Projection(log["local"])
  BY UnifiedType
<1> QED
  BY <1>1, <1>4, <1>5, ProjectionStep

\* A step that leaves the server's log alone leaves its statuses alone.
LEMMA UnifiedSame ==
    ASSUME log' = log
    PROVE  Unified' = Unified
BY DEF Unified, Projection, Newest, Before

LEMMA FollowPublish ==
    ASSUME TypeInv, TypeInv', OwnInv, FollowInv, NEW e \in Events,
           Publish("local", e), UNCHANGED <<clientVars, monitorVars>>
    PROVE  FollowInv'
<1>0. UNCHANGED <<pc, view, seen, answer, op, client>>
  BY DEF clientVars, monitorVars
<1>1. CASE e \in log["local"]
  <2>1. log' = log /\ UNCHANGED <<open, queue, off>>
    BY <1>1 DEF Publish, streamVars
  <2> QED
    BY <2>1, <1>0, UnifiedSame, FollowSame
<1>2. CASE e \notin log["local"]
  <2> DEFINE newest == Newest(log["local"], e)
             follows == open /\ e \notin seen
  <2>n. PICK n \in Nat : n = Len(queue)
    BY DEF TypeInv, TypeOK
  <2>1. \A m \in Machines :
           Unified'[m] = IF m = e.machine /\ newest THEN e.status ELSE Unified[m]
    BY <1>2, PublishUnified
  <2>2. off' = IF newest /\ follows THEN off \ {e.machine}
               ELSE IF newest \/ follows THEN off \cup {e.machine}
               ELSE off
    <3>1. log["local"] \cup log["remote"] = log["local"]
      BY DEF TypeInv, LogInv
    <3> QED
      BY <1>2, <3>1 DEF Publish, NoteOff
  <2>3. log'["local"] = log["local"] \cup {e}
    BY <1>2 DEF Publish, TypeInv, TypeOK, Nodes
  <2>4. queue \in Seq(Events) /\ n \in Nat /\ DOMAIN queue = 1 .. n /\ open \in BOOLEAN
    BY <2>n DEF TypeInv, TypeOK
  <2>5. e.machine \in Machines
    BY EventParts
  <2> HIDE DEF newest
  <2>6. \/ open' = FALSE /\ queue' = queue
        \/ open /\ open' = TRUE /\ queue' = Append(queue, e)
    BY <1>2, <2>4 DEF Publish, Enqueue
  <2>7. CASE open' = FALSE /\ queue' = queue
    <3>1. Chunks'
      BY <2>7, <2>3 DEF Chunks, FollowInv
    <3>2. ASSUME NEW m \in Machines \ off' PROVE Follows(m)'
      <4>1. CASE open
        <5>1. At({"reading"})
          BY <4>1 DEF OwnInv
        <5> QED
          BY <5>1, <2>7, <1>0 DEF Follows, At
      <4>2. CASE ~ open
        <5>1. m \notin off /\ ~ (m = e.machine /\ newest)
          BY <4>2, <2>2
        <5>2. Unified'[m] = Unified[m]
          BY <5>1, <2>1
        <5> QED
          BY <5>1, <5>2, <2>7, <1>0 DEF Follows, At, FollowInv
      <4> QED
        BY <4>1, <4>2
    <3> QED
      BY <3>1, <3>2 DEF FollowInv
  <2>8. CASE open /\ open' = TRUE /\ queue' = Append(queue, e)
    <3>1. /\ DOMAIN queue' = 1 .. n + 1
          /\ \A i \in 1 .. n : queue'[i] = queue[i]
          /\ queue'[n + 1] = e
      BY <2>4, <2>8, <2>n
    <3>2. \A i \in 1 .. n : queue[i] # e
      BY <1>2, <2>4 DEF FollowInv, Chunks
    <3>3. Chunks'
      <4>1. ASSUME NEW i \in 1 .. n + 1 PROVE queue'[i] \in log'["local"]
        BY <2>3, <2>4, <3>1 DEF FollowInv, Chunks
      <4>2. ASSUME NEW i \in 1 .. n + 1, NEW j \in 1 .. n + 1, queue'[i] = queue'[j]
            PROVE  i = j
        BY <4>2, <2>4, <3>1, <3>2 DEF FollowInv, Chunks
      <4> QED
        BY <3>1, <4>1, <4>2 DEF Chunks
    <3>4. \A m \in Machines : \A i \in 1 .. n : Unseen(i, m)' <=> Unseen(i, m)
      BY <3>1, <1>0 DEF Unseen
    <3>5. \A m \in Machines : Unseen(n + 1, m)' <=> m = e.machine /\ e \notin seen
      BY <3>1, <1>0 DEF Unseen
    <3>6. ASSUME NEW m \in Machines \ off' PROVE Brings(m)'
      <4>1. CASE m = e.machine /\ newest
        <5>1. e \notin seen
          BY <4>1, <2>2
        <5>2. LastSays(n + 1, m)'
          BY <5>1, <4>1, <3>1, <3>5, <2>1, <2>4 DEF LastSays
        <5> QED
          BY <5>2, <3>1, <2>4 DEF Brings
      <4>2. CASE ~ (m = e.machine /\ newest)
        <5>1. m \notin off
          BY <4>2, <2>2
        <5>2. ~ Unseen(n + 1, m)'
          BY <3>5, <4>2, <2>2, <2>8
        <5>3. Unified'[m] = Unified[m]
          BY <4>2, <2>1
        <5>4. Brings(m)
          BY <5>1, <2>8 DEF FollowInv, Follows
        <5>5. ASSUME NEW i \in 1 .. n, LastSays(i, m) PROVE LastSays(i, m)'
          BY <5>5, <5>2, <5>3, <3>1, <3>4, <2>4 DEF LastSays
        <5> QED
          BY <5>2, <5>3, <5>4, <5>5, <3>1, <3>4, <2>4, <1>0 DEF Brings
      <4> QED
        BY <4>1, <4>2
    <3>7. ~ At({"started", "refreshed"})' /\ ~ At({"connecting"})'
      BY <2>8, <1>0 DEF OwnInv, At
    <3> QED
      BY <3>3, <3>6, <3>7 DEF FollowInv, Follows
  <2> QED
    BY <2>6, <2>7, <2>8
<1> QED
  BY <1>1, <1>2

LEMMA FollowServer ==
    ASSUME TypeInv, TypeInv', OwnInv, OwnInv', FollowInv, ServerStep
    PROVE  FollowInv'
<1>1. ASSUME NEW e \in Beats, Post(e) PROVE FollowInv'
  <2>1. e \in Events /\ Publish("local", e) /\ UNCHANGED <<clientVars, monitorVars>>
    BY <1>1, EnvelopeTaken DEF Post, Events
  <2> QED
    BY <2>1, FollowPublish
<1>2. ASSUME NEW m \in Machines, Check(m) PROVE FollowInv'
  <2>1. Offline(m, now) \in Events
    BY DEF TypeInv, TypeOK, Events, Reports, Offline
  <2>2. Publish("local", Offline(m, now)) /\ UNCHANGED <<clientVars, monitorVars>>
    BY <1>2, EnvelopeTaken DEF Check
  <2> QED
    BY <2>1, <2>2, FollowPublish
<1>3. ASSUME NEW e \in Beats, RemoteFrame(e) PROVE FollowInv'
  <2>1. UNCHANGED <<log, open, queue, off>> /\ UNCHANGED <<clientVars, monitorVars>>
    BY <1>3, FrameRefused DEF RemoteFrame
  <2> QED
    BY <2>1, UnifiedSame, FollowSame DEF clientVars, monitorVars
<1>4. CASE Attach
  <2>1. UNCHANGED <<log, open, queue, off>> /\ UNCHANGED <<clientVars, monitorVars>>
    BY <1>4 DEF Attach, streamVars, history
  <2> QED
    BY <2>1, UnifiedSame, FollowSame DEF clientVars, monitorVars
<1>5. CASE Detach
  <2>1. log' = log
    BY <1>5 DEF Detach, TypeInv, TypeOK, LogInv, Nodes
  <2>2. UNCHANGED <<open, queue, off>> /\ UNCHANGED <<clientVars, monitorVars>>
    BY <1>5 DEF Detach, streamVars
  <2> QED
    BY <2>1, <2>2, UnifiedSame, FollowSame DEF clientVars, monitorVars
<1>6. CASE ServerRestart
  <2>1. queue' = <<>> /\ off' = Machines
    BY <1>6 DEF ServerRestart
  <2>2. DOMAIN queue' = {}
    BY <2>1
  <2> QED
    BY <2>1, <2>2 DEF FollowInv, Chunks
<1> QED
  BY <1>1, <1>2, <1>3, <1>4, <1>5, <1>6 DEF ServerStep

LEMMA FollowRead ==
    ASSUME TypeInv, OwnInv, OwnInv', FollowInv, Read
    PROVE  FollowInv'
<1> DEFINE e == Head(queue)
           n == Len(queue)
<1>1. /\ queue \in Seq(Events) /\ n \in Nat \ {0} /\ DOMAIN queue = 1 .. n
      /\ e = queue[1] /\ e \in Events
  BY DEF Read, TypeInv, TypeOK
<1>2. /\ DOMAIN queue' = 1 .. n - 1
      /\ \A i \in 1 .. n - 1 : queue'[i] = queue[i + 1]
  BY <1>1 DEF Read
<1> HIDE DEF e, n
<1>3. /\ UNCHANGED <<log, open, off, pc, op, client>> /\ seen' = seen \cup {e}
      /\ At({"reading"})
  BY DEF Read, serverVars, history, monitorVars, Emit, e
<1>4. Unified' = Unified
  BY <1>3, UnifiedSame
<1>5. view.on \in [Machines -> Statuses] /\ e.machine \in Machines
  BY <1>1, EventParts DEF TypeInv, TypeOK, Views
<1>6. \A m \in Machines :
         view'.on[m] = IF Unseen(1, m) THEN e.status ELSE view.on[m]
  <2>1. CASE e \in seen
    <3>1. view' = view
      BY <2>1 DEF Read, e
    <3> QED
      BY <2>1, <3>1, <1>1 DEF Unseen
  <2>2. CASE e \notin seen
    <3>1. view' = [on |-> [view.on EXCEPT ![e.machine] = e.status], forced |-> FALSE]
      BY <2>2 DEF Read, e
    <3> QED
      BY <2>2, <3>1, <1>1, <1>5 DEF Unseen
  <2> QED
    BY <2>1, <2>2
<1>7. Chunks'
  <2>1. ASSUME NEW i \in 1 .. n - 1 PROVE queue'[i] \in log'["local"]
    <3>1. i + 1 \in DOMAIN queue /\ queue'[i] = queue[i + 1]
      BY <1>1, <1>2
    <3> QED
      BY <3>1, <1>3 DEF FollowInv, Chunks
  <2>2. ASSUME NEW i \in 1 .. n - 1, NEW j \in 1 .. n - 1, queue'[i] = queue'[j]
        PROVE  i = j
    <3>1. i + 1 \in DOMAIN queue /\ j + 1 \in DOMAIN queue /\ queue[i + 1] = queue[j + 1]
      BY <2>2, <1>1, <1>2
    <3>2. i + 1 = j + 1
      BY <3>1 DEF FollowInv, Chunks
    <3> QED
      BY <3>2
  <2> QED
    BY <1>2, <2>1, <2>2 DEF Chunks
<1>8. \A m \in Machines : \A i \in 1 .. n - 1 : Unseen(i, m)' <=> Unseen(i + 1, m)
  <2> TAKE m \in Machines
  <2> TAKE i \in 1 .. n - 1
  <2>1. i + 1 \in DOMAIN queue /\ 1 \in DOMAIN queue /\ i + 1 # 1
    BY <1>1
  <2>2. queue[i + 1] # queue[1]
    BY <2>1 DEF FollowInv, Chunks
  <2> QED
    BY <2>2, <1>1, <1>2, <1>3 DEF Unseen
<1>9. ASSUME NEW m \in Machines, Brings(m) PROVE Brings(m)'
  <2>1. ASSUME NEW i \in DOMAIN queue, i # 1, LastSays(i, m) PROVE Brings(m)'
    <3>1. i - 1 \in 1 .. n - 1 /\ (i - 1) + 1 = i
      BY <2>1, <1>1
    <3>2. Unseen(i - 1, m)' /\ queue'[i - 1] = queue[i]
      BY <3>1, <2>1, <1>8, <1>2 DEF LastSays
    <3>3. ASSUME NEW j \in 1 .. n - 1, j > i - 1 PROVE ~ Unseen(j, m)'
      <4>1. j + 1 \in DOMAIN queue /\ j + 1 > i
        BY <3>3, <2>1, <1>1
      <4>2. ~ Unseen(j + 1, m)
        BY <4>1, <2>1 DEF LastSays
      <4> QED
        BY <4>2, <1>8
    <3>4. LastSays(i - 1, m)'
      BY <3>2, <3>3, <2>1, <1>2, <1>4 DEF LastSays
    <3> QED
      BY <3>1, <3>4, <1>2 DEF Brings
  <2>2. CASE LastSays(1, m)
    <3>1. view'.on[m] = Unified[m]
      BY <2>2, <1>1, <1>6 DEF LastSays
    <3>2. \A i \in 1 .. n - 1 : ~ Unseen(i, m)'
      BY <2>2, <1>1, <1>8 DEF LastSays
    <3> QED
      BY <3>1, <3>2, <1>2, <1>4 DEF Brings
  <2>3. CASE (\A i \in DOMAIN queue : ~ Unseen(i, m)) /\ view.on[m] = Unified[m]
    <3>1. view'.on[m] = Unified[m]
      BY <2>3, <1>1, <1>6
    <3>2. \A i \in 1 .. n - 1 : ~ Unseen(i, m)'
      BY <2>3, <1>1, <1>8
    <3> QED
      BY <3>1, <3>2, <1>2, <1>4 DEF Brings
  <2> QED
    BY <1>9, <2>1, <2>2, <2>3 DEF Brings
<1>10. ~ At({"started", "refreshed"})' /\ ~ At({"connecting"})'
  BY <1>3 DEF At
<1> QED
  BY <1>3, <1>7, <1>9, <1>10 DEF FollowInv, Follows

LEMMA FollowClient ==
    ASSUME TypeInv, OwnInv, OwnInv', FollowInv,
           Connect \/ Disconnect \/ ClientStep \/ UNCHANGED vars
    PROVE  FollowInv'
<1>0. /\ op \in Nat /\ DOMAIN pc = Ops
      /\ \A places : At(places) => client = op /\ op \in Ops /\ pc[op] \in places
      /\ queue # <<>> \/ open => At({"reading"})
  BY DEF TypeInv, TypeOK, At, Ops, OwnInv
<1>e. queue = <<>> => DOMAIN queue = {}
  OBVIOUS
<1>p. queue' = <<>> => DOMAIN queue' = {}
  OBVIOUS
<1>g. ASSUME NEW place, Goto(place), op \in Ops PROVE pc'[op] = place
  BY <1>g, <1>0 DEF Goto
<1>1. ASSUME NEW new, NEW state, Operation(new, state) PROVE FollowInv'
  <2>1. /\ queue' = <<>> /\ open' = FALSE /\ op' = op + 1 /\ op < MaxOps
        /\ pc' = [c \in Ops |-> IF new /\ c = op' THEN "start"
                                ELSE IF pc[c] \in {"new", "start"} THEN pc[c] ELSE "ended"]
    BY <1>1 DEF Operation
  <2>2. op' \in Ops /\ pc[op'] = "new"
    BY <2>1, <1>0, FeedAssumption DEF OwnInv, Ops, FeedAssumption
  <2>3. pc'[op'] \in {"start", "new"}
    BY <2>1, <2>2
  <2> QED
    BY <2>1, <2>3, <1>p DEF FollowInv, Chunks, Follows, At
<1>2. CASE Snapshot
  <2>1. op \in Ops /\ client = op /\ ~ open /\ queue = <<>>
    BY <1>2, <1>0 DEF Snapshot, At
  <2>2. pc'[op] \in {"started", "refreshed"}
    BY <1>2, <2>1, <1>g DEF Snapshot
  <2>3. UNCHANGED <<log, open, queue, op, client>> /\ answer' = Unified
    BY <1>2 DEF Snapshot, serverVars, streamVars, monitorVars
  <2>4. Unified' = Unified
    BY <2>3, UnifiedSame
  <2> QED
    BY <2>1, <2>2, <2>3, <2>4, <1>e DEF FollowInv, Chunks, Follows, At
<1>3. CASE Take
  <2>1. op \in Ops /\ client = op /\ ~ open /\ queue = <<>> /\ At({"started", "refreshed"})
    BY <1>3, <1>0 DEF Take, At
  <2>2. pc'[op] = "connecting"
    BY <1>3, <2>1, <1>g DEF Take
  <2>3. UNCHANGED <<log, open, queue, op, client, off>> /\ view'.on = answer
    BY <1>3 DEF Take, serverVars, streamVars, Emit, history
  <2>4. Unified' = Unified
    BY <2>3, UnifiedSame
  <2> QED
    BY <2>1, <2>2, <2>3, <2>4, <1>e DEF FollowInv, Chunks, Follows, At
<1>4. CASE Subscribe
  <2>1. op \in Ops /\ client = op /\ ~ open /\ queue = <<>> /\ At({"connecting"})
    BY <1>4, <1>0 DEF Subscribe, At
  <2>2. pc'[op] = "reading"
    BY <1>4, <2>1, <1>g DEF Subscribe
  <2>3. UNCHANGED <<log, queue, op, client, off, view>>
    BY <1>4 DEF Subscribe, serverVars, monitorVars, history
  <2>4. Unified' = Unified
    BY <2>3, UnifiedSame
  <2>5. DOMAIN queue' = {}
    BY <2>1, <2>3, <1>e
  <2> QED
    BY <2>1, <2>2, <2>3, <2>4, <2>5 DEF FollowInv, Chunks, Follows, At, Brings
<1>5. CASE Break
  <2>1. queue' = <<>> /\ open' = FALSE /\ UNCHANGED <<op, client>> /\ op \in Ops
    BY <1>5, <1>0 DEF Break, Emit
  <2>2. pc'[op] = "backoff"
    BY <1>5, <2>1, <1>g DEF Break
  <2> QED
    BY <2>1, <2>2, <1>p DEF FollowInv, Chunks, Follows, At
<1>6. CASE Retry
  <2>1. op \in Ops /\ ~ open /\ queue = <<>>
    BY <1>6, <1>0 DEF Retry, At
  <2>2. pc'[op] = "refresh" /\ UNCHANGED <<open, queue, op, client>>
    BY <1>6, <2>1, <1>g DEF Retry, streamVars, monitorVars
  <2> QED
    BY <2>1, <2>2, <1>e DEF FollowInv, Chunks, Follows, At
<1>7. ASSUME NEW c \in Ops, StartFails(c) PROVE FollowInv'
  <2>1. UNCHANGED <<log, open, queue, view, seen, answer, off, op>>
    BY <1>7 DEF StartFails, serverVars, streamVars, history, monitorVars
  <2>2. Unified' = Unified
    BY <2>1, UnifiedSame
  <2>3. \A m \in Machines : Brings(m)' <=> Brings(m)
    BY <2>1, <2>2 DEF Brings, LastSays, Unseen
  <2>4. \A places : "ended" \notin places /\ At(places)' => At(places)
    <3>1. /\ client' \in {client, 0} /\ \A d \in Ops \ {c} : pc'[d] = pc[d]
          /\ pc'[c] = "ended"
      BY <1>7, <1>0 DEF StartFails, monitorVars
    <3> SUFFICES ASSUME NEW places, "ended" \notin places, At(places)' PROVE At(places)
      OBVIOUS
    <3>2. client' = op /\ op # 0 /\ pc'[op] \in places
      BY <2>1 DEF At
    <3>3. client = op
      BY <3>1, <3>2
    <3>4. op \in Ops /\ op # c
      BY <3>1, <3>2, <2>1, FeedAssumption DEF TypeInv, TypeOK, Ops, FeedAssumption
    <3> QED
      BY <3>1, <3>2, <3>3, <3>4 DEF At
  <2>5. At({"started", "refreshed"})' => At({"started", "refreshed"})
    BY <2>4
  <2>6. At({"connecting"})' => At({"connecting"})
    BY <2>4
  <2> QED
    BY <2>1, <2>2, <2>3, <2>5, <2>6 DEF FollowInv, Chunks, Follows
<1>8. CASE UNCHANGED vars
  BY <1>8, UnifiedSame, FollowSame
  DEF vars, serverVars, streamVars, clientVars, monitorVars, history
<1>9. CASE Connect \/ Disconnect
  BY <1>9, <1>1 DEF Connect, Disconnect
<1> QED
  BY <1>2, <1>3, <1>4, <1>5, <1>6, <1>7, <1>8, <1>9, FollowRead DEF ClientStep

LEMMA FollowInit == Init => FollowInv
<1> SUFFICES ASSUME Init PROVE FollowInv
  OBVIOUS
<1>1. /\ queue = <<>> /\ open = FALSE /\ op = 0
  BY DEF Init
<1>2. DOMAIN queue = {}
  BY <1>1
<1> QED
  BY <1>1, <1>2 DEF FollowInv, Chunks, Follows, At

\* ViewsAgree: a client that has read all of its open stream shows the server's
\* status of each machine, but for those of which it missed an event or got one
\* out of the order of their times.
THEOREM ViewsAgreeWithServer == Spec => []ViewsAgree
<1> DEFINE Inv == TypeInv /\ OwnInv /\ FollowInv
<1>1. Init => Inv
  BY TypeInit, OwnInit, FollowInit
<1>2. Inv /\ [Next]_vars => Inv'
  BY TypeNext, OwnServer, OwnClient, FollowServer, FollowClient DEF Next
<1>3. Inv => ViewsAgree
  <2> SUFFICES ASSUME Inv, status \in {"connected", "degraded"}, open, queue = <<>>,
                      NEW m \in Machines \ off
               PROVE  shown.on[m] = Unified[m]
    BY DEF ViewsAgree
  <2>1. shown = view
    BY DEF OwnInv, StatusIsOwn
  <2>2. Brings(m) /\ DOMAIN queue = {}
    BY DEF FollowInv, Follows
  <2> QED
    BY <2>1, <2>2 DEF Brings
<1> QED
  BY <1>1, <1>2, <1>3, PTL DEF Spec
=============================================================================
