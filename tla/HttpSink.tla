------------------------------ MODULE HttpSink ------------------------------
(***************************************************************************)
(* The bridge's telemetry sink (HttpSinkAdapter of transports.ts): a       *)
(* bounded queue, one flush at a time with retries and a circuit breaker,  *)
(* and a spool file that the queue is written to behind a debounce timer   *)
(* and read back from after a restart.  Its other end is the server's      *)
(* ingest route, of which only the log without repetitions is kept.        *)
(*                                                                         *)
(* Each action runs from one `await' to the next: promise continuations    *)
(* that follow without I/O in between belong to the same action, or, for   *)
(* the steps of close, let no other action of the process in between.      *)
(***************************************************************************)
EXTENDS Naturals, Sequences, FiniteSets

CONSTANTS
    MaxEvents,     \* BOUND: events offered in a behaviour
    MaxQueueSize, BatchSize, MaxRetries, CircuitBreakerThreshold,
    Writers,       \* BOUND: persist calls of the timer alive at once
    Close,         \* the persist call of close()
    MaxCrashes,    \* BOUND: crashes of the bridge
    MaxStops,      \* BOUND: calls of close()
    MaxFaults      \* BOUND: posts that fail and disk operations that throw

Events == 1..MaxEvents
Slots == Writers \cup {Close}
None == "none"

ASSUME SinkAssumption ==
    /\ MaxEvents \in Nat /\ MaxRetries \in Nat /\ MaxCrashes \in Nat
    /\ MaxStops \in Nat /\ MaxFaults \in Nat
    /\ BatchSize \in Nat \ {0} /\ MaxQueueSize \in Nat /\ BatchSize <= MaxQueueSize
    /\ CircuitBreakerThreshold \in Nat \ {0}
    /\ Close \notin Writers /\ None \notin Slots

VARIABLES
    phase,       \* "up"; "closing" (in close's loop), "awaiting" (its flush),
                 \* "saving" (after the loop), "stopping" (its persist); "down"
    offered,     \* events handed to ingest so far
    accepted,    \* those that ingest took
    queue, chunk,          \* waiting events; the batch that flush has taken
    attempt,               \* of postWithRetry
    before,                \* close's queue length before its flush
    consecutiveFailures, circuitOpen,
    hydrating, loaded,     \* "no", "reading" or "read"; what was read
    timer,                 \* persistTimer is set
    persistInFlight, persistRequested, writer,
    file, tmp,             \* the spool file and its .tmp
    late,                  \* posts that were given up and may still arrive
    log,                   \* events in the server's log
    earlier,               \* those that were in it when the event came in
    fresh,                 \* events accepted since the last start
    hydrated,              \* hydratedCount
    settled,               \* no persist has raced with anything since the start
    crashes, stops, faults

flushVars == <<queue, chunk, attempt, before, consecutiveFailures, circuitOpen>>
hydrateVars == <<hydrating, loaded, hydrated>>
diskVars == <<file, tmp>>
persistVars == <<persistInFlight, persistRequested, writer>>
serverVars == <<late, log, earlier>>
boundVars == <<crashes, stops, faults>>
vars == <<phase, offered, accepted, flushVars, hydrateVars, timer, persistVars, diskVars,
          serverVars, fresh, settled, boundVars>>

Offered == 1..offered

\* A file: whether it exists, whether its text parses, what was written.
Text == [there: BOOLEAN, whole: BOOLEAN, events: Seq(Offered)]
NoFile == [there |-> FALSE, whole |-> FALSE, events |-> << >>]
Truncated == [NoFile EXCEPT !.there = TRUE]

\* A call of persistQueueToDisk: `on' is the call whose promise it awaits,
\* `fd' where the file that it opened is by now.
Writer ==
    [pc: {"idle", "waiting", "opening", "filling", "renaming"},
     snapshot: Seq(Offered), on: Slots \cup {None}, fd: {None, "tmp", "file", "gone"}]
NoCall == [pc |-> "idle", snapshot |-> << >>, on |-> None, fd |-> None]

Elements(s) == {s[i] : i \in DOMAIN s}
Take(s) == SubSeq(s, 1, IF Len(s) < BatchSize THEN Len(s) ELSE BatchSize)
Rest(s) == SubSeq(s, Len(Take(s)) + 1, Len(s))

\* The event loop may run a callback: close is not between two of its awaits.
Runs == phase \in {"up", "awaiting", "stopping"}

Fault == faults < MaxFaults /\ faults' = faults + 1

Init ==
    /\ phase = "up"
    /\ queue = << >> /\ chunk = << >> /\ attempt = 0 /\ before = 0
    /\ consecutiveFailures = 0 /\ circuitOpen = FALSE
    /\ hydrating = "reading" /\ loaded = << >> /\ hydrated = 0
    /\ timer = FALSE
    /\ persistInFlight = None /\ persistRequested = FALSE
    /\ writer = [w \in Slots |-> NoCall]
    /\ fresh = {} /\ settled = TRUE
    /\ offered = 0 /\ accepted = {}
    /\ file = NoFile /\ tmp = NoFile
    /\ late = {} /\ log = {} /\ earlier = [e \in Events |-> {}]
    /\ crashes = 0 /\ stops = 0 /\ faults = 0

-----------------------------------------------------------------------------
(* The queue and its flush *)

\* Mutant: a flush waits for a full batch.
FullBatchesOnly(q) == chunk = << >> /\ Len(q) >= BatchSize /\ ~circuitOpen

CanFlush(q) == chunk = << >> /\ q # << >> /\ ~circuitOpen

\* flush() up to its first await, on a queue that is now q.
StartFlush(q) ==
    /\ queue' = Rest(q) /\ chunk' = Take(q) /\ attempt' = 0

Full == Len(queue) >= MaxQueueSize

\* ingest: a full queue refuses the event, a full batch starts a flush.
Enqueue ==
    /\ Runs
    /\ offered < MaxEvents
    /\ offered' = offered + 1
    /\ \/ /\ Full
          /\ UNCHANGED <<queue, chunk, attempt, timer, accepted, fresh>>
       \/ /\ ~Full
          /\ timer' = TRUE
          /\ accepted' = accepted \cup {offered'} /\ fresh' = fresh \cup {offered'}
          /\ LET q == Append(queue, offered')
             IN IF Len(q) >= BatchSize /\ CanFlush(q) THEN StartFlush(q)
                ELSE queue' = q /\ UNCHANGED <<chunk, attempt>>
    /\ UNCHANGED <<phase, before, consecutiveFailures, circuitOpen, hydrateVars,
                   persistVars, diskVars, serverVars, settled, boundVars>>

\* The flush timer, or the bridge's own tick, which close does not wait for.
Flush ==
    /\ Runs
    /\ CanFlush(queue)
    /\ StartFlush(queue)
    /\ UNCHANGED <<phase, offered, accepted, before, consecutiveFailures, circuitOpen, hydrateVars,
                   timer, persistVars, diskVars, serverVars, fresh, settled, boundVars>>

\* close's loop goes on after its flush unless the queue is as long as before.
AfterFlush(q) ==
    phase' = CASE phase # "awaiting" -> phase
               [] phase = "awaiting" /\ Len(q) = before -> "saving"
               [] phase = "awaiting" /\ Len(q) # before -> "closing"

\* Mutant: a success leaves the spool as it is.
SuccessUnsaved ==
    /\ consecutiveFailures' = 0 /\ circuitOpen' = FALSE
    /\ chunk' = << >> /\ UNCHANGED queue
    /\ UNCHANGED timer
    /\ AfterFlush(queue)

FlushSucceeded ==
    /\ consecutiveFailures' = 0 /\ circuitOpen' = FALSE
    /\ chunk' = << >> /\ UNCHANGED queue
    /\ timer' = TRUE
    /\ AfterFlush(queue)

\* Mutant: a chunk that failed goes to the back of the queue.
RequeueAtBack(c, q) == q \o c

Requeue(c, q) == c \o q

\* Mutant: the circuit opens one failure too late.
TripsTooLate == consecutiveFailures + 1 > CircuitBreakerThreshold

Trips == consecutiveFailures + 1 >= CircuitBreakerThreshold

FlushFailed ==
    /\ IF Trips THEN circuitOpen' = TRUE /\ consecutiveFailures' = 0
                ELSE consecutiveFailures' = consecutiveFailures + 1 /\ UNCHANGED circuitOpen
    /\ queue' = Requeue(chunk, queue) /\ chunk' = << >>
    /\ timer' = TRUE
    /\ AfterFlush(queue')

\* Mutant: the last retry does not give the chunk back.
RetryForgets ==
    \/ /\ attempt < MaxRetries
       /\ attempt' = attempt + 1
       /\ UNCHANGED <<phase, queue, chunk, consecutiveFailures, circuitOpen, timer>>
    \/ /\ attempt = MaxRetries
       /\ FlushSucceeded
       /\ UNCHANGED attempt

\* A transient failure of postWithRetry: back off and try again, or give up.
Retry ==
    \/ /\ attempt < MaxRetries
       /\ attempt' = attempt + 1
       /\ UNCHANGED <<phase, queue, chunk, consecutiveFailures, circuitOpen, timer>>
    \/ /\ attempt = MaxRetries
       /\ FlushFailed
       /\ UNCHANGED attempt

\* The events of s before its first f.
Before(s, f) == {s[i] : i \in {k \in DOMAIN s : \A h \in 1..k : s[h] # f}}

\* The server ingests a batch in one go and drops what the log has.
Ingest(s) ==
    /\ log' = log \cup Elements(s)
    /\ earlier' = [f \in Events |-> IF f \in Elements(s) \ log THEN log \cup Before(s, f)
                                    ELSE earlier[f]]

\* One attempt of postWithRetry.  An old server without the batch route is
\* sent the events one by one and may fail at any of them.
Post ==
    /\ Runs /\ chunk # << >>
    /\ \/ Ingest(chunk) /\ FlushSucceeded /\ UNCHANGED <<attempt, late, faults>>
       \/ /\ \E n \in 0..Len(chunk) : Ingest(SubSeq(chunk, 1, n))     \* 5xx, 429, no answer
          /\ Retry /\ Fault /\ UNCHANGED late
       \/ /\ \E n \in 0..(Len(chunk) - 1) :                          \* given up, under way
             /\ Ingest(SubSeq(chunk, 1, n))
             /\ \/ n = 0 /\ late' = late \cup {chunk}
                \/ late' = late \cup {<<chunk[n + 1]>>}
          /\ Retry /\ Fault
       \/ /\ \E n \in 0..(Len(chunk) - 1) : Ingest(SubSeq(chunk, 1, n))  \* refused
          /\ FlushFailed /\ Fault /\ UNCHANGED <<attempt, late>>
    /\ UNCHANGED <<offered, accepted, before, hydrateVars, persistVars, diskVars, fresh, settled,
                   crashes, stops>>

LateArrival ==
    /\ \E s \in late : Ingest(s) /\ late' = late \ {s}
    /\ UNCHANGED <<phase, offered, accepted, flushVars, hydrateVars, timer, persistVars, diskVars,
                   fresh, settled, boundVars>>

Cooldown ==
    /\ circuitOpen /\ circuitOpen' = FALSE
    /\ UNCHANGED <<phase, offered, accepted, queue, chunk, attempt, before, consecutiveFailures,
                   hydrateVars, timer, persistVars, diskVars, serverVars, fresh, settled,
                   boundVars>>

-----------------------------------------------------------------------------
(* The spool file *)

Active(w) == writer[w].pc \in {"opening", "filling", "renaming"}

NewWrite == [pc |-> "opening", snapshot |-> queue, on |-> None, fd |-> None]

\* persistQueueToDisk up to its first await.
Call(w) ==
    \/ /\ persistInFlight = None
       /\ persistInFlight' = w
       /\ writer' = [writer EXCEPT ![w] = NewWrite]
       /\ settled' = (settled /\ hydrating = "no" /\ \A x \in Slots : ~Active(x))
       /\ UNCHANGED persistRequested
    \/ /\ persistInFlight # None
       /\ persistRequested' = TRUE
       /\ writer' = [writer EXCEPT ![w] = [NoCall EXCEPT !.pc = "waiting", !.on = persistInFlight]]
       /\ UNCHANGED <<persistInFlight, settled>>

PersistTimer ==
    /\ Runs
    /\ timer /\ timer' = FALSE
    /\ \E w \in Writers : writer[w].pc = "idle" /\ Call(w)
    /\ UNCHANGED <<phase, offered, accepted, flushVars, hydrateVars, diskVars, serverVars, fresh,
                   boundVars>>

\* The promise of w's write is settled, the calls being wr by now: w clears
\* persistInFlight, and goes round again if a call came in meanwhile; then
\* every call that awaited the promise writes as well, and one of them is
\* left in persistInFlight.
Finish(w, wr, ok) ==
    LET waiting == {x \in Slots : wr[x].pc = "waiting" /\ wr[x].on = w}
        again == IF persistRequested THEN {w} ELSE {}
        started == waiting \cup again
        last == IF waiting # {} THEN waiting ELSE again
    IN
    /\ writer' = [x \in Slots |-> IF x \in started THEN NewWrite
                                  ELSE IF x = w THEN NoCall ELSE wr[x]]
    /\ persistInFlight' \in (IF last = {} THEN {None} ELSE last)
    /\ persistRequested' = FALSE
    /\ settled' = /\ settled /\ ok
                  /\ started # {} => hydrating = "no"
                  /\ \A x, y \in started \cup {z \in Slots \ {w} : Active(z)} : x = y

\* writeFile opens the .tmp: created or truncated under whoever has it open.
Open(w) ==
    /\ writer[w].pc = "opening"
    /\ tmp' = Truncated
    /\ writer' = [writer EXCEPT ![w].pc = "filling", ![w].fd = "tmp"]
    /\ UNCHANGED <<file, persistInFlight, persistRequested, settled, faults>>

\* A shorter text leaves the end of a longer one behind it.
Overwrite(t, s) ==
    IF Len(t.events) > Len(s) THEN [t EXCEPT !.whole = FALSE]
    ELSE [there |-> TRUE, whole |-> TRUE, events |-> s]

\* writeFile writes and closes, wherever the opened file is by now.
Fill(w) ==
    /\ writer[w].pc = "filling"
    /\ tmp' = IF writer[w].fd = "tmp" THEN Overwrite(tmp, writer[w].snapshot) ELSE tmp
    /\ file' = IF writer[w].fd = "file" THEN Overwrite(file, writer[w].snapshot) ELSE file
    /\ writer' = [writer EXCEPT ![w].pc = "renaming", ![w].fd = None]
    /\ UNCHANGED <<persistInFlight, persistRequested, settled, faults>>

\* rename moves the .tmp over the file; it throws if another call moved it.
Rename(w) ==
    /\ writer[w].pc = "renaming"
    /\ file' = IF tmp.there THEN tmp ELSE file
    /\ tmp' = NoFile
    /\ Finish(w, [x \in Slots |-> [writer[x] EXCEPT
                      !.fd = IF ~tmp.there THEN @
                             ELSE CASE @ = "tmp" -> "file" [] @ = "file" -> "gone" [] OTHER -> @]],
              tmp.there)
    /\ UNCHANGED faults

\* mkdir, writeFile or rename throws: only lastPersistError remembers it.
PersistError(w) ==
    /\ Active(w)
    /\ Fault
    /\ Finish(w, writer, FALSE)
    /\ UNCHANGED diskVars

Persist ==
    /\ Runs
    /\ \E w \in Slots : Open(w) \/ Fill(w) \/ Rename(w) \/ PersistError(w)
    /\ UNCHANGED <<phase, offered, accepted, flushVars, hydrateVars, timer, serverVars, fresh,
                   crashes, stops>>

\* hydrateQueueFromDisk: a file that is missing or does not parse is ignored.
Hydrate ==
    /\ Runs
    /\ \/ /\ hydrating = "reading" /\ hydrating' = "read"
          /\ LET valid == IF file.whole THEN file.events ELSE << >>
             IN /\ loaded' = SubSeq(valid, 1, IF Len(valid) < MaxQueueSize THEN Len(valid)
                                              ELSE MaxQueueSize)
                /\ settled' = (settled /\ loaded' = valid)
          /\ UNCHANGED <<queue, hydrated>>
       \/ /\ hydrating = "read" /\ hydrating' = "no"
          /\ queue' = queue \o loaded
          /\ hydrated' = Len(loaded) /\ loaded' = << >>
          /\ UNCHANGED settled
    /\ UNCHANGED <<phase, offered, accepted, chunk, attempt, before, consecutiveFailures,
                   circuitOpen, timer, persistVars, diskVars, serverVars, fresh, boundVars>>

-----------------------------------------------------------------------------
(* Stopping, crashing and starting *)

CloseStart ==
    /\ phase = "up" /\ phase' = "closing"
    /\ stops < MaxStops /\ stops' = stops + 1
    /\ UNCHANGED <<offered, accepted, flushVars, hydrateVars, timer, persistVars, diskVars,
                   serverVars, fresh, settled, crashes, faults>>

\* One round of close's loop: a flush that does nothing ends it.
CloseFlush ==
    /\ phase = "closing"
    /\ \/ /\ CanFlush(queue)
          /\ phase' = "awaiting" /\ before' = Len(queue)
          /\ StartFlush(queue)
       \/ /\ ~CanFlush(queue)
          /\ phase' = "saving"
          /\ UNCHANGED <<before, queue, chunk, attempt>>
    /\ UNCHANGED <<offered, accepted, consecutiveFailures, circuitOpen, hydrateVars, timer,
                   persistVars, diskVars, serverVars, fresh, settled, boundVars>>

CloseSave ==
    /\ phase = "saving" /\ phase' = "stopping"
    /\ timer' = FALSE
    /\ Call(Close)
    /\ UNCHANGED <<offered, accepted, flushVars, hydrateVars, diskVars, serverVars, fresh,
                   boundVars>>

\* The process ends; a post that it was waiting for may still arrive.
Die ==
    /\ phase' = "down"
    /\ queue' = << >> /\ chunk' = << >> /\ attempt' = 0 /\ before' = 0
    /\ consecutiveFailures' = 0 /\ circuitOpen' = FALSE
    /\ hydrating' = "reading" /\ loaded' = << >> /\ hydrated' = 0
    /\ timer' = FALSE
    /\ persistInFlight' = None /\ persistRequested' = FALSE
    /\ writer' = [w \in Slots |-> NoCall]
    /\ fresh' = {} /\ settled' = TRUE
    /\ late' \in {late} \cup (IF chunk = << >> THEN {} ELSE {late \cup {chunk}})
    /\ UNCHANGED <<offered, accepted, diskVars, log, earlier, faults>>

Exit ==
    /\ phase = "stopping" /\ writer[Close].pc = "idle"
    /\ Die /\ UNCHANGED <<crashes, stops>>

Crash ==
    /\ phase # "down"
    /\ crashes < MaxCrashes /\ crashes' = crashes + 1
    /\ Die /\ UNCHANGED stops

Start ==
    /\ phase = "down" /\ phase' = "up"
    /\ UNCHANGED <<offered, accepted, flushVars, hydrateVars, timer, persistVars, diskVars,
                   serverVars, fresh, settled, boundVars>>

Next ==
    \/ Enqueue \/ Flush \/ Post \/ LateArrival \/ Cooldown
    \/ PersistTimer \/ Persist \/ Hydrate
    \/ CloseStart \/ CloseFlush \/ CloseSave \/ Exit \/ Crash \/ Start

Spec == Init /\ [][Next]_vars

\* The interval timer flushes, fetch has a timeout, the circuit's cooldown
\* passes, and disk operations end.
FairSpec ==
    /\ Spec
    /\ WF_vars(Flush) /\ WF_vars(Post) /\ WF_vars(Cooldown)

-----------------------------------------------------------------------------
(* Properties *)

\* Every event in a queue, a file, a request or the log has been offered.
TypeOK ==
    /\ phase \in {"up", "closing", "awaiting", "saving", "stopping", "down"}
    /\ offered \in 0..MaxEvents /\ accepted \subseteq Offered
    /\ queue \in Seq(Offered) /\ chunk \in Seq(Offered)
    /\ attempt \in 0..MaxRetries /\ before \in Nat
    /\ consecutiveFailures \in 0..(CircuitBreakerThreshold - 1) /\ circuitOpen \in BOOLEAN
    /\ hydrating \in {"reading", "read", "no"} /\ loaded \in Seq(Offered) /\ hydrated \in Nat
    /\ timer \in BOOLEAN
    /\ persistInFlight \in Slots \cup {None} /\ persistRequested \in BOOLEAN
    /\ writer \in [Slots -> Writer]
    /\ file \in Text /\ tmp \in Text
    /\ late \subseteq Seq(Offered)
    /\ log \subseteq Offered /\ earlier \in [Events -> SUBSET Events]
    /\ fresh \subseteq accepted /\ settled \in BOOLEAN
    /\ crashes \in Nat /\ stops \in Nat /\ faults \in Nat

\* The batch being sent with the queue behind it.
Line == chunk \o queue

\* What was accepted since the start is delivered, queued or in the batch
\* being sent: no failure of the server or of the disk drops an event while
\* the process lives (flush, postWithRetry).
NothingDropped == fresh \subseteq log \cup Elements(Line)

\* Requeueing at the front keeps the order: the server first sees an event
\* only after every event that was accepted before it since the start,
\* though requests arrive late, in part or again (flush).
InOrder == \A f \in log \cap fresh : \A e \in fresh : e < f => e \in earlier[f]

\* An event of F in s has every smaller one of F before it in s, or in L.
OrderedFor(s, F, L) ==
    \A j \in DOMAIN s : s[j] \in F =>
        \A e \in F : e < s[j] => e \in L \/ \E i \in 1..(j - 1) : s[i] = e

Ordered(s) == OrderedFor(s, fresh, log)

\* What makes InOrder inductive: the batch with the queue behind it, and each
\* late request, are in order, and nothing fresh is missing from them.
OrderInv ==
    /\ NothingDropped
    /\ Ordered(Line)
    /\ \A s \in late : Ordered(s)
    /\ InOrder

\* maxQueueSize is passed by at most one batch that was put back and by what
\* was read from the spool (enqueue, flush, hydrateQueueFromDisk).
QueueBounded == Len(queue) + Len(chunk) <= MaxQueueSize + BatchSize + hydrated

\* Nothing is under way that would still change the spool file.
AtRest ==
    /\ phase = "up" /\ hydrating = "no"
    /\ ~timer /\ chunk = << >>
    /\ \A w \in Slots : writer[w].pc = "idle"

Saved == IF file.whole THEN file.events ELSE << >>

\* At rest the spool file is the queue, unless a persist overlapped another
\* one, began before the hydration had ended, or failed, or the file held
\* more than the queue may: every other change of the queue is followed by a
\* persist (scheduleQueuePersist).
SpoolFollowsQueue == AtRest /\ settled => Saved = queue

\* While the process lives and the server answers now and then, every event it
\* accepted is delivered, through refusals, retries, late answers and an open
\* circuit.
EventuallyDelivered ==
    \A e \in Events : e \in fresh ~> e \in log \/ e \notin fresh \/ phase # "up"
=============================================================================
