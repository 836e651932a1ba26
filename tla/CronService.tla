---------------------------- MODULE CronService ----------------------------
(***************************************************************************)
(* The control plane's own scheduler (CronService of telemetry-core): a    *)
(* table of tasks in memory and in a file, one timer, runs that may take   *)
(* minutes, and snapshots that an operator can go back to.                 *)
(*                                                                         *)
(* The sections of its AsyncLock hold no I/O that is awaited, and every    *)
(* callback that enters one drains the promise queue before the next       *)
(* callback of the process: a section with what leads to it is one action. *)
(* What another callback can come between is the run of a task, and the    *)
(* tasks that a batch or the catch-up has captured before it.              *)
(***************************************************************************)
EXTENDS Naturals, Sequences, FiniteSets

CONSTANTS
    Tasks,             \* ids
    Known,             \* those in the file at first
    Instants,          \* times that an `at' schedule may name
    Schedules,         \* schedules given to tasks
    MaxConcurrentRuns,
    BackoffSteps,      \* Len(BACKOFF_STEPS_MS)
    MaxSnapshots,
    MaxRuns,           \* BOUND: runs of a task in a behaviour
    MaxByHand,         \* BOUND: runs by hand
    MaxChanges,        \* BOUND: changes by operators
    MaxFaults,         \* BOUND: writes that throw
    MaxStops           \* BOUND: ends of the process

\* "never" is a cron expression or a period that yields no time.
ASSUME CronAssumption ==
    /\ IsFiniteSet(Tasks) /\ Known \subseteq Tasks
    /\ Schedules \subseteq {"recurring", "never"} \cup Instants
    /\ Instants \cap {"recurring", "never", "none", "later", "due"} = {}
    /\ MaxConcurrentRuns \in Nat /\ BackoffSteps \in Nat /\ MaxSnapshots \in Nat
    /\ MaxRuns \in Nat /\ MaxByHand \in Nat /\ MaxChanges \in Nat
    /\ MaxFaults \in Nat /\ MaxStops \in Nat

VARIABLES
    phase,          \* "down"; "loaded", "between", "catching" (of start()); "up"
    running, timer, \* timer: one is set
    tasks, file,    \* this.tasks; tasks.json
    activeRunCount,
    runs,           \* executeTask calls whose executor is raced
    batches,        \* the runs that each onTick still waits for
    missed,         \* captured by catchUpMissedJobs and not started yet
    past,           \* instants that are over
    index, held, ms,  \* snapshot index, snapshot files, time of the last one
    started, byHand, changes, faults, stops,
    overrides,      \* history: times a running mark was taken off, or a run put none
    failures,       \* history: runs of a task that failed
    shots, asked,   \* history: runs at an instant, and times one was asked for
    stale           \* history: catch-up runs of a copy that was no longer so

memVars == <<running, timer, tasks, activeRunCount, runs, batches, missed>>
snapVars == <<index, held, ms>>
boundVars == <<started, byHand, changes, faults, stops>>
historyVars == <<overrides, failures, shots, asked, stale>>
vars == <<phase, memVars, file, past, snapVars, boundVars, historyVars>>

\* ScheduledTask.  "absent" is the status of an id that no task has; next is
\* nextRunAtMs, an instant, a time still to come, or one that has come.
Task ==
    [status: {"absent", "enabled", "disabled", "running", "error"},
     schedule: {"recurring", "never"} \cup Instants,
     next: {"none", "later", "due"} \cup Instants, errors: Nat]
Absent == [status |-> "absent", schedule |-> "never", next |-> "none", errors |-> 0]
Table == [Tasks -> Task]

\* A call of executeTask: `got' is the task captured before the run.
Run == [task: Tasks, n: Nat, by: {"tick", "hand", "catchUp"}, got: Task]

Sources == {"add", "update", "remove", "rollback"}
Snapshot == Sources \X Nat

Serving == phase \in {"up", "catching"}

-----------------------------------------------------------------------------
(* Schedules, the timer, the file *)

\* Mutant: an instant that is over is still a next run.
NextRunPast(s) == IF s = "recurring" THEN "later" ELSE IF s \in Instants THEN s ELSE "none"

\* computeNextRunMs: null, or a time that is still to come.
computeNextRunMs(s) ==
    IF s \in Instants \ past THEN s ELSE IF s = "recurring" THEN "later" ELSE "none"

New(s) == [status |-> "enabled", schedule |-> s, next |-> computeNextRunMs(s), errors |-> 0]

recomputeAllNextRuns(ts) ==
    [t \in Tasks |-> IF ts[t].status = "enabled"
                     THEN [ts[t] EXCEPT !.next = computeNextRunMs(ts[t].schedule)]
                     ELSE ts[t]]

Due(task) == task.status = "enabled" /\ (task.next = "due" \/ task.next \in past)

Armable(ts) == \E t \in Tasks : ts[t].status = "enabled" /\ ts[t].next # "none"

armTimer(ts) == timer' = (running /\ Armable(ts))

\* persist, which throws when `failed': the table in memory has changed then.
persist(ts, failed) == file' = IF failed THEN file ELSE ts

Faults(n) == faults + n <= MaxFaults /\ faults' = faults + n
Cost(failed) == IF failed THEN 1 ELSE 0

-----------------------------------------------------------------------------
(* Runs *)

Live(t) == {r \in runs : r.task = t}

\* Mutant: a failure is the last allowed one too early.
ResultTooEarly(r, ok) ==
    LET n == IF ok THEN 0 ELSE r.got.errors + 1
    IN  [status |-> IF r.got.schedule \in Instants THEN "disabled"
                    ELSE IF n + 1 >= BackoffSteps THEN "error" ELSE "enabled",
         next |-> IF r.got.schedule \in Instants THEN "none" ELSE "later", errors |-> n]

\* Mutant: no time is set after a failure.
ResultNoRetry(r, ok) ==
    LET n == IF ok THEN 0 ELSE r.got.errors + 1
    IN  [status |-> IF r.got.schedule \in Instants THEN "disabled"
                    ELSE IF n >= BackoffSteps THEN "error" ELSE "enabled",
         next |-> IF r.got.schedule \in Instants \/ ~ok THEN "none"
                  ELSE computeNextRunMs(r.got.schedule), errors |-> n]

\* The part of executeTask that follows the end of the race.
Result(r, ok) ==
    LET n == IF ok THEN 0 ELSE r.got.errors + 1
        once == r.got.schedule \in Instants
    IN  [status |-> IF once THEN "disabled" ELSE IF n >= BackoffSteps THEN "error" ELSE "enabled",
         next |-> IF once THEN "none" ELSE IF ok THEN computeNextRunMs(r.got.schedule) ELSE "later",
         errors |-> n]

\* patchTaskUnsafe does nothing, and saves nothing, when the task is gone.
Patched(ts, t, patch) ==
    IF ts[t].status = "absent" THEN ts
    ELSE [ts EXCEPT ![t] = [status |-> patch.status, schedule |-> ts[t].schedule,
                            next |-> patch.next, errors |-> patch.errors]]

\* Mutant: a run is not counted.
BeginUncounted(t, by, got, failed) ==
    /\ started[t] < MaxRuns /\ started' = [started EXCEPT ![t] = @ + 1]
    /\ UNCHANGED activeRunCount
    /\ tasks' = [tasks EXCEPT ![t].status = IF @ = "absent" THEN @ ELSE "running"]
    /\ ~failed /\ IF tasks[t].status = "absent" THEN UNCHANGED file ELSE persist(tasks', FALSE)
    /\ runs' = runs \cup {[task |-> t, n |-> started[t] + 1, by |-> by, got |-> got]}
    /\ UNCHANGED overrides

\* Mutant: a run does not mark its task.
BeginUnmarked(t, by, got, failed) ==
    /\ started[t] < MaxRuns /\ started' = [started EXCEPT ![t] = @ + 1]
    /\ activeRunCount' = activeRunCount + 1
    /\ ~failed
    /\ runs' = runs \cup {[task |-> t, n |-> started[t] + 1, by |-> by, got |-> got]}
    /\ UNCHANGED <<tasks, file, overrides>>

\* executeTask on a captured task, up to its executor; its save throws when
\* `failed', and then the slot it took is never given back.
Begin(t, by, got, failed) ==
    LET ts == [tasks EXCEPT ![t].status = IF @ = "absent" THEN @ ELSE "running"]
    IN  /\ started[t] < MaxRuns
        /\ started' = [started EXCEPT ![t] = @ + 1]
        /\ activeRunCount' = activeRunCount + 1
        /\ tasks' = ts
        /\ failed => tasks[t].status # "absent"
        /\ IF tasks[t].status = "absent" THEN UNCHANGED file ELSE persist(ts, failed)
        /\ runs' = IF failed THEN runs
                   ELSE runs \cup {[task |-> t, n |-> started[t] + 1, by |-> by, got |-> got]}
        /\ overrides' = [overrides EXCEPT ![t] = @ + Cost(tasks[t].status \in {"running", "absent"})]

\* POST /tasks/:taskId/run; a task that is marked running is refused.
runNow(t) ==
    /\ Serving /\ byHand < MaxByHand /\ byHand' = byHand + 1
    /\ tasks[t].status \notin {"absent", "running"}
    /\ \E failed \in BOOLEAN : Begin(t, "hand", tasks[t], failed) /\ Faults(Cost(failed))
    /\ UNCHANGED <<phase, running, timer, batches, missed, past, snapVars, changes, stops,
                   failures, shots, asked, stale>>

Slots == IF activeRunCount < MaxConcurrentRuns THEN MaxConcurrentRuns - activeRunCount ELSE 0

\* The timer fires.  Which of the due tasks fill the slots is the order of the
\* table, left open here; so is the order of the saves: those of `failed' throw,
\* those of `unsaved' after the last one that went through.
onTick ==
    LET due == {t \in Tasks : Due(tasks[t]) /\ started[t] < MaxRuns}
    IN  /\ Serving /\ timer
        /\ \E batch \in SUBSET due :
           /\ Cardinality(batch) = IF Cardinality(due) < Slots THEN Cardinality(due) ELSE Slots
           /\ \E failed \in SUBSET batch : \E unsaved \in SUBSET failed :
              LET ts == [t \in Tasks |-> IF t \in batch THEN [tasks[t] EXCEPT !.status = "running"]
                                         ELSE tasks[t]]
                  new == {[task |-> t, n |-> started[t] + 1, by |-> "tick", got |-> tasks[t]] :
                             t \in batch \ failed}
              IN  /\ Faults(Cardinality(failed))
                  /\ tasks' = ts
                  /\ file' = IF batch = failed THEN file
                             ELSE [t \in Tasks |-> IF t \in unsaved THEN tasks[t] ELSE ts[t]]
                  /\ activeRunCount' = activeRunCount + Cardinality(batch)
                  /\ started' = [t \in Tasks |-> started[t] + IF t \in batch THEN 1 ELSE 0]
                  /\ runs' = runs \cup new
                  /\ IF new = {} THEN armTimer(ts) /\ UNCHANGED batches
                     ELSE timer' = FALSE /\ batches' = batches \cup {new}
                  /\ shots' = [t \in Tasks |-> [i \in Instants |-> shots[t][i] +
                                 IF t \in batch \ failed /\ tasks[t].next = i THEN 1 ELSE 0]]
        /\ UNCHANGED <<phase, running, missed, past, snapVars, byHand, changes, stops,
                       overrides, failures, asked, stale>>

\* The end of a run: `ok' is what the race yields, an answer or the timeout.
\* The call rejects if the patch or the run record cannot be written.
Finish(r, ok) ==
    LET ts == Patched(tasks, r.task, Result(r, ok))
        rest == {b \ {r} : b \in batches}
    IN  /\ Serving
        /\ activeRunCount' = activeRunCount - 1
        /\ runs' = runs \ {r}
        /\ tasks' = ts
        /\ failures' = [failures EXCEPT ![r.task] = @ + IF ok THEN 0 ELSE 1]
        /\ batches' = rest \ {{}}
        /\ \E unsaved, unrecorded \in BOOLEAN :
           /\ ~(unsaved /\ unrecorded)
           /\ unsaved => tasks[r.task].status # "absent"
           /\ Faults(Cost(unsaved \/ unrecorded))
           /\ IF tasks[r.task].status = "absent" THEN UNCHANGED file ELSE persist(ts, unsaved)
           /\ IF r.by = "catchUp"
              THEN /\ phase' = IF unsaved \/ unrecorded THEN "up" ELSE "between"
                   /\ missed' = IF unsaved \/ unrecorded THEN [t \in Tasks |-> Absent] ELSE missed
              ELSE UNCHANGED <<phase, missed>>
        /\ IF {} \in rest THEN armTimer(ts) ELSE UNCHANGED timer
        /\ UNCHANGED <<running, past, snapVars, started, byHand, changes, stops,
                       overrides, shots, asked, stale>>

-----------------------------------------------------------------------------
(* start and stop *)

\* Mutant: the marks of runs that the last process left are kept.
KeepMarks(ts) == ts

\* No task runs when a process starts.
ResetMarks(ts) ==
    [t \in Tasks |-> IF ts[t].status = "running" THEN [ts[t] EXCEPT !.status = "enabled"]
                     ELSE ts[t]]

\* start() to the end of its section.  A save that throws rejects it: no
\* catch-up, no timer, and the server serves on.
start ==
    LET ts == recomputeAllNextRuns(ResetMarks(file)) IN
        /\ phase = "down"
        /\ running' = TRUE
        /\ tasks' = ts
        /\ \E failed \in BOOLEAN :
           /\ persist(ts, failed) /\ Faults(Cost(failed))
           /\ phase' = IF failed THEN "up" ELSE "loaded"
        /\ UNCHANGED <<timer, activeRunCount, runs, batches, missed, past, snapVars, started,
                       byHand, changes, stops, historyVars>>

\* catchUpMissedJobs looks for what came due since the table was loaded.
catchUpMissedJobs ==
    /\ phase = "loaded"
    /\ phase' = "between"
    /\ missed' = [t \in Tasks |-> IF Due(tasks[t]) THEN tasks[t] ELSE Absent]
    /\ UNCHANGED <<running, timer, tasks, activeRunCount, runs, batches, file, past, snapVars,
                   boundVars, historyVars>>

\* Its loop, one turn at a time, on the tasks as they were captured; a copy is
\* stale when its task waits for that time no more.
CatchUpNext(t) ==
    /\ phase = "between"
    /\ running /\ activeRunCount < MaxConcurrentRuns
    /\ missed[t].status # "absent"
    /\ \E failed \in BOOLEAN :
       /\ Begin(t, "catchUp", missed[t], failed) /\ Faults(Cost(failed))
       /\ phase' = IF failed THEN "up" ELSE "catching"
       /\ missed' = IF failed THEN [u \in Tasks |-> Absent] ELSE [missed EXCEPT ![t] = Absent]
       /\ shots' = [shots EXCEPT ![t] = [i \in Instants |-> @[i] +
                      IF ~failed /\ missed[t].next = i THEN 1 ELSE 0]]
       /\ stale' = [stale EXCEPT ![t] = [i \in Instants |-> @[i] +
                      Cost(~failed /\ missed[t].next = i
                             /\ ~(tasks[t].status = "enabled" /\ tasks[t].next = i))]]
    /\ UNCHANGED <<running, timer, batches, past, snapVars, byHand, changes, stops,
                   failures, asked>>

\* Mutant: start() ends without its timer.
CaughtUpUnarmed ==
    /\ phase = "between" /\ phase' = "up"
    /\ missed' = [t \in Tasks |-> Absent]
    /\ UNCHANGED <<running, timer, tasks, activeRunCount, runs, batches, file, past, snapVars,
                   boundVars, historyVars>>

\* The end of the loop, and of start().
CaughtUp ==
    /\ phase = "between"
    /\ \/ ~running
       \/ activeRunCount >= MaxConcurrentRuns
       \/ \A t \in Tasks : missed[t].status = "absent" \/ started[t] = MaxRuns
    /\ phase' = "up"
    /\ missed' = [t \in Tasks |-> Absent]
    /\ armTimer(tasks)
    /\ UNCHANGED <<running, tasks, activeRunCount, runs, batches, file, past, snapVars,
                   boundVars, historyVars>>

\* stop(), at the start of a shutdown; the server still serves.
stop ==
    /\ Serving /\ running
    /\ running' = FALSE /\ timer' = FALSE
    /\ UNCHANGED <<phase, tasks, activeRunCount, runs, batches, missed, file, past, snapVars,
                   boundVars, historyVars>>

\* The process ends, at the end of a shutdown or at any time.
Exit ==
    /\ phase # "down" /\ stops < MaxStops /\ stops' = stops + 1
    /\ phase' = "down" /\ running' = FALSE /\ timer' = FALSE
    /\ tasks' = [t \in Tasks |-> Absent] /\ missed' = [t \in Tasks |-> Absent]
    /\ activeRunCount' = 0 /\ runs' = {} /\ batches' = {}
    /\ UNCHANGED <<file, past, snapVars, started, byHand, changes, faults, historyVars>>

\* Time passes.
Elapse(t) ==
    /\ phase # "between"
    /\ tasks[t].next = "later"
    /\ tasks' = [tasks EXCEPT ![t].next = "due"]
    /\ UNCHANGED <<phase, running, timer, activeRunCount, runs, batches, missed, file, past,
                   snapVars, boundVars, historyVars>>

Pass(i) ==
    /\ phase # "between"
    /\ i \notin past /\ past' = past \cup {i}
    /\ UNCHANGED <<phase, memVars, file, snapVars, boundVars, historyVars>>

-----------------------------------------------------------------------------
(* Changes by operators *)

\* TaskSnapshotStore.capture.  An id is a time in ms and a source, so two
\* captures may have the same; the files of ids that leave the index go.  It
\* may throw at the file ("lost") or at the index ("unlisted").
Keep(id) ==
    LET all == Append(index, id)
        over == IF Len(all) > MaxSnapshots THEN Len(all) - MaxSnapshots ELSE 0
        gone == {all[k] : k \in 1..over}
    IN  [index |-> SubSeq(all, over + 1, Len(all)),
         held |-> [s \in (DOMAIN held \cup {id}) \ gone |->
                     IF s = id THEN tasks ELSE held[s]]]

capture(source, how) ==
    IF how = "lost" THEN UNCHANGED snapVars
    ELSE \E later \in {0, 1} :
         LET kept == Keep(<<source, ms + later>>)
         IN  /\ ms' = ms + later
             /\ held' = kept.held
             /\ index' = IF how = "unlisted" THEN index ELSE kept.index

\* A change of the table to ts: snapshot, assignment, save, timer.  A failed
\* snapshot is ignored; after a failed save the new table stays in memory and
\* the timer as it was.
Change(source, ts) ==
    /\ Serving /\ changes < MaxChanges /\ changes' = changes + 1
    /\ tasks' = ts
    /\ \E how \in {"kept", "lost", "unlisted"}, failed \in BOOLEAN :
       /\ capture(source, how)
       /\ persist(ts, failed)
       /\ Faults(Cost(how # "kept") + Cost(failed))
       /\ IF failed THEN UNCHANGED timer ELSE armTimer(ts)
    /\ overrides' = [t \in Tasks |-> overrides[t] +
                       Cost(tasks[t].status = "running" /\ ts[t].status # "running")]
    /\ UNCHANGED <<phase, running, activeRunCount, runs, batches, missed, past, started, byHand,
                   stops, failures, shots, stale>>

Ask(t, s) ==
    asked' = [asked EXCEPT ![t] = [i \in Instants |-> @[i] + Cost(s = i)]]

\* POST /tasks, with an id that is not in use.
add(t, s) ==
    /\ tasks[t].status = "absent"
    /\ Change("add", [tasks EXCEPT ![t] = New(s)])
    /\ Ask(t, s)

\* PATCH /tasks/:taskId, of a name or the like when both are "kept".
Patch == [status: {"kept", "enabled", "disabled"}, schedule: {"kept"} \cup Schedules]

update(t, patch) ==
    LET merged == [tasks[t] EXCEPT
                     !.status = IF patch.status = "kept" THEN @ ELSE patch.status,
                     !.schedule = IF patch.schedule = "kept" THEN @ ELSE patch.schedule,
                     !.next = IF patch.schedule = "kept" THEN @
                              ELSE computeNextRunMs(patch.schedule)]
    IN  /\ tasks[t].status # "absent"
        /\ Change("update", [tasks EXCEPT ![t] = merged])
        /\ IF patch.status = "enabled" \/ patch.schedule # "kept"
           THEN Ask(t, merged.next) ELSE UNCHANGED asked

\* DELETE /tasks/:taskId
remove(t) ==
    /\ tasks[t].status # "absent"
    /\ Change("remove", [tasks EXCEPT ![t] = Absent])
    /\ UNCHANGED asked

\* POST /tasks/rollback/:snapshotId; null when the file is gone.
rollback(id) ==
    /\ id \in DOMAIN held
    /\ Change("rollback", recomputeAllNextRuns(held[id]))
    /\ UNCHANGED asked

-----------------------------------------------------------------------------

Init ==
    /\ phase = "down" /\ running = FALSE /\ timer = FALSE
    /\ tasks = [t \in Tasks |-> Absent] /\ missed = [t \in Tasks |-> Absent]
    /\ activeRunCount = 0 /\ runs = {} /\ batches = {}
    /\ past = {}
    /\ file \in {f \in [Tasks -> {New(s) : s \in Schedules} \cup {Absent}] :
                   \A t \in Tasks : t \in Known <=> f[t] # Absent}
    /\ index = << >> /\ held = [s \in {} |-> file] /\ ms = 0
    /\ started = [t \in Tasks |-> 0] /\ byHand = 0 /\ changes = 0 /\ faults = 0 /\ stops = 0
    /\ overrides = [t \in Tasks |-> 0] /\ failures = [t \in Tasks |-> 0]
    /\ shots = [t \in Tasks |-> [i \in Instants |-> 0]]
    /\ asked = [t \in Tasks |-> [i \in Instants |-> Cost(file[t].next = i)]]
    /\ stale = [t \in Tasks |-> [i \in Instants |-> 0]]

Next ==
    \/ start \/ catchUpMissedJobs \/ CaughtUp \/ onTick \/ stop \/ Exit
    \/ \E t \in Tasks : runNow(t) \/ CatchUpNext(t) \/ Elapse(t) \/ remove(t)
    \/ \E t \in Tasks, s \in Schedules : add(t, s)
    \/ \E t \in Tasks, patch \in Patch : update(t, patch)
    \/ \E id \in DOMAIN held : rollback(id)
    \/ \E r \in runs, ok \in BOOLEAN : Finish(r, ok)
    \/ \E i \in Instants : Pass(i)

Spec == Init /\ [][Next]_vars

-----------------------------------------------------------------------------
(* Properties *)

TypeOK ==
    /\ phase \in {"down", "loaded", "between", "catching", "up"}
    /\ running \in BOOLEAN /\ timer \in BOOLEAN
    /\ tasks \in Table /\ file \in Table /\ missed \in Table
    /\ activeRunCount \in Nat
    /\ runs \subseteq Run /\ batches \subseteq SUBSET runs
    /\ past \subseteq Instants
    /\ index \in Seq(Snapshot) /\ ms \in Nat
    /\ DOMAIN held \subseteq Snapshot /\ \A id \in DOMAIN held : held[id] \in Table
    /\ started \in [Tasks -> Nat] /\ overrides \in [Tasks -> Nat] /\ failures \in [Tasks -> Nat]
    /\ byHand \in Nat /\ changes \in Nat /\ faults \in Nat /\ stops \in Nat
    /\ shots \in [Tasks -> [Instants -> Nat]] /\ asked \in [Tasks -> [Instants -> Nat]]
    /\ stale \in [Tasks -> [Instants -> Nat]]

\* A task has one run at a time, but for those that operators allowed by taking
\* the running mark off it (a toggle, a rollback, a removal), or the catch-up by
\* starting its captured copy while the task runs or is gone: each such event
\* may add one run, and no interleaving of ticks, ends of runs, failed saves and
\* restarts does.
OneRunUnlessOverridden == \A t \in Tasks : Cardinality(Live(t)) <= overrides[t] + 1

Timed == {r \in runs : r.by # "hand"}

\* The timer and the catch-up together never have more runs than
\* maxConcurrentRuns, whatever else holds slots: onTick computes its slots
\* before its runs take them, and several ticks may wait at once.
TimerWithinLimit == Cardinality(Timed) <= MaxConcurrentRuns

\* Every run holds a slot.  A slot without a run is one whose first save threw
\* (executeTask counts before it saves), so no more are lost than saves failed.
SlotsAccounted ==
    /\ Cardinality(runs) <= activeRunCount
    /\ activeRunCount <= Cardinality(runs) + faults

\* The counter that makes a task an error counts failed runs of that task: no
\* overlap of runs, no rollback and no restart counts one twice, so a task is
\* given up only after as many failures as there are backoff steps.
GivenUpAfterFailures ==
    \A t \in Tasks :
        /\ tasks[t].errors <= failures[t]
        /\ tasks[t].status = "error" => failures[t] >= BackoffSteps

\* The timer runs a task at an instant at most as often as operators asked for
\* it, but for the catch-up, which starts the copies it captured whatever became
\* of their tasks: a change made during its first run arms the timer, the tick
\* runs the second task, and the catch-up then runs its copy once more.  Nothing
\* else runs a one-shot task twice: no restart in the middle of its run, no
\* rollback, no two ticks.
OneShotOnce ==
    \A t \in Tasks : \A i \in Instants : shots[t][i] <= asked[t][i] + stale[t][i]

\* A scheduler at rest that has something to wait for, and no timer.
Asleep == phase = "up" /\ running /\ ~timer /\ batches = {} /\ Armable(tasks)

\* The scheduler falls asleep only when a run by hand ends (it was the only
\* enabled task, its run outlasted the timer, and executeTask arms none) or a
\* write failed (of start, of the catch-up, or of a change that enabled a task).
FallsAsleepOnly ==
    [][~Asleep /\ Asleep' => \/ faults' > faults
                             \/ \E r \in runs \ runs' : r.by = "hand"]_vars

Stuck(t) == tasks[t].status = "running" /\ Live(t) = {}

\* A task is left marked running without a run only by a rollback to a snapshot
\* taken during a run, or by a failed save at the start of its run.
StuckOnly ==
    [][\A t \in Tasks : ~Stuck(t) /\ Stuck(t)' =>
          faults' > faults \/ \E id \in DOMAIN held : rollback(id)]_vars

-----------------------------------------------------------------------------

\* The timer fires, races end (executors answer or time out), promises go on
\* and the clock runs.
Fairness ==
    /\ WF_vars(start) /\ WF_vars(catchUpMissedJobs) /\ WF_vars(CaughtUp)
    /\ WF_vars(\E t \in Tasks : CatchUpNext(t))
    /\ WF_vars(onTick)
    /\ \A t \in Tasks : WF_vars(Elapse(t)) /\ WF_vars(\E r \in Live(t), ok \in BOOLEAN : Finish(r, ok))

FairSpec == Spec /\ Fairness

\* An enabled recurring task runs, again and again, unless it is disabled, given
\* up or removed, or the process stops.  (Without runs by hand and failed
\* writes: see FallsAsleepOnly; and until the bound on its runs is met.)
RunsAgain ==
    \A t \in Tasks :
        (running /\ tasks[t].status = "enabled" /\ tasks[t].schedule = "recurring") ~>
            \/ Live(t) # {} \/ tasks[t].status # "enabled" \/ ~running
            \/ tasks[t].schedule # "recurring" \/ started[t] = MaxRuns

=============================================================================
