# patze-control: a TLA+ model of the control plane

patze-control is a desktop control plane for OpenClaw fleets. An API server
(`apps/api-server`, Fastify) keeps the state of the fleet and serves the desktop
application; on every OpenClaw machine a small *bridge* process
(`packages/openclaw-bridge`) sends telemetry and scheduled-job state up and
fetches control commands down. `packages/telemetry-core` holds the parts both
sides share: event store, projections, transports and a cron scheduler. This
directory holds the models of that system, the TLC runs that check them and
the proofs that TLAPS checks.

Every module is parsed, checked and proved on its own, inside `tla/`:

    tlasany BridgeCommands.tla
    tlc -workers 2 -config BridgeChannel.cfg MCBridgeCommands.tla
    tlapm BridgeCommandsProofs.tla

| Module | Configurations | Proofs | Models |
|---|---|---|---|
| `BridgeCommands`, `CommandContract` | `BridgeChannel`, `BridgeLiveness` with `MCBridgeCommands` | `BridgeCommandsProofs` | section 2 |
| `HttpSink` | `SinkDelivery`, `SinkSpool` with `MCHttpSink` | `HttpSinkProofs` | section 3 |
| `CronService` | `CronRuns`, `CronLiveness` with `MCCronService` | `CronServiceProofs` | section 4 |
| `RemoteTunnels` | `RemoteTunnels` with `MCRemoteTunnels` | `RemoteTunnelsProofs` | section 5 |
| `CommandQueue` | `CommandQueue` with `MCCommandQueue` | `CommandQueueProofs` | section 6 |
| `CronSync` | `CronSync` with `MCCronSync` | `CronSyncProofs` | section 7 |
| `TelemetryFeed` | `TelemetryFeed` with `MCTelemetryFeed` | `TelemetryFeedProofs` | section 8 |
| `BridgeSetup` | `BridgeSetup` with `MCBridgeSetup` | `FleetAndSetupProofs` | section 9 |
| `FleetSignals` | `FleetSignals` with `MCFleetSignals` | `FleetAndSetupProofs` | section 10 |

A run takes less than two and a half minutes with two workers, a module of
proofs a few minutes more. Section 11 says what is proved and how, section 12
what is not modelled.

## 1. Inventory

| Component | State it keeps | Operations | Interacts with | What is hard | What makes it correct |
|---|---|---|---|---|---|
| **Bridge control commands** (`bridge-command-store.ts`, `control-poller.ts`, routes in `index.ts`) | command table in memory and in a file; receipts of each bridge in memory and in a file | create, approve, reject, poll, ack, heartbeat, result; the bridge's tick; the runtime probe | operator's HTTP calls, bridges' HTTP calls, the OpenClaw CLI | lost and late calls, leases that lapse during a run, saves that fail, crashes on both sides | a command has its effect once, on its machine, when approved; verdicts are real and final; every command is settled |
| **HTTP telemetry sink** (`transports.ts`, `HttpSinkAdapter`) | bounded queue, its file, flushing flag, circuit | enqueue, flush, persist, hydrate, close | the server's ingest routes | chunk in flight at a crash, hydration racing with enqueue, blocked head | nothing accepted is lost, order and bound are kept |
| **Cron scheduler** (`cron/service.ts`, `lock.ts`, `store.ts`, `snapshot.ts`, `schedule.ts`) | tasks in memory and in files, number of active runs, timer, snapshots | start, add, update, remove, runNow, tick, catch-up, rollback | executor of tasks, file system | state read before an await and used after it, timeouts of runs that go on, rollback to a running task | one run of a task at a time, the limit on runs, no lost update, every enabled task runs again |
| **Cron push and sync** (`cron-pusher.ts`, cron-sync route) | offsets and hashes on the bridge, mirrored jobs on the server | pushDelta, collectNewRuns, the route | the two hosts | overlapping pushes, retry after a lost answer | no run record is skipped; duplicates are dropped |
| **Telemetry store** (`ingestor.ts`, `event-store.ts`, `event-bus.ts`, `projections.ts`, `telemetry-aggregator.ts`) | bounded event log, listeners, projections, attached nodes | ingest, append, evict, emit, project, attach, detach, merge | every sender, SSE clients | order of arrival, duplicates, eviction | projections follow the log, the merge does not depend on order |
| **Control client** (`packages/control-client`) | snapshot, ids seen, connection state | start, stop, SSE loop, frame dispatch | the server's `/events` | reconnects, late frames after stop | each event applied once, the client reconnects |
| **OpenClaw command queue** (`openclaw-command-queue.ts`) | pending config commands, snapshots | queue, discard, preview, apply, rollback | OpenClaw CLI, config file | commands queued during an apply, failure in the middle | all of a batch or none, nothing dropped silently |
| **Remote attachments and tunnels** (`remote-node-attachment-orchestrator.ts`, `ssh-tunnel-runtime.ts`) | attachments, tunnels | attach, detach, open, close, close events | SSH, aggregator | a late close event, failure half way | an attachment has its tunnel, none leaks |
| **Bridge setup manager** (`bridge-setup-manager.ts`) | setups and their phases | connect, install, retry, disconnect | SSH, systemd on the remote host | user input between phases, disconnects | phases in order, ends in running or error |
| **Bridge runtime** (`runtime.ts`, `mapper.ts`) | last snapshot, timers | start, stop, tick | source adapter, sink | stop during a tick | no event after stop, each change once |
| **Fleet governance and OpenClaw sync** (`cron/openclaw-target.ts`, `cron/openclaw-sync.ts`, fleet routes in `index.ts`) | targets in memory and in a file, sync loops, policies, signatures of problems, alert settings in memory and in a file, cooldowns, approval tokens | add, patch, remove, restart and reconcile targets, refresh, apply policies one by one or as an approved batch, announce, send webhooks | file system, webhooks, bridges' cron-sync, operators | writes that fail halfway, alerts that are not repeated, tokens used for something else, restarts that forget | loops follow the table; a lasting problem is told; a token lets one batch through |
| **API routes**, **SFTP sessions**, **parsers and checks**, **desktop application** | little of their own | | | input, output and formatting | |

`PROJECT.json` lists the same components with their status, and under `hazards`
what a test of each would hardly reach, at its line.

## 2. What is modelled: bridge control commands

The remote-control channel is modelled first: it is the only part that *acts*
on remote machines, it spans two processes that crash independently and a
network between them, and its repository has no test for any of this.

### Modules

* `BridgeCommands.tla` - the server's command table, one bridge per machine, and
  the calls between them.
* `CommandContract.tla` - what the channel promises an operator, with no
  leases, files, messages or restarts. `BridgeCommands` implements it under the
  refinement mapping at its end (`Contract`).
* `MCBridgeCommands.tla` - values of the constants for TLC.
* `BridgeCommandsProofs.tla` - the theorems.

### State and code

| Variable | Code |
|---|---|
| `cmds` | `BridgeCommandStore.commands`; position in the table is creation order |
| `disk` | `bridge-commands.json`, written whole and renamed by `save()` |
| `version` | what `buildTargetVersion` computes from the target's config file |
| `waiting` | probes inside `waitForBridgeCommandCompletion`, entered through `channelRuntimeProbeInFlight` |
| `bridge` | where the async `tick()` of each `BridgeControlPoller` is, and what it holds |
| `receipts`, `saved` | the `receipts` map of a bridge and its receipt file (the newest `ReceiptCap`) |
| `late` | requests the bridge has given up on (`AbortSignal.timeout`, broken connection) that may still arrive |
| `runs`, `outcomes`, `forgot` | history, in no code: real runs of the CLI, the statuses they had, runs a restart forgot |
| `spent`, `restarts`, `approvals` | counters against the bounds below |

Each route is one action (or, for the routes a bridge calls, one disjunct of
`Handle` taken inside the bridge's step): Node runs a handler with no `await`
in it to its end. `HandlePoll` is the whole of `poll`: it first expires the
lapsed leases of **every** machine, saves, then leases and saves again, and
either save may throw. The bridge takes one step per `await`: poll, ack (or
push of a receipt it has), run of the CLI, write of the receipt, push of the
result. `Call` is one `fetch`: answered; handled but its answer lost; handled
with a 500 because `save()` threw; or given up on, the request gone or still
under way. In every case but the first the exception ends the tick, and what
`tick()` has not yet done is simply not done.

What the model leaves out, and why it may:

* The clock. A lease is `live` until `Lapse` makes it `lapsed`; nothing else is
  read from `leaseUntil`. The age of a probe is the choice of `old` in
  `ProbeStart`: every split into old and young that respects creation order.
* What a command does and prints. A run ends `succeeded` or `failed`; whether a
  probe's output can be parsed is a choice.
* `intent` and `args`: `hasMutationArgs` decides only `approvalRequired`, and
  `kind` stands for it and for `createdBy`. A mutation is made by `Create`, a
  probe by `ProbeStart`.
* The probe cache's TTL (the cache only makes probes rarer) and the limit 25 of
  the list a probe looks at (never reached with the commands of an instance; it
  leaves an older probe unswept, which the model does not show).
* Two bridges with one machine id, which the configuration does not allow for.
* Identical late requests are one element of `late`.
* A command that fails validation, authorization and the 404s: they change no
  state.

### Runs

Both runs check for deadlock: a bridge can always poll. `m1`, `v1`, `v2` are model
values.

| Run | Instance | Checks |
|---|---|---|
| `bridge_channel` | 1 machine, 2 commands, 2 attempts, receipt cap 1; 1 lost or late call, 1 failed save, 1 restart of the server, 1 of the bridge | `TypeOK`, `RunOnceUnlessForgotten`, `AttemptsAgree`, `ImplementsContract` |
| `bridge_liveness` | 1 machine, 1 command, 3 attempts as in the code, 2 approvals, 2 config versions; 2 lost or late calls, 1 failed save, 1 renewal, 1 restart of the bridge; weak fairness | `EventuallySettled` |

Bounds and why they are enough. Two commands are what a poll can confuse: one
in hand and another it prefers or whose receipt pushes the first out of a file
of one entry (`ReceiptCap = 1`, so the second run already meets the limit that
500 is in the code). Two attempts show a retry and an exhausted command. A fault
of each kind is enough to separate the two sides, and a lost call may arrive
after a newer one was answered. Runs of a bridge are bounded by restarts and
leases, so no bound hides a run. Two machines meet only in `expireLeases`, which
the poll of either runs over the commands of both; the instances have one
machine, whose own polls expire its leases, and the theorems of section 11 speak
of any number of machines, commands, faults and attempts.

`bridge_liveness` leaves out a restart of the server: an approval whose save
failed is in memory only, a restart takes it back, and the command then waits for
an operator again.

Some properties say more than their names:

* `RunOnceUnlessForgotten` is the strongest thing the code lets one say about a
  remote effect. It is *not* exactly-once: a bridge that dies between
  `controller.execute` and `saveReceipts`, or whose file has dropped the
  receipt, runs the command again (`forgot` counts these). It says that nothing
  else - lost or late answers, lapsed leases, repeated approvals, server
  restarts - ever does.
* `AttemptsAgree` relates the two counters of a command to its state, and says that
  only a command that had its attempts becomes a dead letter.
  Leases are not bounded by the limit: `approve` on a command that is leased or
  running sends it back to `queued`, and its old lease is no longer looked at by
  `expireLeases`, so each repeated approval may buy one lease more.
* `ImplementsContract` speaks of the file: a verdict there is that of a run that took
  place, or the command was rejected or given up, and it is never changed. The table in memory may show a verdict
  that was never written when a save failed, and a restart takes it back.

### Fairness

`Fairness` is weak fairness of each bridge's steps and of `Lapse`. The bridge's
`setInterval` calls `tick()` for ever, each `fetch` has a 10 s timeout and the
CLI one of 30 s, so an enabled step of the bridge is taken; `Lapse` is the
clock. Nothing is assumed of operators, of restarts or of the network: its
faults are bounded by `Limit`, without which a network that always loses
results would settle nothing but the dead letters.

## 3. What is modelled: the telemetry sink

The bridge hands its events to `HttpSinkAdapter`, which promises the most of
all the code that loses things: at-least-once delivery, in order, from a bounded
queue, across restarts.

### Modules

* `HttpSink.tla` - the adapter, its spool file and the server's log.
* `MCHttpSink.tla` - values of the constants for TLC.
* `HttpSinkProofs.tla` - the theorems.

### State and code

| Variable | Code |
|---|---|
| `queue`, `chunk`, `attempt` | `this.queue`; the local `chunk` of `flush` (`flushing` is `chunk # <<>>`); the local of `postWithRetry` |
| `before` | the local of `close` |
| `consecutiveFailures`, `circuitOpen` | the field; `Date.now() < circuitOpenUntilMs` |
| `hydrating`, `loaded`, `hydrated` | where `hydrateQueueFromDisk` is, `limited`, `hydratedCount` |
| `timer`, `persistInFlight`, `persistRequested` | `persistTimer`, `persistInFlight`, `persistRequestedDuringFlight` |
| `writer` | the calls of `persistQueueToDisk` that are alive: of the timer (`Writers`) and of `close` (`Close`) |
| `file`, `tmp` | the spool and its `.tmp`; `whole` is false while a text is cut off |
| `late` | posts given up that may still arrive |
| `log`, `earlier` | the server's log without repetitions, and for each event what was in it before |
| `phase` | the bridge's life: up, in `close`, down |
| `fresh`, `settled`, `offered`, `accepted` | history: events accepted since the start, whether persists ever raced, events handed in and taken |

An action runs from one `await` to the next. `Enqueue` is `ingest` with the
flush it may start; `Post` is one attempt of `postWithRetry` with everything
that follows its answer, up to the end of `flush` and the decision of `close`'s
loop. `Persist` follows one call through `writeFile` (open, fill) and `rename`,
and `Finish` is what happens when the promise of a write settles: the call
clears `persistInFlight`, repeats itself if a call came in meanwhile, and every
call that waited starts a write *too*, for `persistQueueToDisk` does not look at
`persistInFlight` again after its `await`.

Left out: a sink without a spool file (a sink whose timer never fires is one),
invalid envelopes, the lengths of backoffs and timeouts (any order of them is a
behaviour), authentication, the identity of events beyond their number. An
attempt that fails is one fault, whatever its cause: 5xx, 429, no answer, an
answer that came too late (the request stays in `late`), or a refusal.

### Runs

None checks for deadlock: with its events delivered and its faults spent, the
sink has nothing left to do.

| Run | Instance | Checks |
|---|---|---|
| `sink_delivery` | 3 events, queue and batch of 2, 1 retry, circuit at the first failed flush, 2 faults, 1 crash, 1 stop, weak fairness; only `close` persists | `TypeOK`, `NothingDropped`, `InOrder`, `EventuallyDelivered` |
| `sink_spool` | 3 events, queue and batch of 1, 2 persists that overlap, 1 fault, 1 crash | `SpoolFollowsQueue` |

Three events are two batches, of which one is sent while the other waits; two
faults make a batch fail, open the circuit, be put back and arrive late. Persists
that overlap multiply the states and have nothing to do with delivery, hence the
two runs. Two writers of the timer are enough for one that waits and one that
repeats itself; a third call that waits at the same time repeats the second.

What stands behind the properties:

* `SpoolFollowsQueue` has exceptions. The persist that is requested while another
  one writes is carried out twice, by the waiting call and by the repetition of
  the first, and the two write the same `.tmp`. The older snapshot may be renamed
  last, and nothing is scheduled that would write the queue again: the spool is
  stale until the queue next changes. It needs a disk slower than
  `persistDebounceMs`. The property says that this, a hydration that a persist
  overtakes, a failed persist and a spool longer than the queue may be are the
  *only* ways in which a sink at rest has a wrong spool.
* An orderly stop may lose a batch, which the model does as the code does
  (`CloseSave`): `close` calls `flush`, which returns at once while another
  flush runs; the queue is as long as before, so the loop ends, the queue is
  written without the batch being sent, and the process exits. `NothingDropped`
  and `EventuallyDelivered` therefore speak of a process that lives.

`EventuallyDelivered` assumes weak fairness of `Flush` (the interval timer),
`Post` (`AbortSignal.timeout`) and `Cooldown` (the clock), and, through
`MaxFaults`, a server that answers in the end: a batch it always refuses stays
at the head of the queue for ever.

## 4. What is modelled: the cron scheduler

The server runs tasks of its own (`CronService`): an operator's table of tasks,
one `setTimeout`, runs that take up to ten minutes, and snapshots to go back to.
Runs, ticks, HTTP requests and the catch-up of a start interleave on copies of
the same task objects.

### Modules

* `CronService.tla` - the scheduler, its file and snapshots, the task routes.
* `MCCronService.tla` - values of the constants for TLC.
* `CronServiceProofs.tla` - the theorems.

### State and code

| Variable | Code |
|---|---|
| `phase` | where `start()` is: before it (`down`), after its lock (`loaded`), in the loop of `catchUpMissedJobs` between two tasks (`between`) or awaiting one (`catching`), or ended (`up`) |
| `running`, `timer` | the fields; `timer` says only that one is set |
| `tasks`, `file` | `this.tasks`, `tasks.json`; an id that no task has holds `Absent` |
| `activeRunCount` | the field |
| `runs` | the calls of `executeTask` inside their `Promise.race`; `got` is the task each was given |
| `batches` | for each `onTick` inside `Promise.allSettled`, the runs it still waits for |
| `missed` | `missed` of `catchUpMissedJobs`, as captured |
| `past` | instants of `at` schedules that are over |
| `index`, `held`, `ms` | the index and the files of the snapshots; the time of the last one |
| `overrides`, `failures`, `shots`, `asked`, `stale` | history, in no code: running marks taken off (or runs that put none), failed runs, runs at an instant, times one was asked for and runs of a captured copy that was out of date |
| `started`, `byHand`, `changes`, `faults`, `stops` | counters against the bounds below |

`AsyncLock` guards sections that await no I/O: files are written with the
synchronous calls of `fs`. A callback that finds the lock free enters it in the
microtasks that follow, and these are drained before the next timer or socket
callback, so nothing else ever finds it taken but the calls of one tick's batch,
which queue behind each other in the same drain. Each operation is therefore one
action from the callback that starts it to the point where it waits for the
outside: `Begin` up to the executor, `Finish` from the end of the race to the
end of the run record, and, if the run was the last of a tick's batch, the
`armTimer` of that tick; `onTick` with the beginnings of all its runs; a route
with its snapshot, save and timer. What can come between is a run, and the
catch-up's wait for one; what may be stale afterwards is the captured task.

`next` of a task is `none`, an instant, `later` (a time to come) or `due`.
`Elapse` and `Pass` are the clock. A save may throw in every place that saves;
the table in memory has changed by then, and what the code has not yet done is
not done: no `activeRunCount--` after the first save of a run, no `armTimer`
after that of a change, no catch-up and no timer after that of `start()` (the
rejection is only logged). A snapshot's two writes may throw as well, which
`snapshot()` ignores.

Left out: when a cron expression or a period is due next (`computeNextRunMs` is
modelled by whether it yields a time); what a task does; run records; the delay
of the timer, which may fire early (`MAX_TIMER_DELAY_MS`) and then finds nothing
due; which of the due tasks come first in the table; a `POST /tasks` with an id
that is in use, which makes two tasks of one id.

### Runs

None checks for deadlock: with its runs and changes used up, an instance rests.

| Run | Instance | Checks |
|---|---|---|
| `cron_runs` | 2 tasks at one instant, 2 slots, 2 runs each; 2 changes, 1 run by hand, 1 fault and 1 restart, at most 3 of these together; 1 snapshot kept | `TypeOK`, `OneRunUnlessOverridden`, `OneShotOnce`, `StuckOnly` |
| `cron_liveness` | 2 recurring tasks, 1 slot, 2 runs each, 1 change, 1 restart, weak fairness | `GivenUpAfterFailures`, `FallsAsleepOnly`, `RunsAgain` |

Bounds and why they are enough. Tasks meet only in the slots, the timer, the
batches and the list of the catch-up, hence two of them. Two runs are what can
overlap, and with `BackoffSteps = 2` two failures in a row give a task up (the
code has five steps). Two changes are a toggle or a removal and what brings the
task back, a rollback among them. A restart in the middle of a run brings the
catch-up's captured tasks and a table reset from a file that says `running`.
`FewEvents` leaves three events to a behaviour of `cron_runs`: a change, a run by
hand and a restart, or two changes and a fault. The exceptions of
`FallsAsleepOnly` need a run by hand or a fault, which `cron_liveness` does not
have: there TLC checks that the scheduler falls asleep in no other way, and the
theorem says the rest (section 11).

What the exceptions in these properties say of the code:

* The end of a run sets the next run of its task but arms no timer; only
  `onTick`, a change and `start()` do. If a task is run by hand and the timer
  fires during the run, that tick sees no enabled task and arms none. When the
  run ends the task waits for a timer that nobody set, until another change or a
  restart. `FallsAsleepOnly` says that this and a failed write are the *only*
  ways to such a state.
* A snapshot captured while a task ran holds it as `running`, and `rollback`
  restores that; unlike `start()` it resets nothing, the timer skips the task and
  `runNow` refuses it, until it is toggled, rolled back again or the process
  restarts. `StuckOnly` says that this and a failed save at the start of a run
  are the only ways.
* `catchUpMissedJobs` runs the tasks it captured before its first run, one after
  the other. A change during the first run arms the timer, the tick runs the
  second task at its instant, and the catch-up then runs its captured copy: the
  instant is served twice. With one task this cannot happen; the inductive
  invariant of `OneShotOnce` could not be proved without saying so, and two tasks
  in `cron_runs` show it. `stale` counts these runs, and `OneShotOnce` says that
  nothing else, no restart and no rollback, serves an instant again.
* The patch at the end of a run writes a status computed from the task captured
  before it, and enables a task disabled meanwhile (`Patched`).
* The id of a snapshot is a time in milliseconds and the kind of change, so two
  changes of one kind within a millisecond share a file (`Keep`). The older state
  is lost though "every task mutation creates a snapshot" (`snapshot.ts`), and
  when the older entry leaves the index its file goes, under the younger entry.

`OneRunUnlessOverridden` counts what takes the mark off a task whose run goes on
(an operator's toggle, rollback or removal) or lets a run begin without putting
one (the catch-up, whose captured copy says `enabled`). It says that each may
cost one overlap, and that nothing else costs any.

`RunsAgain` assumes that promises go on and timers fire (`start`,
`catchUpMissedJobs`, `CatchUpNext`, `CaughtUp`, `onTick`), that the clock runs
(`Elapse`) and that every race ends: `rejectAfter(task.timeoutMs)` ends it if the
executor does not. Runs by hand and failed writes are left out of its instance,
since they may put the scheduler to sleep as said above. Two tasks share one slot there, but the
runs of each are bounded: `due.slice(0, slots)` always prefers the first of the
table, so that tasks with short periods may in fact starve a later one, and this
the instance cannot show. `TimerWithinLimit`, which bounds what the timer and the
catch-up run at once, is stated in the module and proved (section 11).

## 5. What is modelled: remote attachments and tunnels

The server attaches other servers through SSH tunnels it opens itself. An attach
call awaits the connection, the local server and a health check; a detach, the
close event of a session and the shutdown of the server may come at each await.

| Variable | Code |
|---|---|
| `call` | where each call of `attachEndpoint` (with the `openTunnel` inside it) is, its endpoint and the tunnel it was given |
| `server`, `client` | of each tunnel, its `net.Server` and its `ssh2` client |
| `tunnels` | `SshTunnelRuntime.tunnels`, keyed by endpoint |
| `attachments`, `nodes` | the orchestrator's map; the aggregator's nodes |
| `streams` | the connections `SseSourceAdapter` holds through a tunnel |
| `exit` | the orchestrator's `close()`: what it has yet to take and what it awaits |
| `overlapped`, `disturbed` | history, in no code: endpoints with two attach calls at once; endpoints where something met an operation under way |

An action runs from one `await` or callback to the next. `openTunnel` registers the
handlers of its session and enters the map at once after `listen` (`Listen`), and
they name the *endpoint*: `OnSessionEvent` closes whatever tunnel the endpoint has
by then. `ServerClosed` is the callback of `server.close`, which waits until no
connection is left. Left out: ports, keys, host verification, the identity of the
attached node.

`remote_tunnels`: 2 endpoints, 2 attach calls, 2 detach calls, 2 faults (lost
sessions, failed connects and probes, broken streams), a shutdown, weak fairness.
It checks `TypeOK`, `AttachmentsBacked`, `TunnelsAccounted`, `ClosingIsIdle` and
`Settles`. Two calls are one endpoint contended or two that should not disturb each
other. Fairness is of the steps that `ssh2` and Node take themselves: a connect that
is answered or times out, callbacks, and the shutdown's loop; nobody is assumed to
detach. It does not check for deadlock: with its calls answered an instance rests.

The code has no lock per endpoint, and its events carry no tunnel. Each property
therefore excepts the endpoints where operations met, and says that nothing *else*
breaks it: two attach calls of one endpoint that overlap leave a forward server that
the runtime no longer knows; the late close event of a former session closes the new
tunnel; a detach during an attach leaves an attachment whose tunnel is gone; and
`closeServer` waits as long as a stream of such an attachment is open.

## 6. What is modelled: the OpenClaw command queue

`OpenClawCommandQueue` collects CLI commands per target and applies them in order,
with a snapshot of `openclaw.json` to roll back to. `apply` walks over the *live*
array and awaits the CLI after each.

| Variable | Code |
|---|---|
| `arrays`, `queues` | every array of commands there has been, and the one the target's entry of the map holds |
| `call` | calls of `applyCommands`: of a queue or a recipe, the array, the position, the snapshot |
| `config`, `exists` | what the file contains, and whether it is there |
| `snapshots` | the files of `createSnapshot`, in order |
| `ran`, `given`, `withdrawn`, `crossed`, `meddled` | history, in no code |

`Queue` appends to the array of the entry, which an apply may be walking over;
`Discard` and the end of a queue's apply delete the entry, whatever array it holds
by then. `Fail` is a command that failed before or after it wrote, with the
rollback, which may throw. `Edit` and `Rollback` are other writers. Left out:
`preview` (it works on a copy), a snapshot that cannot be written (the call then
ends before it has done anything), what the CLI prints.

`command_queue`: 3 commands (symmetric), 2 calls, batches of 2, 2 discards,
rollbacks or edits, 1 failure, 1 crash; no check for deadlock, as its commands run
out. It checks `TypeOK`, `QueuedOnce` and the action property `AllOrNothing`. Three
commands are a batch of two and one that joins it during the apply; two calls meet
each other.

`QueuedOnce` excepts a queue whose apply was met by a discard or another apply: two
applies walk over one array and run its commands twice, and the end of the first
deletes what was queued since the second began. It says that an apply alone runs each
command once, also those queued during it, and loses none that its operator cannot
see to be withdrawn. `AllOrNothing` excepts an apply that something else wrote beside,
whose rollback takes that with it.

## 7. What is modelled: cron push and sync

`CronPusher` mirrors the machine's OpenClaw files to the server: it sends what
differs from the hashes and offsets of the last answer and moves them forward when
it has the next. Its timer does not look whether a push is under way.

| Variable | Code |
|---|---|
| `file`, `runs`, `truncated` | `jobs.json`, `openclaw.json` and the run records of each job on the machine; jobs whose file was cut |
| `bridge` | where `start()` is: not called, awaiting its first push, or past it |
| `hash`, `offset`, `saved` | the fields of `CronPusher`, and the pusher's state file (`cronOffsetStateFile`) |
| `push` | the requests: under way, answered but not yet read, or given up and perhaps still arriving |
| `mirror`, `copies`, `target` | what the server wrote: the two files, how often it has each record, the target |
| `doubt` | history: what was sent without an answer, twice at once, or written by half |

A record is a number and a hash is the content it was made of. `Push` is `pushDelta`
up to its `await`; `jobs.json` is read twice there and may change in between. `Handle`
is the whole route, `HandlePartly` a route that throws between two writes, `Refuse` a
413 or another refusal, `Answer` what the pusher does with a 200, ending in `saveState`,
which may fail. `Crash` loads the state file again. Left out: bytes of an offset and the
incomplete last line (`runs` counts complete lines), the contents of jobs, other
machines (the route keeps them apart by target).

`cron_sync`: 2 jobs and 2 requests (symmetric), one record of each job, two contents of
`jobs.json` (one that cannot be parsed), a body with room for one record, 1 change,
1 fault, 1 crash; no check for deadlock. It checks `TypeOK`, `RecordsMirrored` and
`HashIsOfMirror`. Two requests are what overlaps; two jobs fill a body that has room for
one record, which is refused for ever (413), as in the code. One record per job
suffices to have it sent, sent twice, skipped or forgotten; the proof speaks of any
number.

`RecordsMirrored` says that offsets never pass what the server has, whatever is lost,
late or repeated, so that no record is skipped; and that the server has a record twice
only if a request was in doubt, for `appendBridgeRuns` does not look for duplicates.
`HashIsOfMirror` says when the pusher may leave a file out of a request: after a request
that overlapped another one with a different content, or a copy that someone else wrote,
its hash may say what the server does not have until the file changes again.

## 8. What is modelled: telemetry, from heartbeat to view

A heartbeat goes from a bridge's POST into a log, from there into a projection and,
as a frame of a bounded stream, into the desktop's own copy of that projection.

| Variable | Code |
|---|---|
| `log`, `attached` | the events `TelemetryAggregator` keeps of its own node and of one attached server |
| `heard`, `now` | `lastHeartbeatByMachine`; the server's clock |
| `open`, `queue` | a client's `/events` response and its chunks (`createBoundedSseWriter`, sockets, reader) |
| `pc`, `view`, `seen`, `answer` | `ControlClient`: where `start` and `runSseLoop` are, its snapshot, `seenEventIds`, the body of a response |
| `op`, `client`, `status`, `shown` | `ControlMonitorService` |
| `ahead`, `off` | history, in no code |

The server orders the events of all nodes by their timestamps and takes the last of
each machine (`Projection`, `compareOrderedEvents`); the client applies frames as they
come. `Check` is `heartbeatChecker`, whose report is an event like any other. A client
that was stopped ends with the chunk it is reading, so only the end of its `start()` is
followed. Sessions and runs are projected as machines are and are not followed; run
details, logs, ghosts, the caps of the remembered ids and of the log, and a second
`start()` of one client are left out.

`telemetry_feed`: 1 machine, timestamps 1 and 2, a response of one chunk, 2 operations of
the operator, 1 break, 1 restart, 1 frame of an attached server, weak fairness of the
checker and of the client; no check for deadlock. It checks `TypeOK`, `ViewsAgree`,
`StatusIsOwn` and `OfflineReported`. Machines do not meet in a projection, and the
proofs are for any number of them; two times are an event early and one late; a response
of one chunk overflows with the second event; two operations are a client and the one
that replaces it. `OfflineReported` assumes that the checker's interval fires for every
machine it has heard.

What they say of the code:

* `ViewsAgree` names the cases in which an operator may see another status than the
  server's: an event between the answer of `/snapshot` and the open stream (there is no
  replay, no `Last-Event-ID`); events that arrive in another order than that of their
  times; and a restart of the server with events the client has already seen
  (`seenEventIds` outlives a refresh).
* `OfflineReported` excepts a machine whose clock is ahead of the server's: its heartbeat
  sorts behind every report and it never becomes offline.
* An attached server's frames never reach the log: the ingestor accepts an envelope only
  with its `version`, which ingest takes off (`Accepts`, `Frame`), though the repository's
  README says "Single merged view" of attached nodes. The mirror stays empty, and the
  proofs use that.
* `StatusIsOwn`: whatever older clients still do, the monitor shows its current
  operation's. (`connected` does appear before the stream is up.)

## 9. What is modelled: the bridge setup manager

`BridgeSetupManager` connects to a host, opens a reverse tunnel, installs or updates a
bridge and verifies that its telemetry arrives. It retries transient failures, stops for a
sudo password, and lets the operator disconnect or remove at any time.

| Variable | Code |
|---|---|
| `current`, `bridge` | the entry of `bridges` and each `ActiveBridge`: status, `closing`, client, pending input, `retryAttempt` |
| `timers` | retry timers that will fire |
| `link`, `owner`, `heard` | each `ssh2` client: its session, its setup, and whether the handlers at the end of `runSetup` are registered |
| `work` | each worker (`runSetup` per client, and the two routes that finish an installation): its await |
| `orphans`, `unheard`, `crossed` | history, in no code |

A worker goes from one `await` to the next, and nothing stops it but a look at `closing`
or a command whose session has ended. `Retry` gives the bridge a new client; `Broken` and
`Closed` are the two events of one loss. Commands of which only the last decides are taken
together. Left out: what is uploaded, the version checks, logs, several hosts (they share
nothing), and `preflight`, which opens and ends a session of its own.

`bridge_setup`: 2 setups, 3 clients, 2 attempts, 1 route, 2 faults (`MaxFailures`); no
check for deadlock. It checks `SetupTypeOK`, `SessionsOwned`, `OneAtATime` and `StatusIsTrue`. Two setups are one
that replaces another; three clients add a retry; one route meets a setup, and a second one
is what `crossed` excepts. No liveness is claimed: apart from the preflight, the remote
commands have no timeout, and a host that does not answer leaves a setup where it is.

What the exceptions say of the code: `client.end()` on a client that has not begun to
connect does nothing, so a setup given up while it reads its key connects all the same and
nobody ends that session (`orphans`). A loss before the handlers are registered is noticed
only by the command that fails, and not at all after a route has finished the installation
or when it looks like "skipped" (`unheard`): the status then stays `tunnel_open` or
`running` with no retry. A second route during the first command of one runs two
installations, and a late `close` after the retry that its `error` caused takes the new
client down (`crossed`).

## 10. What is modelled: targets and fleet governance

Each OpenClaw directory the server mirrors is a *target*, in a table with a file, and
each enabled one has a sync loop. What the server sees of a target (its loop, what its
bridge reported, the policy assigned to it) gives lists of drifts and violations, which
are announced and posted to webhooks when they change. Policies are assigned one by one
or in batches; a batch that hits critical targets needs a token from a preview.

| Variable | Code |
|---|---|
| `store`, `saved` | `OpenClawTargetStore.targets` and `openclaw-targets.json`: whether a target is enabled, and what else PATCH may change |
| `sync` | `OpenClawSyncManager.instances`: the options each loop polls with |
| `report` | `bridgeReportedStateByTargetId`: whether the bridge was heard, whether `openclaw.json` differs from what it reported, how many lag limits it is silent |
| `profiles`, `policyOf` | `fleetPolicyProfiles`, `fleetTargetPolicyId` |
| `seen` | the drift and violation signatures of each target |
| `settings`, `kept` | the destinations and routing rules of alerts, and `fleet-alerts.json` |
| `posts`, `cooling` | webhook requests under way; the keys of `fleetAlertLastSentAtByDestination` within the cooldown |
| `pending` | `fleetPendingApprovals` that are not expired |
| `unsaved`, `broken`, `settled`, `asked`, `used` | history, in no code |

A handler runs without an `await`, so each is one action that also does what it
announces (`Say`, `Announce`); only the answer of a webhook comes later. A target that
is deleted and comes back has a new id, hence `Forget`. Left out: broadcasts over SSE,
changes of the health score, the journal of remediation runs, test alerts, a PATCH of the
directory, and policies whose lag limit is below the poll interval. The reading of
`jobs.json` cannot fail, since `readJobs` catches, and equal requests under way count
once.

`fleet_signals`: 2 targets (a bridge's and the local one), 2 policies, 1 destination with
two settings, 1 token, threshold 0, 2 changes, 1 fault, 1 restart, weak fairness; no check
for deadlock. It checks `TypeOK`, `SyncFollowsStore`, `ApprovedBatches` and `AlertsTold`.
Targets meet only in the bulk operations, the doctor and a batch, for which two suffice.
Two changes are an operation and one that meets what it left behind (a failed write and
its repair, a preview and its use, a policy and a report); a destination is independent
of another. Fairness is of the timers of running loops and of the answers to webhooks,
which `AbortSignal.timeout` ends after 5 s; nothing is assumed of bridges or operators.

What the exceptions say of the code:

* `SyncFollowsStore`: a write that fails leaves the table ahead of its file and the loop
  as it was; the bulk delete stops all its loops before it removes anything, and ends at
  the first write that throws. A later change of the target, a reconciling or a restart
  mends it (`broken`, `unsaved`).
* `AlertsTold` names the reasons for which a destination may never hear of a problem that
  lasts (`settled`): the settings, a failed request, which is never repeated since the
  signature has already been replaced, and a cooldown. Its key has the *number* of
  problems, not their names, and `startTarget` announces a target as stopped before its
  loop is in `instances`, so that the start of a loop may begin the cooldown of an alert
  about something else.
* `ApprovedBatches` is about the token. What it was given for are the items and the
  restart flag; which targets are critical is not looked at again in comparison with the
  preview, and applying one policy to one target has no such gate at all. A target with a
  loop is never critical, however many problems it has: its score cannot fall that low.
* `fleet-alerts.json` is written in place, not renamed into place: a write that fails may
  leave it cut, which the next start reads as no settings (`NoSettings`).

## 11. What is proved

Eight modules of proofs, one theorem or lemma per fact. Their only assumptions are the
named ones on the constants (`...Assumption` of each module), which TLC evaluates in every
run. Liveness and ENABLED are out of the prover's reach and stay with TLC.

### Commands

`BridgeCommandsProofs.tla` proves, for every set of machines and versions,
every number of commands, approvals, restarts and faults, every receipt cap and
every number of attempts (`ConstantsAssumption`):

| Theorem | Property |
|---|---|
| `TypeCorrect` | `TypeOK` |
| `VerdictsAreDurable` | `DurableVerdict` |
| `RunInvHolds` | `RunInv` |
| `RunsOnce` | `RunOnceUnlessForgotten` |
| `RunsAreApproved` | `ApprovedBeforeRun` |
| `CountersAgree` | `AttemptsAgree` |
| `StoreImplementsContract` | `ImplementsContract` |

The argument. `RunOnceUnlessForgotten` and `ApprovedBeforeRun` are not inductive
alone: that a command has run at most once says nothing of the bridge that is
about to run it again. `RunInv` adds what links the processes, in the order
*bridge, file, memory*:

1. each record in memory is one the record in the file may become (`Evolves`:
   same machine and kind, approval and verdict kept, leases not fewer) - the
   memory may run ahead of the file when a save fails, never behind it;
2. what a bridge has in hand is in the *file*, is its own machine's and free to
   run (`InHand`) - `poll` answers only after its save succeeded, so a server
   restart takes nothing back from a bridge - and it acknowledges only what it
   has no receipt of;
3. what has run was free to run, according to the file;
4. all runs of a command but the forgotten ones are one, and the bridge of the
   command's machine still remembers that one (`RunsAccounted`).

The lemmas `RecordsEvolve` and `HandleEvolves` show that whatever a handler does
to a record is an `Evolves` step, and `NextEvolves` lifts this to every action;
`AheadOrder` and `AheadOne` show that the file follows. `DurableVerdict` needs
nothing else. `BridgeStepRunInv` and `RestartRunInv` carry parts 2 to 4 through
the bridge's steps; `AppendReceipt` says what a new receipt adds.

`SoundInv` is about single records: in the table and in the file the counters agree
and a status is one that a run of the command had, and what the bridges know, have
written or have under way of a result is one too (`Honest`). `AttemptsAgree` is a part
of it. The refinement combines the two invariants: a run of the CLI is the contract's
`Act` (`ActStep`, for what is in hand is free to run by `RunInv`), and every other step
settles commands with an outcome some run had, gives them up, or changes nothing the
contract sees (`SettleStep`, by `NextEvolves` and `SoundInv`).

### Sink

`HttpSinkProofs.tla` proves, for every queue, batch, number of retries,
threshold and bound (`SinkAssumption`):

| Theorem | Property |
|---|---|
| `SinkTypeCorrect` | `TypeOK` |
| `LineInOrder` | `OrderInv` |
| `NothingIsDropped` | `NothingDropped` |
| `LogInOrder` | `InOrder` |
| `QueueIsBounded` | `QueueBounded` |
| `SpoolIsTheQueue` | `SpoolFollowsQueue` |

`InOrder` speaks of the log alone and is not inductive: a late request could
hold anything. `OrderInv` adds that the *line*, the batch with the queue behind
it, and every late request are ordered: an event of this process's in them has
every smaller one before it or in the log. `LineStep` reduces the actions to six
things a step can do to the line: leave it, append the newest event, append what
the spool held, post a prefix of the batch (and keep, put back or drop the
batch), let a late request in, or end with the process. The `Ordered...` lemmas say
what each does to an ordered sequence, `IngestInOrder` what an ordered request
does to the log. What the spool held may contain anything, also events of this
process that a persist wrote before the hydration read them; it comes behind a
line that lacks nothing, and there (`OrderedConcat`) nothing can disturb.
`QueueBounded` is inductive with the length of a batch and the fact that the
spool is read once (`BoundInv`).

`SpoolFollowsQueue` speaks of a sink at rest; `SpoolInv` says what leads there, as
long as nothing has raced (`settled`). There is one write, the one `persistInFlight`
names (`OneWrite`), and the `.tmp` file it renames is its own (`OwnTmp`); none begins
before the spool is read (`ReadFirst`). Then, unless a persist is still to come (a
timer, a flag, a batch being sent), the file holds the queue, or will when that write
is done (`Covered`). The theorem needs that `Close` names no other caller of a persist
and that no caller is `None`, and covers `close()`, which `sink_spool` leaves out.

### Scheduler

`CronServiceProofs.tla` proves, for every finite set of tasks, every limit and
every bound (`CronAssumption`):

| Theorem | Property |
|---|---|
| `CronTypeCorrect` | `TypeOK` |
| `SlotsAreAccounted` | `SlotsAccounted` |
| `TimerIsWithinLimit` | `TimerWithinLimit` |
| `RunsDoNotOverlap` | `OneRunUnlessOverridden` |
| `TasksGivenUpAfterFailures` | `GivenUpAfterFailures` |
| `InstantsAreServedOnce` | `OneShotOnce` |
| `SchedulerStaysAwake` | `FallsAsleepOnly` |
| `TasksAreStrandedOnly` | `StuckOnly` |

`Base` joins the types to `SlotsAccounted` and to the fact that a run that begins
is a new one (`Fresh`), without which a set of runs could not be counted. A tick
may begin many runs at once: `NewRunsCount` maps its tasks one to one to them,
and `TickFacts` states once what a tick does. `TimerWithinLimit` is inductive
with `Base`, because the slots a tick fills are free by a count that is never
less than the runs. `OneRunUnlessOverridden` is not inductive: a task that is
not marked running must have *one run less* than one that is. `OverlapInv` says
so (`Room`), and that a process that is down has no runs; `SameLive` and
`OneMoreLive` reduce every action to whether it adds a run of the task and
whether it makes room for it. For `GivenUpAfterFailures`, `FailInv` says that
every copy of a task that may come back into the table - in memory, in the file,
captured by the catch-up, in a snapshot, in the hands of a run - charges the task
with no more failures than it had.

`OneShotOnce` needs the same of every copy (`OnceInv`): one that still waits for an
instant is vouched for by a time it was asked for that no run has used, and the
instants of captured copies are over, so that no tick after the first finds them
due but through the table. `AwakeInv` says that a run begun by a tick is in the batch
of a tick that still waits, whose end will set the timer: the scheduler is awake
while it has such a run, and falls asleep only when one without it ends or when a
save fails. `StuckOnly` follows from `Base` alone, action by action.

### Attachments and tunnels

`RemoteTunnelsProofs.tla`, for every set of endpoints, calls and bounds
(`TunnelAssumption`):

| Theorem | Property |
|---|---|
| `TunnelsTypeCorrect` | `TypeOK` |
| `NoStrayTunnels` | `TunnelsAccounted` |
| `AttachmentsHaveTunnels` | `AttachmentsBacked` |
| `ClosesAreIdle` | `ClosingIsIdle` |

The types alone do not say that whoever holds a tunnel holds one of its own endpoint
that has listened, and that a tunnel with a stream has its session: `Shape` does, and
every lemma needs it. `TunnelsAccounted` is inductive with `Alone`: where no two calls
overlapped, a call that connects finds the endpoint without a tunnel, and so never takes
another's place in the map. The other two are inductive only together and with
`Undisturbed`: on an endpoint where nothing met, the tunnel whose health is checked is the
one in the map, and nobody attaches what is attached (`BackInv`).

### Command queue

`CommandQueueProofs.tla`, for every set of commands and calls and every batch size
(`QueueAssumption`):

| Theorem | Property |
|---|---|
| `QueueTypeCorrect` | `TypeOK` |
| `ApplyAllOrNothing` | `AllOrNothing` |
| `CommandsRunOnce` | `QueuedOnce` |

`TypeInv` adds that no array is empty, so that an apply has a first command. `FileInv`
says what the file holds *during* an apply that nobody met: what was there at the snapshot
and what the commands before the current one wrote; at its end that is everything or,
restored, nothing. `OnceInv` says that every position of every array has a command of its
own (`Distinct`) and, while no discard and no other apply met the queue's, that an array
has one call, which has run it exactly up to its position (`OneWalk`). That `queue` may
extend the array during the walk is then harmless.

### Cron push and sync

`CronSyncProofs.tla`, for every set of jobs, requests and contents and every number of
records (`CronSyncAssumption`):

| Theorem | Property |
|---|---|
| `SyncTypeCorrect` | `TypeOK` |
| `RecordsAreMirrored` | `RecordsMirrored` |
| `HashesAreOfTheMirror` | `HashIsOfMirror` |

`MirrorInv` extends "the server has every record before the offset" to all the places an
offset may come from: the state file, the start of each request, and the end of each
request the server has handled. `OnceInv` says, of a job no request was in doubt about,
that only requests still awaited carry it and that what the server has beyond the offset
came with one of them. `InStep` does the same for a file and its hash, and is the
longest: of all the requests under way that hold it, it says that they hold the same.

### Telemetry

`TelemetryFeedProofs.tla`, for every set of machines, every number of operations and
every length of a response (`FeedAssumption`):

| Theorem | Property |
|---|---|
| `FeedTypeCorrect` | `TypeOK` |
| `StatusIsTheOperations` | `StatusIsOwn` |
| `ViewsAgreeWithServer` | `ViewsAgree` |

`LogInv` says that each machine has one last event in the server's log, without which the
projection is no function, and that the mirror is empty. `OwnInv` ties a stream and its
chunks to the current client. `FollowInv` says what every stage between the server and the
view knows: a snapshot under way or taken is the server's view, and the chunks of an open
stream, applied to the client's, bring it there (`Follows`); `ProjectionStep` says what an
event does to the projection when it is in order.

### Bridge setup

`FleetAndSetupProofs.tla`, second part, for every set of requests and every number of
setups, clients, attempts and failures (`SetupAssumption`):

| Theorem | Property |
|---|---|
| `SetupTypeCorrect` | `SetupTypeOK` |
| `NoSessionIsLeft` | `SessionsOwned` |
| `SetupsAreSequential` | `OneAtATime` |
| `StatusCanBeTrusted` | `StatusIsTrue` |

`SetupShape` adds to the types how a bridge, its clients and its workers belong together.
`Step` says once what any of the 22 actions of a worker may do: it changes the bridge it
works on and its own session only (`Keeps`, `Linked`), asks for a retry only as it ends in
error, and leaves no phase of the work behind in the status (`Told`). On that rest three
invariants, each needing the one before:

1. `OwnInv`: of the bridges that are not closing at most the listed one exists, and a
   session that is open *or being opened* is its client's. Without the second half
   nothing is known of the session that `Connected` opens.
2. `OneInv`: that one thing is at work or due does not say that an event of an older
   session finds nothing to disturb. So the earlier clients that have handlers must be
   gone, a client with handlers has nothing under way (`HeardIsIdle`), and a bridge that a
   route may work on has a client without handlers and no retry due.
3. `TrueInv` is about a bridge that is worked on, too: without its session it is in error
   and nothing is under way; a disconnected one has no worker; and a worker at its last
   await, which may leave the status as it is, finds no phase of the work in it.

### Fleet governance

`FleetAndSetupProofs.tla`, first part, for every set of targets, policies, destinations and tokens,
every threshold and every bound (`FleetAssumption`):

| Theorem | Property |
|---|---|
| `FleetTypeCorrect` | `TypeOK` |
| `LoopsFollowTheTable` | `SyncFollowsStore` |
| `TokensAreForOneBatch` | `ApprovedBatches` |
| `SignaturesAreAccountedFor` | `SeenIsTold`, stated in the proof module |

`TypeOK` is worth its proof for one conjunct, that every target has a policy that exists,
which a restart, a removal and a batch might each break. `SyncFollowsStore` is inductive:
`RestartedFollows` and `RestartedKeeps` say what `restartTarget` leaves of the loops it is
given and of the others, and `FollowBy` reduces every action to the targets it restarts and
those it excuses. `TokenInv` adds that a token which was never given has let nothing through.

`SeenIsTold` is the safety behind `AlertsTold`. The signature of a list is replaced as the
list is posted, before any answer, and from then on the list is not posted again; so a
problem that is in a signature had better be accounted for with every destination: told,
kept from it by a cause that `settled` names, or named by a request on its way. The
converse, that `settled` holds only what the signatures hold, says that a problem which
went away and is back is told anew. Both are preserved by one announcement
(`AnnounceTold`), which is where the work is: handlers announce up to three times in one
step, and `ToldState` carries the invariant from one to the next. No run
checks it again; what is left to TLC of `AlertsTold` is that the requests end and the loops
refresh.

### Only model-checked

* Commands: `EventuallySettled`.
* Sink: `EventuallyDelivered`.
* Scheduler: `RunsAgain`.
* Tunnels: `Settles`. Telemetry: `OfflineReported`. Fleet: `AlertsTold`.

All of these are liveness properties under fairness, which the prover cannot show. Every
safety property that a run checks is a theorem.

## 12. Not modelled, and what is left

* **Desktop application.** All but `ControlMonitorService` are React views and the shell
  that starts the processes. They hold forms and what the last answer of the API said, and
  make up more than half of the code; what they show of the server is covered by the feed that
  reaches them (section 8).
* **SFTP sessions.** One `await` on an SSH library per operation, with no state but the
  open session.
* **Bridge runtime and mapper.** The polling of OpenClaw's sessions and the comparison of
  two snapshots produce the events that `HttpSink` takes as given.
* **Parsers and checks** (SSH config, OpenClaw config, readiness, installation): functions
  of their input.
* **API routes** beyond those named in `PROJECT.json`: authentication, validation and
  calls of one component. Rate limits and authentication change no state the models have.
* **Telemetry**: sessions, runs and ghosts, which are projected as machines are, and the
  cap of the event log, which drops the oldest events.
* **Arithmetic of `computeNextRunMs`** and the matching of cron fields: the scheduler's
  model knows only whether a next run exists and whether it has come.

Left for later, in this order: action properties of the models that have none yet (what
a late event may never undo); a model of the bounded event log with its eviction; cron
expressions against a reference definition.
