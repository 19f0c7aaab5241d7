# bsrs: a TLA+ model of an experiment-orchestration system

bsrs is an experiment-orchestration system in Rust, modelled on bluesky: plans
(streams of messages) drive devices through a RunEngine, which emits documents
(RunStart, descriptors, events, RunStop). Around the engine stand a queue
server, device classes over EPICS and software backends, a frame data plane,
document sinks and an optimisation loop. This directory holds TLA+ modules that
model them, TLC configurations that check them on small instances, and TLAPS
proofs. `PROJECT.json` records the components, runs, mutants, the map from
definitions to source lines, findings, hazards and theorems.

Paths below are relative to `src/crates/bsrs/src/` unless they start with `src/`.

## 1. Inventory

| Component | State | Operations | Interaction | Hard behaviour | What makes it correct |
|---|---|---|---|---|---|
| Control plane (`engine/run_engine.rs`: `RunControl`, `pause` ... `stop`, `pause_gate`, `take_interrupt`, claim and start of `run_async`) | atomics: `is_running`, `is_paused`, `pause_seq`, `interrupt_seq`, `holds`, `manual_pause`, `run_gen`, flags; mutexes: token, `pending_suspend`; a `Notify` | pause, resume, stop, abort, halt, SIGINT, request_suspend, release, claim, reset, gate | caller threads, suspension tasks and the loop share it without a common lock | every interleaving of stores; lost wakeups; stale loads | one run at a time; no lost wakeup; no unexplained cancellation; interrupted messages replayed; interrupts honoured; suspensions lift |
| Message loop (`run_loop`, `handle`, `on_pause_enter`, `on_resume`, `drain_and_close`, cleanup) | `EngineState`: runs, message cache, replay queue, rewindable, groups, staged, touched, contingency stack | one handler per message | plan, devices, sinks | pause at any point, replay of a replay, failure in a region, timeout | one RunStop per run; monitors restored; devices at rest; numbers name points |
| Bundler, counters, descriptors, asset packing (`engine/bundler.rs`, `event_model/compose.rs`, `pack_external_assets`) | open bundle, descriptors, configuration cache, counters, resources | create, read, save, drop, declare, configure, collect, snapshot, rewind | called by the loop and by monitor pumps | rewinds; Configure beside a pump; a sink failing between two documents | dense numbers; descriptor before event; configuration true; one index axis |
| Pages (`event_model/page.rs`) | columns | pack, unpack, rechunk | sinks | page borders | rows kept in order |
| Suspenders (`core/suspender.rs`, `engine/suspender.rs`, `host/ca_suspender.rs`) | a subscription, a predicate, a delay | trip, watch, release | a watcher task requests suspensions | flapping, a source that goes away | trips on a bad value, lifts on a good one |
| Plans (`plans/`) | generators, contingency regions | scans, stubs, wrappers | feed the loop, are thrown into | cleanup plans under interrupts, cached positions | finalizers run once; rows recorded where they should be |
| Queue server (`qs/`) | queue, history, task slot, manager state, environment, permissions, lock, task tracker | some forty requests; the worker task | clients, REP thread, worker, engine | a request racing a plan's end or a worker's claim | an item is pending, running or done, never lost or run twice |
| Status, subscriptions, signals (`core/status.rs`, `core/subscription.rs`, `devices/signal*.rs`, `backends/soft/`) | shared completion; listeners; mailbox | resolve, join, time out; subscribe, stage, post | everything awaits a status | late completion, concurrent posts, drop while delivering | resolved once; values in order |
| Device trees (`devices/device.rs`, `observe.rs`, `standard_readable.rs`, `stage_sigs.rs`) | connection attempt, saved settings | connect, set and wait, stage, unstage | many tasks connect one device | rollback that fails too; change before the wait | restored after a failure; own change seen |
| Motor moves (`host/motor_move.rs`, `backends/epics_ca/channel.rs`) | target, trailing put, set/use switch | set, stop, recalibrate | movers share a channel | coalesced put-callbacks | last write wins; arrival covered |
| Detectors (`devices/detector.rs`, `host/areadetector.rs`) | arming, files, emitted indices | prepare, trigger, kickoff, complete, collect, unstage | camera, plugins, monitors | stale counts, timeouts, re-prepare | datums lie in the file, without gap |
| Backends and commands (`backends/`, `devices/command.rs`) | converter, initial value, serial lock | connect, read, write, monitor, execute | IOC restarts, lost channels | stale converter, late answer | values survive the conversion; executes do not overlap |
| Frame pipe, paths, journal (`stream/`, `devices/path_provider.rs`, `host/checkpoint_store.rs`) | bounded queue, counters, lines | push, accept, collect; path_info; append, rotate, boot | tasks, disk | full queue, crash in a write | announced frames are there; own file names; abandoned runs found |
| Sinks (`engine/sink.rs`, `callbacks/`) | files, catalog, ring | accept, subscribe, relay | engine and pumps | a failing or lagging sink | every sink served |
| Optimisation (`blop/`) | trials, rows, socket, router | optimise, sample, ingest, route | optimizer process | late answers, failures | answer matches question; trials accounted for |
| Lua host, REPL, binaries, metrics, registries | - | bindings and lookups | call the parts above | - | not modelled |

The hazards of this code, each at its line with the properties aimed at it, are
in `PROJECT.json`.

## 2. Modules

| Module | Models |
|---|---|
| `RunControl`, `RunControlProofs`, `MCRunControl` | the control plane, one action per atomic operation; its theorems; its instances |
| `RunBundler`, `RunEngine`, `RunEngineProofs`, `MCRunEngine` | one open run as operators on a record; the message loop; its theorems; its instances |
| `Documents` | composing, packing, Configure, collect and fan-out beside a monitor pump |
| `EventPages` | event and datum pages as operators |
| `PlanQueue`, `QueueServer`, `PlanLedger`, `MCQueueServer` | queue operations; REP thread, worker, slot and environment; what they promise about items; instances |
| `QueueServerProofs`, `PlanLedgerProofs` | theorems of `QueueServer`; that it implements `PlanLedger` |
| `QsGate`, `QsGateProofs` | permissions, locks and the task tracker; their theorem |
| `ScanPatterns`, `Plans`, `PlanMachine`, `MCPlans` | trajectories; plans and wrappers as messages and markers; a plan run against the contingency stack; the catalogue of plans |
| `Statuses`, `StatusesProofs` | `Status`, its timers, callbacks, waiters, `and`; their theorem |
| `SignalStack`, `SoftDevices` | signal cache over a soft signal; soft and mock devices, a suspender's PV watch |
| `Connecting`, `Staging` | connection, set and wait, suspender conditions; staging and its rollback |
| `MotorMove`, `Detectors` | moves over a shared channel; detectors over camera and file writers |
| `DevicesProofs` | the theorems of `MotorMove` and `Staging` |
| `Commands`, `CommandsProofs`, `EpicsBackends`, `NdTables` | command backends; their theorem; one EPICS signal over both transports; array and table conversions |
| `PathProviders`, `FramePipeline`, `RunStore` | paths and file numbers; frames from monitor to file; the crash-recovery journal |
| `DocumentSinks` | sinks, ring, publisher and relay |
| `Optimise`, `OptimiseAids` | optimisation plans against the optimizer process; routing, search spaces, router and logger |
| `MCDevices`, `MCBackends`, `MCRecords` | instances of the component modules |

### RunControl

`pc[a]` is the next atomic operation of actor `a`; an actor is a task calling
`run_async` (Runners), a thread making control calls or the SIGINT task
(Callers), or a suspension from its request to its release (Suspensions). Each
`Ordering::SeqCst` load or store is a step, each critical section of the token
mutex is a step. `mark_paused` ("flag", "count") and `wake` ("unflag",
"notify") are shared by all actors as in the code. `Notify` stores no permit:
`waiter[r]` is "none", "armed" (after `enable()`) or "notified".

What a message does is abstracted to: it completes, it fails, it is cancelled
when the token is, or it makes a control request (Pause, Resume, Checkpoint
with a deferred pause). A contingency region may or may not catch what is
thrown. A suspender is a condition in `bad`; `trip`, `watch` and `tripped` all
follow it. Removing a suspender resolves the future a suspension awaits, which
`TurnGood` covers.

History variables record what a property needs and the code does not store:
`owed` (a message was cut short and not yet replayed), `lateCount` (a pause was
counted between the new token and the load of `pause_seen`), `absorbed` (the
suspension a gate pass left untaken).

### RunBundler and RunEngine

A run is a record: open bundle, declared streams, counters, snapshot, monitor
registrations and pumps, uncollected flyers. A plan is any sequence over
`Alphabet`, so every plan of bounded length is covered, the illegal ones
included. Messages are `[op, key, arg]`; the plan's n-th message carries the
number n, which its replays keep, so that events can be related to the points
of the plan they stand for.

A pause, resume or interrupt request is one step (their inner steps are
`RunControl`'s subject). Handlers that wait (`Sleep`, `Wait`, an ungrouped
`Set`) have a "waiting" location where a pause or interrupt can cut them short
and where a status can fail or, for a group, time out and move on; `stage` has
one because the loop timeout can drop it. Devices are sets: moving, staged.
A save's asset drain may fail after the event took its number (`SaveFails`).

Four walks over several objects log or drop the failure of one and go on: the
stop walk of a pause and of the end of `run_async`, the unstage walk, the
restoring of monitors and the backstop collection. In each, any of the calls may
fail, all of those of one walk counting as one failure (`Failing`,
`CountFailure`); a movable or flyer whose `stop_on_pause` is the trait's default,
which does nothing, is in `Unstoppable`. What a walk failed on itself is recorded
in `swallowed` until a later walk covers it, and the properties exempt exactly
that: a failure must cost nothing but its own object.

Not in the model: document contents, response channels (a message carrying one
is never cached), pausable devices and hooks. Configure and the events monitor
pumps compose are in `Documents`.

### Documents and EventPages

One run with three streams: an object read into one and monitored into another,
a step detector's external key, and a flyer's two. The plan's messages, the
pump's events and the sinks' answers interleave; a document is handed to one
sink at a time, and a sink that fails cuts the handler short after what it had
already done. `EventPages` has no steps: an initial state is a case and the
property states the law.

### PlanQueue, QueueServer, PlanLedger

A step is one critical section of the thread that takes it. A worker is a task,
so an abort takes effect only where it awaits: `Dropped` before its first poll
or inside the engine. Clients' requests are chosen from a profile, fixed in the
initial state, so that every behaviour can fill and run a queue and explores one
further topic. `PlanLedger` says what is promised about each item (none,
pending, running, orphan, done, gone); `ImplementsLedger` maps queue, worker and
history to these stages and requires every step to be a ledger step or a
stutter. `StrictMoves` restricts clients to moves whose reference is pending and
is another item: the code loses the item otherwise (`qs_move`).

### Plans, PlanMachine

A plan is a sequence of messages and of markers for its contingency regions.
`PlanMachine` runs one of the catalogue with a failing message, or a stop, abort
or halt, before any message; wrappers are resumed from the outermost inwards and
look into their sinks only then, as the generators do. What a plan decides on an
answer is an argument. `MCPlans` writes down, from each plan's documentation,
the rows it must record.

### Device and backend modules

Each has its own variables with a prefix, an Init, a Next and one `...Sound`
conjunction of named invariants. External parts are the IOC, the motor record,
the plugin chain, disks, brokers and the optimizer process, each given the
freedom the source assumes of it: answers late, in error, or never. `MotorMove`,
`Detectors` and `SignalStack` name values by the number of the write, so that
order and loss can be read off them. `EpicsBackends` counts numbers in halves and
keeps text as character codes, because its properties are about the conversions.
`NdTables` and parts of `PathProviders` and `OptimiseAids` are operators checked
case by case.

`MCDevices`, `MCBackends` and `MCRecords` hold several components that share no
state. `focus`, chosen in the initial state, says which one a behaviour is about
and the others keep one initial state; this explores each on its own and never
their product. A property is conditional on
its focus for the same reason, unless it holds of a component left in its initial
state.

## 3. Runs

All runs use `CHECK_DEADLOCK FALSE`: requests, messages, faults and writes are
bounded, so every behaviour stops when its budget is used up.

### Passing

| Run | Checks | Bounds |
|---|---|---|
| `control_safety` | `TypeOK`, `TokenExplained`, `NoLostWakeup`, `InterruptedMsgReplayed`, `SingleRun`, `StartGateCovers` | 2 runners (symmetric), 2 runs, 1 caller, 1 suspension, 3 requests: pause, deferred pause, resume, SIGINT taps |
| `control_live` | `InterruptHonoured`, `SuspensionsLift` | stop, abort, halt, 2 suspensions, 2 requests, loop timeout |
| `engine_rewind` | `TypeOK`, `DenseSeq`, `CachedCutReplayed` | 6 messages, 2 pauses, 1 failure, recording, loop timeout |
| `engine_points` | `SeqNamesPoint`, `NoEventAfterStop` | 2 run keys, 8 messages, 1 pause, 1 abort |
| `engine_devices` | `RunsClosed`, `MonitorsLive`, `QuietAtRest`, `BackstopDrains` | 5 messages, 2 devices, 2 flyers (one unstoppable), 1 pause, 2 interrupts of any kind, 1 failure of a message or of any part of a walk |
| `qs_safety` | `NoItemLost`, `NoOrphanWorker`, `Startable`, `ImplementsLedger`, `ArmedQueueRuns` | 2 items, 5 requests, 2 environments, 2 workers, 7 profiles of requests |
| `devices` | `FinalizersRan`, `LegalMessages`, `SettledReads`, `RecordedRows`, `MotorSound`, `DetectorsSound`, `WatchesSound`, `SignalsSound`, `SwitchComesBack` | the catalogue of plans with 1 throw; 3 movers, 3 writes, 1 stop, 1 fault at any send, answer or write of the switch; 2 writers, 4 operations, 1 fault; 2 connecting callers, 2 posts; 3 threads, 3 writes, 1 listener; 2 tasks, 3 to 4 soft operations |
| `backends` | `StatusSound`, `CommandsSound`, `ConversionsSound`, `StagingSound`, `FilesSound` | clock to 4, timeout and settle 2; 2 callers, 3 executes, 1 lost channel; 9 record shapes, 1 IOC restart, 1 write; 3 children, 2 settings, 1 fault or drop, 2 rounds; 3 path calls, 2 days; 5 frames, queue of 2, 2 faults; 3 runs, 6 hooks, rotation at 2 lines, 2 crashes, 1 torn line |
| `records` | `DocumentsKept`, `SinksServed`, `OptimisationSound` | 3 messages, 2 configurations, 1 post, 1 fault; pages of up to 4 rows; 3 documents, ring of 1, 1 fault; 4 sessions of 1 or 2 plans, 1 late answer, 1 fault; 2 routed runs, 2 events |
| `gate` | `GateSound` | 2 plans, 3 permissions files, 2 keys, 2 tracked of 3 tasks, 2 requests of all kinds, 4 about tasks |

The races of the control plane need two requests that overlap and, for the ones
about a release, a third; three requests therefore reach every pairwise
interleaving and a request arriving in its middle. Three taps are also what the
SIGINT handler tells apart. The safety theorems below hold for every bound and
every set of calls. Six messages are open, checkpoint and a complete point with
one message to spare for the second pause; eight hold two points with a
checkpoint between them; five hold open, a device operation, its counterpart, a
region and one more; two devices and two flyers are the one a walk fails on and
the one it must still reach. Five requests open an environment, fill and start a queue,
interfere and start again; two workers are the finishing one and its successor.
Three writes to a motor are the put-callback in flight, a plain put beside it
and the trailing one. A frame queue of two is full with frames still to come.
Two crashes hit a journal that already holds the trace of one.

`SeqNamesPoint` is claimed for one pause and no failure caught by a region: a
second pause refutes it (`engine_points` with `MaxPauses = 2`). `RunsClosed` is claimed
without the loop timeout, which drops the loop before it can close anything.
`control_safety` allows requests while a run starts (`QuietStart = FALSE`). The
liveness runs assume none is in progress then: a suspension requested across a
run's start is never released (`engine/run_engine.rs:279`), and
`SuspensionsLift` with `QuietStart = FALSE` and `MaxRuns = 2` is violated.

Other passing instances are restricted by a constant because the code does not
keep the property without it; setting the constant shows how.

| Constant | Restriction | Without it |
|---|---|---|
| `StrictMoves = TRUE` | a queue item is moved next to another pending one | `qs_move` |
| `DcCarryOn = FALSE` | the plan ends at a failed message | a region that carries on after packing failed emits events of a stream with no descriptor: `DescriptorFirst` (`engine/run_engine.rs:2253`) |
| `FrReopens = FALSE` | one task opens the HDF5 sink and none feeds a sink after its close | the file is created anew, the binary file truncated: `AnnouncedIsWritten` (`stream/sinks/`) |
| `DtMonitorsInOrder = TRUE` | the reset of NumCaptured is seen before Capture starts | a count of the previous acquisition completes a wait early: `SucceededIsWritten` (`devices/detector.rs:351`) |

### Fairness

`TasksRun`: an operation that has begun goes on (weak fairness per actor:
threads and tokio tasks are scheduled, a handler returns - the handlers that
can wait for ever race the token or await a device whose status resolves).
Nothing makes a caller call, and nothing makes a run begin. `ConditionsClear`:
a suspender's condition turns good in the end; `SuspensionsLift` and
`InterruptHonoured` in `control_live` need it. `FairSpec` of `QueueServer`: the
REP loop turns, spawned tasks are scheduled, and a plan that is not paused ends;
nothing makes a client ask. `MotorFairness`: a task that awaits is resumed,
motion ends, and the record answers its put-callback; `SwitchComesBack` needs
them because the write back to "Use" is sent by the task that awaited the
recalibrating put. Each of the three writes of a recalibration may fail, those of
the switch before or after they took effect; the property exempts a switch left
in "Set" by the failure of its own write, which the call reports. Nothing makes anyone stop or move a motor.

### Violations

Each of these runs checks one sentence of the repository and TLC finds a
behaviour of the code that contradicts it; `PROJECT.json` quotes the sentence
and describes the behaviour.

| Run | Property | In short |
|---|---|---|
| `control_holds` | `HoldsHonoured` | a release wakes over a hold taken after its decrement |
| `qs_move` | `NoItemLost` | a move next to itself, or to an item no longer queued, removes the item |

Further configurations reproduce other disagreements. They are not part of the
project's runs; each ends in a violation of its property.

| Configuration | Property | In short | Against |
|---|---|---|---|
| `MCRunControl_abort.cfg` | `InterruptHonoured` | a pause after an abort parks the loop | `engine/run_engine.rs:1294` |
| `MCRunControl_absorb.cfg` | `AbsorbedPlansDoNotRun` | an absorbed suspension is taken by the next pause | `engine/run_engine.rs:3096` |
| `MCRunControl_sigint.cfg` | `SigintPausesFreshRun` | no SIGINT handler after the third tap | `src/doc/03-runengine.md:141` |

Ten more definitions state a sentence that the code does not keep; added to the
run's cfg as an invariant, with the constants named, each is violated.

| Definition | Run | Against |
|---|---|---|
| `RunControl!CancelIsRecognised` | `control_safety` | `engine/run_engine.rs:229`: a pause between the new token and `pause_seen` fails the plan |
| `RunControl!PausedIsBlocked` | `control_safety` | `engine/run_engine.rs:61`: an older wake's notify lets a newly paused loop through |
| `RunEngine!StopNeverDowngrades` | `engine_devices` | `engine/run_engine.rs:1301`: a stop after an abort ends as success |
| `RunEngine!SeqNamesPoint` | `engine_points`, `MaxPauses = 2` | `engine/run_engine.rs:2116`: the second rewind goes further back than its replay |
| `RunEngine!NoForeignReplay` | `engine_rewind`, `Alphabet <- SleepMsgs`, `MaxCalls = 2` | `engine/run_engine.rs:878`: the message cache survives the run |
| `RunEngine!InterruptedNotLost` | `engine_rewind`, `Alphabet <- SleepMsgs` | `engine/run_engine.rs:1278`: a replayed message cut short is not redone |
| `PlanMachine!AlwaysUndone` | `devices` | `plans/preprocessors.rs:280-285`: an interrupt at a nested Pop skips the nested final plan |
| `SignalStack!TornDownIsEmpty` | `devices` | `devices/signal_cache.rs:172-173`: a delivery in progress refills the cache |
| `RunStore!DetectsAbandoned` | `backends` | `host/checkpoint_store.rs:9-12`: a torn line is glued to the next record; a keyed run hides the abandoned one |
| `DocumentSinks!LagCounted` | `records` | `engine/sink.rs:17`: the overflow counter is never incremented |

Other places where code and text part, met while modelling and kept in the
modules as the code has them:

- Engine: a halt makes the stop calls that `src/doc/03-runengine.md:146` says it
  does not (the walk of `engine/run_engine.rs:986` is on every way out); a
  release wakes over a manual pause made after its load
  (`engine/run_engine.rs:241`); `CloseRun` does not collect flyers (`:1621`);
  devices are stopped after the RunStop (`src/doc/03-runengine.md:116`); the loop timeout leaves a run without RunStop (`:122`).
- Documents: datums of a save wider than one overlap the next event's numbers;
  declaring a declared stream broadcasts its descriptor again; rows with unequal
  keys shift values when a page is unpacked.
- Plans: `stub_wrapper` swallows what is thrown into a region it drops; a failed
  locate counts as 0 in the relative wrappers.
- Queue server: the tracker evicts running tasks and calls them completed
  (`qs/tasks.rs:95`).
- Detectors: a failed open leaves the capture running; a re-prepare drops events
  not collected; the soft writer never resets its count.
- Backends: an enum index without a choice is read as text that cannot be
  written back; a converter outlives an IOC restart; Channel Access cuts text at
  the first NUL and PV Access only at trailing ones; executes over PV Access may
  overlap.
- Paths: the auto-max provider ignores `next_value`; the dated provider does not
  put the date where its documentation says (`devices/path_provider.rs:824`); a
  refused request uses up a number.
- Sinks: a failed Tiled registration is not retried; a partial JSON line is glued
  to the next one.
- Suspenders: any update during the resume delay restarts it; a dropped source
  lifts the suspension.
- Optimisation: a step whose ingest fails does not register the trials as failed;
  the router stops at its first failing sink (`blop/callbacks.rs:205`); an
  ingest that timed out may still be applied.

### Mutants

Every property of a passing run has a mutant in `PROJECT.json`. Where a property
is about several parts, further mutants of the same form stand beside the
definition they would replace and break the part the listed one does not reach:
`ListensFromNext` (`Connecting`), `ListenEmpty` (`SignalStack`), `ReadbackKept`,
`EmittedNow`, `NeverHeld` (`SoftDevices`), `TimeoutDueUnsettled` (`Statuses`),
`DimensionsKept`, `ExactIntTooFar`, `FinishLeavesExtra` (`NdTables`),
`AppendedAnyway` (`FramePipeline`),
`RechunkWhole` (`EventPages`), `AnyPrefix` (`DocumentSinks`), `FirstNameOnly`,
`EvictNewest` (`QsGate`), `StopLeaves`, `InRunAll` (`OptimiseAids`).

## 4. Proofs

The checks above are of small instances; the theorems hold for every value of
the constants. Each is `Spec => []P` unless said otherwise, from the named
assumptions of the module it is about (the kinds of actor are disjoint, the
alphabet is made of messages, the bounds are numbers). Every strengthening was
checked with TLC before it was proved. The steps of one action are frame lemmas
for what it leaves alone, and one leaf per conjunct it can disturb.

### RunControlProofs

- `TypeCorrect`: `TypeOK`.
- `ClaimIsExclusive`: `SingleRun`. With the types it is inductive: only
  `Claim` leaves "idle" and it needs `is_running` clear, only `ReleaseClaim`
  clears it. The other invariants use it to know that a step of one runner
  leaves every other runner idle.
- `TokenHasReason`: `TokenExplained`, from `SeqBound` (`pause_seen` and
  `thrown_seq` never pass the counters, so a count is news to every runner that
  has loaded before) and `TokenInv`, which says at which locations of the start
  sequence a cancelled token still needs no explanation.
- `WakeupNotLost`: `NoLostWakeup`, from `WakeInv`: between arming and leaving
  the gate the waiter is armed or notified, and while `is_paused` is clear and
  the waiter only armed, either the loop has yet to test the flag or somebody
  is at "notify".
- `OwedMessageReplayed`: `InterruptedMsgReplayed`, from `OwedInv`: while a
  message is owed, the loop is at the top with a pause pending, inside the gate,
  or about to consume an interrupt.
- `StartGateHolds`: `StartGateCovers`, from `MissInv`: a dropped trip whose
  condition is bad is in the starting run's sampled set, or the sample is still
  to come.

### RunEngineProofs

- `TypeCorrect`: `TypeOK`.
- `CutIsReplayed`: `CachedCutReplayed`, from `LoopInv`: one of the message cache
  and the replay queue is empty, both are in the order of the plan, what is in
  hand comes before all that is still to be replayed, and a cut message is in
  the cache until the resume and in the replay queue after it.
- `EveryRunIsClosed`: `RunsClosed`, from `RunInv`: the runs that are open have
  different uids, all handed out, and no RunStop. "open" is never cached, so a
  replay opens nothing twice and the uids cannot run ahead of the plan.
- `NothingAfterStop`: the action property `NoEventAfterStop`.
- `MonitorsComeBack`: `MonitorsLive`. Its own statement is inductive, over
  every handler, the parking walk, the resume and the end of the loop: a run's
  pumps are its registrations but for those the last restoring failed on.
- `AtRest`: `QuietAtRest`, from `ObjInv` (what moves was touched or is left
  by a failed stop, and the walks at a pause and at the end stop what was
  touched but for the unstoppable and what they fail on) and `Tracked` (a staged
  device is in the engine's set, or "stage" is on its way to put it there).
- `BackstopIsDrained`: the action property `BackstopDrains`, from `Listed`: a
  flyer with data not landed is still on its run's list, and the backstop lands
  the list but for what it fails on.
- `NumbersAreDense`: `DenseSeq`, from `SeqInv`: every number up to a run's
  counters has been emitted, and every number up to the counters its snapshot
  would return to.
- `NumbersNamePoints`: `SeqNamesPoint`, from `RewindInv`. Before the rewind no
  event is beyond the counters, and the handled part of the message cache leads,
  message by message, from the bundle and the counters of the checkpoint to the
  present ones; each event since the checkpoint is the point of one of its saves
  (`BeforeInv`). After it the events beyond the counters are points of the saves
  still to be redone, at the numbers these will take (`AfterInv`). A bundle begun
  before the checkpoint has no such account: the rewind cancels it, the message
  that ends it is refused, and the run fails before another number is taken
  (`Torn`). The bundle and the counters after each message are functions under an
  existential, extended at one end by a message handled and shortened at the
  other by a message redone, so the proof needs no induction over the cache.

The three are about walks with any set of failing calls; `FaultInv` bounds the
failures counted.

`EveryRunIsClosed`, `MonitorsComeBack`, `AtRest` and `BackstopIsDrained` assume
`~HasLoopTimeout`, as the run that checks them does: the loop timeout drops
`run_loop` with runs open and devices staged. `NumbersAreDense` assumes
`NoGapShown`: no failure, or none that a region survives and no flyer sharing a
stream with events. It is not a convenience. The proof did not go through
without it, and the counterexample is the code's: a save that fails in
`drain_assets` has already advanced the counter
(`engine/run_engine.rs:2253`), and whoever goes on with the stream shows the gap.

`NumbersNamePoints` assumes `OneRewind`: at most one pause, no region that goes
on after a failure, and flyers with streams of their own. Two pauses refute `SeqNamesPoint`
(`engine_points` with `MaxPauses = 2`). A region that catches a failure or an
interrupt in the middle of a replay drops what is left of it, and the next saves
of the plan then take the numbers of points that were not redone.

### QueueServerProofs

- `TypeCorrect`: `TypeOK`; the invariant adds that a step of the environment
  finds it open and which locations carry an item.
- `WorkersAreStopped`: `NoOrphanWorker`, from `SlotInv`: a worker that was not
  told to stop is the one in the slot, or the one just spawned whose abort
  handle is about to be registered; and the slot is empty once the REP thread
  is past the shutdown.
- `ManagerIsStartable`: `Startable`, from `StateInv`: while the manager is
  executing some worker is still to call `idle_out`, so "executing" cannot
  outlive the last worker.
- `ItemsAreKept`: `NoItemLost`, from `LossInv`, by following each item from the
  place it leaves to the place that accounts for it next.

### PlanLedgerProofs

`ServerImplementsLedger`: `StrictMoves /\ Spec => ImplementsLedger`, every step
of the queue server is a step of the ledger or a stutter. The invariant is
`ServerInv`, `LossInv`, `PlaceInv` (uids are handed out in order; an item is
pending at most once; an item in a worker's hands is in nobody else's, not
pending and not gone) and `RegInv` (between claim and registration the slot
holds the new worker or none). The proof does not match actions to ledger
actions one by one. It first says of each step what it does to the item in a
worker's hands, the pending uids and the history (`WorkerShape`, `Quiet`,
`Edits`, or a claim), and derives invariant and ledger step from that shape.
That at most one unforced item runs follows from `SlotInv`: two workers not told
to stop would both be the one in the slot.

`ItemsAreKept` and `ServerImplementsLedger` assume `StrictMoves`; `qs_move`
shows that the code breaks both without it.

### CommandsProofs

`CommandsAreSound`: `CommandSpec => []CommandsSound`, for any callers, executes
and lost channels, over each of the five backends. `RunsInv` numbers the
executes: an execute has one caller; what is under way is under way for the
caller that waits for it, or for nobody after a give-up; with a lock, nothing is
under way but for the holder, and who is at the channel holds it. The queue of
the lock is followed by three lemmas on sequences (`Joined`, `HeadLeaves`,
`LeavesFrom`).

### StatusesProofs

`StatusesAreSound`: `StatusSpec => []StatusSound`, for any timeout, settle time
and horizon and any users and cancellers. The invariant: the user's callback is
in one list or has been called, never both (`CallInv`); the count `and` keeps is
two less the parts whose callback has run with success (`JoinInv`); a waiter
parked on an ended status is about to be woken (`WakeInv`); without a settle time
a success ends the status at once, and a timeout is not early (`TimeInv`), from
which a success reported in time finds its settle timer due before the timeout
is; what an observer has seen and what is queued for it are consecutive up to
the last update (`WatchInv`).

### QsGateProofs

`GateIsSound`: `GateSpec => GateSound`, for any permissions files, plan names,
keys and tracker size. What a client may do is decided when it asks: what stands
in the queue was put there by a group that was allowed it, a client without the
key of a held lock changes nothing, and a task that is over is never reported
otherwise. The permissions part is inductive once each submitting method is
known to be classified as one (`Adds`). The tracker needs `TrackInv`: it holds
the youngest tasks, as many as fit, in the order they were started; from it the
entry an eviction removes is never one that a poll has already read as over
(`PollInv`), and the count of background tasks is that of the tasks not yet
taken off it (`CountInv`).

### DevicesProofs

`StagingIsSound`: `StagingSpec => []StagingSound`, for any children, signals,
settings, faults and dropped futures, provided that no two children share a
signal (`StagingBounds`). The invariant (`StagingInv`): a list of settings has
each signal of its device at most once, and so has the list a task is working
through, even after settings were replaced under it (`ListInv`); an original is
held by exactly the settings a task has passed (`HeldInv`); and a signal that is
not as it was found is excused, or its setting holds what it was, or its put is
the one being rolled back (`ValueInv`). The last is what makes a rollback that
starts in the middle of the list restore everything: the settings before it are
those that hold an original.

`MovesAreSound`: `MotorSpec => []MotorSound`, for any movers and moves and any
bounds, where set_current_position's own put is not one of the movers'
(`SettlerNamed`). The invariant (`MotorInv`): the record's setpoint is the last
write, and a trailing put-callback carries that same value (`SlotInv`), so that
sending it late undoes nothing; who waits has put, who has put and is not
answered waits, and the put-callback in flight is no older than the write of any
mover it answers (`MoverInv`). The last part is needed because a mover whose put
was written plain joins the trailing put-callback, not the one in flight.

### Only model-checked

- Liveness (`ArmedQueueRuns`, `InterruptHonoured`, `SuspensionsLift`,
  `SwitchComesBack`): out of the prover's reach.
- `PlanMachine`'s properties: they are about the plans of a finite catalogue.
- What `Documents`, `OptimiseAids` and `Optimise` promise: `OptimiseAids` and
  `EventPages` recurse, and induction over data is out of reach.
- The invariants of the other device, backend and sink modules.

## 5. Not modelled

- The Lua host, the REPL and the binaries: they bind or call the operations
  modelled here. What the host adds (its REPL thread, subscriber queues and plan
  handles) is not modelled. The largest uncovered files (`host/lua_env.rs`,
  `bin/bsrs/repl.rs`) are of this kind.
- The CA and PVA clients, HDF5, Tiled, Kafka and 0MQ libraries are external and
  appear as environments.
- Serialised bytes, metadata, hints, file layouts and the numbers computed by an
  optimizer, and the generators that place points by sine and cosine.
- In the engine: response channels, pausable devices, the hooks other than the
  journal's, `Locate`, `Input`, `Custom` and `Publish`.

Components that share state through an interface only (a detector writing through
a path provider, a plan moving a motor) are checked apart.

## 6. What is left

1. `EpicsBackends` and `SignalStack`: the order of updates and the life of a
   monitor.
2. An abstract pause protocol (running, parked, ended) that `RunControl` is
   shown to implement under `QuietStart`.
