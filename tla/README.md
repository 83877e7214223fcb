# A verification project for MLRun

MLRun is an MLOps platform: a Python SDK, an API server (FastAPI over a SQL
database, with one *chief* and any number of *workers*), an alerts service and a
log collector written in Go that runs beside the API.  This directory holds TLA+
modules that model the parts of the server that are hard to test, the TLC
configurations that check them on small instances, and theorems about them with
proofs that TLAPS checks.

It covers four subsystems: **log collection**, from the goroutines of the log
collector to the loops of the API that drive it; the **life of a run** between its
pods, the runs monitor, abortion and retries; the **alerts service** with its caches;
and the chief's **internal background tasks**.  In all of them several actors write
shared state without holding a lock over what they have read, and memory is lost in
restarts that the database survives.

## 1. Inventory

| Component | State it keeps | Operations | What is hard | What makes it correct |
|---|---|---|---|---|
| Log collector server (`server/go/services/logcollector/server.go`) | manifest and current state (two stores), log files, buffer pools | `StartLog`, `StopLogs`, `GetLogs`, `GetLogSize`, `DeleteLogs`, monitoring loop, streaming goroutines | handlers, loops and goroutines interleave; check-then-act on the stores; crash and restart | one goroutine per run, a stopped run stays stopped, a failed stream is taken up again, a log taken for complete is complete |
| State stores (`statestore/`) | project → run → log item, in memory and in `state.json` | `AddLogItem`, `RemoveLogItem`, `UpdateLastLogTime`, `RemoveProject`, the loop that writes the file | nested `sync.Map`s without a lock; the file is rewritten in place | no addition or removal is lost, every item reaches the file, the file survives a crash |
| Buffer pool (`framework/common/bufferpool`) | channel of buffers, size counter | `Get`, `Put` | two critical sections in `Get`, blocking sends | buffers are conserved, the size is bounded, nobody stalls |
| API log collector client (`framework/utils/clients/log_collector.py`) | none | `get_logs` with retries, `start_logs`, `stop_logs`, ... | a retry after a partial answer | the bytes yielded are the requested ones |
| API log collection loops (`services/api/main.py`) | `requested_logs` per run, request counters in memory | start and stop passes, their startup variants | counters, restarts, passes racing the state of runs | the API stops asking, and the collector is told to stop |
| Run lifecycle (`crud/runs.py`, `runtime_handlers/base.py`, `launcher.py`, `main.py`) | run state and retry count in the database, pods, timers in memory | submit, monitor, clean up, abort, retry, delete | everyone decides on a run read earlier; timers and tasks die with the process | retries do not overlap, no run stays trapped in a non-terminal state, an aborted run is not retried |
| Background tasks (`framework/utils/background_tasks`) | internal: in memory, active and previous per kind; project: in the database | create, wrapper, get (which times tasks out) | reader's time-out against the late wrapper | one active task per kind, terminal states are final |
| Time window tracker | a window start per key | refresh, update | two replicas, restart | no window is skipped |
| Alerts service (`services/alerts/crud`) | configuration, state and activations in the database, two caches, events in memory | process event, reset, store, periodic cooldown reset | mutable objects in caches shared by threads; restart in the middle of a request | caches agree with the database, events count once, resets hold and close activations, cooldowns end |
| Schedules, pagination cache, project leadership, notifications, SQL layer | rows of the database | CRUD | mostly external libraries | — |
| Model monitoring, serving, feature store, SDK, packagers, frameworks | client side or external engines | — | data transformation | — |

How they interact: the API's loops call the log collector over gRPC
(`StartLog` for runs that were not requested yet, `StopLogs` for runs in a
terminal state); users read logs through `get_logs`, which calls `GetLogs`.  The
log collector lists and streams the run's pod from Kubernetes.  Its handlers and
goroutines meet in the two stores and in the buffer pools.  The record of a run is
written by the SDK in its pods, the launcher, the runs monitor, the clean-up, the
abortion and the retry loop; the launcher clears the record's `requested_logs` for each
retry, which the loops of log collection read.  Events reach the alerts service from the
API; a reset comes from a user, a new configuration or the periodic cooldown reset.

## 2. Modules

| Module | Models | Checked by | Proved in |
|---|---|---|---|
| `CollectorContract` | what the log collector promises to the API | implemented by `LogCollector` (`collector`), used by `LogCollection` | `LogCollectorProofs` |
| `LogCollector` | `StartLog`, the monitoring loop, streaming goroutines, `StopLogs`, the state file, crash and restart | `collector`, `collector_live` | `LogCollectorProofs` |
| `StateStore` | one store at the grain of single `sync.Map` operations | `store` | `StateStoreProofs` |
| `BufferPool` | `SizedBytePool` | `pool` | `BufferPoolProofs` |
| `LogReads` | `get_logs`, `GetLogs`, chunking, buffers, deletion | `reads`, `reads_aliasing` | `LogReadsProofs` |
| `LogCollection` | the API's passes that start and stop the collection of a run, composed with `CollectorContract` | `log_collection` | `LogCollectionProofs` |
| `RunLifecycle` | record and pods of a run, SDK, launcher, monitor, clean-up, abortion, retries | `run_lifecycle`, `run_retry_after_abort` | `RunLifecycleProofs` |
| `Alerts` | events, activation, resets, configuration and caches of an alert | `alerts`, `alerts_overlap` | `AlertsProofs` |
| `InternalBackgroundTasks` | creation, wrapper and look-up of internal background tasks | `background_tasks` | `InternalBackgroundTasksProofs` |

`MC*` modules only declare model values and the sets the configurations use.

### LogCollector

*State.*  `manifest` and `lastLogTime` are the file-backed store (`stateManifest`),
`currentState` the in-memory one, `stateFile` what is on disk, `writing` the
encoded state between truncation and write.  `call[c][r]` is the `StartLog` handler
working for run `r` on behalf of the API or of the monitoring loop, `streamer[s]` a
goroutine of `startLogStreaming`, `stop` the `StopLogs` handler.  `pod` and
`emitted` are Kubernetes' (external).  `collected` is which chunks the log file
holds.  `stopped` is history: the runs stopped while nobody had their item at hand.

*Actions.*  `StartLog` is split where another goroutine can see a difference: the
idempotence check (`StartLog`), the pod search (`FindPod`, `FindPodFails`), adding the
item and spawning the goroutine (`StartStreaming`), adding the run to `currentState`
(`Track`).  An iteration of the monitoring loop ranges over the items (`MonitorTick`),
asks for each whether it is being collected (`MonitorCheck`) and calls `StartLog` for those
that are not; its handlers keep what was listed, whatever happens to the items.  The
goroutine opens the stream, reads chunk after chunk (every `LogTimeUpdateInterval` chunks
saving its time and stopping when the item has gone), looks the pod up after an EOF, removes
the item when it is done, and in its deferred function saves the time (`SaveLastLogTime`) and
leaves `currentState` (`Untrack`).  Saving a time loads the item in one step and stores it in
another (`StoreLastLogTime`, location `"save"` or `"resave"`), as `UpdateLastLogTime` does.
`StopLogs` removes each run from the manifest and then from `currentState`.  A write
of the state file is two steps, as `WriteToFile` opens with `O_TRUNC`.

*Abstractions.*  One project.  Time is the number of chunks the pod has written, so
"the log since time t" is the chunks after t, possibly with the chunk at t again
(`SinceTime` is coarser than a log line).  A log file is a set of chunks: duplicated
chunks are not told apart.  Adding and removing an item are atomic, and the project's map is
always there: that it is loaded, and published again as a whole by an addition or an update
that a `RemoveProject` overtakes, is left to `StateStore`, and `Undisturbed` counts no stop
during which that could happen.  The search for the pod is one step: its retries have no state.

### CollectorContract

The abstract specification of the log collector: the runs it has taken on (`items`), those
it goes on with after a restart (`saved`), those somebody in it works for (`carried`), the
`StopLogs` call in progress and the pods.  A run is carried from a request for it on, or from
the moment the loop or a goroutine has read its item.  Only a run that is carried is taken
on, and only when its pod has left Pending, but that may happen again and again and after a
stop.  The collector drops a run by itself only when its pod no longer runs; otherwise it goes
only by `StopLogs` or a crash.  In `LogCollector` the contract is instantiated with `items` as
the manifest, `carried` as the runs of handlers, of the loop's list and of goroutines between
the halves of an update (`CarriedRuns`), and `saved` as what the state file yields when it is
read (`SavedItems`: what is being written once the file is complete, nothing while it is
truncated).

### LogCollection

The other side of the contract: one run with its attempts, each collected under a uid of
its own, and the record's flag.  `starter` is the pass of `_initiate_logs_collection` or of
the startup verification (best effort), from listing the run to `update_runs_requested_logs`;
`stopper` the pass of `_stop_logs` or its startup variant; `counter` the run's entry in
`_run_uid_start_log_request_counters`.  The collector is the contract's, with every step it
may take on its own: it takes runs on after the API has stopped waiting for an answer, reads
its items, and takes a run on again during or after a stop, as its loop and its goroutines do.
A request is sent and answered in separate steps, and an answer tells nothing about the item.  A
record's `age` stands for the windows of the two passes: while the API is up, a stop pass
lists a run before it leaves the window, which the code's factor of one and a half intervals
aims at; while it is down the record may age past every window.  `lost` is history: since the
last update of the record, the collector has taken the first attempt on or has restored it
after a crash, or a stop has failed.  Such an item no later pass is sure to see, and the
properties except it; a mark that comes after it renews the record and clears `lost`.

### RunLifecycle

*State.*  `record` is the run in the database, reduced to its state and retry count, `pods`
the pods with their retry label and phase.  `monitor` is the pass of `_monitor_runs` with the
run it has listed, `abort[a]` a call of `abort_run` by a client, by the monitor (thresholds)
or by the retry loop (staleness), `retry` the rows listed, the uid in progress and the timer
of the retry loop, `launch` the launch in progress.

*Actions.*  Every write of the record is a step of its own, and what it decides on is what the
code has read before: the monitor its listed run, the abortion the caller's, the timer the row
it was set for.  `_ensure_run_state` debounces by the age of the record, which is a choice
here.  `AbortRequest` allows a second task where the code may return the first one.

*Abstractions.*  One run of a pod-based kind.  created and pending count as running, unknown is
left out.  The pods a call deletes go in one step.  `MaxEvents` bounds the abort requests,
evictions, failed calls and restarts together.

### Alerts

`config`, `db` and `open` are rows of the database (reset policy, state, activations without a
reset time); the rest is memory.  Cached states and entries of `_states` are dictionaries that
a thread may hold on to, so they are objects with identities, and a step is one access to the
database or the statements up to the next one.  "cooldown" is the policy auto with a cooldown
period above zero.  Times are left out: an event may leave the criteria's window at any time,
a cooldown may elapse at any time.

Any thread may begin a request while others are served (`MaxOverlaps` bounds how often), and
a request may fail (`RequestFails`) at any access to the database, at the validation of new
notifications, which comes after the cached configuration and the routing were dropped, and
at the delivery of notifications, which comes after the state was made active in the cache
and before it is stored.  A request that fails undoes nothing.  Two history variables say
what these leave behind: `suspect` which of the two caches overlapping requests may have left
stale, until a `store_alert` (the configuration) or a reset (the state) is served alone;
`undelivered` that an event had enough company to activate the alert but failed to.

### StateStore

`inProgress` points to the project's map, `items` is the content of each map, and
every client keeps the pointer it loaded.  `AddLogItem`, `RemoveLogItem` and
`UpdateLastLogTime` are the sequences of loads, stores and deletes the code performs;
`added` and `removed` record the runs whose last completed, undisturbed operation was
an addition or a removal.

### BufferPool

`Get` is the poll of the channel, the size check, the increase and the blocking send
of a new buffer; `Put` the blocking send.  Buffers are counted, not named.

### LogReads

A byte is the pair of its run and its position, so that a foreign byte is visible in
an answer.  `readLogsFromFile` fills a pooled buffer and gives it back before the
slice is sent, as the deferred `Put` does; `SendChunk` sends what the buffer holds by
then.  64-bit sums wrap at `MaxInt`.

### InternalBackgroundTasks

`tasks` and `state` are `_internal_background_tasks`, `active` and `previous` the pair in
`_background_tasks_kind_locks`.  A creating thread checks, registers and activates in
three steps.  The wrapper of a task and a reader that finds the task past its time-out
are actors that go through the same `_update_background_task` and
`_finish_active_task`, one statement on a dictionary at a time; a look-up that fails is
a `KeyError`, which ends the actor.  Any running task may be past its time-out, which
includes tasks that have none.  One kind: kinds touch different entries.

## 3. Runs

Passing runs:

- `pool`: three goroutines, a pool of two: two can pass the size check while the third
  holds a buffer.  Buffers are conserved, no more of them are allocated than goroutines
  use the pool, and only a pool past its size can stall `Get` or `Put`.
- `collector`: one run, two chunks, a time saved every two, all handlers, failing
  pod lists, streams and writes, crashes and restarts.  A run that was stopped while no
  handler, iteration of the loop or half-done update had its item stays out of the manifest
  (`StopSticks`), although goroutines go on streaming it; a goroutine that takes the log for
  complete has copied every chunk of its stream (`SessionComplete`).  Two chunks give a
  stream that ends before a save and one that saves.  Every step is one of
  `CollectorContract` (`ImplementsContract`).
- `collector_live`: two goroutines, rotation, pod deletion, failing streams; no chunks,
  which play no part in these properties.  Under fairness the monitoring loop takes up
  every item that is not being collected, every item reaches the state file, and
  nothing but `StopLogs`, a crash or the end of the pod removes an item.
- `store`: two clients, two runs, a project with an item that no client touches until
  `RemoveProject`: no addition or removal is lost, and the item stays.  Two clients are
  what the lost updates need; once the project may come and go, only calls that nothing
  overlaps are held to their promise.
- `reads`: every size from -1 to 7 and offset from 0 to 6 on files up to 5 bytes that
  grow or are deleted meanwhile, a buffer of two bytes, streams that fail before their
  first chunk.  The answer is the requested part of the file and every request ends.
  The sizes cover requests shorter than, equal to and longer than buffer and file.
- `run_lifecycle`: one retry, pods of two attempts at a time, a client, and one event out of
  abort requests, evictions, failed calls and restarts (thresholds, staleness and failing
  abortions come on top).  A second retry is never submitted while one waits or is
  launched; and the run is in a terminal state again and again (`NotTrapped`).  A lasting
  terminal state cannot be claimed: a stale writer may reopen a run that has ended.
- `log_collection`: two attempts, two requests before the API gives up, lost answers of
  starts and stops, two crashes, which allow the API to crash during its own recovery or
  with the collector.  A run that is over and marked as requested is never out of the reach of
  the passes while the collector has its first attempt (`InReach`).  The API stops asking for
  the logs of a run (`AskingEnds`), and the item of a first attempt leaves the collector once
  the run is over and marked (`CollectionEnds`), even if its pod was deleted so that the
  collector cannot tell.  `InReach` and `CollectionEnds` except `lost`.
- `alerts`: two threads, an alert that fires at two events, three events, two user actions, one
  request that begins while another is served, one that fails, one restart.  Three events
  are an activation and one more, or one that fails in between; overlap, failure and restart
  may come at any step, and combine.  Two threads are what a stale cache needs.  The run
  tells how far the damage goes: with `suspect` left empty TLC finds each of `CachesAgree`,
  `FiresAtCount` and `ResetClosesActivation` violated by overlapping requests, and with
  `undelivered` left FALSE the first two by a delivery that fails.
- `background_tasks`: two creating threads, a reader and three tasks.  The active task is
  always registered; a task whose wrapper has ended, even in a `KeyError`, does not block
  its kind, and a task whose function has ended stops being active.  Two creators can
  both miss an active task; with three tasks one is deleted from the history while its
  function still runs.

Deadlock is checked except in `LogReads` and `InternalBackgroundTasks`, where all requests
or all tasks may be done, and in `RunLifecycle`, `LogCollection` and `Alerts`, where the run
may be over or the bounds used up.

Runs that show where the code does not do what its comments say (each is a finding
in `PROJECT.json`):

- `run_retry_after_abort`: the launcher's check for runs aborted while their retry was
  waiting looks for a state that has been replaced by then; the run starts again.
- `alerts_overlap`: an event that is being processed while a user resets the alert puts
  the alert's events, or its active state, back.
- `reads_aliasing`: two concurrent `GetLogs` share a buffer that was put back too
  early, and one sends the other's log.

Also visible in the models, without a run of their own.

In log collection: two `StartLog` handlers that both miss the run in `currentState`, which
is entered last, start two goroutines for one file; a goroutine that fails before its
handler has entered the run leaves an entry behind, and the monitoring loop takes the run
for collected for ever; the saved time is that of the read, so that a goroutine with a
backlog skips lines when its stream is opened again; a process that dies while it
rewrites `state.json` loses all items; concurrent first additions to
a project, or an addition concurrent with the removal of the last item, lose the
addition (`AddedStay` with `Keepers = {}` and two clients); a map loaded before
`RemoveProject` is published again after it (`RemovedGone`); a stop is undone by a
`StartLog` in flight, by the monitoring loop between its list and the pod search, and by
`UpdateLastLogTime` between its load and its store, the last two without any request for the
run (`StopSticks` without `Undisturbed`), although the comment of `StopLogs` says "This will
prevent the monitoring loop from starting logging again for this run id" (server.go:521); if
the run's record is not updated afterwards no pass of the API stops it again (`lost`);
`AddLogItem` resets a restarted run's time to 0;
an EOF by rotation just before the pod completes passes for the end of the log
(`SessionComplete` with `"rotation"`); a stream that breaks half-way is retried from the
original offset and bytes are yielded twice (`ReadsFileContent` with `"break"`); sizes
near the largest int64 overflow in `EndIndex`; over-allocation blocks `Get` and `Put`
(`SomeoneGetsABuffer`); two internal background tasks of a kind run at once, when two
threads create them together or when a reader has timed the first one out, a late
wrapper turns failed into succeeded, and a task pushed out of the pair by a second
finisher stays in the dictionary for ever.

In the API's loops: the items of retried attempts (`uid-attempt-N`) are never named by a
stop request and stay when their pod is deleted; the mark after a pass overwrites the flag
that a retry has just cleared, so that the retry's logs are not requested.

In the life of a run: the monitor writes over an abortion that it has not seen; a launch
that ends after the run was aborted turns it into pending retry or error; the clean-up of a
failed pod of an earlier attempt changes the state of the run, as only the monitor looks at
the retry label; a pod of an earlier attempt that starts late stores the older retry count;
a submission that fails keeps its uid in progress for good.

In alerts when a request fails: after a delivery that raises, the alert is active in the cache
and inactive in the database.  It stays silenced until a reset or a restart; one with a cooldown
too, as the periodic reset looks into the database; its activation is never closed; and a
change of the policy from manual does not reset it, as that goes by the database as well.
A `store_alert` whose notifications are refused has removed the routing of events: the alert
gets none until it is stored again or the service restarts.

In alerts with overlapping requests: a state read from the database before a reset enters
the cache after it and suppresses the alert; a configuration read before a change enters the
cache after it; two threads that both miss an entry of `_states` lose an event; two threads
both activate the alert.  And without overlap: a crash between storing a configuration of
policy auto and the reset leaves the alert active without a cooldown; the reset after such
a change does not close the activation of an active manual alert, as it goes by the new
policy (`ResetClosesActivation` excepts both).

### Fairness

Weak fairness of goroutines, handlers and loops, and nothing else: the Go scheduler
is preemptive and fair enough to run a goroutine that can run, tickers fire, and the
process is restarted by Kubernetes.  Nothing obliges the API to send requests or a pod
to start, write or end.  In `LogReads` handlers and client coroutines go on when they
can.  In `BufferPool` a goroutine inside `Get`, holding a buffer or inside `Put` goes on;
single goroutines may starve, as `Get` polls.  In `InternalBackgroundTasks` threads and
wrappers go on, but no function is obliged to end and nobody to read a task.

In `RunLifecycle` pods start and end, the periodic loops run again and again, and tasks that
were started are carried on (weak fairness).  A record does not stay recent in every pass of
the monitor, as the debouncing period is finite: the steps that need an old record are
strongly fair.  In `LogCollection` passes come again and go on and dead processes are
restarted; neither the run, its pods nor the collector's completion is fair.  In `Alerts` a
request that has begun goes on, a cooldown elapses and the periodic reset comes again.

### Bounds

`MaxChunks`, `Streamers`, `MaxLen`, `MaxRetries`, `Pods`, `Clients`, `Maps`, `Names`, `MaxAttempts`,
`MaxRequests`, `MaxCrashes`, `Objects`, `MaxEvents`, `MaxChanges`, `MaxRestarts`,
`MaxFailures` and `MaxOverlaps` bound the
instances and are constants of the modules; the theorems hold for all of their values.

## 4. Proofs

`BufferPoolProofs` (any finite set of goroutines, any positive pool size):

- `TypeCorrect`: the channel never exceeds its capacity.
- `BuffersAreConserved`: inductive with the types; each step moves one goroutine, so the
  cardinalities of at most two of the sets `At(...)` change by one (`GotoMoves`).
- `AllocationIsOnDemand`: counts the goroutines on their way to allocate as well
  (`currentSize + |At("check")| + |At("grow")|`).  A goroutine enters `"check"` only when the
  channel is empty; by conservation all buffers are then with other goroutines, and the
  sets of goroutines at different locations are disjoint (`OthersAreFewer`).

`LogCollectorProofs` (any runs, goroutines, bounds and faults; from `NoRunAssumption`,
`BoundsAssumption` and `NoWriteAssumption`):

- `TypeCorrect`: includes that the unsaved chunks stay below the interval and that a
  stream never runs past the pod's log.
- `SessionsKeepUp`, if logs are not rotated: what a goroutine has passed is in the file, and
  one that has come to the end has found a pod that is done and nothing left of its log, or
  a pod that was deleted.  Streams of other goroutines, failed writes, stops and crashes do
  not disturb it, as files only grow and a pod that is done writes no more (`Onward`).
- `SessionsComplete`, if pods are not deleted either: `SessionComplete`.  Both conditions are
  needed; TLC finds a log that is not complete without either.
- `StopsStick`: `StopSticks` is not inductive, as whoever has the item at hand would add it.
  `StopInv` adds that nobody carries a stopped run: no handler, no listed item of the loop, no
  goroutine between load and store.  Only these add items, the loop and the goroutines take a
  run up only when they find its item, and a stop is recorded only when nobody carries it.
- `ForgetsOnlyWhenDone`: an action property.  `FoundInv` and `PodInv` carry what handlers
  and goroutines have learned about the pod to the step that uses it; this is sound
  because phases only advance (`PhasesAdvance`).  `DownInv` says that a dead process has
  nothing to remove.

- `ContractIsImplemented`: `Spec => Contract!Spec`, the safety of the refinement.  Every step is
  an abstract step or leaves the abstract variables alone; it needs the types, `FoundInv` and
  `PodInv` for the phases of the pods, `DownInv` for the dead process and `FileInv` for the
  state file.  `CarriedByCall` and `CarriedByStreamer` say how each step of a handler or a
  goroutine changes who carries what.

`RunLifecycleProofs` (any retries, pods, clients and events; from `LifecycleAssumption`):

- `TypeCorrect`: no attempt is numbered past `spec.retry.count`.  The types alone are not
  inductive, as the timer adds one to a count it was given earlier: `RetryBudget` says that a
  timer is set only for a count below the limit.
- `RetriesDoNotOverlap`: inductive with `RetryBudget`, which also says that no launch is under
  way while a timer is set, so that the end of a launch does not release another's uid.

`InternalBackgroundTasksProofs` (any names, creating threads and readers; from
`TasksAssumption`): `TypeCorrect`, `ActiveStaysRegistered` and `EndedTasksRelease`.  The
inductive invariant `LockInv` says that a name enters the pair once, when its wrapper is
born (`UnbornInv`), that creating threads have names of their own (`CreatorInv`), that the
active task is registered and not the previous one, and that a previous task is
registered unless someone is about to replace the pair (`PairInv`).  The last part is what
a wrapper needs that dies in a `KeyError` while its task is active: whoever deleted the
entry clears the pair in its next step.

`StateStoreProofs` (any clients, runs, keepers and maps; from `StoreAssumption`): `TypeCorrect`,
`AddedItemsStay`, `RemovedItemsGone` and `KeepersStay`, all from one inductive invariant,
`StoreInv`.  The three properties speak of the map that is published; a client may hold
another one.  `Solid` says that while an item is known to be in the store all clients share its
map and none is about to drop the project, `Gone` that a removed run is in no map that is
published or held, `Alone` what the others may be doing while a call counts as undisturbed, and
`Underway` what such a call has done so far.  `Settled` says that no call contradicts what was
recorded, and `Shape` which calls reach which step.

`LogReadsProofs` (any readers, buffers and faults; from `ReadsAssumption`):

- `ReadersCorrect` and `TypeCorrect`: no chunk exceeds its buffer, no count of bytes the file,
  although the end of a request may have wrapped around.
- `AnswersKeepLength`: however many readers overwrite each other's buffers, no answer is cut or
  runs past its end (`AnswersHaveLength`, which no run checks), if `size + offset` does not
  overflow and no stream breaks after its first chunk.  `ReaderInv` relates the request to the
  file at each step: as much was yielded as was counted, the chunk to be sent is all that was
  asked for, and the end fits the file or the file was deleted.
- `AnswersAreContent`: `ReadsFileContent`, for one reader under the same conditions.  The same
  invariant says of a single reader that what was yielded is the file from the offset on and
  that the chunk to be sent is still in its buffer.  Each condition is needed:
  `reads_aliasing` shows that for the single reader, and the other two are listed under the runs.

`LogCollectionProofs` (any attempts, requests, crashes and faults; from `CollectionAssumption`):

- `TypeCorrect`: the requests for a run stay within their limit.
- `NothingLeftBehind`: `InReach`, the safety that `CollectionEnds` rests on, for a collector
  that may do whatever its contract allows, which is what `LogCollector` is proved to
  implement.  It needs that a `StopLogs` call does not outlive the collector that serves it
  (`StopAlive`), without which a call could return and leave the item behind.

`AlertsProofs` (any threads, objects, counts, overlaps, failures and other bounds; from
`AlertsAssumption`, which says that there are finitely many threads and more objects than
threads):

- `ThreadsCorrect` and `TypeCorrect`: an event is appended once and activates the alert once at
  most.  `Counted` adds the threads that have not yet done so to the count and compares it with
  the events.
- `CachesStayInAgreement`, `FiresOnlyAtCount` and the action property `ResetsCloseActivations`.
  `SerialInv` says what holds between requests (`QuietInv`) and, at each step of a request, how
  cache, object and database are related (`RequestInv`), for each cache that is not suspect;
  failures and restarts may come at any step.  Nothing is assumed about overlaps: a step of
  the second thread makes both caches suspect, and what makes one sure again is served alone,
  so that a sure cache and a second thread exclude each other (`Serial`).

Only model-checked: the liveness properties, as the prover handles neither fairness nor
ENABLED: `NoStallWithinSize`, `MonitorPicksUp`, `EventuallyPersisted`, `RequestsEnd`,
`KindIsFreed`, `NotTrapped`, `AskingEnds`, `CollectionEnds` and `CooldownEnds`.  Every invariant
and action property that a passing run checks is stated by a theorem.

## 5. What is not modelled

`ListRunsInProgress`, `HasLogs` and the gRPC plumbing only read or forward.  The search
for the pod's log lines, log levels, paths and encodings are left out.  Several projects
are independent keys of the stores.  Of runs, deletion and kinds without pods are left out,
and so are hyper-parameter runs; of alerts, creation, deletion, templates, the contents of
notifications, the eviction of entries from the LRU caches and failures after which the
database may or may not hold what was written.  Of `WriteToFile` the error exits are left out:
a write of the state file fails only by a crash.  `LogReads` and `StateStore` are checked for
what the code keeps under the conditions named with their runs; the cases outside them
(rotation, streams that break, overlapping calls, projects that come and go) are listed above
and not excluded by the code.  Durations are left out
everywhere: that the stop pass looks back far enough, or that a debouncing period is long
enough, is assumed.

Most of the repository's Python lines are the SDK, serving, the feature store, data stores,
packagers, model monitoring and the SQL layer: conversions, REST calls and queries without
protocol state of their own.  They are listed in `PROJECT.json` with the reason.

## 6. Plan

1. Proofs: the safety that the liveness of `RunLifecycle` and of `Alerts` rests on, as `InReach`
   is for the collection of logs.
2. `ProjectBackgroundTasks`: tasks in the database, written by wrappers and by readers that
   time them out.  Abstract specification: a task is running, then in one terminal state
   for good, which `store_background_task` means to guarantee.
3. Deletion of runs (`delete_runs` applies the index of a chunk to the whole list when a
   deletion fails), the time window tracker, the pagination cache.
