# Zenoss 4.2.5: a TLA+ verification project

Zenoss monitors networks. Collector daemons poll devices on a schedule and
report events and data to a hub, `zenhub`, which keeps the object database and
tells collectors when a device changes. This directory holds TLA+ models of the
parts of the Python code (`Products/`) whose correctness depends on the order
in which callbacks, messages, failures and restarts happen, TLC configurations
that check them on small instances, and TLAPS proofs. Line numbers are those of
the source tree this directory stands beside. `PROJECT.json` maps every definition to
its lines and lists the hazards that the properties are aimed at.

    tlc -workers 2 -config task_executor.cfg MCTaskExecutor.tla
    tlc -workers 2 -config config.cfg MCConfig.tla
    tlapm ConfigPropagationProofs.tla

The other runs and proof modules are named in sections 3 and 4.

## 1. Inventory

The collectors and the hub are single-threaded Twisted processes: a callback
runs to its end, and interleaving happens only between callbacks (timers,
deferreds, network messages) and between processes. An action of their models
is one callback, with every call it makes that changes state. The worker of
`zenjobs` has threads; there an action ends where another thread could see the
difference.

| Component | State | Operations | Hard behaviour | What makes it correct |
|---|---|---|---|---|
| Bounded executor, `ZenUtils/Executor.py` | queue, `_running`, `_max`, pending `callLater(0, _runTask)` | `submit`, `setMax`, `_runTask`, `_taskFinished` | a timer that finds nothing to do leaves no successor; callables that return, raise or return a deferred | limit respected, FIFO, no slot lost, no wake-up lost |
| Collector task scheduler, `ZenCollector/scheduler.py` | tasks and looping calls by name, task states, `_tasksToCleanup`, its executor | add, remove, pause, resume, delayed start, periodic call, run, complete, cleanup sweep, shutdown triggers | a task replaced while it is queued or running; sweeps over running cleanups; delayed starts that outlive their task; completion that removes siblings | one version of a task at a time, cleanup once and last, no task lost, everything ends |
| Collector event queues, `ZenHub/PBDaemon.py` | performance and event queues, chunk in flight, clear counts, `_pushEventsDeferred` | `addEvent`, `pushEvents`, `sendEvents`, failures, reconnection, `_stopPbDaemon` | queueing during a push, overflow, failed pushes that put events back, stop during a push | no silent loss, order kept, clears not suppressed wrongly, stop flushes and ends |
| ZenHub worker dispatch, `ZenHub/zenhub.py`, `WorkerSelection.py` | three work lists, `workers` (order matters), `worker_processes`, jobs of busy workers | `deferToWorker`, `giveWorkToWorkers`, registration, disconnection, process end | workers that come, exit at their call limit and crash, in any order with respect to jobs | every job once, in order, answered; reserved workers stay reserved; the pool heals |
| ZenHub worker process, `zenhubworker.py` | `numCalls`, shutdown pending | `remote_execute` | exit after the last call, also when it raised | no work sent to a process about to exit |
| Collector daemon and configuration, `ZenCollector/daemon.py`, `config.py` | device ids, configuration loader task, devices still to update | `remote_updateDeviceConfig`, `remote_deleteDevice`, `_updateDeviceConfigs`, `_purgeOmittedDevices`, loading | yields between devices and then purges by the list it began with; hub pushes and deletions meanwhile; lost connections | the collector ends up with the configuration of the model |
| Hub change notification, `ZenHub/notify.py`, `services/Procrastinator.py`, `ZenCollector/services/config.py` | batches of sub-devices, pending devices, timers | `notify_subdevices`, `_callback`, `doLater`, `_doNow`, the subscribers, `_pushConfig` | a timer per batch across errors and item switches; pushes that raise or find nobody | pending work has exactly one timer; what changed is pushed |
| Invalidation pipeline, `ZenHub/zenhub.py`, `invalidations.py` | set of object ids, pause flag, filters | `processQueue`, `_dispatch` | yields between objects, several polls at once, a pause | every change reaches the services that care |
| Model change publishing, `ZenMessaging/queuemessaging/publisher.py`, `ZenUtils/AmqpDataManager.py` | message list, sets of added and removed guids, the channel's transaction | `publishAdd`, `publishRemove`, `publishModified`, the hooks, two-phase commit | sequences of calls in a transaction; a failure in each phase; another writer | sets and messages agree; consumers hear of committed changes, and of all |
| Jobs, `Jobber/` | job records, result queue, abort notes, after-commit hooks | `addJob`, the celery task, its runner and aborter, `abort`, `deleteJob` | a commit that fails; an abort at any point; death of a process or of the daemon | a job runs only if its creation was committed; its record ends and tells the truth |
| Event daemon, `ZenEvents/zeneventd.py` | message in hand | process, publish, acknowledge or reject | a crash between publishing and acknowledging | no event lost; duplicates only after a crash |
| Object model and relations, data collection and modelling, performance collectors, event receivers and actions, user interface | persistent objects, protocol state | parsing, rendering, I/O | mostly data | not concurrency |

How they interact: the collector daemon adds and removes tasks in the
scheduler; the scheduler submits `CallableTask`s to the executor; tasks produce
events, which the daemon's `EventQueueManager` sends with `callRemote` to
`zenhub`; `zenhub` queues the call and gives it to a worker process, whose
answer goes back to the daemon and lets it send the next chunk. Database
changes travel the other way: the invalidation pipeline finds changed objects,
notification batches them, services push new configurations to the collectors.

Users and other daemons change the model in transactions, which publish model
events and submit jobs after the commit; `zenjobs` runs the jobs, again in
transactions.

The modules follow each of these paths: executor, scheduler, event queues and
hub workers upwards; transactions, the invalidation pipeline, notification and
configuration downwards; submission and worker for jobs.

## 2. Modules

| Module | Models | Used by |
|---|---|---|
| `TaskPool` | abstract: what a bounded executor promises | `TaskExecutor` (refinement), `CollectorScheduler` (component) |
| `TaskExecutor` | `TwistedExecutor` and `ExecutorTask` with their timers | `MCTaskExecutor`, `TaskExecutorProofs` |
| `TaskLife` | abstract: the life the scheduler promises a task object | `CollectorScheduler` (refinement) |
| `CollectorScheduler` | `Scheduler`, `CallableTask`, `LoopingCall`s, over `TaskPool` | `MCCollectorScheduler`, `CollectorSchedulerProofs` |
| `EventQueues` | `DequeEventQueue` and `DeDupingEventQueue` as operators on sequences | `EventQueueManager` |
| `SequenceFolds` | no code: what a fold over a list computes, for lists of any length | `EventQueueManagerProofs`, `TransactionsProofs` |
| `EventQueueManager` | `EventQueueManager`, pushing and stopping in `PBDaemon`, the connection | `MCEventQueueManager`, `EventQueueManagerProofs` |
| `CallService` | abstract: what the hub promises the collectors that call it | `HubWorkers` (refinement) |
| `HubWorkers` | work lists, worker selection, worker life cycle | `MCHubWorkers`, `HubWorkersProofs` |
| `ModelChangePublisher` | the publisher of one transaction | `Transactions` (component) |
| `Transactions` | two-phase commit of database and message channel, the hooks, consumers of model events | `MCTransactions`, `TransactionsProofs` |
| `JobSubmission` | abstract: what a process that submits jobs promises | `Transactions` (refinement), `Jobs` (environment) |
| `Jobs` | the `zenjobs` worker, its threads, celery's acknowledgement, users | `MCJobs`, `JobsProofs` |
| `Procrastinator` | `Procrastinate` | `ConfigPropagation` (component) |
| `BatchNotifier` | `BatchNotifier` | `ConfigPropagation` (component) |
| `ConfigPropagation` | from a change in the database to the collector's configuration: invalidations, notification, pushes, loader | `MCConfig`, `ConfigPropagationProofs` |

### TaskPool and TaskExecutor

`TaskPool` has three variables (limit, waiting, active) and no timers.
`TaskExecutor` has the code's: `_max`, `_running`, `_taskQueue`, the set of
tasks whose deferred is pending, and a count of the pending `callLater(0,
_runTask)`, which are all alike. `RunTaskAsync`, `RunTaskSync` and `RunNothing`
are the three ends of `_runTask`; a callable that returns at once has finished,
and left a timer, before `_runTask` leaves its own. `ImplementsPool` is the
refinement. The scheduler is built on the pool rather than on the timers.

### CollectorScheduler

A `Task` is a task object, added once; objects built for later versions of a
configuration share its name. `registered` stands for `_tasks` and
`_loopingCalls`; `loop[t]` is the interval of a running looping call. The two
things that make the code subtle are kept as they are: the delayed
`_startTask` closes over name, configuration and interval and is never
cancelled, and an object leaves the scheduler's dictionaries at once but the
executor only when its run ends. `call` is `CallableTask.__call__`; a late task
misses its run. `Finished` is `_finished`, with removal of everything of the
configuration when the task completed. `Sweep` is `_cleanupTasks`, with the
subset `done` of cleanups that finish at once. Tasks declare no `stopPhase`, so the
shutdown removes all with the reactor's triggers `before`, whose deferreds the reactor
awaits (`shutdownBefore`); then it runs those of `during` and `after` in one go, without
waiting for either, and stops (`shutdownLater`). Actions are guarded by `Reactor`: after
that nothing runs.

`TaskLife` is what this comes to for the author of a task, without timers, looping
calls, pauses, shutdown and limit: an object is new, scheduled (the only one of
its name), removed, being cleaned, gone; and out of the executor, queued or running. It is
submitted only while it is scheduled, is out of the executor, and no object of its configuration
is removed or being cleaned; it is cleaned once, after it was removed and its
last run has ended. `ImplementsTaskLife` is the refinement: `LifeOf` and
`WorkOf` read both from the code's variables (and `cleanups`, the history of
calls, which tells a task that is gone from one that was dropped).

### EventQueues and EventQueueManager

An event is its class (device, component, key and event class), whether it is a
clear, its count, and the number of its latest occurrence. The default
fingerprint covers every field but the times, so it covers the count
(`Fingerprint`); a de-duplicating entry also keeps the key it was stored under,
which stays the old one when merging changes the count. `Appended` and
`Restored` are `append` and `extendleft` of both queue classes, chosen by
`dedup`; `Merged` is what `extendleft` does with one event and `Stored` how an
`OrderedDict` stores one.

`EventQueueManager` keeps the queue, the swapped queue and the chunk in flight
for each of the two classes of queue. `StartPush` swaps and sends the first
chunk; `sendEventsAnswered` sends the next or ends the push; `sendEventsFailed`
puts back the chunk and the rest. A failing call may or may not have been
carried out by the hub, and may or may not mean that the connection is gone;
when it is, calls in course fail before the daemon learns that the service is
gone, so the push that `_stopPbDaemon` put behind the failing one starts and
fails at once too. `EndPush` is the end of the deferred's callback chain.
History variables (`occurrences`, `latest`, `hubLatest`, `stopMark`) are read
only by the properties. `occurrences` has what was accepted, delivered and lost, and the
number of queue entries thrown away (`dropped`); `discarded_events` is the code's own
counter, which `Conservation` compares with them: it must equal `dropped` always, and
what is lost where an entry is one event. With de-duplication an entry may stand for several
occurrences, and its loss still counts as one.

### HubWorkers

Jobs are numbers, in order of arrival, with a method that decides list and
candidates. `GiveWork` is the loop of `giveWorkToWorkers`: it pops jobs from
lists chosen at random with weights (so lists in any order), sets aside the jobs no
worker may take, and puts them back in front. It is stated by what it results in: `pops`
and `at` are the lists and the workers of the jobs that are placed, one after the other.
`Placed` says that each goes to the worker the selection gives it at that time
(`Engaged`) and that in the end no job that is left has a candidate. A job set aside stays
aside while the loop goes on, as no worker gets free in it, so those placed are the first of
their list (`Taken`) and the rest is in its old order. Workers are positions in a list,
as in the code, and reservation is by position. `executed` and `executeFailed`
are the two ends of `remote_execute`: only a result is wrapped in a
`LastCallReturnValue`. `connectionLost` and `processEnded` are separate, since
the hub may see either first; the process that replaces another registers again
by `perspective_reportingForWork`. A `callRemote` of the loop does not raise, nor fail at once:
the connection of a worker in the list is open (its loss takes it off the list in the same
callback) and the arguments are strings.

`CallService` is what the collectors see of it: a call waits, is begun, and is
answered. Calls of a method are begun in the order they arrived in; one that
was begun never waits again. `JobsConserved` says of each state where a job is;
the refinement, `ImplementsCallService`, says what may become of it: a hub that put the job
of a lost worker back on its list would satisfy the first and not the second
(that is the mutant). `Queued` and the range of `running` are the mapping.

### ModelChangePublisher and Transactions

`ModelChangePublisher` has the publisher's three sets and its message list. A
message is its kind and object; `Without` is `list.remove`, which takes the
first equal message and whose `ValueError` the code ignores. `moveObject` makes
its event at once, so `moved` precedes the messages in `events`.

`Transactions` is one process that changes the model. `phase` goes through
`idle`, `active` (changes and calls of the publisher), `hooked` (the
before-commit hook has put the events into the channel's own transaction),
`finishing` (all data managers have voted) and `after` (the after-commit hooks
are due). `resources` lists the data managers that have not finished, in the
order of their sort keys: the database, then the channel. Each may fail, the
database before or after it has done its work; the process may abort or die
anywhere. Another process commits a whole transaction in one step, except while
the database is finishing this one. `base` and `view` are what the transaction
saw and made of it, from which `Prepare` finds conflicts. `told` is a consumer's
knowledge. `lost` is a history variable: the objects whose events were lost by
a failure after the database's commit, or sent after those of a newer change;
`ConsumerAgrees` speaks of the others. `KeepingRollback` and the other `Mutant`
operators are not part of the specification.

### JobSubmission and Jobs

`JobSubmission` says of a submitting process that it submits a job at most once
and never records one it has submitted: the hook comes after the commit.
`Transactions` implements it (`ImplementsSubmission`) with `recorded` and
`submitted` read off the records and the broker's queue. `Jobs` takes its
actions as the environment's, so it knows no more of its clients than that; in
particular a job may be submitted whose record will never exist.

In `Jobs` the main thread (`pc`) takes a message, runs the prerun handler (two
steps, since an abort may come between its read and its write), waits for the
record, starts the two threads and collects the first result; `StoreOutcome`
and `on_failure` are what celery does with it. `runner` is `_do_run` in its
transaction with retries, `aborter` is `_check_aborted`, which notes the job
and then raises `JobAborted` in the runner: `interrupt` is on its way until the
runner's `Interrupted`, which may come before, during or after the commit.

A process runs `max_jobs` jobs (`--max-jobs-per-worker`, 1 if nothing is said) and is then
replaced by a new one. `results` is the class variable `_result_queue`, which lives as long
as the process: what a job leaves in it, the next one takes. That can happen: an interrupt
that arrives after the result was put makes the runner put another. So `OwnResult` and
`SuccessMeansDone` are stated for processes that run one job, or while no user aborts or
deletes any (`Undisturbed`). `aborting` is that the job in hand is in `_aborted_tasks`; other
entries of that set are never read. Killing the aborter is taken to work at once.

A runner may die without putting anything into the queue: before its `try` block (the
record is gone, its user cannot be found), or by an exception that is not an `Exception`.
`run` then finds the queue empty and returns None, and celery records a success. `mute`
is the history of these jobs; `SuccessMeansDone` excepts them and those users touched, and
no others.

`WorkerLost` is the death of a process, `Terminate` and `Restart`
that of the daemon, after which the broker delivers again what was not
acknowledged.

### Procrastinator, BatchNotifier and ConfigPropagation

The two small modules are the timers: `Procrastinator` keeps the stored call
that `doLater` postpones (`later`) apart from the calls `_doNow` chains
(`nows`), since both may be on their way; `BatchNotifier` has the queue of items
of a class, the current item with what is left in its generator, and the timers.

`ConfigPropagation` instantiates both and adds what is on either side. A
configuration is the version of its device. A device is `here`, `near` (moved to
another collector, which pushes still tell this one), `away` (moved on, when
they no longer do) or `gone`. The hub reads the database twice in a round of `processQueue`:
`Sync` brings its connection up to date (`view`), `Poll` asks another instance of the storage
which objects have changed. What is committed in between is found by the poll and not seen
by the connection, and so it is if the sync fails, which `async_syncdb` only logs
(`UnsyncedPoll`); `missed` is the history of the devices this concerns. Between `Sync` and
`Poll` no other callback of the hub runs (`polling`), but other processes do. A poll whose result is
dropped is `PausedPoll`. `Dispatch` is one object of `_dispatch`;
`BatchCallback`, `Push` and `pushReconfigure` are the timers' callbacks.
`Pushes` is what `_pushConfig` sends: when the proxy of a device cannot be made, which
`_wrapFunction` logs, that is its deletion, and in `getDeviceConfigs` the device is not in the
answer.
`channel` holds messages to the collector, in order, the loader's answer among
them. On the collector's side `Deliver` is a remote call, and the loader is
`doTask`, `Answer`, `processConfig`, then one `UpdateNext` for each device, with
other callbacks in between, and `purgeOmittedDevices`. `DeliverFails` and `LoadFails` are an `_updateConfig` that raises:
for a push it is lost, in a load it ends the load, with nothing purged. `rebuildConfig` registers
a new loader 30 seconds after `notifyConfigChanged`.

`suspect` and `raced` are history variables: devices of which a push was lost
(nobody connected, an error, a pause), could not be made or applied, was of an old version
(`missed`) or crossed a load in course, until a load that nothing crossed is over. `PushesSuffice` speaks of the devices that are not
suspect, `Converges` of all.

## 3. Runs

| Run | Instance | What it shows |
|---|---|---|
| `task_executor` | 3 tasks, limits 1, 2 and none, 3 timers | counter equals tasks in progress; a runnable task always has a timer; the executor implements the pool, with its fairness; every task starts |
| `scheduler` | 2 versions of a task, executor limit 1 raised to 2 | state and executor agree; versions never overlap; cleanup is once and last; `TaskLife` is implemented, so no task object is lost; removed tasks get cleaned, added ones start, resumed ones run |
| `scheduler_interval` | same | **finding**: a delayed start applies its predecessor's interval |
| `events` | 2 classes in different queues, 4 sets of options, 3 events and a stop event, 2 failures | bound of the queues, what is lost was counted as discarded and nothing is doubled, arrival order, clear suppression agrees with the hub while nothing is discarded, stop flushes and ends, events reach the hub |
| `events_clears` | 3 classes, default clear options, queue of 1 | **finding**: after an overflow, clears are suppressed although the hub was never told |
| `events_dedup` | 1 class, de-duplication | **finding**: two failed pushes lose occurrences |
| `hub_workers` | 2 processes of 3 names, 3 jobs, call limit 2, 1 crash, both workers asked to be reserved | jobs conserved, `CallService` implemented (begun once, in order), reservation while no worker left, every call answered, the pool heals |
| `hub_reservation` | call limit 1, no crash | **finding**: all workers end up with other jobs than events |
| `hub_last_call` | call limit 2, no crash | **finding**: a worker about to exit is given a job |
| `publishing` | 2 objects, 2 transactions of 3 calls each, 1 of another process | sets and messages of the publisher agree; consumers are told of committed changes only, and end up with what is committed unless the events were lost or late; jobs are submitted once, after their record |
| `jobs` | 2 jobs, processes that run 1 or 2 of them, 2 commit attempts, 1 restart, 2 aborts or deletions | commits are bounded by deliveries; a success has done its work, but for runners that died without a result, and results are not mixed up, where no abort comes between; nothing runs without a record; every job finishes |
| `config` | 2 devices of one class, batches of 1, a budget of 3 for changes and faults | what is pushed suffices, but for devices whose push was lost, of an old version, or crossed a load; the loads make good those |

Deadlock is checked in `task_executor` only. The other systems may really
stop: the reactor ends after its shutdown, a stopped daemon does nothing, and
collectors make a bounded number of calls.

### Bounds

- `MaxTimers` (executor): clients wait when that many timers are pending. One
  timer per task suffices for a lost wake-up; three lets timers accumulate
  that find nothing to do.
- Executor limits: 2 is below the number of tasks, 1 is below 2, so limits are
  reached, lowered under the number of running tasks, and lifted.
- Scheduler: overlap needs two objects of one name. A task of another name with
  the same configuration is removed with them on completion; the run has none, and the
  proofs cover any number. The limit of one makes a version wait behind the other.
  `cleanups` counts to 2, which stands for several. Each object is added once,
  which bounds behaviours without a counter. There is no symmetry, because the
  run checks liveness.
- `MaxEvents`, `MaxFailures` (events): the queues hold 2 or 3, so three events
  and the stop event overflow them before, during and after a push; two
  failures let one push be put back twice, or a failure be followed by the loss
  of the connection. Chunks of 1 and 2 make pushes of several chunks.
- `MaxJobs`, `CallLimit`, `MaxCrashes` (workers): with two workers three jobs
  queue behind each other, a limit of two is reached by one worker while the
  other is busy, and one crash may hit it before or after. `Worker` has a name
  more than there are processes, since the connection of a dead process may
  outlive it.

- `MaxTransactions`, `MaxCalls`, `MaxOthers` (publishing): add, remove and
  modify of one object is the shortest sequence through every case of the
  publisher; two transactions are a failed one and its retry, or two writers of
  one object with the other process. Objects are alike: the run uses symmetry, and
  checks safety only.
- `MaxRetries`, `MaxRestarts`, `MaxActs` (jobs): the second attempt is the last;
  one restart delivers a job again in every state it may be in; abort and then
  delete is the longest thing a user can do to a job. Two jobs, and processes that
  run one or both (`JobsPerWorker`), are enough for what one leaves behind to reach the next.
- `Budget`, `MaxChanges`, `Movable`, `BatchSize` (config): the budget of three is shared by
  faults and changes of the model. Changes of the class and of the preferences count twice,
  and no change comes when two have been counted: there may be two of the device, one of
  them and one of the class, or one of these and a fault. Two changes are one that is
  pushed and one that comes between a sync and its poll, while a load goes on, or to a device
  that has just moved; a device that waits while its class is gone through makes two timers
  of the service, the last of which finds nothing. With three faults a load may still fail after a
  lost connection and a lost push.
  The device that moves begins here or at another collector. Batches of one split the class into three
  timers, the last of which finds nothing. The device that does not move by itself
  is there for the loader to find (an empty answer is not applied). The
  inductive invariant of section 4 has been checked with TLC on this instance
  before it was proved.

The runs have from a few hundred to 600 000 distinct states and take from
seconds to about two minutes each.

### Fairness

Only what the code's scheduling does by itself is fair, weakly but for two actions of
the configuration.
- Executor: `_runTask` calls (the reactor runs zero-delay calls) and the ends of
  tasks (deferreds of tasks carry timeouts).
- Scheduler: its timers (delayed start, looping calls, the cleanup sweep), the
  pool's starts, the ends of tasks and cleanups. Nothing makes the daemon add,
  remove, pause or resume.
- Events: `pushEvents` while something is queued (`pushEventsLoop` sets its
  timer again whatever happened), answers to calls, and reconnection (the
  client factory retries for ever). Failures are not fair: they are bounded.
- Workers: `giveWorkToWorkers` (a timer of 5 s is always set), registration of
  started processes, return of calls, and that the end of a process and of its
  connection are noticed. The liveness properties hold for bounded crashes.
- Jobs: the main thread, the runner and the aborter go on as long as they can,
  and a daemon told to end comes back. This includes the job's own code, which is
  assumed to end. Clients, users, and what kills a process may do nothing.
- Configuration: the hub's callbacks (polling and the timers), the pushes, the
  collector's reactor, the loader (a task with an interval), the rebuild timer,
  and reconnection. `Hub` and `Pushing` are strongly fair, as `polling` disables them
  again and again for a moment: the hub syncs and polls in one go, 30 seconds apart, and its
  reactor serves the timers in between. Changes and faults are not fair, they are bounded;
  so a device of which no configuration can ever be made is outside the model (the
  loads would delete it each time).
- `Transactions` states no fairness: its properties are about safety.

### Findings

1. `scheduler.py:375`: `_startTask` starts whatever looping call is under the
   name now with the interval of the task that set the timer.
2. `PBDaemon.py:411`: discarded clears lower a count that suppressed duplicates
   have raised too. What is left of it suppresses later clears for good, which
   is what the comment above it says the code avoids. `HubReflectsLatest` shows that
   suppression is right while nothing is discarded.
3. `PBDaemon.py:338`: `extendleft` of the de-duplicating queue overwrites an
   entry with the same fingerprint, which covers the count. The occurrences are
   neither merged nor reported as discarded.
4. `WorkerSelection.py:36`: the first positions of `zenhub.workers` are
   reserved, not workers; when one leaves, the others move up with their jobs.
5. `zenhubworker.py:192`: a last call that raises is not wrapped, so the
   exiting worker stays in the list.

## 4. Proofs

`TaskExecutorProofs` proves, for every set of tasks, every set of positive
limits and every bound on timers (the assumptions named in `TaskExecutor`):

- `TypeCorrect`: the type invariant; in particular `_running` is never negative;
- `SlotsCorrect`: `_running` is the number of tasks in progress;
- `WakeupCorrect`: a task that may start has a pending timer;
- `PoolRefinement`: every behaviour is one of `TaskPool`'s safety part.

The inductive invariant of the first two is `Slots`: types, `SlotsExact` and
`TasksDistinct`. None is inductive alone: that the counter stays a natural
number needs `SlotsExact` (a task that ends was counted), and `SlotsExact` needs
that the head of the queue is not in progress, so that adding it makes
the set larger by one. `NoLostWakeup` is inductive with the types: every action that
makes a task able to start leaves a timer, and `RunNothing`, the only one that
takes a timer away, does so when none can start. The refinement needs
`SlotsExact`, because the code compares a counter with the limit and the pool
counts its tasks; each action maps to one of the pool's or a stutter.

`CollectorSchedulerProofs` proves all safety properties of the scheduler
(`SchedulerTypes`, `StatesAgree`, `VersionsApart`, `CleanupOnceAndLast`,
`TaskLifeRefinement`, and `NoTaskLost`, that of `TaskConserved`, which the
refinement needs) for every set of tasks, names and configurations and every limit
of the executor. Their inductive invariant `Inv` adds to them:

- `Loops`: the looping call of a task runs only while the task is registered
  and no object of its configuration awaits cleaning. This is why a periodic
  call, which checks nothing, may submit. It is kept because a removal takes every registered task
  of a configuration at once (`Whole`);
- `Counted`: a task's state says how often it was cleaned (states of cleaning
  are final), and registered tasks are not cleaned;
- `Known` and `Names`: what was never added is nowhere, and objects are
  registered under their own names.

The actions are grouped by kind of change, one lemma each: `Added`, `Called`,
`Started`, `LeftAndUnregistered` (removal and the end of a run), `Swept`
(periodic sweep and shutdown), `Cleaned`, `Quiet`. That versions stay apart is
decided in `Called`: a task of the same name that is at work and not registered would
await cleaning, and the call would not have been made.

`TaskLifeRefinement` maps each action to one of `TaskLife`'s or a stutter. `Inv`
gives `Lived` and `Worked`, which say what part of its life each task is in by
the variables, before and after the step; `LifeKept` and `WorkKept` then deal with all
tasks a step does not concern. A looping call that submits is `Submit`
(`LifeCalled`: `Loops` says that nothing is leaving), a sweep is `CleanUp` (`LifeSwept`: what is
`Cleanable` is exactly what is removed and out of the executor, by `Agree`), and the
first part of a shutdown removes and cleans in one step.

`EventQueueManagerProofs` proves, for every set of event classes in the two
kinds of queue, all options and any number of events and failures:

- `QueuesBounded`: `TypeOK`;
- `NothingLostSilently`: `Conservation`;
- `EventsInOrder`: `ArrivalOrder`;
- `HubIsInformed`: `HubReflectsLatest`;
- `StopIsFlushed`: `StopFlushes`.

Their inductive invariant is `IInv`, proved as `Invariant`. Four parts hold with
de-duplication and without: `Control` and `Stopping` say what the daemon is
doing (a push goes on only while connected, without one there is neither chunk
nor rest, and a daemon stops only when no push is behind the one that ends);
`Flushed`, that once the push behind the stop has begun, the queues hold later
events only; `Routed`, that queues keep their bound and hold events of their
classes. `Ledger` is the account of occurrences: accepted ones are delivered,
pending or lost. Each step moves some from one of the three to another, and what
an operator on queues does to the sum of the counts is a lemma of its own
(`AllMerged` and its neighbours): merging and storing in a dictionary may lose
occurrences but never make one, which is why `Conservation` is an inequality
with de-duplication. The other two parts are about plain queues. `Plain` orders
what is pending, which is the chunk in flight, the rest of the push and the
queue, one after the other: every step appends to that list, moves its elements
from one part to another, or drops some, and there is a lemma for each.
`Informed` says that a hub that goes through all that is pending will know what
the daemon knows (`Ends`), and that a class with a count of clears is clear.
`HubReflectsLatest` alone is not inductive, because it says nothing while
something is pending. That a chunk may be sent twice does no harm to `Ends`,
since its last word on a class stays the same.

Sums, merging and what a consumer has heard are folds over lists, and take
induction over their length. The library's induction theorems take an operator
as a parameter, which the provers cannot instantiate; `SequenceFolds` does
without: a set of numbers has a least element, so one that has 0 and with each number
the next has all (`Induction`), and so a set of lists (`ListInduction`). A step
of a fold is given as a function, for which `FoldedValue` and `FoldedNext` say
what `FoldLeft` computes.

`HubWorkersProofs` proves all safety properties of `HubWorkers` (`PoolIntact`,
`JobsAreConserved`, `CallServiceRefinement`, `ReservationHolds`, and
`JobsStartInOrder`, that of `StartedInOrder`) for any workers,
options, call limits and numbers of calls and crashes. Its inductive invariant
`IInv` puts `JobsConserved` and `StartedInOrder` in terms of positions
(`Shared`, `Order`), adds that a list holds jobs of its method in order (`Lists`), and
strengthens the reservation from a count to where each worker stands (`Reserve`).
The work is in `GiveWorkGives`: that the jobs given out are exactly those that leave
the lists, each to a worker of its own. `TakenGrows` and `TakenCovers` count for that
the jobs of a method among those placed: each has another place in its list, and together
they fill the first places.
`CallServiceRefinement` uses the same facts: what `Given` gives out is begun (`GivenBegins`;
that it is the oldest of each method is in `Given`), and a worker that gets free, for
whatever reason, had a call of its own (`Answering`).

`TransactionsProofs` proves, for every set of objects and all bounds:

- `VerdictsAgree`: `OneVerdict`. Its invariant is `Published`, the types of the
  publisher with `OneVerdict` put in terms of lists (`Agree`). The work is in
  `list.remove`, which takes the *first* equal message: with exactly one final message of an
  object the first is the only one, and those of other objects move up;
- `OnlyCommittedIsTold`: from `Control` (when only the channel is left to
  finish, the transaction is committed) and `Contents` (the other process writes
  what was never there, so that a change of its own is one of the database);
- `SubmissionRefinement`: `ImplementsSubmission`, from `Control` and `Records` (jobs
  of later transactions have no record and were not submitted, that of the
  present one not before its hook);
- `TransactionTypes` and `ConsumersAgree`: `TypeOK` and `ConsumerAgrees`.

The last two rest on the invariant `IInv`, which follows a change of an object from
the call of the publisher to the consumer. While the transaction is active its
sets say what became of the object (`Changed`). The events built of its messages
tell that to a consumer that knows what the transaction began with (`Outgoing`),
in terms of which events there are and not of their order (`Tells`), and
are silent on objects it did not change. That an object is not there stays so
(`StayGone`) and what was voted on is not overtaken (`NoConflict`), so that when
the database has committed they tell what it has (`Late`); until then, and when
they have been heard, consumer and database agree (`Agreed`). Each is
needed: an object that was added and removed again in one transaction is announced as
removed although the transaction did not write it, and that is right only because
nobody else can have made it meanwhile.

`JobsProofs` proves all five safety properties of `Jobs` (`JobTypes`,
`CommitsAreBounded`, `OnlyCommittedRun`, `OutcomesAreOwn`, `SuccessIsDone`) for
any jobs, retries, restarts and acts of users. For the commits, `Delivered`
says that a job is in the broker's queue or in hand, at most once altogether
(`Tokens`), and that one that has still to commit in this delivery has
committed no more often than the daemon restarted (`Bounded`). For the rest, `IInv` follows
the job through its threads: where each may be (`Places`), that there is a record
behind a runner (`Recorded`), that all results are the job's and none is left when the
process takes the next (`Own`), that those that report success are true (`Earned`), and
that without an act of a user nothing is aborted and no runner ends without a result but
those in `mute` (`Honest`). `Own` holds for processes with one job because they are new for
each, and for the others because of `Single`: while no user acts, a runner puts one
result at most on each of its ways out, and `Collect`, which waits for its end,
takes it. `Single` is what the mutants of `OwnResult` and `SuccessMeansDone` break.

`ConfigPropagationProofs` proves `PropagationTypes` (types, and exactly one
timer for the notifier's work) and `PushesArrive` (`PushesSuffice`) for any
devices, batch size and budget. `PushesSuffice` speaks of quiet
states only; `IInv` says of each device what is on its way. `Seen`: the
hub sees the device as it is, has missed it, or will poll for it; between a sync and
its poll it sees all but what was committed since. `Kept`: something will be pushed
from the model as it is then (`Pending`), or the last message about the device in the
channel is right, or there is none and the collector is (`Leads`). While a load
is in course that is not enough, because at its end only the devices it crossed stay
suspect: for the others the answer is right, and so is the last message behind it
(`SaysAfter`), whatever is in front of it. The hard step is `UpdateNext`, which
overwrites what a push has just brought: for a device the load did not cross both say the same.

All safety properties that the passing runs check are theorems. Only model-checked:

- every liveness property (`EveryTaskStarts`, `EventuallyCleaned`,
  `AddedTaskStarts`, `ResumedTaskRuns`, `EventsReachHub`, `StopCompletes`,
  `EveryCallAnswered`, `PoolRecovers`, `JobFinishes`, `Converges`) and the fairness part of the
  executor's refinement: the prover does not reason about fairness and `ENABLED`.

## 5. Not modelled, and why

Of modelled components:

- scheduler: run statistics; the interval listener, child tasks and stop phases (no task
  in the tree uses them while it runs);
- `PBDaemon`: login, options, counters, heartbeat (which only takes a place in the first
  chunk), event transformers;
- hub: shutdown, service lookup and conflict retry (a retry is inside one call);
- publishing: savepoints (a savepoint does not undo the publisher), the split of events into
  batches of 5000, AMQP transactions outside of a Zope transaction, the contents of events;
- jobs: log files, the user a job runs as, listing; the other workers of the
  daemon, which share only records and queue;
- notification: `stop` and `whenEmpty`, which only tests call; services other
  than `CollectorConfigService`;
- invalidations: the checksum filters and the translation of a component to
  its device, functions of one object;
- collector: preferences and thresholds, single-device and non-cycling runs, the
  maintenance cycle, and the tasks made of a configuration
  (`CollectorScheduler` has them, without where they come from).

Whole components:

- event daemon: one message at a time, each step awaited. What a crash between publishing
  and acknowledging does can be read off the order of two lines; that the duplicate is
  dropped is up to the event server, which is not in this tree;
- object model, data collection and modelling, performance collectors, event
  receivers and actions, user interface: they transform data or do I/O, and
  their concurrency is that of the framework that calls them.

### Observations without a run

Behaviour the models show, or that their making showed, about which no
document or test says the contrary clearly enough for a finding:

- `Jobber/jobs.py:295`: the hook submits the job after a failed commit as well
  (its `_ignored` argument is the status); the docstring above it delays
  submission "until the transaction manages to get itself committed". Such a
  job is only waited for, then recorded nowhere (`RunsOnlyCommitted`).
- `Jobber/jobs.py:170`: a job whose user is gone, or that is aborted or deleted while its
  runner logs in, leaves no result, so run returns None and a record that exists
  becomes `SUCCESS`.
- `Jobber/jobs.py:55`: with `--max-jobs-per-worker` above 1, an abort that interrupts a runner
  after it has put its result leaves a second one, which the next job of the process is given.
- `ZenHub/zenhub.py:571`: a change committed between the sync and the poll, or after a sync
  that failed, is pushed in its old version, and not again until the next load.
- `ZenCollector/services/config.py:364`: a device whose proxy cannot be made at the moment is
  deleted on its collector, until its next change or the next load.
- `Jobber/zenjobs.py:106`: an abort between the read of the status and its
  update is overwritten by `STARTED`, and the job runs.
- A before-commit hook that raises leaves its channel to the garbage collector.
- `ZenCollector/services/config.py:375`: a device moved twice before it is
  pushed leaves its first collector untold, since only the previous and the current
  one hear of it.
- A push that waits for a device that is being deleted may bring it back on the
  collector, until the next load.
- `ZenCollector/config.py:254`: an empty list of configurations is not applied,
  so a collector keeps its last device until there is another.
- `ZenCollector/config.py:217`: a loader that meets `HubDown` is reaped, and
  reconnection does not add it again; `Converges` assumes that it is registered.
- Two processes that write one object commit to the channel in another order than
  to the database, if they overtake each other between the two.

## 6. What is left

Three hazards of `PROJECT.json` have no property: the chunk of a lost connection that waits
in the hub's list while the reconnected daemon sends it again, which needs
`EventQueueManager` composed with `HubWorkers`, too large together to be
checked exhaustively; the reaped loader, about which the code promises nothing; and
the duplicate of the event daemon.

Further work would be worth doing in this order:

1. `TaskLife`, which `CollectorScheduler` implements, under `ConfigPropagation`, so
   that `Converges` speaks of running tasks;
2. `CallService`, which `HubWorkers` implements, under `EventQueueManager`, so that calls
   are delivered late, in place of the answer-or-fail of one step;
3. the event daemon with crashes, if the event server's side becomes available.
