# A verification development for cjm-substrate

cjm-substrate hosts *capabilities* (tools in isolated worker processes) and runs
jobs on them.  This directory holds TLA+ modules of its concurrent core, TLC
configurations that check them on small instances, and TLAPS proofs of what
holds for every instance.  Paths below are relative to `src/cjm_substrate/`.

## 1. Inventory

### Job queue: dispatch, lanes, cancellation (`core/queue.py`, class `JobQueue`)
*State.* the heap `_pending`, the lanes `_running` with their tasks, the
exclusive marks, the GPU reservations, `_cancel_requested`, the bounded
`_history`, the lookup table `_jobs` with completion events, the wake-up event
`_job_available`, `_running_flag`, outstanding eviction requests.
*Operations.* submit, cancel, reorder, start, stop, the dispatch loop
(telemetry, scan, block reasons, never-fits failures, launch), one
`_execute_job` task per lane with the cancel / handshake / grace / reload
protocol.
*Interaction.* calls the manager (execution, profiles, caps, telemetry,
reload, eviction); advances compositions; publishes events.
*Hard.* every await is an interleaving point: telemetry is read before the scan
that uses it, a job is popped before its task runs, a cancel races the answer,
stop() races everything.
*Correct when* lanes, caps, exclusivity and the GPU budget hold together; every
accepted job ends exactly once and wakes its waiters; an accepted cancel is
carried out; no wake-up is lost; stop() returns.

### Compositions (`core/ports.py` `CompositionRun`, `core/queue.py`)
*State.* run status, `cancel_requested`, the state and job of each node.
*Operations.* submit_composition, start_ready_nodes, advance_composition,
fail-fast housekeeping, cancel_composition, finalization, validation.
*Hard.* the operations call each other and `cancel()` recursively while
iterating; the verdict depends on the order in which failures and cancels are
recorded.
*Correct when* a composition that waits for itself is refused, no member runs
before its producers, and every run gets one verdict that agrees with its
members.

### Idle GPU eviction (`core/queue.py` scan, `core/manager.py` eviction)
*State.* GPU memory held by residents, what the manager is executing, requests
and cooldowns.
*Operations.* the resources rung of the scan, `_request_idle_eviction`,
`evict_idle_gpu` in a thread, the reactive eviction of a call that ran out of
memory.
*Hard.* a thread with sleeps beside the event loop; victims chosen from a
snapshot; retries depend on somebody waking the loop.
*Correct when* a job waits only for memory that is really missing, no wake-up that
it needs is lost, and the models of jobs that wait or run are left alone.

### Event bus and journal gate (`core/queue.py` 699-877, `core/journal_store.py`)
*State.* the journal table, subscriber queues with a limit and a drop counter,
the wedge flag, the observability class of each job.
*Operations.* publish (journal first, then fan-out), subscribe, follow, leave,
history from the journal, progress polling, clear the wedge.
*Hard.* a failed append wedges the queue, and the row may still be committed by
the next one; a subscription begins at the first step of a generator; ambient
instances leave out rows; progress arrives over HTTP beside the call.
*Correct when* what a waiter was told is on record, and a follower that catches
up sees every event once and in order, or is told how many it missed.

### Capability manager (`core/manager.py`)
*State.* instances with proxies and configurations, enabled flags, deferred
disable hooks, `_running_executions`, limiters, the stats cache, the retry
observer.
*Operations.* load (also concurrently), unload, reload, enable, disable,
update_capability_config, execute with reactive retry, streams, samples.
*Hard.* `_running_executions` is a set although an instance may take several
calls; retries reload the worker under its other calls; hooks are deferred;
loads run in threads; a sample is filed when its call ends.
*Correct when* hooks, marks and limits agree with the calls that run, a retry
gets a new worker, and a profile is of its configuration.

### Worker and proxy (`core/worker.py`, `core/proxy.py`, `core/capability.py`)
*State.* one cancel flag and one progress value per worker, the process, its rows
in the journal.
*Operations.* spawn, wait for ready, initialize, reconfigure, prefetch, execute,
task, stream, cancel, cleanup; the parent monitor.
*Hard.* concurrent calls share the cancel flag; process death races requests;
lifecycle calls have no timeout, only a watch on progress; the host may die.
*Correct when* a cancel stops the call it was meant for, every caller gets an
answer, a worker that is given up has exited or was sent SIGKILL, and none outlives
its host.

### Diagnostics store (`core/diagnostics_store.py`)
*State.* the log buffer of each worker, two tables, the WAL, the time of the last
sweep.
*Operations.* emit, flush at the end of a request or on a warning, raw chunks
from the host's pump, retention by age and by size, one sweep per interval.
*Hard.* the buffer is taken under a lock and committed outside it; one connection
is shared, and a transaction that fails stays open; hosts crash in a sweep.
*Correct when* a call's records are stored when it is over, once, and the sweep
runs once in its interval.

### Config, secret and empirical stores (`core/*_store.py`)
*State.* a row per instance (configuration, enabled, worker_env), a file of
secrets, a profile per instance and configuration.
*Hard.* one row is written by several operations that each know a part of it.
*Correct when* what an operator had saved survives every other write and a
restart, and a profile is of runs of its configuration.

### Artifact lifecycle and backups (`utils/lifecycle.py`, `../scripts/flywheel_backup.py`)
*State.* a directory with its manifest, a `lifecycle.json` beside it (state,
history, backups), the files of the workspace that name it, the revisions of a
hub.
*Operations.* archive, unarchive, record a backup, look for holders, delete; the
backup script hashes, skips, pushes, pulls again to verify, and records.
*Hard.* commands and the script are processes without a lock; a record is read,
changed and rewritten in place; files change during a push; removal is many steps.
*Correct when* no verb's effect is lost, a history makes sense, every file of a
verified backup can be fetched, and what is named is not deleted.

### Pure parts
Wire format and errors, manifests and adapters, project configuration and
workspace, validation, cache paths and hashing, view-state sidecars, environment
truth and refresh, the pass-through scheduler, the pipeline factory and the CLI.

## 2. Modules and the code

| module | models | composes |
|---|---|---|
| `AdmissionLedger` | what the admission part of the queue promises: lanes, exclusivity, per-instance caps, the GPU budget | the abstract specification of `JobQueue` |
| `JobQueue` | `core/queue.py`: submit, cancel, reorder, start, stop, the dispatch loop, `_execute_job` | `AdmissionLedger` (`INSTANCE`, refinement) |
| `Compositions` | `core/ports.py`, `core/queue.py` 850-1140: the validation of a composition, one run and its member jobs | |
| `EventBus` | `core/queue.py` 699-877 with every place that emits, `core/journal_store.py` | |
| `IdleEviction` | the resources rung of the scan, `_request_idle_eviction`, `evict_idle_gpu` in its thread, the reactive eviction | |
| `CapabilityManager` | `core/manager.py`: load, unload, reload, enable, disable, `execute_capability_async` with its retry | |
| `InstanceProfiles` | `core/manager.py`: what is kept of an instance across calls, reloads and sessions; the config, secret and empirical stores | |
| `WorkerProtocol` | `core/proxy.py`, `core/worker.py`, `core/capability.py`, `terminate_process` | |
| `Diagnostics` | `core/diagnostics_store.py`, its use by the worker, the proxy's pump and the manager | |
| `ArtifactLifecycle` | `utils/lifecycle.py`, `scripts/flywheel_backup.py` | |
| `MC...` | small instances of each, for TLC | the module after `MC` |
| `...Proofs` | theorems about each, for every instance; those of `AdmissionLedger` are in `JobQueueProofs`, those of `IdleEviction`, whose memory the manager moves, in `CapabilityManagerProofs` | the module before `Proofs` |

**What a step is.**  `JobQueue`, and everything that awaits in the manager, runs
on one asyncio event loop.  A step of a model is what runs between two
suspension points, so that steps interleave exactly where the code awaits.  No
critical section of the queue awaits while it holds `_lock`; the lock is never
contended and is not in the model.  Two things run beside the loop: threads of
`asyncio.to_thread` (eviction, `load_capability_async`,
`unload_capability_async`) and worker processes.  An operation in a thread is
split where it waits for a process, so that the loop and other threads
interleave with it; the same operation called on the loop blocks it, and
`LoopFree` is a guard of everything else that runs there.

**JobQueue.**  A job's `status` is the field of the same name; `pc` is where its
task is suspended (`created` has been scheduled and has not run, `calling` is
the poll of `_execute_with_cancellation`, `handshake` and `grace` its
cancellation, `closing` the wait for the progress task).  `running`,
`exclusive` and `reserved` are the three tables of admission.  The rungs of
`_pop_next_admissible` are `UnderCap`, `Unverified`, `WithinLedger`, `NeverFits`
and `Starved`; `Scan(t)` is one pass of the loop after its telemetry `t` has come
back.  `call` is the job's call at the worker: `orphaned` when `exec_task` was cancelled
and the worker, whose reload gave up, goes on with it.
Telemetry is any member of `Telemetry`, and a profile may change at any
time, so whatever the workers hold is covered.  Cooldowns and timeouts are time:
they may expire whenever the code is waiting for them.

**Compositions.**  `ready_nodes`, `record_result`, `skip_dependents`,
`all_terminal`, `derive_terminal_status`, `start_ready_nodes` (a round of it is
`start_node`), `advance_composition`, `cancel_pending_members` and `maybe_finalize`
are the functions of those names, written on a record of the state they change because
they call one another within one step.  A scan may fail several members and
launch one; which ones is left open (`JobQueue` says how the queue chooses).

**IdleEviction.**  `resident` is what each worker holds; it grows when a call loads
its model (`Load`), to any value of `Loads`, and is given back when the manager
releases or reloads the worker.  The scan works on `stats`: free memory, read first,
and what the workers of pending jobs hold, each read in a request of its own
(`FetchHeld`).  `request` are the eviction requests under way, each with what it was
asked to leave alone (`exclude`), the instances it has still to measure (`todo`), what
it `found` at those that were not executing, and what it has `freed` by its own
account.  `Covered` is the margin of a quarter.  `available` is `_job_available`;
who sets it, and when the loop clears it, is the code's.  A request's `known` is
history, the jobs that had been submitted when it was made, and so is `late` of
`stats`.  Memory and wake-ups are what `JobQueue` leaves to choice; lanes, caps above
one and unprofiled jobs, which `JobQueue` has, are left out here.

**CapabilityManager.**  Workers are numbered as they are spawned.  `inst` is the
table of instances, by the worker behind each id; `obj` the `CapabilityInstance`
made with it; `marked`, `deferred` and `limiter` are `_running_executions`,
`_pending_disable_hooks` and `_concurrent_limiters`.  `op` is the load or unload
that the loop, or a thread, is in.  A call keeps the worker and the limiter it
looked up at its start, as the code does.

**EventBus.**  `occurred` are all events, `journal` and `open` the rows that are
committed and those of a transaction that failed half-way, `queue` and `view` what
waits for a follower and what it read.  A handler of the queue leaves what it
emits in `todo`; `Emit` works that off, and nothing else runs on the loop before it
has.  A job is seen as far as emission sees it: `stage` is where `JobQueue` has it.

**WorkerProtocol.**  `run` is the worker's side of a call, `at` and `got` the
caller's.  `up` is the process (`stopping` was sent SIGTERM,
`killed` SIGKILL, and neither need be dead yet), `held` the proxies that have not let
go of it, `op` the lifecycle call the host waits in, `flag` the `_cancel_requested` of the
capability.  `OnLoop` are the two handlers that block the worker's event loop.
What a capability does is left open (`HookReturns`, `CallReturns`,
`ReportProgress`), and it may do nothing for ever.

**InstanceProfiles.**  A configuration stands for its hash.  `saved`, `override`,
`mixed` and `refused` are history: what an operator had written last, and which
instances had a measurement mixed or an update half-taken.

**Diagnostics.**  A line stands for its time.  `taken` is the batch a thread is
committing, `lock` the handler's lock where it is held over a commit, `open` the
rows of a failed transaction on the shared connection.

**ArtifactLifecycle.**  One artifact: a tree gives each path the digest of its file,
or `Absent`.  A step is one operation on the file system or the hub.  A push adds and
overwrites files and leaves the rest of the last revision (`Upload`); a verification
looks at the files that were hashed and at no other (`Holds`).  A scan may pass over a
file, which it could not read (`unread`).  `side` is `lifecycle.json`;
`Blank` has been truncated and not yet written, `Garbled` was written by two
processes at a time.  A backup names a revision of the hub by its number.  `seen`,
`since`, `kept`, `spoilt` and the `verified` of a backup are history: what a process
read, what named the artifact when a deletion was asked for and names it still, what
the verbs that returned should have left, whether a write crossed another, broke
off, or the artifact was removed, and whether a push was verified.

## 3. Runs

| run | instance | shows |
|---|---|---|
| `queue_safety` | two jobs of one instance of cap two, peaks below, at and above the budget, any telemetry | the four promises, lanes = live tasks, no job lost, finality of statuses, and that every step is one of the ledger's (`LedgerSpec`) |
| `queue_live` | two jobs, cap one, two starts | accepted cancels are carried out, `stop()` returns, pending jobs are served |
| `composition` | a diamond beside an independent node; all graphs on three nodes; both error policies | cyclic compositions are refused; no member before its producers, one sound verdict, no run left open |
| `evict` | two jobs on instances of peaks 3 and 2 on a GPU of 5, workers that hold all or a part of their peak, a third model of 4 resident or not, two requests at a time | at rest, what waits lacks memory and had its request answered; an executing job loses its model only to a request made before it was submitted |
| `manager` | a default instance with limits none, 1 or 2, an extra one, two calls, one thread, three workers, three operator actions | deferred hooks, marks, limits, retries, and that every call ends |
| `bus` | a member and the one it unlocks, one follower, a queue of one event, a history of one job, one failed append, one crash | the journal holds what waiters were told, followers see a gapless tail of it, nothing is reported after the end |
| `worker` | a streaming and a task call, one worker, one journal failure, one fault, one cancel that times out | a cancel stops its call and no other; a loaded worker is let go of only when it has exited or was sent SIGKILL |
| `worker_live` | one call and one worker | lifecycle calls end, callers get answers, workers follow their host |
| `profiles` | two instances, one ambient, two configurations and the empty one, one override, one secret, four operator actions | profiles are of their configuration; the enabled flag and the override come back |
| `diagnostics` | a call, a stream and the loop, three lines, one failure, two crashes, two intervals | records land with their request, once; one sweep per interval |
| `artifacts` | two processes, two paths with two digests, two files that may name the artifact, four verbs or changes | the verbs' effects are kept unless a write crossed or broke off, verified backups can be fetched, deletions spare what is named |
| `queue_resurrected` | two jobs, cap one | the first divergence of section 6 |

Each module has a `TypeOK`, which is proved (section 5) and left out of the runs, as
are `HistoryTruthful` and `BlockedNotRunning` of `JobQueue` and `HistoryAlternates` of
`ArtifactLifecycle`.

**Bounds.**  Constants called `Max...` bound what the code leaves unbounded, or
lets a caller choose; each is named where it is declared.
- `MaxHistory = 1` makes every second finished job evict the first, and a job
  that is filed twice evict itself.  `MaxStarts` is 1 for safety, where a second
  start adds only what the proofs cover, and 2 for liveness, where a job left over
  from the first life has to be served in the second.
- `queue_safety` keeps one priority: order decides which job is chosen, and the
  arrival order gives both.  With two jobs and two lanes the lane limit does not
  bind there; the proof of `AdmissionIsSafe` covers it.
- `queue_safety` uses the symmetry of jobs that share an instance, profile and
  priority.  It checks no liveness, for which symmetry would be unsound.
- Two jobs are enough for each race in the queue: every table relates a job to
  itself or to one other.
- The diamond has a node with two producers, two nodes with one, a sink that
  fails through either branch, and a bystander that fail-fast has to reach; three
  nodes have every kind of cycle, with and without a way in.
- Two calls, two instances and a thread let a call, a call on the same instance,
  an operator and a thread overlap; three workers leave room for a first worker,
  a reload, and a load that comes between.  Only the default instance is given
  limits.
- In `bus` two jobs of a chain give every emission, one that launches another
  included; a subscriber queue of one event drops the second, and a history of one
  job forgets the first.
- One worker in `worker` and `worker_live`: the proxies of two workers share nothing
  but the journal, and a proxy spawns its worker once.  `Threshold` is in polls;
  what matters is that it is reached or not.
- In `diagnostics` a transaction is one row or more of the three lines, so that a
  warning's flush can split a batch; `WalMax` of one makes every commit a reason to
  sweep early.
- In `artifacts` two processes cross each other's reads, writes, scans and removals;
  a third would meet only what a second can leave.  Two files can be scanned in
  either order while the other is named.  Two paths let a push leave a file behind that
  an earlier one brought.  Four verbs or changes are enough for a backup and a change
  of state that cross another; the proofs have no such bound.  Processes, files, paths
  and digests are symmetric, and nothing is checked there that symmetry would not keep.
- In `evict` the peaks fit the GPU together, so that memory and not the budget is what
  is missing, and not beside the third model, so that somebody has to be evicted.  A
  worker that keeps a part of its peak gives partial credits, and two jobs that spare
  each other.  Two requests overlap when different jobs ask, or one job asks again when
  its cooldown has passed before its request returned.

## 4. Fairness

The event loop runs every ready task and fires every timer: the dispatch loop,
each lane and `stop()` are weakly fair (`LiveSpec`).  Callers owe nothing, and
neither does a capability: `CancelResolves` and `StopReturns` hold although a call
may never return.  `PendingServed` cannot hold then, and has `CallsReturn` as its
antecedent.

In `WorkerProtocol` the host's loop and a worker's event loop go on, an exiting
or orphaned worker's own thread runs, and the kernel ends a process that was sent
SIGKILL (`KernelKills`), some time.  A request that waits for a busy worker is
strongly fair (`Served`, `HookBegins`): the loop serves what waits for it when it is
free again.  Nothing makes a capability return: `LifecycleEnds` holds all the same,
while `CallsEnd` and `SuicidePact` have as antecedents that calls return
(`ToolReturns`, `WorkReturns`), since `execute` has no timeout and a worker that is
asked to exit waits for its requests.

In `Compositions` members make progress (`WF_vars(Progress)`): `JobQueue` says
why.  `IdleEviction` has no fairness and no liveness property: that a job blocked on
memory is served is not so in the code (section 6, 4 and 10), and under a fairness that
wakes the loop again and again it would hold for a reason that is not in the code.
What can be said is said of the states in which nothing is under way any more
(`RestIsJustified`).

In `CapabilityManager` the loop's own operation goes on weakly fair, and the
steps of a call strongly: an `asyncio.Semaphore` wakes its waiters first come,
first served, so one that is enabled again and again gets its turn, and the loop
is free again and again.

## 5. Proofs

TLAPS proves, for every value of the constants that satisfies `QueueAssumption`,
`LedgerAssumption`, `CompositionAssumption`, `BusAssumption`, `ManagerAssumption`,
`ProfileAssumption`, `ProtocolAssumption`, `ArtifactAssumption`, `EvictionAssumption` or
`DiagnosticsAssumption`:

- `JobQueueProofs`, first of the ledger: `LedgerIsSafe`.  The invariant adds to
  `AdmissionSafe` that only jobs on a lane have a reservation.  `Total` counts the
  elements of a disjoint union, so that sums need no recursion.  Then of the queue: types (`TypeCorrect`); `LanesCorrect`; `TerminalStatus`, from
  `Stages`, which ties a status to where the task is; `NoJobIsLost` and
  `HistoryIsTruthful`, from `Archive`, which says what is filed, signalled and
  known at each stage; `BlockedReasons`; `CancelIsFinal`, from `RequestsHold`;
  `LanesCoverCalls`, from `Calls` (the phase a task is in, no call orphaned while its
  task waits); and `ImplementsLedger`, for which `Arrivals` (arrival numbers
  are distinct) gives that a scan chooses at most one job.  `AdmissionIsSafe` then
  comes from `LedgerIsSafe` through the refinement.  `JobStep` sums up what any
  step does to one job, so that most invariants are proved by a case each for a
  scan, a job's step and a quiet step.
- `CapabilityManagerProofs`: `TypeCorrect`, with `Retrying` (a retry's reload
  blocks the loop, is of its call's instance, and has an attempt left) and
  `Addressed`; `DeferredHooks`, with `Hooks` (every mark, not only that of an
  instance with a deferred hook, has a call behind it); `LimitsHold`, with `Gated`
  and `Kept` (a call's limiter, and the limiter kept for an id, is that of the
  worker) and `Bringing` (only a load on the loop brings a limit, to an id without
  a limiter); `RetriesAreFresh`, with `Unseen` (the worker of a pending load is
  known to nobody) and `Replaced` (once a retry has unloaded its instance, the
  worker that failed does not come back); `ExecutingMarked`, from `Alone`
  (an instance whose callers do not overlap has at most one call) and `Marked` (which
  is marked from before the limiter on, so that no step but its own end unmarks it).
  Then of `IdleEviction`, an `INSTANCE` there: `EvictionTypeCorrect`, and
  `SparedMemory`, which says `SparedKeepsMemory` for every set of jobs and instances.
  It comes from `Spared`: an eviction request leaves alone the instance of every job
  it knew that still waits or runs (`Sparing`), since such a job was pending or on a
  lane when the request was made and does not change its instance; and no instance
  runs two jobs (`OnePerInstance`), so that a retry takes nobody's model but its own
  worker's.
- `CompositionsProofs`: `TypeCorrect`, `RunningHasJob`, `ProducersCompleted`,
  `VerdictAgrees` and `VerdictStands`, for every graph, from one invariant,
  `Consistent`: of the record that the functions of the advancement hand to one
  another it says how a node, its job, the heap and the lane of the job `Fit`, that
  the verdict agrees with the nodes (`Verdict`), and that a job has completed
  producers (`Produced`).  The members that a scan has taken out of the heap, and not
  failed yet, are a parameter of it, because they are where the code leaves its
  tables in disagreement for the length of a loop.  Each function keeps it and hands
  on a `Later` record; `StartLoop` and `FailLoop` carry that through the loops.
- `EventBusProofs`: `TypeCorrect`, `WaitersHaveRecord`, `CatchUpIsExact` and
  `QuietAfterTheEnd`, for any number of jobs and followers and any limits, from
  `Inductive`.  `EndRecorded` is what `WaitersHaveRecord` needs: the gate looks a job
  up in `_jobs` for its override, so that a completion has to be a row before its job
  is filed and forgotten; a failure or a cancellation is let in whatever the look-up
  gives, and may be emitted after the waiters are told, but in the same step.
  `LaneOpen` is what `QuietAfterTheEnd` needs, of the events that were emitted and
  those of the current step (`Said`).  `CatchUpIsExact` follows from how `Only`
  behaves when an element is added (`OnlyAppend`) and when it is applied twice
  (`OnlyOnly`), and from `Seen`: nobody reads what has not been emitted.
- `InstanceProfilesProofs`: `TypeCorrect`; `EnabledIsRestored` and `OverridesKept`,
  from `Kept` (what was last saved is in the row of the store, which every writer
  takes the rest of the record from, and an instance that comes back reads it);
  `ProfilesAreOfConfig`, from `AllPure`: of an instance that nothing disturbed
  there is one configuration `g` with which the instance, its worker, its running
  calls, the calls of objects that are gone and the cached measurement all agree
  (`Of`), so that whatever is filed next is of `g`.  That the profile is right is
  not inductive by itself, because a sample comes from four places that change at
  different times; `Resumes` says when a new configuration keeps them together.
- `WorkerProtocolProofs`: `TypeCorrect`; `CancelsHeld`, from `Told` (a call that was
  told does not begin again), `Counted` (whom the worker may still have, somebody waits
  for) and `Overlap` (whoever is under way, as a request, an answer or a cancel, knows
  of everybody else who is);
  `OnlyTheAskedCancelled`, from `Blame`, which finds somebody who asked behind every
  flag that is up beside a running call and behind every answer that has not reached
  its caller; `NoWorkerLeftBehind`, an action property, from `Loading` (a load in
  progress is never of a loaded capability, so that only `Terminated` gives one up),
  `LetGo` (a process no proxy has is at its end, in fact and in the journal) and
  `Refused` (a worker of another substrate has its row before it is let go of).
- `ArtifactLifecycleProofs`: `TypeCorrect`; `HistoriesAlternate` and
  `VerifiedBackups`, from `AllFine`, which says of the record on disk and of each
  record in the hands of a process that it is `Good`: the sidecar may be lost, or be
  an old record, but each is extended from a good one.  `NamedSpared`, from `AllSpare`:
  whatever named the artifact from the start of a search on is still to be searched, or
  could not be read.
  `VerbsAreKept`, from `Settled`: as long as nothing is spoilt at most one process
  writes, its record has every backup that was recorded, and the sidecar that it
  truncated is the one that it read.

- `DiagnosticsProofs`: `TypeCorrect`, `EndedAreRecorded`, `LinesAreStoredOnce` and
  `OneSweepPerInterval`, for any number of calls, failures, crashes and hosts.  None is
  inductive.  `Apart` says that the buffer, the batches, both tables, the transaction
  left open and what was deleted have no line in common and none twice, which is what
  a commit that takes the open rows along needs.  `Held` says that a batch is in the
  hands of the thread that holds the lock or of the loop: hence a flush that waits for
  the lock, and finds the buffer empty, knows that nothing of its call is on the way,
  and `Followed` traces each line of a call from the buffer to where it lands.
  `Swept` says that an interval with a complete sweep is not after `last`, and that a
  sweep in progress began after it, unless the WAL made it due.

A loop of the code is a fold or a recursive function in the model.  What such a
definition computes is shown by `Rounds`: what holds of no round, and is kept by each,
holds of all, since otherwise there is a first for which it does not.  A recursive
function is a `CHOOSE`; `SiftExists` and `Folding` show that there is something to
choose.

Every safety property that a run checks, invariant or action property, is thus a
theorem, but for `RestIsJustified`, whose invariant would have to follow each wake-up
through the loop, the requests and the telemetry.  Model-checked only is liveness (`CancelResolves`, `StopReturns`,
`PendingServed`, `RunEnds`, `CallsEnd`, `LifecycleEnds`,
`SuicidePact`), which rests on fairness and is beyond the prover.

## 6. Where the code and its comments differ

Shown by a run that violates the sentence of the code:

1. `queue_resurrected`: a job cancelled between its pop and its task's first step
   is filed as cancelled ("job never ran") and then runs (`core/queue.py` 535).

Reachable in the models, each where a property is worded around it:

2. A job whose capability acknowledges the cancel (409) is filed as failed, by
   `except Exception` (`core/queue.py` 1891); `core/errors.py` 152 says "render
   cancelled jobs with their own state (separate from "failed")".
3. Under fail-fast, a binding failure can finalize a run whose stale ready list
   then starts another member; `core/queue.py` 1122 says "once every node is
   terminal" (`VerdictSound` says it of best-effort runs only).
4. Two jobs whose workers hold part of what the other needs spare each other's
   instance for ever; `core/queue.py` 1611 says "skip-ahead drains those jobs
   first, then their models become evictable".
5. A victim measured while idle may be executing by the time it is released, for a job
   submitted after the request was made; `core/manager.py` 1701 says "never evict a
   mid-execute instance" (`SparedKeepsMemory` has `known` for it).
6. Unloading an extra instance forgets the deferred hook of the default one
   (`core/manager.py` 1410), although line 2177 "defers the hook until any in-flight
   job for THIS instance finishes".
7. `core/manager.py` 353 promises admission a profile that "always describes the
   configuration actually being run": a call begun under one configuration that
   ends after an update files its sample under the new one, and statistics up to a
   second old, cached by instance, are filed under whatever it has by then
   (`mixed`); so does an update of which the worker took a part (`refused`).
8. A cancel request that times out is an exception: the job fails, while the
   request may still arrive and cancel the next call of the worker (`late`).
9. A 409 or a stream leaves no account of the call's usage in the journal.
10. "Slightly stale stats are acceptable" (`core/queue.py` 1781): a retry that gave memory
   back and the end of its call, both while the loop waits for telemetry, are lost on the
   scan, which then clears `_job_available`; a job may wait although it fits, until
   something else wakes the loop (`late`).
11. A forced cancel ends in "COMPLETED -- cancellation fully resolved" (`core/queue.py`
   2021) whatever `reload_capability` returned (2019).  It first asks the worker for its
   configuration (`core/manager.py` 2393), and with a wedged worker, the case of a forced
   cancel, gives up: the job's lane and reservation are released and the call goes on
   (`orphaned`).
12. `terminate_process` is to end the "entire process subtree" (`core/platform.py` 99), but
   waits two seconds after SIGKILL and swallows the timeout (166-168); `cleanup` then
   forgets the process (`core/proxy.py` 440), which may hold the GPU until the kernel gets
   to it (`killed`).
13. `find_holders` is to give "Every manifest/marker under the workspace that names the
   artifact" (`utils/lifecycle.py` 250) and passes over files it cannot read and patterns
   that fail (258-261, 272-275); the delete goes on as if they named nothing (`unread`).

Read in the code and not modelled: `load_capabilities_concurrent`.  With more than
one load at a time, two new instances may be taken for one another
(`core/manager.py` 2514: 'we identify "the one just loaded" by created_at'); two loads
of one id both spawn, and the first worker is hidden although a load of a loaded id is
"idempotent".  With `fail_fast` the other loads go on after the caller has its
exception, and listing the instances may raise while another thread adds one.

Further observations, per module:
- *CapabilityManager.*  Two calls on one instance share one mark: the first to end
  removes it and fires a deferred `on_disable()` while the other executes, so
  `ExecutingIsMarked` is stated for callers that do not overlap.  Unloading a
  sibling also clears the mark of a default instance that executes.  An enable
  before the deferred hook leaves it in place, and `on_disable()` reaches an enabled
  instance.  A reload drops the concurrency limit, makes an instance with a
  generated id persistable, and enables it again unless the store says otherwise.
  `enabled` is checked before `allocate_async` and not after it.
- *WorkerProtocol.*  A load that fails in `initialize`, or whose journal append
  raises, and a startup that times out, leave the process running (the timeout
  journals its death all the same).  `/initialize` runs on the worker's event loop,
  so that progress cannot be polled while it blocks.  Progress is one value per
  worker: a call that reports keeps a silent prefetch alive.  `reconfigure` has no
  stall bound.  A capability that never returns survives the suicide pact.  A cancel
  that arrives before its call begins is lost.  A worker that the substrate itself
  kills with SIGKILL counts as out of memory.
- *EventBus.*  A retry is attributed to the first running job of its instance
  (`core/queue.py` 1331), which may be another one, or one that has ended.  Rows
  that others append, and those whose append failed, may be in the journal and in
  no follower's queue.
- *InstanceProfiles.*  An update that the worker refused is in memory of the worker
  and is persisted by a later disable.  Usage may be counted twice through the cached
  statistics, and a first run that failed without any gives an ambient instance its
  one profile.  `set_capability_secret` does not report a reload that failed.
- *ArtifactLifecycle.*  Verbs read, change and rewrite the sidecar without a lock: one
  that crosses another drops its change (`spoilt`), although backups are to be "kept
  across state changes".  A sidecar that was truncated, or garbled, reads as active
  with no history, and the next verb makes that permanent.  A removal that breaks off
  after the sidecar leaves an archived artifact active.  Between the last check and
  the removal an artifact may be unarchived, and between a file's scan and the removal
  that file may come to name it.  With `--no-verify` a backup may be recorded under
  the hash of files that were not the ones pushed.  A push does not remove what earlier
  ones brought (no `delete_patterns`, `flywheel_backup.py` 122), so that a verified
  revision may have more files than its hash stands for.
- *Diagnostics.*  Retention by size deletes the oldest rows of each table, not of
  both by time.  A streaming call's records are stored by a later request.  A
  warning's flush can overtake the loop's batch, so rows are not in the order of
  their time.  Rows of a failed transaction may be committed by the next one.  Two
  hosts that start together both sweep; one that stays up never checkpoints the WAL.

## 7. Not modelled

Payloads, results, wire format and logging.  Streaming calls of the manager, and the
synchronous twins of its asynchronous operations.  Telemetry endpoints and the two
HTTP clients of a proxy.  Batches of loads beyond one load in a thread.  Discovery, drift and adapters; view-state sidecars; paths; the
environment of an installation; validation of values; the CLI: pure functions of
files, or platform calls with no state that survives a call.  `start()` during a
`stop()` that is still draining.  `submit_and_wait` and `wait_for_job` read the
completion events that `signalled` stands for.  Two hosts that share a configuration
store, or a secrets file that cannot be read.

Of the eviction: telemetry that fails, and footprints nobody measured; a release that
leaves memory behind; callers of the manager beside the queue, and memory that an
unload or another program frees, which wakes nobody; a change of an instance's marks
between the check and the measurement of one candidate.  Whether a call runs out of
memory is left open, so that it may at any amount; how much a retry evicts, too, but
for the order and that it evicts something if it can.

Of the manager: the `except` branch of `unload_capability` (`core/manager.py` 1427), after
which the entry stays.  `cleanup` handles the failures of each of its own steps; what is
left is a cleanup that meets another of the same proxy in a thread and finds the output
pump gone between its test and its join (`core/proxy.py` 459).  A retry whose reload
meets that, and then fails to load, would find the entry of its dead worker again.

Of the artifacts: that files are hashed one after another, and that a push reads them
one after another; each is one step.

## 8. Plan

*Models.*  Arrivals without end beside an unprofiled job; two hosts on one
configuration store; the enable and disable hooks at the worker; loads in several
threads at a time.
