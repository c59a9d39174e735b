# TLA+ models of vdsm

vdsm is the host agent of oVirt. Its storage subsystem (`src/lib/vdsm/storage`)
runs long operations as *tasks* on a thread pool, protects storage domains,
images and volumes with *resources* that have shared and exclusive locks, and
saves the tasks of the SPM (the one host that manages the pool) on shared storage
so that they can be rolled back after a restart. Hosts ask the SPM to extend
volumes through a *mailbox*; thin provisioning does that for the disks of running
VMs, and live merge removes snapshots from them. This directory has models of
these parts, checked with TLC and in part proved with TLAPS. `PROJECT.json` has
the map from definitions to source lines, the runs, the mutants, the finding and
the list of hazards.

Paths below are relative to `src/lib/vdsm`.

## 1. Inventory

### Modelled

| component | state | operations | interacts with |
|---|---|---|---|
| readers-writer lock, `storage/rwlock.py` | `_holders`, `_writer`, `_waiters`, the events of the waiters | `acquire_read`, `acquire_write`, `release` | guards the namespace table of the resource manager |
| resource manager, `storage/resourceManager.py` | namespaces; per resource `activeUsers`, `currentLock`, `queue`, `realObj`; per request its flags | `registerNamespace`, `registerResource`, `acquireResource`, `releaseResource`, `Request.cancel`, `Owner` | tasks own resources; factories make the objects; callbacks report a grant |
| task, `storage/task.py` | `state`, `_aborting`, `_forceAbort`, `ref`, policies, jobs, recoveries | `prepare`, `commit`, `stop`, `rollback`, `recover`, `pushRecovery`, ... | owns resources, is queued in the pool, is saved in the store |
| task manager, `storage/taskManager.py` | `_tasks`, `_unqueuedTasks` | `scheduleJob`, `stopTask`, `revertTask`, `clearTask`, `loadDumpedTasks`, `recoverDumpedTasks` | the API calls it; it queues tasks in the pool |
| task store, `Task._save`, `_load`, `_clean`, `loadTask` | directories `<id>`, `<id>.temp`, `<id>.backup` | save, load, clean | `ioprocess` makes the calls; any may fail |
| thread pool, `storage/threadPool.py` | queue, `__isJoining`, `__isDying` of each worker | `queueTask`, `joinAll`, the worker loop | runs tasks, mail and the commands of the HSM |
| storage verbs, `storage/hsm.py`, jobs of `storage/sp.py` and `storage/sdm/`, `storage/guarded.py` | the locks each call has and waits for | about eighty verbs, jobs and event handlers | resource manager, thread pool |
| SPM role, `storage/sp.py`, `storage/spwd.py`, `storage/securable.py` | `spmRole`, `_secured`, watchdog, mailer, master mount, upgrade threads, lease | `startSpm`, `stopSpm`, `_upgradePool`, `_upgradePoolDomain`, `Watchdog._check` | sanlock has the lease; tasks are loaded and recovered |
| mailbox, `storage/mailbox.py` | slots on the storage, active messages, what either side read last | `sendExtendMsg`, both `_checkForMail`, `_handleRequests`, `_handleResponses`, `sendReply` | thin provisioning asks, `extendVolume` of the SPM answers |
| executor, `executor.py`, `schedule.py` | queue, workers, discarded workers, timers | `dispatch`, `stop`, `_check_task`, `_worker_discarded`, `_worker_stopped` | runs the periodic operations and the extensions |
| thin provisioning, `virt/thinp.py`, `virt/vmdevices/storage.py` | threshold, its state, block info, extend time, monitor lock | `on_block_threshold`, `on_enospc`, `monitor_volumes`, `_extend_volume_completed` | libvirt events, executor, mailbox |
| live merge, `virt/livemerge.py`, `virt/vm.py`, `storage/image.py` | jobs, cleanup threads, drive, metadata of the VM and of the storage | `merge`, `query_jobs`, `CleanupThread.run`, `load_jobs`, `syncVolumeChain` | libvirt block jobs, thin provisioning |

What is hard in them, and what makes them correct:

* **Lock.** A release hands the lock to the oldest waiter by setting its event;
  the waiter takes it when it wakes, and until then the lock looks free.
  Correct: a writer is alone, no wakeup is lost, nobody is overtaken, every
  waiter is served.
* **Resource manager.** Timeouts race grants, canceled requests stay in the
  queue, the lock type switches between two users, and the factory may raise in
  the middle of it. Correct: the user count is exact, users agree on the lock,
  requests are served in order and never stranded, a resource is freed when its
  last user leaves.
* **Task.** `_aborting` is read and reset without a lock by whatever thread
  changes the state; the thread that drops the last reference finishes an abort;
  recoveries run in the thread that happens to be last; a save may fail
  silently; vdsm may die anywhere. Correct: the references are counted, at most
  one thread recovers, what a job changed is undone or the task is failed, the
  undo log is on disk before the change, no task is left half-way.
* **Store.** Five calls replace one directory by another. Correct: a load finds
  the last version saved or the one being saved.
* **Pool.** `queueTask` checks and puts in two steps, and may block in between;
  workers are told to go away at any point. Correct: a task runs at most once,
  and is run unless the workers were told to leave; a join returns.
* **Verbs.** Each takes its locks by its own rule: some in sorted order, some in
  the order of the arguments, some with a timeout, some from a job that itself
  waits for a thread. Correct: calls do not wait for each other for ever, and
  what a call works on nobody changes meanwhile.
* **SPM role.** Start and stop are long sequences with a way back from every
  step, and upgrade threads and the watchdog run beside them. Correct: who acts
  as SPM has the lease; start and stop end.
* **Mailbox.** Either side compares two reads of a block; slots are reused;
  writes are not repeated. Correct: a reply reaches the request it answers, and
  slots are freed.
* **Executor.** The timer of a task races its end; a discarded worker may return
  at any time, or never. Correct: workers stay within two limits and are
  replaced; no task is held up by another one that blocks.
* **Thin provisioning.** Three threads and two kinds of events decide on one
  drive while the guest goes on writing. Correct: a VM that ran out of space is
  resumed.
* **Live merge.** libvirt, the metadata on the storage, the drive object and the
  saved state change one after the other, and vdsm may die in between. Correct: a
  VM never starts from the volume a pivot left behind, no merge half done is
  forgotten, merges end.

### Not modelled

| component | state and operations | hard behaviour | property to state |
|---|---|---|---|
| cluster lock, `storage/clusterlock.py` | host id, lease files | asynchronous host id | a lease is only asked for with a host id |
| resource factories, `storage/resourceFactories.py` | volumes of an image | acquires volumes inside the lock of the image namespace | an image is locked with all of its volumes |
| domain monitor, `storage/monitor.py` | status of a domain, path checker | two threads update one status | status changes are reported in order |
| external leases, `storage/xlease.py` | index and resources on a volume | crash between two writes | a record has its resource |
| storage domain cache, `storage/sdc.py` | stale status, domains | invalidation during a refresh | an invalidation is never lost |
| host jobs, `jobs.py` | status, autodelete | abort races completion | an aborted job ends |
| migration, `virt/migration.py` | state machines on two hosts | downtime and stall timers, abort | later |

Left aside: LVM and multipath wrappers, volume and image formats, most of the VM
object, network configuration, RPC, `supervdsm` and the tools. They drive external
programs, translate data, or keep no state that several threads share. They are
most of the code: the map covers about 6 % of all implementation lines, and 40 to
70 % of `task.py`, `rwlock.py`, `threadPool.py`, `resourceManager.py`,
`mailbox.py`, `livemerge.py`, `thinp.py`, `hsm.py` and `executor.py`. Models of the
parts with shared state will stay a small share of the whole.

## 2. Modules

```
SharedExclusive <--refines-- RWLock           MCRWLock           RWLockProofs
SharedExclusive <--refines-- ResourceManager  MCResourceManager  ResourceManagerProofs
                             Task             MCTask             TaskProofs
                             TaskStore                           TaskStoreProofs
                             ThreadPool       MCThreadPool
                             StorageVerbs     MCStorageVerbs
                             Spm                                 SpmProofs
                             Mailbox          MCMailbox
                             Executor         MCExecutor         ExecutorProofs
                             Thinp
                             LiveMerge                           LiveMergeProofs
```

`StorageVerbs` composes the locks, the tasks and the pool: what `ResourceManager`
does in many steps for one resource is one step there, for all of them, and a job
waits for one of the threads of `ThreadPool`. `Thinp` takes the mailbox as what
`Mailbox` leaves of it: a request is answered, refused, or lost.

**SharedExclusive** is the abstract specification: each client has no lock, a
shared or an exclusive one, and an exclusive one excludes all others.

**RWLock.** `holders` and `depth` are the keys and the values of `_holders`,
`waiters` is the list, `granted` the threads whose event is set. `_lock` makes
each block under it one step; the waits inside `_wait` split it (`Block`,
`Wake`), and `release` counts down before it takes `_lock` (`Release`,
`FinishRelease`). `Refuse` is a promotion or demotion that raises.

**ResourceManager.** One resource in one namespace; a `Request` is the caller
of `acquireResource` with the request it makes. `registerResource` is one step
under the namespace lock (`Join`, `Enqueue`, `Create`, `CreateFails`);
`releaseResource` is a sequence of steps of the thread that has that lock,
because timeouts lock only the request (`Release`, `Free`, `SkipCanceled`,
`GrantFirst`, `SwitchFails`, `PickShared`, `GrantShared`, `EndSharing`), followed
by the callbacks the rollback context runs at its end (`Emit`). The wait, the
look at the result and the cancel of a caller are `WaitReturns`, `Cancel`, `Get`.
`Factory` says what the factory makes and `Failures` where it may raise.

**Task.** One task and the threads that use it: the client that prepares it, a
worker that commits or recovers it, stoppers, a reverter. `kind` says which of
these there are, and does not change. `pc` and `frame` are
the Python stack of a thread, cut down to what decides where it returns.
`_updateState` takes four steps because the code reads, resets and writes
without a lock (`Choose`, `Reset`, `Move`, `Persist`), then enters the handler of
the new state (`EnterNext`, `EnterAbort`, `EnterDone`). `disk` is what a restart
loads: state, number of recoveries, policy. `owned` says that the resources of
the task are acquired. A change of the storage by a job (`Change`) may
happen only once its recovery has been pushed, which is how jobs are written;
`Undo` is the recovery that reverses it. `Owner.acquire` is one step.

**TaskStore.** The directories as `None`, `Partial` or a version; one step for
each call to the file system. `Crash` stops the saving thread and a `clearTask`
in progress anywhere. This module is what justifies that `Task` saves in one
step (`Saved`).

**ThreadPool.** Each task is queued once by a caller that checks the flag
(`QueueTask`) and then puts (`Put`, which waits while the queue is full). A
worker looks at its flag (`Loop`), takes a task or times out (`Get`,
`GetEmpty`), looks again (`Start`), runs it (`Finish`). `joinAll` is `JoinAll`,
a `GoAway` for each worker, `Joined`.

**StorageVerbs.** A call is the sequence of steps still to do (`todo`) and the
locks it has (`held`). A verb's definition is that sequence, in the order of the
code: `TaskTake` (a lock with a timeout), `Take` (without), `Give`, `Job` (the rest
waits for a thread), `Work` on the pool, a domain or an image. `Raises` ends a call
at any step, `TimesOut` a task lock that waits. `kind` names the verbs that do not
keep the usual rules; the properties say what is true of the others. Verbs with
the same locks share a definition, which says so.

**Spm.** Each host has a role, the flag `_secured`, a watchdog, a mailer and
threads that upgrade domains. `startSpm` and `stopSpm` are a step for each call
that may fail, under `StoragePool.lock` (`pc`); every failure of a start goes into
`stopSpm`. `_upgradePool` is called by the start and by `upgradeStoragePool`. A host
in `Watched` has a watchdog: it is enabled there, and the master domain supports
inquiries. The lease is one variable, which sanlock (external) grants, loses and
takes back. A panic kills the process and leaves the mounts, which the next start of
vdsm cleans up.

**Mailbox.** `outbox` and `inbox` are the blocks of the host on the storage.
Either side compares what it reads with what it read the last time (`hsmIn`,
`spmIn`), handles the slots that differ (`_handleResponses`, `_handleRequests`),
and writes. `processRequest_extend` and `sendReply` run in a thread pool of the
SPM. `req` and `served` record what became of the requests.

**Executor.** `workers` and `discarded` are the bookkeeping of the executor, `pc`
and `task` the threads; the scheduler thread takes a check that is due
(`ScheduledCall_execute`), compares it with the task (`_check_task`) and discards
the worker (`_worker_discarded`). A blocked task may return or never return.

**Thinp.** The guest writes (`GuestWrites`) and stops at the end of its volume
(`GuestHitsEnd`). The monitor thread, the workers of the executor and the
callbacks of the mailbox each look at the drive, take its lock, and then act on
what they saw (`_update_block_info`, `monitor_lock`, `_extend_drive`). An event
queues a call of `_extend_drive` if the executor has room. The reply is a step for
each call it makes under the lock, then `extend_volume_completed` resumes the VM,
unless it is being hibernated (`saving`); a `cont()` that fails leaves it paused
(`"left"`).

**LiveMerge.** Four chains for each drive: of qemu, of libvirt's XML, of the
storage metadata, and of vdsm; `savedJob` and `savedChain` are what a restart
reads. A volume is named by its place in the first chain, which has `Depth` of
them; since volumes are only removed, a chain is the set of those that are left,
and its leaf is the greatest. `merge`, the extend callbacks and `query_jobs` run under the lock of the
merger; a cleanup thread has one step for each call it makes.

`Mailbox` and `LiveMerge` have a failure of each kind in `Faults` at most once in a
behaviour and at most `MaxFaults` in all, wherever the code has a way to fail; `Task`
has those in its `Faults` any number of times. `Thinp` counts failures of any kind. In `Spm`, `Faults` is a set of sets: the faults of
one of them may happen together, each once.

## 3. Runs

Every run finishes in three minutes or less with two workers.

| run | instance | checks |
|---|---|---|
| `rwlock` | 4 threads, recursion 2 | `NoLostWakeup`, `ServedInOrder`, `EveryWaiterServed`, `ImplementsSharedExclusive` |
| `resource` | 3 requests, factory that can switch, both failures | `CountsUsers`, `NoStrandedRequest`, `NoOrphanedResource`, `GrantedInOrder`, `EveryAcquireReturns`, `ImplementsSharedExclusive` |
| `task` | three kinds of task: stored and stopped; stored with 2 restarts; without a store, stopped and reverted; every failure | `RefsCounted`, `RecoveryExclusive`, `RecoveredMeansUndone`, `NotAbandoned`, `UndoLogDurable`, `EveryTaskEnds` |
| `store_safety` | 3 versions, 3 restarts, 3 failing calls | `SavedIsLoadable`, `SaveIsAtomic` |
| `pool` | 2 workers, 3 tasks, queue of 1 | `RunOnce`, `QueuedIsRun`, `JoinReturns` |
| `storage_verbs` | any 2 calls (symmetric), 2 domains, pool of 1 or 2 threads, 1 timeout | `LockTable`, `OnlyKnownDeadlocks`, `DomainWorkAlone`, `ImageWorkAlone` |
| `spm` | 2 hosts, 1 with a watchdog, 1 upgrade thread each, 4 sets of faults: lost lease, failed inquiry and start; lost lease, failed upgrade; lost lease, crash; failed start, crash | `OnlyTheLeaseHolderActs`, `LostLeaseEndsTheRole`, `StartAndStopEnd` |
| `mailbox` | 2 slots, 3 requests (2 for one volume), 7 kinds of fault, 1 of them | `RepliesAreOwn`, `EverySlotFreed` |
| `executor` | 3 tasks (2 discardable), 2 workers of at most 3, queue of 2 | `WorkerLimits`, `Replenished`, `EveryTaskStarts`, `StopEndsWorkers` |
| `thinp` | 2 chunks of 2 units, 1 worker, queue of 1, 2 faults of any kind | `SetDriveIsWatched`, `PausedVmResumes` |
| `livemerge` | 2 drives, chains of 3 volumes, 2 merges, 2 attempts to extend, 8 kinds of fault, 2 of them | `RestartSafe`, `NothingForgotten`, `EveryMergeEnds`, `MonitorComesBack` |

The type invariants of `RWLock`, `ResourceManager` and `TaskStore` are proved and
not checked by a run. In the other modules they are the first conjunct of
`RefsCounted`, `RunOnce`, `RepliesAreOwn`, `WorkerLimits`, `SetDriveIsWatched`,
`OnlyTheLeaseHolderActs` or `NothingForgotten`. `StorageVerbs` has `LockTable`
in its place.

### Bounds

* Four threads are a holder, a writer behind it, a reader behind the writer and
  one that arrives between a release and the wakeup. Two levels of recursion
  tell an inner release from the last one.
* Three requests are a holder, a canceled request and one behind it. A request
  may be made again, so histories are not bounded. The safety properties are
  proved for any number.
* Two recoveries tell "some undone" from "all undone", and two restarts let a task
  die again during its recovery; the tasks that are stopped have one recovery. One
  stopper may call again and again.
* Three versions, restarts and failing calls let a save fail, its repair fail,
  and the save after it.
* A queue of one is full while another caller waits for room.
* Two calls meet in every pair; the second domain orders the locks of calls that
  need two. A pool of one thread is where a job waits for the job before it. A cycle
  of three calls is not reached.
* Two hosts contend for one lease, and an upgrade thread works while its host stops
  being the SPM. Two upgrade threads with any two faults passed once, in 1.5 million
  states and six minutes.
* Three requests in two slots reuse a slot, two for one volume meet as
  duplicates. A second fault lets a late reply meet a later request (section 4).
* Three workers are two and a replacement; with two discardable tasks the limit
  of all workers is reached.
* Two chunks are one extension up to the end of the disk, which any write may
  need while the reply to another request is under way. Three chunks without a
  fault passed once, in 1.7 million states and five minutes.
* Two drives share one volume monitor and one lock. Three volumes have an inner
  and an active one to remove, and two merges remove both.

Deadlock is checked for the lock, the resource manager, the mailbox and the SPM,
whose clients go on for ever. Tasks end, versions run out, pools and executors are
stopped, disks fill up and merges are used up, so the other configurations turn it
off. In `storage_verbs` the calls may wait for each other; which of them do is what
`OnlyKnownDeadlocks` says.

### Restrictions of single runs

No task of the run `task` is both stopped and restarted, or stored and reverted.
The races of a stop with a state change (section 4) break `UndoLogDurable`,
`NotAbandoned` and, once vdsm restarts, `RecoveredMeansUndone`; such kinds would
only find those again. `RefsCounted` and `RecoveryExclusive` hold for them too: that
is proved for every kind. `livemerge` has no `"lag"`:
a cleanup that starts again finds the pivot in libvirt's XML.

Some properties name what they leave out, and section 4 says what happens then:
`SetDriveIsWatched` a threshold state that overwrote an event's; `PausedVmResumes`
the two ways of `LostByAFault`, a hibernated VM and a `cont()` that failed;
`RunOnce` the one task in the hands of a worker told to go away, `QueuedIsRun` a
pool all of whose workers have gone;
`RepliesAreOwn` restarts and torn
reads; `EverySlotFreed` writes that failed and a poll before the message type is
registered; `OnlyTheLeaseHolderActs` a lost lease, which is left to
`LostLeaseEndsTheRole`; that one, hosts without a watchdog and starts that failed
half-way (`HalfStarted`, the run `spm_start`); `DomainWorkAlone` and `ImageWorkAlone`
the kinds of verbs they name; `EveryMergeEnds` jobs that lost their drive or are left in
`INIT`; `MonitorComesBack` a cleanup that failed after the pivot.

## 4. Disagreements of the code with its own words

The run `spm_start` checks `ContendOnlyInsideTheLock`, and TLC finds it violated: a
start that fails before the pool is secured calls `stopSpm(force=True)`, which calls
a method that raises `SecureError` for a pool that is not secured
(`_stop_watching_spm_lease`, `storage/sp.py:484`). `startSpm()` ends with the lease
acquired and the role `Contend`, which `storage/sp.py:303` says "should NEVER
happen".

These are violated as well. The definitions are in the modules and no run is
kept; each can be had again with the constants given.

| property | constants | what happens |
|---|---|---|
| `ObjectUsable` (ResourceManager) | 3 requests, `Factory = "recreate"`, `Failures = {"recreate"}` | `createResource()` raises while the lock type is switched; the next request of the new type is granted with the closed object (`resourceManager.py:407`; line 650: "We cannot grant the request before there is a resource switch.") |
| `FailedMeansRecoveryFailed` (Task) | stored, not stopped, 1 recovery, 1 restart, fault `"job"` | vdsm restarts while a task is `aborting`; `recover()` takes that for a failed recovery and the task becomes `failed` with none of its recoveries run (`task.py:1394`; `vdsm-api.yml:6639`: "The task failed and recovery also failed") |
| `JobOwnsResources` (Task) | stored, stopped, 1 recovery, no fault | a worker starts the job between the reset of `_aborting` and the change of the state; the abort releases the resources under it (`task.py:626`; line 1090: "Assumes all resources are acquired or registered.") |
| `ClearedIsForgotten` (TaskStore) | 2 versions, no restart, no fault | `clearTask()` while the final state is being saved leaves a directory that a restart loads (`task.py:849`; `vdsm-api.yml:11152`: "Discard information about a finished Task.") |
| `GuardedMergeGoesOn` (StorageVerbs) | those of `storage_verbs` | a merge has the shared lock of its domain and its job asks for the same lock again, behind an exclusive request that waits for the first (`guarded.py:32`: "rigid lock ordering rules to prevent deadlock") |
| `PausedVmResumes` without `LostByAFault` (Thinp) | those of `thinp`, `MaxFaults = 1` | setting a threshold overwrites the state `EXCEEDED` of an event that came meanwhile (`thinp.py:170`); when the worker of that event fails, or the executor is full, the drive is not extended "later by the periodic monitor" (line 258) |
| `RestartSafe` (LiveMerge) | faults `"lag"`, `"crash"` | vdsm dies after the pivot and starts the cleanup again before libvirt's XML shows the pivot; the old leaf becomes legal again |

More was met while the configurations were tried out. The hazards say where.

* Task: a stop races the revert of a task with a store, the task stays in
  `raborting` and nobody is left to finish it. A stop between the look at
  `_aborting` and its reset is forgotten. A stop of a task that is queued for
  recovery changes its state while `recover()` does.
* Pool: a task enters the queue of a pool that is joining, because `queueTask()`
  checks the flag and puts in two steps. A worker that is told to go away with a
  task in hand cannot give it back: the name-mangled attribute `__pool.__tasks`
  does not exist, and the task is lost. The docstring of `joinAll()` says "Clear the
  task queue and terminate all pooled threads" (`threadPool.py:94`). Nothing clears
  the queue, and with `waitForThreads=False` no worker is told to go away either:
  tasks queued before the join, and those that slip in, are run, which is what
  `QueuedIsRun` says.
* Thin provisioning: when the reply to the last extension fails after the refresh,
  the monitor finds the volume at its maximum, disables the drive, and nobody resumes
  the VM. `extend_volume_completed()` logs a `cont()` that fails, and does not repeat it.
* Verbs: besides the merge above, these wait for each other: a connect and a
  disconnect of the pool, which take the lock of the pool and the one of the
  monitors in opposite orders; a move and a copy between two domains in opposite
  directions, which lock the source first; the destruction of the pool, which has the
  locks of all domains when `stopSpm()` asks for the upgrade lock (`storage/sp.py:446`),
  and an upgrade thread, which has that lock shared and asks for a domain
  (`storage/sp.py:214`; the docstring of `detachAllDomains()` assumes "that SPM is
  already stopped", but it is the SPM that runs it); a call that has a lock and waits for a thread, and the
  job on the only thread that waits for that lock. `extendStorageDomain`,
  `resizePV` and `setStorageDomainDescription` change a domain with a shared lock, and
  `imageSyncVolumeChain` the metadata of an image. A forced detach from no pool (the
  blank UUID) takes no lock of the resource manager;
  the kinds `noDomain`, `noImage` and `noLock` name verbs that use images with
  fewer locks than the others.
* Mailbox: a reply that comes late is taken for the reply to another request
  after a restart or a torn read. A reply to a slot that already says CLEAN raises
  in the handler of exceptions. A new SPM that polls before the message type is
  registered remembers the requests as seen and never handles them. A write of
  the SPM that failed is not repeated. After a restart of the HSM a late CLEAN
  frees the slot of a new request without its callback.
* Executor: `stop()` raises `ResourceExhausted` when late dispatches fill the
  queue it has just cleared.
* Live merge: the branch "Should never happen" (`livemerge.py:883`) is reached
  when a tear down failed, or after a restart. A failure of the synchronization
  after a pivot leaves the volume monitor disabled, and the end of the cleanup of
  one drive enables it while another drive is still out of step. A failure to
  measure leaves a job in `INIT`.

These are interleavings the code permits. Nothing here says how likely they are,
and none was reproduced on a running vdsm.

## 5. Fairness

* Threads that can run are scheduled: weak fairness of the steps of a thread.
* Locks are used through `with`, so the outermost block of a thread ends: strong
  fairness of the last release, because the thread may enter inner blocks in
  between. For a resource: it is released, and a thread that waits for the
  namespace lock gets it if it is free again and again (strong fairness of
  `Release`). No timeout is forced to expire.
* The function and the job of a task return or raise, the pool has a worker for
  a queued task, and a loaded task is queued for recovery.
* A command in the pool returns, a `get()` with a timeout returns, and a `put()`
  that finds room goes on.
* Mailbox: both monitors poll, vdsm is started again after a crash, the message
  type gets registered, and the SPM's pool runs the first request it has.
* Executor: workers and the scheduler run, and a check that is due again and
  again is executed (strong fairness). A task is not assumed to return.
* Thinp: events are delivered, the SPM answers what it got, the time after which
  an extension is asked for again passes; strong fairness of the threads that
  compete for the lock of the drive, which others have only for a while.
* Spm: strong fairness of start and stop, which wait for a lock that serves in
  order, weak fairness of the upgrade threads and of the watchdog.
* LiveMerge: jobs are polled, cleanup threads run, libvirt ends what it started.
* `StorageVerbs` has none; its properties are about safety and deadlock.
* Calls by clients (acquire, stop, revert, clear, join, merge) are never forced,
  and neither are faults.

## 6. Proofs

Every theorem holds for all values of the constants, given the named
assumptions of the modules (`ThreadAssumption`, `DepthAssumption`,
`RequestAssumption`, `FactoryAssumption`, `BoundAssumption`, `StopperAssumption`,
`KindAssumption`, `FaultAssumption`, `ExecutorAssumption`, `SpmAssumption`,
`LiveMergeAssumption`): the sets of threads, requests, tasks, hosts and drives do
not contain the value for nobody; requests and stoppers are finite, because they
are counted; bounds are natural numbers. `workers_count <= max_workers` is a
condition on the configuration (4 and 30 by default, `common/config.py.in:540`):
`Executor` does not check it, and `start()` would exceed the limit without it. The
two theorems about live merge have one hypothesis of their own.

**RWLockProofs.** `TypeCorrect`, `WriterIsAlone`, `WakeupsAreKept`,
`FirstComeFirstServed`, `Refinement`. Exclusion is not inductive: a thread that
wakes takes the lock without a look at the holders, relying on what the thread
that set its event saw. The invariant adds what a set event means (`GrantInv`:
it belongs to the oldest waiter, there is no writer, and no holder at all if the
waiter wants to write), that the queue lists exactly threads that wait
(`QueueInv`), and how recursion counts follow positions (`CountInv`).

**ResourceManagerProofs.** `TypeCorrect`, `UserCountExact`, `UsersCompatible`,
`RequestsNotStranded`, `ResourcesNotOrphaned`, `GrantsInOrder`, `ObjectsUsable`,
`Refinement`. The invariant ties together where the thread of a request is
(`PcInv`), whether the request is queued (`QueueInv`) and whether it is counted,
and says what the thread with the namespace lock relies on (`LockInv`, for
example that the count is zero until the first grant). `ObjectsUsable` assumes
that the factory does not fail during a switch; section 4 shows that the
assumption is needed. Cardinality facts come from `FiniteSetTheorems`.

**TaskStoreProofs.** `SavedTasksLoad`, `SavesAreAtomic`, for any number of
versions, restarts and failing calls. The invariant says, until a `clearTask()`
comes, which directories exist at each call of `_save()` (`DirsOK`) and that the
directory a load would choose has a version between the last one saved and the
one in memory (`VersionsOK`). Both theorems leave out one window, as
the properties do: a restart that has loaded `<id>.temp` makes an empty `<id>`
and saves the task again; a second death before that save is complete leaves an
empty `<id>` that `loadTask()` prefers. It is in the list of hazards.

**TaskProofs.** `RefCountExact`, `RecoveryAlone`, for any number of stoppers, every
kind of task (stored, stopped, reverted and restarted in any combination) and all
faults. The reference count is inductive by itself. That recoveries run alone is
not: a recovery may start only if no thread is on its way to the job, and what
keeps it off is the state machine, read without a lock. The invariant says that
until the client has queued the task nobody else knows it (`EarlyInv`), and for
each thread what the call of `_updateState()` it is in implies (`ThreadInv`): who is
inside an abort, behind the state change, has the task in a state (`Late`) that
never leads back to the job, and who recovers (`RecoveryMode`) does so with the
worker outside of the job (`JobZone`). Where the last reference decides, as in
`__state_aborting`, the count excludes a second thread (`TwoInside`). The effects
of the steps that many actions share, a call, a return, an exception that unwinds
the frames, are lemmas of their own (`CallKeeps`, `ReturnKeeps`, `RaiseKeeps`).

**ExecutorProofs.** `LimitsKept`, `PoolReplenished`, for all sizes. The limits
follow from the counts `_may_add_workers()` looks at. That no replacement is lost
needs to know who may be missing when: a worker that ends while the executor runs
was discarded before (`WorkerInv`), and the scheduler thread, which discards a
worker and then tells the executor, checks no other one in between (`PoolFull`).

**SpmProofs.** `LeaseHolderActs`, `NoTwoSpms`, for any number of hosts, upgrade
threads and faults. An upgrade thread may go on while the role is given up, so the
invariant says what `stopSpm` has undone at each step before it releases the lease
(`RoleInv`), and that a host with a role has the lease from its acquisition on
(`LeaseInv`).

**LiveMergeProofs.** `LegalLeafInUse`, `MergeRemembered`, for any drives, length of
the chains, number of merges and faults, on the condition `"lag" \notin Faults`
that libvirt's XML shows a pivot by the next poll; section 4 shows that it is
needed. Each copy of a chain is either the chain in use or that chain with
the merged volume (`Original`), and the invariant says which, from the state of the
job and the step of the cleanup thread (`ChainInv`, `ThreadInv`), and that the saved
job tells what a restart needs (`SavedInv`). That a nonempty set of volumes has a
greatest element comes from `WellFoundedInduction`.

**Only model-checked:** all liveness (`EveryWaiterServed`, `EveryAcquireReturns`,
`EveryTaskEnds`, `QueuedIsRun`, `JoinReturns`, `EverySlotFreed`,
`PausedVmResumes`, `EveryTaskStarts`, `StopEndsWorkers`, `LostLeaseEndsTheRole`,
`StartAndStopEnd`, `EveryMergeEnds`, `MonitorComesBack`), because the prover does
not reason about fairness. Of the safety properties, so far: `RecoveredMeansUndone`,
`NotAbandoned` and `UndoLogDurable`, which are true of some kinds of task only
(section 3), so that a proof has to follow each of these kinds; `RunOnce` of the pool;
`RepliesAreOwn` of the mailbox; and the locks of `StorageVerbs`, where an invariant
must speak about the rest of the program of some eighty verbs.

## 7. What is left out of the modelled parts

* Several resources and namespaces in `ResourceManager`: they share only the
  namespace table, which is only added to. `StorageVerbs` has many resources.
* `Owner` beyond one acquisition, and the status queries of the resource manager.
* The abort callbacks of a task, the automatic clean-up in `__del__`, and the
  event behind `Task.wait()`, which only tests use.
* Several tasks in the manager: they share the table under a lock, and the pool.
* The state `blocked`, which no code enters, and `waitrecover`, which needs a
  recovery policy that no caller sets.
* A second `joinAll()` of one pool.
* The contents of the files of a saved task: a version stands for them.
* Verbs: validation, connections to storage servers, and what the operations do to
  the storage; verbs that lock nothing. The error `guarded.context` raises for
  conflicting modes. Leases of volumes: nobody on one host waits for one.
* SPM: `masterMigrate()`, the asynchronous host id, and the protocol of sanlock;
  acquiring the lease is one step.
* Mailbox: other hosts (they have slots of their own), `stop()`, and the event
  block, which only shortens the delay of a poll.
* Executor: the heap of the scheduler and the periodic operations.
* Thin provisioning: replicas, the extension of inner volumes, and migration: a VM
  that is paused on an I/O error is resumed during a migration as well.
* Live merge: errors while the metadata of the VM is saved, bitmaps.

Why the components of section 1 are not modelled: the host id and the protocol of
the cluster lock are in sanlock; a resource factory only makes an image one
resource with its volumes, which is how `StorageVerbs` takes it. The domain
monitor, the external leases, the domain cache, the host jobs and migration have
state of their own worth a module each, and share none with the modules here
but the locks of `StorageVerbs`.

## 8. Plan

1. **Proofs** about `StorageVerbs` (`LockTable`, `DomainWorkAlone`,
   `ImageWorkAlone`) for any number of calls, about `Task` (`RecoveredMeansUndone` for
   the kinds without a restart), and about `ThreadPool` (`RunOnce`).
2. **StorageDomainCache, Jobs, XLease, DomainMonitor**: small modules for the
   properties of section 1.
