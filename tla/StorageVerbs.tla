---------------------------- MODULE StorageVerbs ----------------------------
(***************************************************************************)
(* The verbs of hsm.py, the pool jobs of sp.py, the storage jobs of sdm/   *)
(* and the pool's event handlers, as the locks each of them takes and the  *)
(* storage it works on, over the first-in first-out locks of the resource  *)
(* manager and the threads of the task manager's pool.                     *)
(*                                                                         *)
(* A call is a sequence of steps.  A task lock (vars.task.getSharedLock,   *)
(* getExclusiveLock) waits for a while and then raises; a lock taken with  *)
(* acquireResource() or guarded.context() waits forever.  Both are granted *)
(* in the order they were asked for, and a request that timed out stays in *)
(* the queue until the holders are gone.  What a step works on matters     *)
(* only through what others may do to it meanwhile.  Any step may raise.   *)
(* A call that returns or raises releases everything it has: the releases  *)
(* cannot wait for anything, so they are one step.                         *)
(*                                                                         *)
(* There is one pool, one image with the same id in each domain (as while  *)
(* it is being moved), and one VM.  Leases on volumes are taken last and   *)
(* inside the exclusive lock of their image, so within the host nobody     *)
(* ever waits for one; another host's makes the call raise.                *)
(***************************************************************************)
EXTENDS Integers, Sequences, FiniteSets, FiniteSetsExt

CONSTANTS Actors,       \* the calls, handlers and jobs alive at a time
          NoOne,        \* who made a request that timed out
          Domains,      \* the storage domains of the pool, as numbers: sorted() is <
          Master,       \* the master domain
          PoolSizes,    \* irs thread_pool_size: the sizes of the pool to look at
          MaxTimeouts   \* the lock requests that may time out

ASSUME ActorsAssumption == IsFiniteSet(Actors) /\ NoOne \notin Actors
ASSUME DomainsAssumption == Domains \subseteq Nat /\ Master \in Domains
ASSUME BoundsAssumption == PoolSizes \subseteq Nat \ {0} /\ MaxTimeouts \in Nat

(* The names locked: in the storage namespace except for the image. *)
Pool == <<"pool", 0>>
Mon == <<"HSM_DOM_MON_LOCK", 0>>
Upgrade == <<"upgrade_", 0>>
Sd(d) == <<"sd", d>>
Repo(d) == <<"_repo", d>>
Vms(d) == <<"vms_", d>>
Vm(d) == <<"vms_vm", d>>
Deleted(d) == <<"img_sd", d>>
Img(d) == <<"01_img", d>>

Resources == {Pool, Mon, Upgrade} \cup
    UNION {{Sd(d), Repo(d), Vms(d), Vm(d), Deleted(d), Img(d)} : d \in Domains}

SH == "shared"
EX == "exclusive"

VARIABLES threads,  \* the size of the pool: it does not change
          kind,     \* what the properties below have to know of each call
          todo,     \* the steps it has yet to take
          held,     \* the locks it has, and its thread
          queue,    \* ResourceInfo.queue of each name, oldest first
          timeouts  \* how many requests have timed out

vars == <<threads, kind, todo, held, queue, timeouts>>

(* ordered: locks for everything it works on, each domain after the pool   *)
(* and each image after the domain.  The other kinds are named after what  *)
(* sets them apart: see OnlyKnownDeadlocks, DomainWorkAlone, ImageWorkAlone. *)
Kind == {"idle", "ordered", "connect", "update", "destroy", "transfer", "merge",
         "sharedDomain", "sharedImage", "noDomain", "noImage", "noLock"}

Init ==
    /\ threads \in PoolSizes
    /\ kind = [a \in Actors |-> "idle"]
    /\ todo = [a \in Actors |-> <<>>]
    /\ held = [a \in Actors |-> <<>>]
    /\ queue = [r \in Resources |-> <<>>]
    /\ timeouts = 0

-----------------------------------------------------------------------------
(* The steps: what to do, with what, how. *)

(* rm.acquireResource(), rm.Lock.acquire(): no timeout. *)
Take(r, m) == << <<"take", r, m>> >>
(* Task.getSharedLock(), Task.getExclusiveLock(). *)
TaskTake(r, m) == << <<"taskTake", r, m>> >>
(* The end of a with block. *)
Give(r) == << <<"give", r, "none">> >>
(* TaskManager.scheduleJob(): the rest waits for a thread of the pool. *)
Job == << <<"job", <<"thread", 0>>, "none">> >>
(* Time spent on the pool, a domain, an image. *)
Work(r, m) == << <<"work", r, m>> >>

Op(step) == step[1]
Res(step) == step[2]
Mode(step) == step[3]

Least(s, d) == IF s < d THEN s ELSE d
Greatest(s, d) == IF s < d THEN d ELSE s

(* for dom in sorted(...): a task lock on each. *)
TaskTakeSorted(s, d, m) == TaskTake(Sd(Least(s, d)), m) \o TaskTake(Sd(Greatest(s, d)), m)

(* guarded.context(): the locks in order of namespace and name. *)
Guarded(s, m) == Take(Sd(s), SH) \o Take(Img(s), m)

(* The images of an operation that reads one in s and writes one in d. *)
ImagesSorted(s, d) ==
    IF s < d THEN Take(Img(s), SH) \o Take(Img(d), EX) ELSE Take(Img(d), EX) \o Take(Img(s), SH)

Call(a, k, steps) ==
    /\ kind[a] = "idle"
    /\ kind' = [kind EXCEPT ![a] = k]
    /\ todo' = [todo EXCEPT ![a] = steps]
    /\ UNCHANGED <<threads, held, queue, timeouts>>

-----------------------------------------------------------------------------
(* The resource manager. *)
Users(h, r) == {a \in DOMAIN h : \E i \in 1..Len(h[a]) : Res(h[a][i]) = r}

Exclusive(h, r) ==
    \E a \in DOMAIN h : \E i \in 1..Len(h[a]) : Res(h[a][i]) = r /\ Mode(h[a][i]) = EX

NextStep(a) == Head(todo[a])

Waiting(a) ==
    /\ todo[a] # <<>> /\ Op(NextStep(a)) \in {"take", "taskTake"}
    /\ \E i \in 1..Len(queue[Res(NextStep(a))]) : queue[Res(NextStep(a))][i].who = a

(* How many requests releaseResource() takes from the queue of a name      *)
(* nobody uses any more: up to the first live one if it is exclusive, and  *)
(* up to the first live exclusive one otherwise.                           *)
Granted(q) ==
    LET live == {i \in 1..Len(q) : q[i].who # NoOne}
        exclusive == {i \in live : q[i].mode = EX}
    IN  IF exclusive = {} THEN Len(q)
        ELSE IF Min(live) = Min(exclusive) THEN Min(live) ELSE Min(exclusive) - 1

(* A name with no users goes to the oldest requests. The steps of a        *)
(* releasing call become rest, its locks those of h.                       *)
Release(a, h, rest) ==
    LET freed == {r \in Resources : queue[r] # <<>> /\ Users(h, r) = {}}
        given == UNION {{queue[r][i].who : i \in 1..Granted(queue[r])} : r \in freed} \ {NoOne}
    IN  /\ queue' = [r \in Resources |->
                        IF r \in freed
                        THEN SubSeq(queue[r], Granted(queue[r]) + 1, Len(queue[r]))
                        ELSE queue[r]]
        /\ held' = [b \in Actors |-> IF b \in given THEN Append(h[b], NextStep(b)) ELSE h[b]]
        /\ todo' = [b \in Actors |-> IF b = a THEN rest
                                     ELSE IF b \in given THEN Tail(todo[b]) ELSE todo[b]]

(* A step that is granted at once. *)
Granting(a) ==
    /\ held' = [held EXCEPT ![a] = Append(@, NextStep(a))]
    /\ todo' = [todo EXCEPT ![a] = Tail(@)]
    /\ UNCHANGED <<threads, kind, queue, timeouts>>

(* A registerResource() that joins an exclusive lock. *)
Free_any(s) ==
    \/ Users(held, Res(s)) = {}
    \/ Mode(s) = SH /\ queue[Res(s)] = <<>>

(* registerResource(): free, or shared by users behind whom nobody waits. *)
Free(s) ==
    \/ Users(held, Res(s)) = {}
    \/ Mode(s) = SH /\ queue[Res(s)] = <<>> /\ ~Exclusive(held, Res(s))

acquireResource(a) ==
    /\ todo[a] # <<>> /\ Op(NextStep(a)) \in {"take", "taskTake"} /\ ~Waiting(a)
    /\ IF Free(NextStep(a))
       THEN Granting(a)
       ELSE /\ queue' = [queue EXCEPT ![Res(NextStep(a))] =
                            Append(@, [who |-> a, mode |-> Mode(NextStep(a))])]
            /\ UNCHANGED <<threads, kind, todo, held, timeouts>>

releaseResource(a) ==
    /\ todo[a] # <<>> /\ Op(NextStep(a)) = "give"
    /\ LET last == Max({i \in 1..Len(held[a]) : Res(held[a][i]) = Res(NextStep(a))})
       IN  Release(a, [held EXCEPT ![a] = SubSeq(@, 1, last - 1) \o SubSeq(@, last + 1, Len(@))],
                   Tail(todo[a]))
    /\ UNCHANGED <<threads, kind, timeouts>>

(* The call is over: Owner.releaseAll(), the exits of the with blocks. *)
Over(a) ==
    /\ Release(a, [held EXCEPT ![a] = <<>>], <<>>)
    /\ kind' = [kind EXCEPT ![a] = "idle"]

Returns(a) ==
    /\ kind[a] # "idle" /\ todo[a] = <<>>
    /\ Over(a)
    /\ UNCHANGED <<threads, timeouts>>

Raises(a) ==
    /\ todo[a] # <<>> /\ ~Waiting(a)
    /\ Over(a)
    /\ UNCHANGED <<threads, timeouts>>

(* request.cancel() after the wait: the request stays in the queue. *)
TimesOut(a) ==
    /\ Waiting(a) /\ Op(NextStep(a)) = "taskTake" /\ timeouts < MaxTimeouts
    /\ queue' = [queue EXCEPT ![Res(NextStep(a))] =
                    [i \in DOMAIN @ |-> IF @[i].who = a THEN [@[i] EXCEPT !.who = NoOne] ELSE @[i]]]
    /\ todo' = [todo EXCEPT ![a] = <<>>]
    /\ timeouts' = timeouts + 1
    /\ UNCHANGED <<threads, kind, held>>

(* The jobs that have a thread of the pool. *)
Running == Users(held, <<"thread", 0>>)

scheduleJob(a) ==
    /\ todo[a] # <<>> /\ Op(NextStep(a)) = "job"
    /\ Cardinality(Running) < threads
    /\ Granting(a)

Works(a) ==
    /\ todo[a] # <<>> /\ Op(NextStep(a)) = "work"
    /\ todo' = [todo EXCEPT ![a] = Tail(@)]
    /\ UNCHANGED <<threads, kind, held, queue, timeouts>>

-----------------------------------------------------------------------------
(* The pool. *)

(* _upgradePool() inside the upgrade lock: the master domain is converted  *)
(* if it is not new enough.                                                *)
_upgradePool(convert) ==
    IF convert THEN Take(Sd(Master), EX) \o Work(Sd(Master), EX) \o Give(Sd(Master)) ELSE <<>>

(* spmStart() and startSpm(). *)
spmStart(a) == \E convert \in BOOLEAN :
    Call(a, "ordered", TaskTake(Pool, EX) \o Job
        \o Take(Upgrade, EX) \o _upgradePool(convert) \o Give(Upgrade) \o Work(Pool, EX))

(* stopSpm() waits in _cancel_upgrade() for the upgrade threads. *)
stopSpm == Take(Upgrade, EX) \o Give(Upgrade) \o Work(Pool, EX)

spmStop(a) == Call(a, "ordered", TaskTake(Pool, EX) \o stopSpm)

(* forcedDetachStorageDomain(): a domain, not the master, out of the map of *)
(* the pool; or, for the blank pool, a domain out of its old pools, with no *)
(* lock but the lease that other hosts respect.                             *)
forcedDetachStorageDomain(a, s) ==
    \/ s # Master /\ Call(a, "ordered", TaskTake(Pool, EX) \o Work(Pool, EX))
    \/ Call(a, "noLock", Work(Sd(s), EX))

(* upgradeStoragePool(): its lock on the upgrade has a timeout of zero. *)
upgradeStoragePool(a) == \E convert \in BOOLEAN :
    Call(a, "ordered", TaskTake(Pool, EX) \o TaskTake(Upgrade, EX) \o _upgradePool(convert))

(* _upgradePoolDomain(), in a thread or on a domain's state change. *)
_upgradePoolDomain(a, s) ==
    Call(a, "ordered", Take(Upgrade, SH) \o Take(Sd(s), EX) \o Work(Sd(s), EX))

(* _domainStateChange() of an active domain. *)
_domainStateChange(a, s) ==
    Call(a, "ordered", Take(Pool, SH) \o Take(Repo(s), EX) \o Work(Repo(s), EX) \o Give(Repo(s))
        \o Take(Sd(s), EX) \o Work(Sd(s), EX))

createStoragePool(a, s, d) ==
    Call(a, "ordered", TaskTake(Pool, EX) \o TaskTakeSorted(s, d, EX) \o Work(Pool, EX)
        \o Work(Sd(s), EX) \o Work(Sd(d), EX))

(* connectStoragePool(): a pool that is connected is changed with a shared *)
(* lock of it.                                                             *)
connectStoragePool(a) ==
    \/ Call(a, "connect", Take(Mon, EX) \o Take(Pool, EX) \o Work(Pool, EX) \o Work(Mon, EX))
    \/ Call(a, "update", Take(Mon, EX) \o Take(Pool, SH) \o Work(Pool, EX) \o Work(Mon, EX))

(* disconnectStoragePool() and _disconnectPool(). *)
disconnectStoragePool(a) ==
    Call(a, "ordered", TaskTake(Pool, EX) \o Take(Mon, EX) \o Work(Mon, EX))

(* destroyStoragePool(): the forced detach of the master, which is last,   *)
(* stops the SPM, and takes the upgrade lock after those of the domains.   *)
destroyStoragePool(a, s) ==
    Call(a, "destroy", TaskTake(Pool, EX) \o TaskTakeSorted(s, Master, EX)
        \o Work(Sd(s), EX) \o stopSpm \o Work(Sd(Master), EX) \o Take(Mon, EX) \o Work(Mon, EX))

(* reconstructMaster() writes the new master's metadata without its lock. *)
reconstructMaster(a) ==
    Call(a, "noDomain", TaskTake(Pool, EX) \o Work(Pool, EX) \o Work(Sd(Master), EX))

attachStorageDomain(a, s) ==
    Call(a, "ordered", TaskTake(Pool, EX) \o TaskTake(Sd(s), EX) \o Work(Sd(s), EX) \o Work(Pool, EX))

detachStorageDomain(a, s) ==
    Call(a, "ordered", TaskTake(Pool, EX) \o TaskTake(Sd(s), EX) \o Work(Sd(s), EX) \o Work(Pool, EX))

activateStorageDomain(a, s) ==
    Call(a, "ordered", TaskTake(Pool, EX) \o TaskTake(Sd(s), EX) \o Work(Sd(s), EX) \o Work(Pool, EX))

(* deactivateStorageDomain(): the master migrates to d, which is not       *)
(* locked.                                                                 *)
deactivateStorageDomain(a, s, d) ==
    LET locked == TaskTake(Pool, EX) \o TaskTake(Sd(s), EX) \o Work(Sd(s), EX)
    IN  IF s = Master
        THEN Call(a, "noDomain", locked \o Work(Sd(d), EX) \o Work(Pool, EX))
        ELSE Call(a, "ordered", locked \o Work(Pool, EX))

(* switchMaster(): the job locks both domains with a guarded context. *)
switchMaster(a, s, d) ==
    Call(a, "ordered", TaskTake(Pool, EX) \o Job
        \o Take(Sd(Least(s, d)), EX) \o Take(Sd(Greatest(s, d)), EX)
        \o Work(Sd(s), EX) \o Work(Sd(d), EX) \o Work(Pool, EX))

getStoragePoolInfo(a) == Call(a, "ordered", TaskTake(Pool, SH) \o Work(Pool, SH))

updateVM(a, s) ==
    Call(a, "ordered", TaskTake(Pool, SH) \o TaskTake(Vms(s), EX) \o Work(Vms(s), EX))

removeVM(a, s) ==
    Call(a, "ordered", TaskTake(Pool, SH) \o TaskTake(Vms(s), SH) \o TaskTake(Vm(s), EX)
        \o Work(Vm(s), EX))

(* getImageDomainsList(): each active data domain in turn. *)
getImageDomainsList(a, s, d) ==
    LET look(x) == Take(Sd(x), SH) \o Work(Sd(x), SH) \o Give(Sd(x))
    IN  Call(a, "ordered", TaskTake(Pool, SH) \o look(Least(s, d)) \o look(Greatest(s, d)))

startMonitoringDomain(a) == Call(a, "ordered", Take(Mon, EX) \o Work(Mon, EX))

stopMonitoringDomain(a) == Call(a, "ordered", Take(Mon, EX) \o Work(Mon, EX))

-----------------------------------------------------------------------------
(* The domain. *)

(* A format with a shared lock of the domain. *)
formatStorageDomain_shared(a, s) == Call(a, "ordered", TaskTake(Sd(s), SH) \o Work(Sd(s), EX))

formatStorageDomain(a, s) == Call(a, "ordered", TaskTake(Sd(s), EX) \o Work(Sd(s), EX))

(* A task that reads a domain in the caller's thread. *)
ReadsDomain(a, s) == Call(a, "ordered", TaskTake(Sd(s), SH) \o Work(Sd(s), SH))

getFileStats(a, s) == ReadsDomain(a, s)
getStorageDomainInfo(a, s) == ReadsDomain(a, s)
getStorageDomainStats(a, s) == ReadsDomain(a, s)
getVmsList(a, s) == ReadsDomain(a, s)
getVmsInfo(a, s) == ReadsDomain(a, s)
getVolumesList(a, s) == ReadsDomain(a, s)
getImagesList(a, s) == ReadsDomain(a, s)
dumpStorageDomain(a, s) == ReadsDomain(a, s)
_produce_volume(a, s) == ReadsDomain(a, s)

(* lease_info(), lease_status(), fence_lease() wait for the domain forever. *)
ReadsLease(a, s) == Call(a, "ordered", Take(Sd(s), SH) \o Work(Sd(s), SH))

lease_info(a, s) == ReadsLease(a, s)
lease_status(a, s) == ReadsLease(a, s)
fence_lease(a, s) == ReadsLease(a, s)

(* The leases volume has a lock of its own: the domain is only used. *)
UsesDomainInJob(a, s) == Call(a, "ordered", TaskTake(Sd(s), SH) \o Job \o Work(Sd(s), SH))

create_lease(a, s) == UsesDomainInJob(a, s)
delete_lease(a, s) == UsesDomainInJob(a, s)
rebuild_leases(a, s) == UsesDomainInJob(a, s)

(* These change the domain with a shared lock of it. *)
ChangesSharedDomain(a, s) == Call(a, "sharedDomain", TaskTake(Sd(s), SH) \o Work(Sd(s), EX))

extendStorageDomain(a, s) == ChangesSharedDomain(a, s)
resizePV(a, s) == ChangesSharedDomain(a, s)
setStorageDomainDescription(a, s) == ChangesSharedDomain(a, s)

(* move_device and reduce_domain: a storage job that has the domain alone. *)
DomainJob(a, s) == Call(a, "ordered", Job \o Take(Sd(s), EX) \o Work(Sd(s), EX))

sdm_move_device(a, s) == DomainJob(a, s)
sdm_reduce_domain(a, s) == DomainJob(a, s)

-----------------------------------------------------------------------------
(* The image. *)

(* A task with a shared lock of the domain whose job has the image alone.  *)
(* createVolume() also locks the image of a template, and lets go of it    *)
(* before: that is an image of its own.                                    *)
ImageJob(a, s) ==
    Call(a, "ordered", TaskTake(Sd(s), SH) \o Job \o Take(Img(s), EX) \o Work(Img(s), EX))

extendVolumeSize(a, s) == ImageJob(a, s)
createVolume(a, s) == ImageJob(a, s)
deleteVolume(a, s) == ImageJob(a, s)

(* The same in the caller's thread. *)
ImageTask(a, s) ==
    Call(a, "ordered", TaskTake(Sd(s), SH) \o Take(Img(s), EX) \o Work(Img(s), EX))

(* A setVolumeLegality() with the domain's lock only. *)
setVolumeLegality_loose(a, s) == Call(a, "ordered", TaskTake(Sd(s), SH) \o Work(Img(s), EX))

setVolumeDescription(a, s) == ImageTask(a, s)
setVolumeLegality(a, s) == ImageTask(a, s)
reconcileVolumeChain(a, s) == ImageTask(a, s)

prune_bitmaps(a, s) == Call(a, "ordered", Guarded(s, EX) \o Work(Img(s), EX))

(* A clone that locks the source first. *)
cloneImageStructure_unsorted(a, s, d) ==
    Call(a, "ordered", TaskTakeSorted(s, d, SH) \o Job \o Take(Img(s), SH) \o Take(Img(d), EX)
        \o Work(Img(s), SH) \o Work(Img(d), EX))

cloneImageStructure(a, s, d) ==
    Call(a, "ordered", TaskTakeSorted(s, d, SH) \o Job \o ImagesSorted(s, d)
        \o Work(Img(s), SH) \o Work(Img(d), EX))

syncImageData(a, s, d) ==
    Call(a, "ordered", TaskTakeSorted(s, d, SH) \o Job \o ImagesSorted(s, d)
        \o Work(Img(s), SH) \o Work(Img(d), EX))

(* moveImage() and copyImage(): the source, then the destination. *)
moveImage(a, s, d) == \E m \in {SH, EX} :
    Call(a, "transfer", TaskTakeSorted(s, d, SH) \o Job \o Take(Img(s), m) \o Take(Img(d), EX)
        \o Work(Img(s), m) \o Work(Img(d), EX))

copyImage(a, s, d) ==
    Call(a, "transfer", TaskTakeSorted(s, d, SH) \o Job \o Take(Img(s), SH) \o Take(Img(d), EX)
        \o Work(Img(s), SH) \o Work(Img(d), EX))

(* prepareMerge(), finalizeMerge(): the task's lock of the domain, and the *)
(* job's guarded context with the same lock again.                         *)
MergeJob(a, s) ==
    Call(a, "merge", TaskTake(Sd(s), SH) \o Job \o Guarded(s, EX) \o Work(Img(s), EX))

prepareMerge(a, s) == MergeJob(a, s)
finalizeMerge(a, s) == MergeJob(a, s)

(* These have an image and not its domain. *)
LooseImageJob(a, s, m) == Call(a, "noDomain", Job \o Take(Img(s), m) \o Work(Img(s), m))

uploadImage(a, s) == LooseImageJob(a, s, SH)
downloadImage(a, s) == LooseImageJob(a, s, EX)
uploadImageToStream(a, s) == LooseImageJob(a, s, EX)
downloadImageFromStream(a, s) == LooseImageJob(a, s, EX)

(* imageSyncVolumeChain() changes legality and parent of the volumes of an *)
(* image it has a shared lock of.                                          *)
imageSyncVolumeChain(a, s) == Call(a, "sharedImage", Take(Img(s), SH) \o Work(Img(s), EX))

(* These have the domain and not the image they use. *)
LooseImageTask(a, s) == Call(a, "noImage", TaskTake(Sd(s), SH) \o Work(Img(s), SH))

prepareImage(a, s) == LooseImageTask(a, s)
teardownImage(a, s) == LooseImageTask(a, s)
teardownVolume(a, s) == LooseImageTask(a, s)
getQemuImageInfo(a, s) == LooseImageTask(a, s)

reduceVolume(a, s) ==
    Call(a, "noImage", TaskTake(Sd(s), SH) \o Job \o Work(Img(s), EX))

(* deleteImage(): its lock of the image is in the storage namespace. *)
deleteImage(a, s) ==
    Call(a, "noImage", TaskTake(Deleted(s), EX) \o TaskTake(Sd(s), SH) \o Work(Img(s), EX) \o Job
        \o Work(Img(s), EX))

(* extendVolume() for a request that came by the mailbox. *)
extendVolume(a, s) == Call(a, "noLock", Work(Img(s), EX))

(* The storage jobs: the locks of VolumeInfo and of a merge's subchain. *)
GuardedJob(a, s) == Call(a, "ordered", Job \o Guarded(s, EX) \o Work(Img(s), EX))

sdm_add_bitmap(a, s) == GuardedJob(a, s)
sdm_remove_bitmap(a, s) == GuardedJob(a, s)
sdm_clear_bitmaps(a, s) == GuardedJob(a, s)
sdm_amend_volume(a, s) == GuardedJob(a, s)
sdm_sparsify_volume(a, s) == GuardedJob(a, s)
sdm_update_volume(a, s) == GuardedJob(a, s)
sdm_merge(a, s) == GuardedJob(a, s)

sdm_copy_data(a, s, d) ==
    Call(a, "ordered", Job \o Take(Sd(Least(s, d)), SH) \o Take(Sd(Greatest(s, d)), SH)
        \o ImagesSorted(s, d) \o Work(Img(s), SH) \o Work(Img(d), EX))

-----------------------------------------------------------------------------
PoolVerb(a) ==
    \/ spmStart(a) \/ spmStop(a) \/ upgradeStoragePool(a)
    \/ connectStoragePool(a) \/ disconnectStoragePool(a) \/ reconstructMaster(a)
    \/ getStoragePoolInfo(a) \/ startMonitoringDomain(a) \/ stopMonitoringDomain(a)

DomainVerb(a, s) ==
    \/ _upgradePoolDomain(a, s) \/ _domainStateChange(a, s)
    \/ forcedDetachStorageDomain(a, s) \/ (s # Master /\ destroyStoragePool(a, s))
    \/ attachStorageDomain(a, s) \/ detachStorageDomain(a, s) \/ activateStorageDomain(a, s)
    \/ updateVM(a, s) \/ removeVM(a, s) \/ formatStorageDomain(a, s)
    \/ getFileStats(a, s) \/ getStorageDomainInfo(a, s) \/ getStorageDomainStats(a, s)
    \/ getVmsList(a, s) \/ getVmsInfo(a, s) \/ getVolumesList(a, s) \/ getImagesList(a, s)
    \/ dumpStorageDomain(a, s) \/ _produce_volume(a, s)
    \/ lease_info(a, s) \/ lease_status(a, s) \/ fence_lease(a, s)
    \/ create_lease(a, s) \/ delete_lease(a, s) \/ rebuild_leases(a, s)
    \/ extendStorageDomain(a, s) \/ resizePV(a, s) \/ setStorageDomainDescription(a, s)
    \/ sdm_move_device(a, s) \/ sdm_reduce_domain(a, s)

ImageVerb(a, s) ==
    \/ extendVolumeSize(a, s) \/ createVolume(a, s) \/ deleteVolume(a, s)
    \/ setVolumeDescription(a, s) \/ setVolumeLegality(a, s) \/ reconcileVolumeChain(a, s)
    \/ prune_bitmaps(a, s) \/ prepareMerge(a, s) \/ finalizeMerge(a, s)
    \/ uploadImage(a, s) \/ downloadImage(a, s) \/ uploadImageToStream(a, s)
    \/ downloadImageFromStream(a, s) \/ imageSyncVolumeChain(a, s)
    \/ prepareImage(a, s) \/ teardownImage(a, s) \/ teardownVolume(a, s)
    \/ getQemuImageInfo(a, s) \/ reduceVolume(a, s) \/ deleteImage(a, s) \/ extendVolume(a, s)
    \/ sdm_add_bitmap(a, s) \/ sdm_remove_bitmap(a, s) \/ sdm_clear_bitmaps(a, s)
    \/ sdm_amend_volume(a, s) \/ sdm_sparsify_volume(a, s) \/ sdm_update_volume(a, s)
    \/ sdm_merge(a, s)

TwoDomainVerb(a, s, d) ==
    \/ createStoragePool(a, s, d) \/ switchMaster(a, s, d)
    \/ deactivateStorageDomain(a, s, d) \/ getImageDomainsList(a, s, d)
    \/ cloneImageStructure(a, s, d) \/ syncImageData(a, s, d)
    \/ moveImage(a, s, d) \/ copyImage(a, s, d) \/ sdm_copy_data(a, s, d)

Next == \E a \in Actors :
    \/ PoolVerb(a)
    \/ \E s \in Domains : DomainVerb(a, s) \/ ImageVerb(a, s)
    \/ \E s, d \in Domains : s # d /\ TwoDomainVerb(a, s, d)
    \/ acquireResource(a) \/ releaseResource(a) \/ scheduleJob(a) \/ Works(a)
    \/ TimesOut(a) \/ Returns(a) \/ Raises(a)

Spec == Init /\ [][Next]_vars

-----------------------------------------------------------------------------
(* A lock that is exclusive has one user, once; only calls that wait are   *)
(* in a queue, and nobody waits for a name that is free: what the resource *)
(* manager's grants have to keep true of the calls' locks.                 *)
LockTable ==
    \A r \in Resources :
        /\ Exclusive(held, r) =>
               \A a, b \in Actors : \A i \in DOMAIN held[a], j \in DOMAIN held[b] :
                   Res(held[a][i]) = r /\ Res(held[b][j]) = r => a = b /\ i = j
        /\ queue[r] # <<>> => Users(held, r) # {}
        /\ \A i \in DOMAIN queue[r] :
               queue[r][i].who # NoOne => todo[queue[r][i].who] # <<>>
                                          /\ Res(NextStep(queue[r][i].who)) = r

(* Whose going a call waits for: the users of the name and those that      *)
(* asked for it before.                                                    *)
Before(a) ==
    LET r == Res(NextStep(a))
        place == CHOOSE i \in DOMAIN queue[r] : queue[r][i].who = a
    IN  Users(held, r) \cup {queue[r][i].who : i \in 1..(place - 1)}

WaitsForThread(a) ==
    todo[a] # <<>> /\ Op(NextStep(a)) = "job" /\ Cardinality(Running) = threads

(* No call of S can go on before another call of S does: it waits, with no *)
(* timeout, for a lock one of them is in the way of, or for a thread they  *)
(* have all of.                                                            *)
Deadlocked(S) ==
    \A a \in S :
        \/ Waiting(a) /\ Op(NextStep(a)) = "take" /\ Before(a) \cap S # {}
        \/ WaitsForThread(a) /\ Running \subseteq S

Deadlocks == {S \in SUBSET Actors : S # {} /\ Deadlocked(S)}

(* Calls that wait for each other forever always include a connect, whose  *)
(* two locks are in the opposite order of a disconnect's, the destruction  *)
(* of the pool, which stops the SPM, and so waits for the upgrade threads, *)
(* when it has the domains they wait for, a move or copy of an image,      *)
(* whose locks are in the order of the direction, or a merge, which locks  *)
(* its domain twice; or a task that has locks and waits for the thread     *)
(* pool, which is full of jobs that wait for them.                         *)
OnlyKnownDeadlocks ==
    \A S \in Deadlocks : \E a \in S :
        kind[a] \in {"connect", "update", "destroy", "transfer", "merge"} \/ WaitsForThread(a)

(* The job of a merge, which takes its locks with a guarded context, is    *)
(* not among the calls that wait for each other forever.  It can be: see   *)
(* the README, section 4.                                                  *)
GuardedMergeGoesOn ==
    \A S \in Deadlocks : \A a \in S : kind[a] # "merge" \/ WaitsForThread(a)

(* Two calls at work on the same thing, one of them changing it. *)
AtWork(a, r, m) == todo[a] # <<>> /\ Op(NextStep(a)) = "work" /\ Res(NextStep(a)) = r /\ Mode(NextStep(a)) = m

Clash(a, b, r, q) == a # b /\ AtWork(a, r, EX) /\ \E m \in {SH, EX} : AtWork(b, q, m)

(* The pairs of things of which the first cannot change while the other is *)
(* worked on.                                                              *)
Overlaps == {<<Pool, Pool>>, <<Mon, Mon>>} \cup
    UNION {{<<Sd(d), Sd(d)>>, <<Sd(d), Img(d)>>, <<Vms(d), Vm(d)>>, <<Vm(d), Vm(d)>>} : d \in Domains}

(* Nobody works on a domain, its images included, or on the pool, while    *)
(* another call changes it, but for the verbs that have no lock of the     *)
(* domain.  The verbs that change a domain, or a connected pool, they have *)
(* a shared lock of do it beside others with a shared lock, and never      *)
(* beside one that has the domain, or the pool, for itself.                *)
DomainWorkAlone ==
    \A a, b \in Actors :
        {kind[a], kind[b]} \cap {"sharedImage", "noDomain", "noLock"} = {} =>
            \A o \in Overlaps : Clash(a, b, o[1], o[2]) =>
                kind[a] \in {"update", "sharedDomain"} /\ ~Exclusive(held, o[1])

(* Nobody works on an image while another call changes it, but for the     *)
(* verbs that have no lock of the image.  A chain that is synchronized     *)
(* with a shared lock of the image is changed beside other calls with a    *)
(* shared lock, and never beside one that has the image for itself.        *)
ImageWorkAlone ==
    \A a, b \in Actors :
        {kind[a], kind[b]} \cap {"noImage", "noLock"} = {} =>
            \A d \in Domains : Clash(a, b, Img(d), Img(d)) =>
                kind[a] = "sharedImage" /\ ~Exclusive(held, Img(d))
=============================================================================
