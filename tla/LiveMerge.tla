------------------------------ MODULE LiveMerge ------------------------------
(***************************************************************************)
(* Live merge (virt/livemerge.py: DriveMerger and CleanupThread, with      *)
(* Vm.sync_volume_chain and Image.syncVolumeChain): removing a volume from *)
(* the chain of a running VM's disk.  libvirt copies the removed volume    *)
(* into its parent.  When the volume is the active one ("leaf") the guest  *)
(* must then be switched to the parent: the pivot.  Afterwards the storage *)
(* metadata and vdsm's own drive object have to follow libvirt's chain.    *)
(*                                                                         *)
(* DriveMerger works under its lock; the cleanup threads run without it.   *)
(* What a restarted vdsm knows is what was persisted in the VM's metadata. *)
(* A libvirt call that fails without changing anything and is retried at   *)
(* the next poll is a stuttering step.  sync_metadata does not fail here.  *)
(***************************************************************************)
EXTENDS Naturals, FiniteSets, FiniteSetsExt

CONSTANTS
    Drives,      \* the disks of the VM
    Depth,       \* volumes in the chain of each disk
    MaxAttempts, \* EXTEND_ATTEMPTS
    MaxMerges,   \* merges asked in one behaviour
    Faults,      \* the kinds of fault that may happen, once each
    MaxFaults    \* how many of them in one behaviour

ASSUME LiveMergeAssumption ==
    /\ {Depth, MaxAttempts, MaxMerges} \subseteq Nat \ {0}
    /\ MaxFaults \in Nat /\ "nobody" \notin Drives

VARIABLES
    qemu, xml,       \* the chain in use, and the chain libvirt reports
    blockJob,        \* libvirt's block job: "none", "running" or "ready"
    md, legal,       \* the chain in the storage metadata, legality of its leaf
    chain,           \* drive.volumeChain; its last element is drive.volumeID
    monitor,         \* VolumeMonitor._enabled, one for the whole VM: "on", "off",
                     \* or "left" off by a cleanup that failed after its pivot
    job,             \* DriveMerger._jobs
    thread,          \* DriveMerger._cleanup_threads
    lock,            \* the drive whose commit is being started, or Nobody
    extends,         \* extend callbacks of the tracked job still to come
    savedJob, savedChain,  \* what the VM metadata holds of job and chain
    merges,          \* merges asked so far
    faults           \* the kinds of fault that happened so far

libvirt == <<qemu, xml, blockJob>>
storage == <<md, legal>>
saved == <<savedJob, savedChain>>
vars == <<libvirt, storage, chain, monitor, job, thread, lock, extends, saved,
          merges, faults>>

(* Volumes are only ever removed from a chain: each is named by its place  *)
(* in the first one, and a chain is the set of those that are left.        *)
Volumes == 1..Depth
Base == 1
Chains == {s \in SUBSET Volumes : Base \in s}
Leaf(s) == Max(s)
BelowLeaf(s) == s \ {Leaf(s)}
Nobody == "nobody"

NoJob == [state |-> "none", attempt |-> 0, pivot |-> FALSE, top |-> 0, disk |-> 0]
NoThread == [pc |-> "none", pivot |-> FALSE]

Init ==
    /\ qemu = [d \in Drives |-> Volumes]
    /\ xml = qemu /\ md = qemu /\ chain = qemu /\ savedChain = qemu
    /\ blockJob = [d \in Drives |-> "none"]
    /\ legal = [d \in Drives |-> TRUE]
    /\ monitor = "on"
    /\ job = [d \in Drives |-> NoJob] /\ savedJob = job
    /\ thread = [d \in Drives |-> NoThread]
    /\ lock = Nobody
    /\ extends = [d \in Drives |-> {}]
    /\ merges = 0
    /\ faults = {}

Fault(kind) ==
    /\ kind \in Faults \ faults /\ Cardinality(faults) < MaxFaults
    /\ faults' = faults \union {kind}

Failing(kind, failing) == IF failing THEN Fault(kind) ELSE UNCHANGED faults

-----------------------------------------------------------------------------
(* Image.syncVolumeChain on the chain up to drive.volumeID: a volume that  *)
(* is gone is unlinked, or marked illegal when it is the leaf; with none   *)
(* gone the leaf is legal.                                                 *)
syncVolumeChain(d, actual) ==
    LET volUUID == Leaf(chain[d])
        curChain == {v \in md[d] : v <= volUUID}
        gone == curChain \ actual
    IN  IF gone = {}
          THEN /\ legal' = [legal EXCEPT ![d] = (volUUID = Leaf(md[d])) \/ @]
               /\ UNCHANGED md
        ELSE IF Leaf(md[d]) \in gone
          THEN legal' = [legal EXCEPT ![d] = FALSE] /\ UNCHANGED md
          ELSE md' = [md EXCEPT ![d] = @ \ gone] /\ UNCHANGED legal

(* Tracking.  _untrack_job writes the disk metadata of every drive.        *)
Track(d, j) == job' = [job EXCEPT ![d] = j]

_persist_jobs(d, j) == Track(d, j) /\ savedJob' = job' /\ UNCHANGED savedChain

_untrack_job(d) ==
    /\ job' = [job EXCEPT ![d] = NoJob] /\ savedJob' = job'
    /\ thread' = [thread EXCEPT ![d] = NoThread]
    /\ extends' = [extends EXCEPT ![d] = {}]
    /\ savedChain' = chain

At(d, pc) == thread[d].pc = pc
Goto(d, pc) == thread' = [thread EXCEPT ![d].pc = pc]

findDriveByUUIDs(d) == job[d].disk = Leaf(chain[d])

(* Mutant: the block job is started before the job is persisted.           *)
_start_commit_unsaved(d, j) ==
    /\ Track(d, [j EXCEPT !.state = "COMMIT", !.attempt = 0])
    /\ lock' = d
    /\ UNCHANGED <<thread, saved>>

(* The commit: the job is persisted as COMMIT (_start_commit), then the    *)
(* block job is started, still under the lock (_start_commit_blockCommit). *)
_start_commit(d, j) ==
    /\ _persist_jobs(d, [j EXCEPT !.state = "COMMIT", !.attempt = 0])
    /\ lock' = d
    /\ UNCHANGED thread

_start_commit_blockCommit(d) ==
    /\ lock = d
    /\ lock' = Nobody
    /\ \/ /\ job[d].top \in xml[d]
          /\ blockJob' = [blockJob EXCEPT ![d] = "running"]
          /\ UNCHANGED <<job, thread, extends, saved, faults>>
       \/ /\ job[d].top \in xml[d] => Fault("commit")
          /\ job[d].top \notin xml[d] => UNCHANGED faults
          /\ _untrack_job(d) /\ UNCHANGED blockJob
    /\ UNCHANGED <<qemu, xml, storage, chain, monitor, merges>>

_start_extend(d, j) ==
    /\ _persist_jobs(d, [j EXCEPT !.state = "EXTEND"])
    /\ extends' = [extends EXCEPT ![d] = @ \union {j.attempt}]
    /\ UNCHANGED <<lock, thread>>

(* DriveMerger.merge.  A request that fails its checks, or finds a job on  *)
(* the drive, changes nothing.  When pruning or measuring raises, the job  *)
(* has been tracked.  The engine asks for the next merge once the last one *)
(* is over and the removed volume deleted.                                 *)
merge(d) ==
    /\ lock = Nobody /\ merges < MaxMerges
    /\ job[d] = NoJob /\ legal[d] /\ md[d] = qemu[d]
    /\ merges' = merges + 1
    /\ \E top \in xml[d] \ {Base} :
         LET j == [NoJob EXCEPT !.state = "INIT", !.top = top, !.disk = Leaf(chain[d])]
         IN  \/ /\ _start_extend(d, [j EXCEPT !.attempt = 1]) /\ UNCHANGED faults
             \/ /\ _start_commit(d, j) /\ UNCHANGED <<extends, faults>>
             \/ /\ Track(d, j) /\ Fault("measure")
                /\ UNCHANGED <<thread, lock, extends, saved>>
    /\ UNCHANGED <<libvirt, storage, chain, monitor>>

(* The extend callback, from a mailbox thread: of any attempt so far.      *)
_extend_completed(d) ==
    /\ lock = Nobody
    /\ \E attempt \in extends[d], error \in BOOLEAN :
         /\ Failing("extend", error)
         /\ IF job[d].state # "EXTEND" \/ (error /\ attempt < MaxAttempts)
              THEN /\ extends' = [extends EXCEPT ![d] = @ \ {attempt}]
                   /\ UNCHANGED <<job, thread, lock, saved>>
            ELSE IF error \/ ~findDriveByUUIDs(d)
              THEN _untrack_job(d) /\ UNCHANGED lock
            ELSE /\ _start_commit(d, job[d])
                 /\ extends' = [extends EXCEPT ![d] = @ \ {attempt}]
    /\ UNCHANGED <<libvirt, storage, chain, monitor, merges>>

-----------------------------------------------------------------------------
(* query_jobs, from the periodic BlockjobMonitor and at the end of merge,  *)
(* one job at a time.                                                      *)

(* The extend timed out.  Whether the base still needs it depends on what  *)
(* the guest wrote and on whether the SPM extended it meanwhile.           *)
_update_extend(d) ==
    /\ lock = Nobody /\ job[d].state = "EXTEND"
    /\ \/ /\ job[d].attempt >= MaxAttempts \/ ~findDriveByUUIDs(d)
          /\ _untrack_job(d) /\ UNCHANGED <<lock, faults>>
       \/ /\ job[d].attempt < MaxAttempts /\ findDriveByUUIDs(d)
          /\ \/ Fault("measure") /\ _untrack_job(d) /\ UNCHANGED lock
             \/ _start_extend(d, [job[d] EXCEPT !.attempt = @ + 1]) /\ UNCHANGED faults
             \/ _start_commit(d, job[d]) /\ UNCHANGED <<extends, faults>>
    /\ UNCHANGED <<libvirt, storage, chain, monitor, merges>>

_start_cleanup(d, pivot) ==
    /\ _persist_jobs(d, [job[d] EXCEPT !.state = "CLEANUP", !.pivot = pivot])
    /\ IF findDriveByUUIDs(d)
         THEN thread' = [thread EXCEPT ![d] = [pc |-> "size", pivot |-> pivot]]
         ELSE UNCHANGED thread
    /\ UNCHANGED extends

active_commit(j) == j.top = j.disk
_active_commit_ready(d) == active_commit(job[d]) /\ blockJob[d] = "ready"

_update_commit(d) ==
    /\ lock = Nobody /\ job[d].state = "COMMIT"
    /\ blockJob[d] = "none" \/ _active_commit_ready(d)
    /\ _start_cleanup(d, _active_commit_ready(d))
    /\ UNCHANGED <<libvirt, storage, chain, monitor, lock, merges, faults>>

(* Mutant: a failed cleanup is not started again.                          *)
_update_cleanup_once(d) ==
    /\ lock = Nobody /\ job[d].state = "CLEANUP"
    /\ \/ At(d, "none") /\ _start_cleanup(d, job[d].pivot /\ blockJob[d] # "none")
       \/ At(d, "DONE") /\ _untrack_job(d)
    /\ UNCHANGED <<libvirt, storage, chain, monitor, lock, merges, faults>>

(* The domain XML follows a pivot within seconds.  Unless "lag" is one of  *)
(* the faults, it has done so when the next poll looks at the job.         *)
_update_cleanup(d) ==
    /\ lock = Nobody /\ job[d].state = "CLEANUP"
    /\ xml[d] = qemu[d] \/ "lag" \in Faults
    /\ LET pivot == job[d].pivot /\ blockJob[d] # "none"
       IN  CASE thread[d].pc \in {"none", "FAILED"} -> _start_cleanup(d, pivot)
             [] thread[d].pc = "DONE" -> _untrack_job(d)
             [] OTHER -> Track(d, [job[d] EXCEPT !.pivot = pivot])
                         /\ UNCHANGED <<thread, extends, saved>>
    /\ UNCHANGED <<libvirt, storage, chain, monitor, lock, merges, faults>>

query_jobs(d) == _update_extend(d) \/ _update_commit(d) \/ _update_cleanup(d)

-----------------------------------------------------------------------------
(* CleanupThread.run.  An exception ends it FAILED.                        *)

update_base_size(d) ==
    /\ At(d, "size")
    /\ \/ Goto(d, IF thread[d].pivot THEN "mark" ELSE "sync") /\ UNCHANGED faults
       \/ Goto(d, "FAILED") /\ Fault("sync")
    /\ UNCHANGED <<libvirt, storage, chain, monitor, job, lock, extends, saved, merges>>

(* Mutant: the pivot is requested with the leaf still legal.               *)
_mark_leaf_illegal_skipped(d) ==
    /\ At(d, "mark")
    /\ monitor' = "off" /\ Goto(d, "pivot")
    /\ UNCHANGED <<libvirt, storage, chain, job, lock, extends, saved, merges, faults>>

(* tryPivot up to the request: the leaf is marked illegal, then the volume *)
(* monitor is disabled.                                                    *)
_mark_leaf_illegal(d) ==
    /\ At(d, "mark")
    /\ \/ /\ syncVolumeChain(d, BelowLeaf(chain[d]))
          /\ monitor' = "off"
          /\ Goto(d, "pivot") /\ UNCHANGED faults
       \/ Fault("sync") /\ Goto(d, "FAILED") /\ UNCHANGED <<storage, monitor>>
    /\ UNCHANGED <<libvirt, chain, job, lock, extends, saved, merges>>

(* Mutant: the monitor stays disabled when the pivot is refused.           *)
Refused_disabled(d) ==
    /\ UNCHANGED monitor /\ Goto(d, "FAILED")
    /\ \/ syncVolumeChain(d, chain[d])
       \/ "sync" \in Faults /\ UNCHANGED storage

(* libvirt refuses, because the block job is gone or for a reason of its   *)
(* own: the leaf becomes legal again unless storage fails too.             *)
Refused(d) ==
    /\ monitor' = "on" /\ Goto(d, "FAILED")
    /\ \/ syncVolumeChain(d, chain[d])
       \/ "sync" \in Faults /\ UNCHANGED storage

blockJobAbort(d) ==
    /\ At(d, "pivot")
    /\ \/ /\ blockJob[d] = "ready"
          /\ qemu' = [qemu EXCEPT ![d] = BelowLeaf(@)]
          /\ blockJob' = [blockJob EXCEPT ![d] = "none"]
          /\ Goto(d, "xml") /\ UNCHANGED <<storage, monitor, faults>>
       \/ /\ Failing("abort", blockJob[d] = "ready")
          /\ Refused(d) /\ UNCHANGED <<qemu, blockJob>>
    /\ UNCHANGED <<xml, chain, job, lock, extends, saved, merges>>

(* A cleanup that fails once it has pivoted leaves the monitor disabled,   *)
(* and the next cleanup has no pivot to enable it after.                   *)
LeaveDisabled(d) ==
    monitor' = IF thread[d].pivot /\ monitor = "off" THEN "left" ELSE monitor

_waitForXMLUpdate(d) ==
    /\ At(d, "xml")
    /\ \/ /\ xml[d] = BelowLeaf(chain[d]) /\ Goto(d, "sync")
          /\ UNCHANGED <<monitor, faults>>
       \/ Fault("query") /\ Goto(d, "FAILED") /\ LeaveDisabled(d)
    /\ UNCHANGED <<libvirt, storage, chain, job, lock, extends, saved, merges>>

(* Vm.sync_volume_chain: storage first, then the drive; the storage calls  *)
(* may fail before or after the metadata changed.  Then the rest of run up *)
(* to the teardown.                                                        *)
sync_volume_chain(d) ==
    /\ At(d, "sync")
    /\ \/ /\ syncVolumeChain(d, xml[d])
          /\ chain' = [chain EXCEPT ![d] = xml[d]]
          /\ monitor' = IF thread[d].pivot THEN "on" ELSE monitor
          /\ Goto(d, IF job[d].top \in xml[d] THEN "DONE" ELSE "teardown")
          /\ UNCHANGED faults
       \/ /\ Fault("sync") /\ Goto(d, "FAILED")
          /\ syncVolumeChain(d, xml[d]) \/ UNCHANGED storage
          /\ LeaveDisabled(d) /\ UNCHANGED chain
    /\ UNCHANGED <<libvirt, job, lock, extends, saved, merges>>

teardown_top_volume(d) ==
    /\ At(d, "teardown")
    /\ \/ Goto(d, "DONE") /\ UNCHANGED faults
       \/ Goto(d, "FAILED") /\ Fault("teardown")
    /\ UNCHANGED <<libvirt, storage, chain, monitor, job, lock, extends, saved, merges>>

Cleanup(d) ==
    \/ update_base_size(d) \/ _mark_leaf_illegal(d) \/ blockJobAbort(d)
    \/ _waitForXMLUpdate(d) \/ sync_volume_chain(d) \/ teardown_top_volume(d)

-----------------------------------------------------------------------------
(* libvirt, the engine and the host.                                       *)

(* An internal commit ends with the volume out of the chain; an active one *)
(* becomes ready.  Either may fail instead.                                *)
BlockJobEnds(d) ==
    /\ blockJob[d] # "none"
    /\ LET internal == qemu[d] \ {job[d].top}
       IN  \/ /\ blockJob[d] = "running" /\ ~active_commit(job[d])
              /\ blockJob' = [blockJob EXCEPT ![d] = "none"]
              /\ qemu' = [qemu EXCEPT ![d] = internal] /\ xml' = [xml EXCEPT ![d] = internal]
              /\ UNCHANGED faults
           \/ /\ blockJob[d] = "running" /\ active_commit(job[d])
              /\ blockJob' = [blockJob EXCEPT ![d] = "ready"]
              /\ UNCHANGED <<qemu, xml, faults>>
           \/ /\ Fault("commit")
              /\ blockJob' = [blockJob EXCEPT ![d] = "none"] /\ UNCHANGED <<qemu, xml>>
    /\ UNCHANGED <<storage, chain, monitor, job, thread, lock, extends, saved, merges>>

(* The domain XML follows a pivot a little later.                          *)
XmlUpdated(d) ==
    /\ xml[d] # qemu[d]
    /\ xml' = [xml EXCEPT ![d] = qemu[d]]
    /\ UNCHANGED <<qemu, blockJob, storage, chain, monitor, job, thread, lock,
                   extends, saved, merges, faults>>

(* The engine deletes the volume a finished active merge left illegal.     *)
EngineDeletes(d) ==
    /\ job[d] = NoJob /\ ~legal[d] /\ qemu[d] = BelowLeaf(md[d])
    /\ md' = [md EXCEPT ![d] = BelowLeaf(@)] /\ legal' = [legal EXCEPT ![d] = TRUE]
    /\ UNCHANGED <<libvirt, chain, monitor, job, thread, lock, extends, saved, merges, faults>>

(* vdsm is killed and restarted.  Recovery reads the jobs and the drives   *)
(* from the VM metadata (load_jobs) and enables the monitor.               *)
Restart ==
    /\ Fault("crash")
    /\ job' = savedJob /\ chain' = savedChain
    /\ thread' = [d \in Drives |-> NoThread]
    /\ extends' = [d \in Drives |-> {}]
    /\ lock' = Nobody /\ monitor' = "on"
    /\ UNCHANGED <<libvirt, storage, saved, merges>>

Next ==
    \/ \E d \in Drives :
         \/ merge(d) \/ _start_commit_blockCommit(d) \/ _extend_completed(d)
         \/ query_jobs(d) \/ Cleanup(d)
         \/ BlockJobEnds(d) \/ XmlUpdated(d) \/ EngineDeletes(d)
    \/ Restart

(* The poll comes back every few seconds and a thread runs until it ends;  *)
(* libvirt finishes or fails a block job and updates its XML.  A callback, *)
(* a fault and a request need not come.                                    *)
Fairness ==
    \A d \in Drives :
      /\ WF_vars(_start_commit_blockCommit(d))
      /\ WF_vars(query_jobs(d))
      /\ WF_vars(Cleanup(d))
      /\ WF_vars(BlockJobEnds(d) \/ XmlUpdated(d))

Spec == Init /\ [][Next]_vars /\ Fairness

-----------------------------------------------------------------------------
JobType == [state : {"none", "INIT", "EXTEND", "COMMIT", "CLEANUP"},
            attempt : 0..MaxAttempts, pivot : BOOLEAN,
            top : Volumes \union {0}, disk : Volumes \union {0}]

(* The chains stay chains, a job is in one of its five states, and a       *)
(* cleanup thread in TRYING, DONE or FAILED exists only for a tracked job. *)
TypeOK ==
    /\ {qemu, xml, md, chain, savedChain} \subseteq [Drives -> Chains]
    /\ blockJob \in [Drives -> {"none", "running", "ready"}]
    /\ legal \in [Drives -> BOOLEAN] /\ monitor \in {"on", "off", "left"}
    /\ job \in [Drives -> JobType] /\ savedJob \in [Drives -> JobType]
    /\ \A d \in Drives : job[d].state # "CLEANUP" => thread[d] = NoThread
    /\ lock \in Drives \union {Nobody}
    /\ extends \in [Drives -> SUBSET (1..MaxAttempts)]
    /\ merges \in 0..MaxMerges /\ faults \subseteq Faults

(* _mark_leaf_illegal, "so that we can properly recover the VM in case we  *)
(* crash": at every instant, a volume the storage metadata calls a legal   *)
(* leaf is the one the guest writes to.  A VM restarted from the metadata  *)
(* never boots from the volume a pivot left behind.                        *)
RestartSafe == \A d \in Drives : legal[d] => Leaf(md[d]) = Leaf(qemu[d])

(* Until the storage metadata and the saved drive agree with the chain in  *)
(* use, the job that will repair them is saved: a restart of vdsm between  *)
(* any two steps never forgets a merge half done.  The types hold.         *)
NothingForgotten ==
    TypeOK /\ \A d \in Drives :
      \/ savedJob[d] # NoJob
      \/ /\ legal[d] <=> Leaf(md[d]) = Leaf(qemu[d])
         /\ IF legal[d] THEN md[d] = qemu[d] ELSE BelowLeaf(md[d]) = qemu[d]
         /\ savedChain[d] = qemu[d]

(* _start_cleanup, "Should never happen": the cleanup has to be started    *)
(* again, and the drive's volumeID is no longer the job's.                 *)
Orphaned(d) ==
    job[d].state = "CLEANUP" /\ thread[d].pc \in {"none", "FAILED"} /\ ~findDriveByUUIDs(d)
Unfinished(d) == job[d] # NoJob

(* query_jobs and the cleanup thread bring every tracked merge to its end, *)
(* through extend timeouts, a failed commit, refused pivots, storage       *)
(* errors and a restart of vdsm, unless the job lost its drive or was left *)
(* in INIT by an error in merge.                                           *)
EveryMergeEnds ==
    \A d \in Drives :
      Unfinished(d) ~> (~Unfinished(d) \/ Orphaned(d) \/ job[d].state = "INIT")

(* Volume monitoring, which a pivot stops for the whole VM, comes back,    *)
(* whether the pivot is made or refused, the metadata cannot be restored,  *)
(* or other drives merge meanwhile; unless that cleanup failed after its   *)
(* pivot, waiting for the domain XML or in sync_volume_chain.              *)
MonitorComesBack == []<>(monitor # "off")
=============================================================================
