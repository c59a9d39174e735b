-------------------------------- MODULE Thinp --------------------------------
(***************************************************************************)
(* Thin provisioning of one drive (virt/thinp.py VolumeMonitor, Drive in   *)
(* virt/vmdevices/storage.py, and their callers in virt/vm.py): the guest  *)
(* writes into a logical volume smaller than its disk.  libvirt reports    *)
(* once when the allocation passes a threshold, and qemu pauses the VM     *)
(* when the volume is full (ENOSPC).  Either event, or the periodic        *)
(* monitor, asks the SPM to extend the volume; the callback of the reply   *)
(* refreshes the volume, sets the next threshold and resumes the VM.       *)
(*                                                                         *)
(* Sizes count units: a chunk is Chunk units.  The drive is its own top    *)
(* volume, not replicated.  A migration changes nothing here: a VM that is *)
(* out of space cannot migrate, and is resumed; hibernation stops the VM.  *)
(***************************************************************************)
EXTENDS Naturals, FiniteSetsExt

CONSTANTS
    Chunk, Limit, \* volExtensionChunk and watermarkLimit
    MaxSize,      \* getMaxVolumeSize
    Workers,      \* the executor's workers that may run _extend_drive
    MaxQueue,     \* the calls of _extend_drive that the executor's queue has room for
    MaxFaults     \* how many calls may fail, time out or be lost in one behaviour

ASSUME ThinpAssumption ==
    /\ {Chunk, Limit, MaxSize, MaxQueue} \subseteq Nat \ {0} /\ MaxFaults \in Nat
    /\ Limit < Chunk /\ Chunk < MaxSize
    /\ "monitor" \notin Workers

VARIABLES
    alloc,           \* the guest's highest allocation
    paused,          \* "no", "enospc", or "left" by a resume that failed
    saving,          \* Vm.lastStatus is SAVING_STATE, for hibernation
    lv, physical,    \* the volume's size, and the size this host sees
    threshold,       \* libvirt's threshold, 0 when none is set
    events,          \* events libvirt has still to deliver
    state,           \* Drive._threshold_state
    blockInfo,       \* Drive.block_info: its physical size, and whether the
                     \* allocation leaves less than Limit of it free
    recent,          \* extend_timeout has not passed since Drive.extend_time
    lock,            \* the holder of Drive._monitor_lock, or "free"
    queued,          \* the calls of _extend_drive in the executor's queue
    pc,              \* the monitor thread and the executor's workers
    requests,        \* sizes asked of the SPM and not answered
    reply,           \* the callback thread of each size
    faults,          \* the calls that failed so far
    overtaken        \* an event came before _set_threshold set the state

guest == <<alloc, paused, saving>>
vars == <<alloc, paused, saving, lv, physical, threshold, events, state, blockInfo,
          recent, lock, queued, pc, requests, reply, faults, overtaken>>

Threads == Workers \union {"monitor"}
Sizes == {Min({k * Chunk, MaxSize}) : k \in 2..MaxSize}   \* what may be requested

Init ==
    /\ alloc = 0 /\ paused = "no" /\ saving = FALSE
    /\ lv = Chunk /\ physical = Chunk
    /\ threshold = 0 /\ events = {} /\ state = "UNSET"
    /\ blockInfo = [physical |-> Chunk, low |-> FALSE]
    /\ recent = FALSE /\ lock = "free" /\ queued = 0
    /\ pc = [t \in Threads |-> "idle"]
    /\ requests = {} /\ reply = [s \in Sizes |-> "none"]
    /\ faults = 0 /\ overtaken = FALSE

Fault == faults < MaxFaults /\ faults' = faults + 1

-----------------------------------------------------------------------------
(* The guest and libvirt.                                                  *)

GuestWrites ==
    /\ ~saving /\ paused = "no" /\ alloc < physical
    /\ alloc' = alloc + 1
    /\ IF threshold > 0 /\ alloc' >= threshold
         THEN threshold' = 0 /\ events' = events \union {"threshold"}
         ELSE UNCHANGED <<threshold, events>>
    /\ UNCHANGED <<paused, saving, lv, physical, state, blockInfo, recent, lock,
                   queued, pc, requests, reply, faults, overtaken>>

GuestHitsEnd ==
    /\ ~saving /\ paused = "no" /\ alloc = physical /\ physical < MaxSize
    /\ paused' = "enospc" /\ events' = events \union {"enospc"}
    /\ UNCHANGED <<alloc, saving, lv, physical, threshold, state, blockInfo,
                   recent, lock, queued, pc, requests, reply, faults,
                   overtaken>>

\* Hibernation stops the VM, and succeeds; or fails, and continues the VM whatever
\* had stopped it.
Hibernate ==
    /\ ~saving /\ saving' = TRUE
    /\ UNCHANGED <<alloc, paused, lv, physical, threshold, events, state,
                   blockInfo, recent, lock, queued, pc, requests, reply,
                   faults, overtaken>>

HibernateFails ==
    /\ saving /\ saving' = FALSE /\ paused' = "no"
    /\ UNCHANGED <<alloc, lv, physical, threshold, events, state, blockInfo,
                   recent, lock, queued, pc, requests, reply, faults,
                   overtaken>>

\* _set_threshold has told libvirt, and not yet set the state.
SettingThreshold == pc["monitor"] = "set" \/ \E s \in Sizes : reply[s] = "set"

\* on_block_threshold and on_enospc: the first one marks the drive and has a
\* worker extend it now; a full executor leaves that to the periodic monitor.
_extend_drive_soon ==
    \/ queued < MaxQueue /\ queued' = queued + 1 /\ UNCHANGED faults
    \/ UNCHANGED queued /\ IF queued = MaxQueue THEN UNCHANGED faults ELSE Fault

on_event(e) ==
    /\ e \in events /\ events' = events \ {e}
    /\ IF state = "EXCEEDED"
         THEN UNCHANGED <<state, queued, faults>>
         ELSE state' = "EXCEEDED" /\ _extend_drive_soon
    /\ overtaken' = (overtaken \/ SettingThreshold)
    /\ UNCHANGED <<guest, lv, physical, threshold, blockInfo, recent, lock, pc,
                   requests, reply>>

-----------------------------------------------------------------------------
(* The periodic monitor and the executor's workers.                        *)

\* monitor_volumes when needs_monitoring, and _extend_drive: block stats are
\* queried before the monitor lock is taken.
_update_block_info(t) ==
    /\ pc[t] = "idle"
    /\ IF t = "monitor" THEN state \in {"UNSET", "EXCEEDED"} /\ UNCHANGED queued
                        ELSE queued > 0 /\ queued' = queued - 1
    /\ \/ /\ blockInfo' = [physical |-> physical, low |-> physical < alloc + Limit]
          /\ pc' = [pc EXCEPT ![t] = "lock"] /\ UNCHANGED faults
       \/ /\ pc' = [pc EXCEPT ![t] = "idle"] /\ UNCHANGED blockInfo
          /\ Fault
    /\ UNCHANGED <<guest, lv, physical, threshold, events, state, recent, lock,
                   requests, reply, overtaken>>

monitor_lock(t) ==
    /\ pc[t] = "lock"
    /\ \/ /\ lock = "free" /\ lock' = t
          /\ pc' = [pc EXCEPT ![t] = "locked"] /\ UNCHANGED faults
       \/ /\ lock # "free" /\ UNCHANGED lock /\ Fault
          /\ pc' = [pc EXCEPT ![t] = "idle"]
    /\ UNCHANGED <<guest, lv, physical, threshold, events, state, blockInfo,
                   recent, queued, requests, reply, overtaken>>

Release(t) == lock' = "free" /\ pc' = [pc EXCEPT ![t] = "idle"]

getNextVolumeSize == Min({blockInfo.physical + Chunk, MaxSize})
_can_extend_drive == blockInfo.physical < MaxSize
_drive_needs_extend == blockInfo.low

\* A request equal to one the mailbox still holds is dropped there.
extend_volume == recent' = TRUE /\ requests' = requests \union {getNextVolumeSize}

_handle_exceeded(urgent) ==
    \/ /\ ~_can_extend_drive
       /\ state' = "DISABLED" /\ UNCHANGED <<recent, requests>>
    \/ /\ _can_extend_drive
       /\ state' = "EXCEEDED"
       /\ IF ~urgent /\ recent THEN UNCHANGED <<recent, requests>> ELSE extend_volume

_extend_drive(w) ==
    /\ w \in Workers /\ pc[w] = "locked"
    /\ \/ _can_extend_drive /\ extend_volume /\ UNCHANGED state
       \/ ~_can_extend_drive /\ state' = "DISABLED" /\ UNCHANGED <<recent, requests>>
    /\ Release(w)
    /\ UNCHANGED <<guest, lv, physical, threshold, events, blockInfo, queued,
                   reply, faults, overtaken>>

\* Mutant: the monitor leaves an exceeded drive to the worker of the event.
_extend_drive_if_needed_once ==
    /\ pc["monitor"] = "locked"
    /\ \/ /\ state = "UNSET" /\ _drive_needs_extend /\ _handle_exceeded(TRUE)
       \/ /\ state # "UNSET" /\ UNCHANGED <<state, recent, requests>>
    /\ Release("monitor")
    /\ UNCHANGED <<guest, lv, physical, threshold, events, blockInfo, queued,
                   reply, faults, overtaken>>

_extend_drive_if_needed ==
    /\ pc["monitor"] = "locked"
    /\ \/ /\ state = "UNSET" /\ _drive_needs_extend /\ _handle_exceeded(TRUE)
       \/ /\ state = "EXCEEDED" /\ _handle_exceeded(FALSE)
       \/ /\ state \in {"SET", "DISABLED"} /\ UNCHANGED <<state, recent, requests>>
    /\ Release("monitor")
    /\ UNCHANGED <<guest, lv, physical, threshold, events, blockInfo, queued,
                   reply, faults, overtaken>>

ThresholdFor(size) == IF size > Limit + 1 THEN size - Limit ELSE 1

\* _set_threshold, called with the lock held.  When libvirt fails the drive becomes,
\* or remains, UNSET.
monitor_setBlockThreshold ==
    /\ pc["monitor"] = "locked" /\ state = "UNSET" /\ ~_drive_needs_extend
    /\ \/ /\ threshold' = ThresholdFor(blockInfo.physical)
          /\ pc' = [pc EXCEPT !["monitor"] = "set"]
          /\ UNCHANGED <<lock, state, faults>>
       \/ /\ Fault /\ Release("monitor") /\ UNCHANGED <<threshold, state>>
    /\ UNCHANGED <<guest, lv, physical, events, blockInfo, recent, queued,
                   requests, reply, overtaken>>

monitor_thresholdSet ==
    /\ pc["monitor"] = "set"
    /\ state' = "SET" /\ Release("monitor")
    /\ UNCHANGED <<guest, lv, physical, threshold, events, blockInfo, recent,
                   queued, requests, reply, faults, overtaken>>

ExtendTimeout ==
    /\ recent /\ recent' = FALSE
    /\ UNCHANGED <<guest, lv, physical, threshold, events, state, blockInfo,
                   lock, queued, pc, requests, reply, faults, overtaken>>

-----------------------------------------------------------------------------
(* The SPM, through the mailbox, and the callback of its reply.            *)

\* The reply comes whether or not the volume could be extended, and is lost
\* when a host restarts or its write fails.
SpmReplies(s) ==
    /\ s \in requests /\ reply[s] = "none"
    /\ requests' = requests \ {s}
    /\ \/ lv' = Max({lv, s}) /\ reply' = [reply EXCEPT ![s] = "lock"] /\ UNCHANGED faults
       \/ UNCHANGED lv /\ reply' = [reply EXCEPT ![s] = "lock"] /\ Fault
       \/ UNCHANGED <<lv, reply>> /\ Fault
    /\ UNCHANGED <<guest, physical, threshold, events, state, blockInfo,
                   recent, lock, queued, pc, overtaken>>

\* _extend_volume_completed: refresh_volume under the lock.
refresh_volume(s) ==
    /\ reply[s] = "lock"
    /\ \/ /\ lock = "free" /\ lock' = "callback"
          /\ physical' = lv /\ reply' = [reply EXCEPT ![s] = "refreshed"]
          /\ UNCHANGED faults
       \/ /\ Fault /\ UNCHANGED <<lock, physical>>
          /\ reply' = [reply EXCEPT ![s] = "none"]
    /\ UNCHANGED <<guest, lv, threshold, events, state, blockInfo, recent,
                   queued, pc, requests, overtaken>>

\* Mutant: the state is set although setBlockThreshold failed.
update_drive_volume_size_unchecked(s) ==
    /\ reply[s] = "refreshed"
    /\ IF lv < s
         THEN /\ lock' = "free" /\ reply' = [reply EXCEPT ![s] = "none"]
              /\ UNCHANGED <<threshold, state, faults>>
         ELSE \/ /\ threshold' = ThresholdFor(lv)
                 /\ reply' = [reply EXCEPT ![s] = "set"]
                 /\ UNCHANGED <<lock, state, faults>>
              \/ /\ Fault /\ state' = "SET"
                 /\ lock' = "free" /\ reply' = [reply EXCEPT ![s] = "resume"]
                 /\ UNCHANGED threshold
    /\ UNCHANGED <<guest, lv, physical, events, blockInfo, recent, queued, pc,
                   requests, overtaken>>

\* _verify_volume_extension raises when the volume is still too small, and
\* query_drive_volume_index may; update_drive_volume_size sets the threshold for the
\* size found, or makes the drive UNSET when libvirt refuses.
update_drive_volume_size(s) ==
    /\ reply[s] = "refreshed"
    /\ IF lv < s
         THEN /\ lock' = "free" /\ reply' = [reply EXCEPT ![s] = "none"]
              /\ UNCHANGED <<threshold, state, faults>>
         ELSE \/ /\ threshold' = ThresholdFor(lv)
                 /\ reply' = [reply EXCEPT ![s] = "set"]
                 /\ UNCHANGED <<lock, state, faults>>
              \/ /\ Fault /\ state' = "UNSET"
                 /\ lock' = "free" /\ reply' = [reply EXCEPT ![s] = "resume"]
                 /\ UNCHANGED threshold
              \/ /\ Fault /\ lock' = "free" /\ reply' = [reply EXCEPT ![s] = "none"]
                 /\ UNCHANGED <<threshold, state>>
    /\ UNCHANGED <<guest, lv, physical, events, blockInfo, recent, queued, pc,
                   requests, overtaken>>

reply_thresholdSet(s) ==
    /\ reply[s] = "set"
    /\ state' = "SET" /\ lock' = "free"
    /\ reply' = [reply EXCEPT ![s] = "resume"]
    /\ UNCHANGED <<guest, lv, physical, threshold, events, blockInfo, recent,
                   queued, pc, requests, faults, overtaken>>

_can_resume == ~saving

\* Vm.extend_volume_completed.  A cont() that fails is logged, and the VM stays
\* paused.  During hibernation the VM is not resumed; if that fails it is continued
\* anyway.
extend_volume_completed(s) ==
    /\ reply[s] = "resume" /\ reply' = [reply EXCEPT ![s] = "none"]
    /\ \/ ~_can_resume /\ UNCHANGED <<paused, faults>>
       \/ _can_resume /\ paused' = "no" /\ UNCHANGED faults
       \/ _can_resume /\ paused # "no" /\ paused' = "left" /\ Fault
    /\ UNCHANGED <<alloc, saving, lv, physical, threshold, events, state,
                   blockInfo, recent, lock, queued, pc, requests, overtaken>>

-----------------------------------------------------------------------------
Monitor == _update_block_info("monitor") \/ monitor_lock("monitor")
           \/ _extend_drive_if_needed \/ monitor_setBlockThreshold \/ monitor_thresholdSet
Worker(w) == _update_block_info(w) \/ monitor_lock(w) \/ _extend_drive(w)
Callback(s) == refresh_volume(s) \/ update_drive_volume_size(s)
               \/ reply_thresholdSet(s) \/ extend_volume_completed(s)

Next ==
    \/ GuestWrites \/ GuestHitsEnd \/ Hibernate \/ HibernateFails \/ ExtendTimeout
    \/ \E e \in {"threshold", "enospc"} : on_event(e)
    \/ Monitor \/ \E w \in Workers : Worker(w)
    \/ \E s \in Sizes : SpmReplies(s) \/ Callback(s)

\* libvirt delivers its events, the periodic executor and the SPM go on, time
\* passes, and no thread is starved of a lock that is held for short times.
Fairness ==
    /\ WF_vars(ExtendTimeout)
    /\ WF_vars(\E e \in {"threshold", "enospc"} : on_event(e))
    /\ WF_vars(\E s \in Sizes : SpmReplies(s))
    /\ SF_vars(Monitor)
    /\ SF_vars(\E w \in Workers : Worker(w))
    /\ SF_vars(\E s \in Sizes : Callback(s))

Spec == Init /\ [][Next]_vars /\ Fairness

-----------------------------------------------------------------------------
(* Properties.                                                             *)

TypeOK ==
    /\ alloc \in 0..physical /\ paused \in {"no", "enospc", "left"}
    /\ saving \in BOOLEAN
    /\ lv \in Chunk..MaxSize /\ physical \in Chunk..lv
    /\ threshold \in 0..MaxSize /\ events \subseteq {"threshold", "enospc"}
    /\ state \in {"UNSET", "SET", "EXCEEDED", "DISABLED"}
    /\ blockInfo \in [physical : Chunk..MaxSize, low : BOOLEAN]
    /\ recent \in BOOLEAN /\ lock \in Threads \union {"callback", "free"}
    /\ pc \in [Threads -> {"idle", "lock", "locked", "set"}] /\ queued \in 0..MaxQueue
    /\ requests \subseteq Sizes
    /\ reply \in [Sizes -> {"none", "lock", "refreshed", "set", "resume"}]
    /\ faults \in 0..MaxFaults /\ overtaken \in BOOLEAN

\* The periodic monitor leaves a drive in state SET alone (needs_monitoring), so
\* libvirt must watch it: the threshold is set there or its event is on the way,
\* whichever of the monitor and the replies set it, and whatever failed.  The
\* exception is a behaviour in which an event overtook _set_threshold.
SetDriveIsWatched ==
    TypeOK /\ (state = "SET" => threshold > 0 \/ "threshold" \in events \/ overtaken)

\* Two ways to lose a paused VM, both with a call that failed: an event overtook
\* _set_threshold, so that the drive is in state SET and only the event's own worker
\* tries; the reply of the last extension failed after the refresh, so that the
\* monitor finds the volume at its maximum and has nothing more to ask for.
LostByAFault ==
    faults > 0 /\ (overtaken \/ (state = "DISABLED" /\ physical = MaxSize))

\* A VM that stopped because its volume was full runs again, or is hibernated, or
\* its cont() failed (extend_volume_completed only logs that), although a request,
\* its reply or the worker's attempt is lost, the SPM cannot extend, or the refresh
\* or libvirt fails; except for the two ways of LostByAFault.
PausedVmResumes == []<>(paused # "enospc" \/ saving \/ LostByAFault)
=============================================================================
