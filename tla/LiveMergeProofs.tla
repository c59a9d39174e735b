--------------------------- MODULE LiveMergeProofs ---------------------------
(***************************************************************************)
(* Proofs about LiveMerge for every set of drives, every length of the     *)
(* chains, any number of merges, attempts and faults.                      *)
(*                                                                         *)
(* The chain as it was when the merge was asked is the chain in use with   *)
(* the merged volume (Original).  Each of the five copies of a chain is    *)
(* that one or the chain in use, and the invariant says which, from the    *)
(* state of the job and the place of the cleanup thread.                   *)
(***************************************************************************)
EXTENDS LiveMerge, WellFoundedInduction, TLAPS

Working == {"size", "mark", "pivot", "xml", "sync"}
Places == Working \union {"none", "teardown", "DONE", "FAILED"}

Types ==
    /\ TypeOK
    /\ thread \in [Drives -> [pc : Places, pivot : BOOLEAN]]

Original(d) == qemu[d] \union {job[d].top}
Merged(d) == job[d].top \notin qemu[d]
Pivoted(d) == Merged(d) /\ job[d].top = job[d].disk

(* No merge is on its way: all agree, but for a leaf that is to be deleted. *)
Settled(d) ==
    /\ xml[d] = qemu[d] /\ chain[d] = qemu[d] /\ savedChain[d] = qemu[d]
    /\ blockJob[d] = "none" /\ thread[d] = NoThread
    /\ \/ legal[d] /\ md[d] = qemu[d]
       \/ ~legal[d] /\ BelowLeaf(md[d]) = qemu[d]

(* What is saved of a job tells what it is about, and how far it is. *)
SavedInv(d) ==
    \/ savedJob[d] = job[d]
    \/ job[d].state = "INIT" /\ savedJob[d] = NoJob
    \/ /\ job[d].state = "CLEANUP" /\ savedJob[d].state = "CLEANUP"
       /\ savedJob[d].top = job[d].top /\ savedJob[d].disk = job[d].disk

(* A job removes a volume above the base, and its block job is the one of  *)
(* a commit, or of a cleanup that knows that it has to pivot.              *)
JobInv(d) ==
    /\ job[d].state = "none" => job[d] = NoJob
    /\ job[d] # NoJob => /\ job[d].top \in Volumes \ {Base}
                         /\ job[d].disk = Leaf(Original(d))
    /\ blockJob[d] # "none" => job[d].state \in {"COMMIT", "CLEANUP"} /\ ~Merged(d)
    /\ blockJob[d] = "running" => job[d].state = "COMMIT"
    /\ blockJob[d] = "ready" => job[d].top = job[d].disk
    /\ job[d].state = "CLEANUP" /\ blockJob[d] # "none" => job[d].pivot /\ savedJob[d].pivot
    /\ lock = d => job[d].state = "COMMIT" /\ blockJob[d] = "none" /\ ~Merged(d)

(* How far the copies of the chain have followed. *)
ChainInv(d) ==
    /\ job[d] = NoJob \/ savedJob[d] = NoJob => Settled(d)
    /\ job[d].state \in {"INIT", "EXTEND"} => ~Merged(d)
    /\ job[d].state \in {"INIT", "EXTEND", "COMMIT"} =>
           /\ md[d] = Original(d) /\ chain[d] = Original(d) /\ savedChain[d] = Original(d)
           /\ xml[d] = qemu[d] /\ legal[d] /\ thread[d] = NoThread /\ ~Pivoted(d)
    /\ job[d].state = "CLEANUP" =>
           /\ xml[d] = qemu[d] \/ (Pivoted(d) /\ xml[d] = Original(d))
           /\ chain[d] \in {qemu[d], Original(d)}
           /\ savedChain[d] \in {chain[d], Original(d)}
           /\ Pivoted(d) => md[d] = Original(d) /\ ~legal[d]
           /\ Merged(d) /\ ~Pivoted(d) =>
                  legal[d] /\ md[d] \in {qemu[d], Original(d)}
                  /\ (chain[d] = qemu[d] => md[d] = qemu[d])
           /\ ~Merged(d) => md[d] = qemu[d] /\ (legal[d] \/ job[d].top = job[d].disk)

(* What a cleanup thread has done, and what it relies on. *)
ThreadInv(d) ==
    /\ thread[d].pc = "none" => thread[d] = NoThread
    /\ thread[d].pc \in Working => Leaf(chain[d]) = job[d].disk
    /\ thread[d].pc = "size" /\ ~thread[d].pivot => xml[d] = qemu[d] /\ blockJob[d] = "none"
    /\ thread[d].pc \in {"size", "mark", "pivot"} /\ thread[d].pivot =>
           job[d].top = job[d].disk /\ ~Merged(d)
    /\ thread[d].pc \in {"mark", "pivot", "xml"} => thread[d].pivot
    /\ thread[d].pc = "pivot" => ~legal[d]
    /\ thread[d].pc = "xml" => Pivoted(d)
    /\ thread[d].pc = "sync" => xml[d] = qemu[d] /\ blockJob[d] = "none"
    /\ thread[d].pc \in {"teardown", "DONE"} =>
           /\ blockJob[d] = "none" /\ xml[d] = qemu[d] /\ chain[d] = qemu[d]
           /\ ~Merged(d) => legal[d]
           /\ ~Pivoted(d) => md[d] = qemu[d]

DriveInv(d) == SavedInv(d) /\ JobInv(d) /\ ChainInv(d) /\ ThreadInv(d)
IInv == Types /\ \A d \in Drives : DriveInv(d)

-----------------------------------------------------------------------------
(* The leaf of a chain.                                                    *)

(* A chain has a greatest volume: the distances from the end of the first  *)
(* chain have a least one.                                                 *)
LEMMA LeafType ==
    ASSUME NEW s \in Chains
    PROVE  Leaf(s) \in s /\ \A v \in s : v <= Leaf(s)
  <1> DEFINE T == {Depth - v : v \in s}
  <1>0. \A v \in s : v \in Nat /\ Depth - v \in Nat
    BY LiveMergeAssumption DEF Chains, Volumes
  <1>1. T \subseteq Nat /\ T # {}
    <2>1. Depth - Base \in T
      BY DEF Chains
    <2> QED
      BY <1>0, <2>1
  <1> HIDE DEF T
  <1>2. PICK x \in T : \A y \in T : ~ (<<y, x>> \in OpToRel(<, Nat))
    BY <1>1, WFMin, NatLessThanWellFounded, Zenon
  <1>3. \A y \in T : ~ (y < x)
    BY <1>1, <1>2, Zenon DEF OpToRel
  <1>4. PICK v \in s : x = Depth - v
    BY DEF T
  <1>5. ASSUME NEW u \in s PROVE v >= u
    <2>1. Depth - u \in T
      BY DEF T
    <2> QED
      BY <1>3, <1>4, <2>1, LiveMergeAssumption DEF Chains, Volumes
  <1>6. Leaf(s) \in s /\ \A u \in s : Leaf(s) >= u
    BY <1>5 DEF Leaf, Max
  <1> QED
    BY <1>6 DEF Chains, Volumes

LEMMA LeafIs ==
    ASSUME NEW s \in Chains, NEW v \in s, \A u \in s : u <= v
    PROVE  Leaf(s) = v
  <1>1. \A u \in s : u \in Nat
    BY LiveMergeAssumption DEF Chains, Volumes
  <1>2. Leaf(s) \in s /\ v <= Leaf(s) /\ Leaf(s) <= v
    BY LeafType
  <1> QED
    BY <1>1, <1>2

(* A chain without its leaf, and without an inner volume. *)
LEMMA LeafRemoved ==
    ASSUME NEW s \in Chains, Leaf(s) # Base
    PROVE  BelowLeaf(s) \in Chains /\ BelowLeaf(s) # s /\ Leaf(BelowLeaf(s)) # Leaf(s)
  <1>1. BelowLeaf(s) \in Chains /\ BelowLeaf(s) # s
    BY LeafType DEF Chains, BelowLeaf
  <1> QED
    BY <1>1, LeafType DEF BelowLeaf

LEMMA InnerRemoved ==
    ASSUME NEW s \in Chains, NEW v \in Volumes \ {Base}, v # Leaf(s)
    PROVE  s \ {v} \in Chains /\ Leaf(s \ {v}) = Leaf(s)
  <1>1. s \ {v} \in Chains
    BY DEF Chains
  <1>2. Leaf(s) \in s \ {v} /\ \A u \in s \ {v} : u <= Leaf(s)
    BY LeafType
  <1> QED
    BY <1>1, <1>2, LeafIs

(* What Image.syncVolumeChain does when the drive and the metadata have    *)
(* the same leaf.                                                          *)
LEMMA ChainSynced ==
    ASSUME TypeOK, NEW d \in Drives, NEW actual, syncVolumeChain(d, actual),
           Leaf(chain[d]) = Leaf(md[d])
    PROVE  /\ md[d] \subseteq actual =>
                  legal' = [legal EXCEPT ![d] = TRUE] /\ md' = md
           /\ Leaf(md[d]) \notin actual =>
                  legal' = [legal EXCEPT ![d] = FALSE] /\ md' = md
           /\ ~(md[d] \subseteq actual) /\ Leaf(md[d]) \in actual =>
                  legal' = legal /\ md' = [md EXCEPT ![d] = @ \intersect actual]
  <1> DEFINE gone == {v \in md[d] : v <= Leaf(chain[d])} \ actual
  <1>1. md[d] \in Chains
    BY DEF TypeOK
  <1>2. Leaf(md[d]) \in md[d] /\ gone = md[d] \ actual
    BY <1>1, LeafType
  <1>3. /\ gone = {} => legal' = [legal EXCEPT ![d] = TRUE] /\ md' = md
        /\ Leaf(md[d]) \in gone => legal' = [legal EXCEPT ![d] = FALSE] /\ md' = md
        /\ gone # {} /\ Leaf(md[d]) \notin gone =>
               legal' = legal /\ md' = [md EXCEPT ![d] = @ \ gone]
    BY Zenon DEF syncVolumeChain
  <1>4. md[d] \ (md[d] \ actual) = md[d] \intersect actual
    OBVIOUS
  <1> HIDE DEF gone
  <1> QED
    BY <1>2, <1>3, <1>4

LEMMA Nothing == NoJob.state = "none" /\ NoThread.pc = "none"
  BY DEF NoJob, NoThread

-----------------------------------------------------------------------------
(* The other drives: what another drive's step does to one is to save what *)
(* vdsm knows of it.                                                       *)
Untouched(e) ==
    /\ qemu'[e] = qemu[e] /\ xml'[e] = xml[e] /\ blockJob'[e] = blockJob[e]
    /\ md'[e] = md[e] /\ legal'[e] = legal[e] /\ chain'[e] = chain[e]
    /\ job'[e] = job[e] /\ thread'[e] = thread[e]
    /\ savedJob'[e] = savedJob[e] \/ savedJob'[e] = job[e]
    /\ savedChain'[e] = savedChain[e] \/ savedChain'[e] = chain[e]
    /\ lock' = e => lock = e

LEMMA OtherDriveKept ==
    ASSUME NEW e \in Drives, DriveInv(e), Untouched(e)
    PROVE  DriveInv(e)'
  <1> USE DEF DriveInv, Untouched
  <1>1. SavedInv(e)'
    BY DEF SavedInv
  <1>2. JobInv(e)'
    BY DEF JobInv, Original, Merged
  <1>3. ChainInv(e)'
    BY DEF ChainInv, Original, Merged, Pivoted, Settled, NoJob
  <1>4. ThreadInv(e)'
    BY DEF ThreadInv, Merged, Pivoted
  <1> QED
    BY <1>1, <1>2, <1>3, <1>4

LEMMA OthersKept ==
    ASSUME IInv, NEW d \in Drives, \A e \in Drives \ {d} : Untouched(e),
           Types', DriveInv(d)'
    PROVE  IInv'
  BY OtherDriveKept DEF IInv

-----------------------------------------------------------------------------
(* Before the block job: a drive without a job, and one with a job that    *)
(* has not begun to merge.                                                 *)
Idle(d) ==
    job[d] = NoJob /\ savedJob[d] = NoJob /\ Settled(d) /\ lock # d

Waiting(d) ==
    /\ job[d].state \in {"INIT", "EXTEND", "COMMIT"}
    /\ job[d].top \in qemu[d] \ {Base} /\ job[d].disk = Leaf(qemu[d])
    /\ savedJob[d] = job[d] \/ (job[d].state = "INIT" /\ savedJob[d] = NoJob)
    /\ xml[d] = qemu[d] /\ md[d] = qemu[d] /\ chain[d] = qemu[d] /\ savedChain[d] = qemu[d]
    /\ legal[d] /\ blockJob[d] = "none" /\ thread[d] = NoThread
    /\ lock = d => job[d].state = "COMMIT"

LEMMA IdleInv ==
    ASSUME NEW d \in Drives, Idle(d)'
    PROVE  DriveInv(d)'
  BY DEF Idle, Settled, NoJob, NoThread, Working, DriveInv, SavedInv, JobInv, ChainInv,
         ThreadInv

LEMMA WaitingInv ==
    ASSUME NEW d \in Drives, Types', Waiting(d)'
    PROVE  DriveInv(d)'
  <1> USE DEF Waiting
  <1>1. ~Merged(d)' /\ Original(d)' = qemu'[d] /\ job'[d].top \in Volumes
    BY DEF Merged, Original, Types, TypeOK, Chains
  <1>2. SavedInv(d)' /\ ThreadInv(d)'
    BY DEF SavedInv, ThreadInv, NoThread, Working
  <1>3. JobInv(d)'
    BY <1>1 DEF JobInv
  <1>4. ChainInv(d)'
    BY <1>1 DEF ChainInv, Settled, Pivoted, NoJob
  <1> QED
    BY <1>2, <1>3, <1>4 DEF DriveInv

LEMMA DriveIdle ==
    ASSUME NEW d \in Drives, DriveInv(d), job[d] = NoJob
    PROVE  Idle(d)
  BY DEF DriveInv, SavedInv, JobInv, ChainInv, Idle, NoJob

LEMMA DriveWaiting ==
    ASSUME Types, NEW d \in Drives, DriveInv(d),
           job[d].state \in {"INIT", "EXTEND"} \/ lock = d
    PROVE  Waiting(d)
  <1>1. ~Merged(d) /\ job[d].state \in {"INIT", "EXTEND", "COMMIT"} /\ blockJob[d] = "none"
    BY DEF DriveInv, JobInv, ChainInv, Types, TypeOK
  <1>2. Original(d) = qemu[d]
    BY <1>1 DEF Original, Merged
  <1>3. job[d] # NoJob
    BY <1>1 DEF NoJob
  <1>4. job[d].top \in qemu[d] \ {Base} /\ job[d].disk = Leaf(qemu[d])
    BY <1>1, <1>2, <1>3 DEF DriveInv, JobInv, Merged
  <1> QED
    BY <1>1, <1>2, <1>4 DEF DriveInv, SavedInv, JobInv, ChainInv, Waiting

-----------------------------------------------------------------------------
(* Operations on the tracked jobs.                                         *)

(* A job that is untracked when all is in agreement leaves the drive idle. *)
LEMMA UntrackKeepsIInv ==
    ASSUME IInv, NEW d \in Drives, _untrack_job(d),
           UNCHANGED <<libvirt, storage, chain, monitor, merges>>,
           faults' \subseteq Faults, lock' \in {lock, Nobody}, lock' # d,
           xml[d] = qemu[d], chain[d] = qemu[d], blockJob[d] = "none",
           \/ legal[d] /\ md[d] = qemu[d]
           \/ ~legal[d] /\ BelowLeaf(md[d]) = qemu[d]
    PROVE  IInv'
  <1> USE DEF IInv, _untrack_job, libvirt, storage
  <1>1. NoJob \in JobType
    BY LiveMergeAssumption DEF NoJob, JobType
  <1>2. Types'
    <2>1. /\ job' \in [Drives -> JobType] /\ savedJob' \in [Drives -> JobType]
          /\ savedChain' \in [Drives -> Chains]
      BY <1>1, Zenon DEF Types, TypeOK
    <2>2. /\ thread' \in [Drives -> [pc : Places, pivot : BOOLEAN]]
          /\ extends' \in [Drives -> SUBSET (1..MaxAttempts)]
      BY DEF Types, TypeOK, NoThread, Places
    <2>3. lock' \in Drives \union {Nobody}
      BY Zenon DEF Types, TypeOK
    <2>4. \A e \in Drives : job'[e].state # "CLEANUP" => thread'[e] = NoThread
      BY Zenon DEF Types, TypeOK
    <2>5. /\ {qemu', xml', md', chain'} \subseteq [Drives -> Chains]
          /\ blockJob' \in [Drives -> {"none", "running", "ready"}]
          /\ legal' \in [Drives -> BOOLEAN] /\ monitor' \in {"on", "off", "left"}
          /\ merges' \in 0..MaxMerges /\ faults' \subseteq Faults
      BY Zenon DEF Types, TypeOK
    <2> HIDE DEF IInv, _untrack_job, libvirt, storage
    <2> QED
      BY <2>1, <2>2, <2>3, <2>4, <2>5 DEF Types, TypeOK
  <1>3. Idle(d)'
    BY DEF Types, TypeOK, Idle, Settled
  <1>4. \A e \in Drives \ {d} : Untouched(e)
    BY LiveMergeAssumption DEF Types, TypeOK, Untouched, Nobody
  <1> QED
    BY <1>2, <1>3, <1>4, IdleInv, OthersKept

(* A job of a drive that has not begun is tracked, saved or not. *)
LEMMA TrackKeepsIInv ==
    ASSUME IInv, NEW d \in Drives, NEW j \in JobType, Track(d, j),
           UNCHANGED <<libvirt, storage, chain, savedChain, monitor, thread>>,
           merges' \in 0..MaxMerges, faults' \subseteq Faults,
           extends' \in [Drives -> SUBSET (1..MaxAttempts)],
           lock' \in {lock, d}, lock' = d => j.state = "COMMIT",
           savedJob' = job' \/ (job[d] = NoJob /\ j.state = "INIT" /\ savedJob' = savedJob),
           Idle(d) \/ Waiting(d), legal[d],
           j.state \in {"INIT", "EXTEND", "COMMIT"},
           j.top \in qemu[d] \ {Base}, j.disk = Leaf(qemu[d])
    PROVE  IInv'
  <1> USE DEF IInv, Track, libvirt, storage
  <1>1. Types'
    <2>1. thread[d] = NoThread
      BY DEF Idle, Waiting, Settled
    <2>2. \A e \in Drives : job'[e].state # "CLEANUP" => thread'[e] = NoThread
      BY <2>1 DEF Types, TypeOK
    <2> QED
      BY <2>2, Zenon DEF Types, TypeOK
  <1>2. Waiting(d)'
    BY DEF Types, TypeOK, Idle, Waiting, Settled
  <1>3. \A e \in Drives \ {d} : Untouched(e)
    BY DEF Types, TypeOK, Untouched
  <1> QED
    BY <1>1, <1>2, <1>3, WaitingInv, OthersKept

-----------------------------------------------------------------------------
(* Jobs as records.                                                        *)
LEMMA NewJob ==
    ASSUME NEW t \in Volumes, NEW k \in Volumes
    PROVE  LET j == [NoJob EXCEPT !.state = "INIT", !.top = t, !.disk = k]
           IN  j \in JobType /\ j.state = "INIT" /\ j.top = t /\ j.disk = k
  <1>1. NoJob \in JobType
    BY LiveMergeAssumption DEF NoJob, JobType
  <1>2. [NoJob EXCEPT !.state = "INIT", !.top = t, !.disk = k] \in JobType
    BY <1>1, Zenon DEF JobType
  <1> QED
    BY <1>1, <1>2 DEF JobType

LEMMA JobCommitted ==
    ASSUME NEW j \in JobType
    PROVE  LET k == [j EXCEPT !.state = "COMMIT", !.attempt = 0]
           IN  k \in JobType /\ k.state = "COMMIT" /\ k.top = j.top /\ k.disk = j.disk
  <1>1. 0 \in 0..MaxAttempts
    BY LiveMergeAssumption
  <1>2. [j EXCEPT !.state = "COMMIT", !.attempt = 0] \in JobType
    BY <1>1, Zenon DEF JobType
  <1> QED
    BY <1>2 DEF JobType

LEMMA JobExtended ==
    ASSUME NEW j \in JobType, NEW n \in 0..MaxAttempts
    PROVE  LET k == [[j EXCEPT !.attempt = n] EXCEPT !.state = "EXTEND"]
           IN  k \in JobType /\ k.state = "EXTEND" /\ k.attempt = n /\ k.top = j.top
               /\ k.disk = j.disk
  <1>1. [[j EXCEPT !.attempt = n] EXCEPT !.state = "EXTEND"] \in JobType
    BY Zenon DEF JobType
  <1> QED
    BY <1>1 DEF JobType

(* A request, the extend callback and the extend timeout, for a drive that *)
(* has no job or one that waits.                                           *)
LEMMA MergeKeepsIInv ==
    ASSUME IInv, NEW d \in Drives, merge(d)
    PROVE  IInv'
  <1>1. PICK top \in xml[d] \ {Base} :
           LET j == [NoJob EXCEPT !.state = "INIT", !.top = top, !.disk = Leaf(chain[d])]
           IN  \/ /\ _start_extend(d, [j EXCEPT !.attempt = 1]) /\ UNCHANGED faults
               \/ /\ _start_commit(d, j) /\ UNCHANGED <<extends, faults>>
               \/ /\ Track(d, j) /\ Fault("measure")
                  /\ UNCHANGED <<thread, lock, extends, saved>>
    BY Zenon DEF merge
  <1> DEFINE j == [NoJob EXCEPT !.state = "INIT", !.top = top, !.disk = Leaf(chain[d])]
             j1 == [j EXCEPT !.attempt = 1]
             extend == [j1 EXCEPT !.state = "EXTEND"]
             commit == [j EXCEPT !.state = "COMMIT", !.attempt = 0]
  <1>2. Idle(d) /\ job[d] = NoJob /\ legal[d] /\ xml[d] = qemu[d] /\ chain[d] = qemu[d]
    BY DriveIdle DEF IInv, merge, Idle, Settled
  <1>3. /\ top \in Volumes /\ top \in qemu[d] \ {Base} /\ Leaf(chain[d]) \in Volumes
        /\ Leaf(chain[d]) = Leaf(qemu[d])
    BY <1>1, <1>2, LeafType, Zenon DEF IInv, Types, TypeOK, Chains
  <1>4. j \in JobType /\ j.state = "INIT" /\ j.top = top /\ j.disk = Leaf(chain[d])
    BY <1>3, NewJob, Zenon
  <1> DEFINE Attempts == 0..MaxAttempts
  <1>a. 0 \in Attempts /\ 1 \in Attempts
    BY LiveMergeAssumption
  <1>5. j1 \in JobType /\ j1.attempt = 1
    <2> HIDE DEF j
    <2> QED
      BY <1>4, LiveMergeAssumption DEF JobType
  <1>6. extend \in JobType /\ extend.state = "EXTEND" /\ extend.top = top
        /\ extend.disk = Leaf(qemu[d])
    <2> HIDE DEF j
    <2>1. extend \in JobType /\ extend.state = "EXTEND" /\ extend.top = j.top
          /\ extend.disk = j.disk
      BY <1>4, <1>a, JobExtended, Zenon
    <2> QED
      BY <1>3, <1>4, <2>1, Zenon
  <1>7. commit \in JobType /\ commit.state = "COMMIT" /\ commit.top = top
        /\ commit.disk = Leaf(qemu[d])
    <2> HIDE DEF j
    <2>1. commit \in JobType /\ commit.state = "COMMIT" /\ commit.top = j.top
          /\ commit.disk = j.disk
      BY <1>4, JobCommitted, Zenon
    <2> QED
      BY <1>3, <1>4, <2>1, Zenon
  <1>8. merges' \in 0..MaxMerges /\ UNCHANGED <<libvirt, storage, chain, monitor>>
    BY LiveMergeAssumption DEF merge, IInv, Types, TypeOK
  <1>9. CASE _start_extend(d, j1) /\ UNCHANGED faults
    <2> HIDE DEF j1
    <2>1. extends' \in [Drives -> SUBSET (1..MaxAttempts)]
      BY <1>5, <1>9, LiveMergeAssumption DEF _start_extend, IInv, Types, TypeOK
    <2>2. /\ Track(d, extend) /\ savedJob' = job'
          /\ UNCHANGED <<savedChain, thread, lock, faults>>
      BY <1>9 DEF _start_extend, _persist_jobs
    <2> HIDE DEF extend
    <2> QED
      BY <1>2, <1>3, <1>6, <1>8, <2>1, <2>2, TrackKeepsIInv, Zenon DEF IInv, Types, TypeOK, Idle
  <1>10. CASE _start_commit(d, j) /\ UNCHANGED <<extends, faults>>
    <2>1. /\ Track(d, commit) /\ savedJob' = job' /\ lock' = d
          /\ UNCHANGED <<savedChain, thread, extends, faults>>
      BY <1>10, Zenon DEF _start_commit, _persist_jobs
    <2> HIDE DEF commit
    <2> QED
      BY <1>2, <1>3, <1>7, <1>8, <2>1, TrackKeepsIInv DEF IInv, Types, TypeOK
  <1>11. CASE Track(d, j) /\ Fault("measure") /\ UNCHANGED <<thread, lock, extends, saved>>
    <2> HIDE DEF j
    <2>1. faults' \subseteq Faults
      BY <1>11 DEF Fault, IInv, Types, TypeOK
    <2> QED
      BY <1>2, <1>3, <1>4, <1>8, <1>11, <2>1, TrackKeepsIInv, Zenon
         DEF IInv, Types, TypeOK, saved, Idle
  <1> QED
    BY <1>1, <1>9, <1>10, <1>11, Zenon

(* What a waiting job may become: untracked, extended again or committed.  *)
LEMMA WaitingSteps ==
    ASSUME IInv, NEW d \in Drives, job[d].state = "EXTEND", lock = Nobody,
           UNCHANGED <<libvirt, storage, chain, monitor, merges>>,
           faults' \subseteq Faults,
           extends' \in [Drives -> SUBSET (1..MaxAttempts)],
           \/ _untrack_job(d) /\ UNCHANGED lock
           \/ _start_commit(d, job[d])
           \/ /\ job[d].attempt < MaxAttempts
              /\ _start_extend(d, [job[d] EXCEPT !.attempt = @ + 1])
    PROVE  IInv'
  <1>1. Waiting(d) /\ lock # d /\ job[d] \in JobType
    BY DriveWaiting, LiveMergeAssumption DEF IInv, Types, TypeOK, Nobody
  <1>2. CASE _untrack_job(d) /\ UNCHANGED lock
    BY <1>1, <1>2, UntrackKeepsIInv DEF Waiting
  <1> DEFINE commit == [job[d] EXCEPT !.state = "COMMIT", !.attempt = 0]
             extend == [[job[d] EXCEPT !.attempt = @ + 1] EXCEPT !.state = "EXTEND"]
  <1>3. CASE _start_commit(d, job[d])
    <2>1. /\ Track(d, commit) /\ savedJob' = job' /\ lock' = d
          /\ UNCHANGED <<savedChain, thread>>
      BY <1>3 DEF _start_commit, _persist_jobs
    <2>2. /\ commit \in JobType /\ commit.state = "COMMIT"
          /\ commit.top \in qemu[d] \ {Base} /\ commit.disk = Leaf(qemu[d])
      <3>1. commit \in JobType /\ commit.state = "COMMIT" /\ commit.top = job[d].top
            /\ commit.disk = job[d].disk
        BY <1>1, JobCommitted, Zenon
      <3> QED
        BY <1>1, <3>1 DEF Waiting
    <2> HIDE DEF commit
    <2> QED
      BY <1>1, <2>1, <2>2, TrackKeepsIInv, Zenon DEF Waiting, IInv, Types, TypeOK
  <1>4. CASE job[d].attempt < MaxAttempts
             /\ _start_extend(d, [job[d] EXCEPT !.attempt = @ + 1])
    <2>1. /\ Track(d, extend) /\ savedJob' = job'
          /\ UNCHANGED <<savedChain, thread, lock>>
      BY <1>4 DEF _start_extend, _persist_jobs
    <2>2. job[d].attempt + 1 \in 0..MaxAttempts
      BY <1>1, <1>4, LiveMergeAssumption DEF JobType
    <2>3. /\ extend \in JobType /\ extend.state = "EXTEND"
          /\ extend.top \in qemu[d] \ {Base} /\ extend.disk = Leaf(qemu[d])
      BY <1>1, <2>2, JobExtended, Zenon DEF Waiting
    <2> HIDE DEF extend
    <2> QED
      BY <1>1, <2>1, <2>3, TrackKeepsIInv, Zenon DEF Waiting, IInv, Types, TypeOK
  <1> QED
    BY <1>2, <1>3, <1>4

\* What may become of the extensions of a drive that are under way.
LEMMA ExtendsTyped ==
    ASSUME extends \in [Drives -> SUBSET (1..MaxAttempts)],
           NEW d \in Drives, NEW A \in SUBSET (1..MaxAttempts),
           extends' = [extends EXCEPT ![d] = A]
    PROVE  extends' \in [Drives -> SUBSET (1..MaxAttempts)]
  BY Zenon

LEMMA ExtendKeepsIInv ==
    ASSUME IInv, NEW d \in Drives, _extend_completed(d) \/ _update_extend(d)
    PROVE  IInv'
  <1>1. UNCHANGED <<libvirt, storage, chain, monitor, merges>> /\ lock = Nobody
    BY DEF _extend_completed, _update_extend
  <1>2. faults' \subseteq Faults
    BY DEF _extend_completed, _update_extend, Failing, Fault, IInv, Types, TypeOK
  <1> DEFINE Attempts == SUBSET (1..MaxAttempts)
  <1>0. extends \in [Drives -> Attempts] /\ extends[d] \in Attempts /\ {} \in Attempts
    BY Zenon DEF IInv, Types, TypeOK
  <1>3. CASE _extend_completed(d)
    <2>1. PICK attempt \in extends[d], error \in BOOLEAN :
             IF job[d].state # "EXTEND" \/ (error /\ attempt < MaxAttempts)
               THEN /\ extends' = [extends EXCEPT ![d] = @ \ {attempt}]
                    /\ UNCHANGED <<job, thread, lock, saved>>
             ELSE IF error \/ ~findDriveByUUIDs(d)
               THEN _untrack_job(d) /\ UNCHANGED lock
             ELSE /\ _start_commit(d, job[d])
                  /\ extends' = [extends EXCEPT ![d] = @ \ {attempt}]
      BY <1>3 DEF _extend_completed
    <2>2. extends' \in [Drives -> SUBSET (1..MaxAttempts)]
      <3>1. extends' = [extends EXCEPT ![d] = extends[d] \ {attempt}]
            \/ extends' = [extends EXCEPT ![d] = {}]
        BY <2>1, Zenon DEF _untrack_job
      <3>2. extends[d] \ {attempt} \in Attempts
        BY <1>0
      <3> QED
        BY <1>0, <3>1, <3>2, ExtendsTyped
    <2>3. CASE UNCHANGED <<job, thread, lock, saved>>
      <3>1. Types'
        BY <1>1, <1>2, <2>2, <2>3, Zenon DEF IInv, Types, TypeOK, libvirt, storage, saved
      <3>2. \A e \in Drives : Untouched(e)
        BY <1>1, <2>3 DEF Untouched, libvirt, storage, saved
      <3> QED
        BY <3>1, <3>2, OtherDriveKept DEF IInv
    <2> QED
      BY <1>1, <1>2, <2>1, <2>2, <2>3, WaitingSteps, Zenon
  <1>4. CASE _update_extend(d)
    <2>1. extends' \in [Drives -> SUBSET (1..MaxAttempts)]
      <3>1. CASE extends' = [extends EXCEPT ![d] = {}]
        BY <1>0, <3>1, ExtendsTyped
      <3>2. CASE UNCHANGED extends
        BY <1>0, <3>2
      <3>3. CASE /\ job[d].attempt < MaxAttempts
                 /\ _start_extend(d, [job[d] EXCEPT !.attempt = @ + 1])
        <4>1. job[d] \in JobType
          BY Zenon DEF IInv, Types, TypeOK
        <4>2. job[d].attempt + 1 \in 1..MaxAttempts
          BY <3>3, <4>1, LiveMergeAssumption DEF JobType
        <4>3. [job[d] EXCEPT !.attempt = @ + 1].attempt = job[d].attempt + 1
          BY <4>1 DEF JobType
        <4>4. extends' = [extends EXCEPT ![d] = extends[d] \cup {job[d].attempt + 1}]
          BY <3>3, <4>3 DEF _start_extend
        <4>5. extends[d] \cup {job[d].attempt + 1} \in Attempts
          BY <1>0, <4>2
        <4> QED
          BY <1>0, <4>4, <4>5, ExtendsTyped
      <3> QED
        BY <1>4, <3>1, <3>2, <3>3, Zenon DEF _update_extend, _untrack_job
    <2> QED
      BY <1>1, <1>2, <1>4, <2>1, WaitingSteps DEF _update_extend
  <1> QED
    BY <1>3, <1>4

-----------------------------------------------------------------------------
(* The commit and its cleanup, seen from the poll.                         *)

LEMMA BlockCommitKeepsIInv ==
    ASSUME IInv, NEW d \in Drives, _start_commit_blockCommit(d)
    PROVE  IInv'
  <1> USE DEF _start_commit_blockCommit
  <1>1. Waiting(d) /\ job[d].state = "COMMIT" /\ lock' = Nobody /\ Nobody # d
    BY DriveWaiting, LiveMergeAssumption DEF IInv, Waiting, Nobody
  <1>2. CASE blockJob' = [blockJob EXCEPT ![d] = "running"]
             /\ UNCHANGED <<job, thread, extends, saved, faults>>
    <2> USE <1>1, <1>2 DEF IInv, storage, saved
    <2>1. Types'
      BY DEF Types, TypeOK
    <2>2. \A e \in Drives \ {d} : Untouched(e)
      BY LiveMergeAssumption, Zenon DEF Types, TypeOK, Untouched, Nobody
    <2>3. blockJob'[d] = "running"
      BY Zenon DEF Types, TypeOK
    <2>4. /\ ~Merged(d)' /\ Original(d)' = qemu'[d] /\ ~Pivoted(d)'
          /\ job'[d].top \in Volumes \ {Base} /\ job'[d] # NoJob /\ savedJob'[d] # NoJob
      BY Nothing DEF Types, TypeOK, Waiting, Merged, Pivoted, Original, Chains
    <2>5. SavedInv(d)' /\ ThreadInv(d)'
      <3>1. savedJob'[d] = job'[d] /\ thread'[d] = NoThread
        BY Zenon DEF Waiting
      <3> QED
        BY <3>1, Nothing, Zenon DEF SavedInv, ThreadInv, Working
    <2>6. JobInv(d)'
      BY <2>3, <2>4, Zenon DEF Waiting, JobInv
    <2>7. ChainInv(d)'
      BY <2>4, Zenon DEF Waiting, ChainInv
    <2>8. DriveInv(d)'
      BY <2>5, <2>6, <2>7, Zenon DEF DriveInv
    <2> QED
      BY <2>1, <2>2, <2>8, OthersKept, Zenon
  <1>3. CASE _untrack_job(d) /\ UNCHANGED blockJob
    <2>1. faults' \subseteq Faults
      BY DEF Fault, IInv, Types, TypeOK
    <2> QED
      BY <1>1, <1>3, <2>1, UntrackKeepsIInv, Zenon DEF Waiting, libvirt
  <1> QED
    BY <1>2, <1>3

LEMMA JobCleaned ==
    ASSUME NEW j \in JobType, NEW b \in BOOLEAN
    PROVE  LET k == [j EXCEPT !.state = "CLEANUP", !.pivot = b]
           IN  k \in JobType /\ k.state = "CLEANUP" /\ k.pivot = b /\ k.top = j.top
               /\ k.disk = j.disk
  <1>1. [j EXCEPT !.state = "CLEANUP", !.pivot = b] \in JobType
    BY Zenon DEF JobType
  <1> QED
    BY <1>1 DEF JobType

LEMMA JobTold ==
    ASSUME NEW j \in JobType, NEW b \in BOOLEAN
    PROVE  LET k == [j EXCEPT !.pivot = b]
           IN  k \in JobType /\ k.state = j.state /\ k.pivot = b /\ k.top = j.top
               /\ k.disk = j.disk
  BY DEF JobType

(* The cleanup starts when the block job is over, or ready for the pivot.  *)
LEMMA StartCleanupKeepsIInv ==
    ASSUME IInv, NEW d \in Drives, NEW pivot \in BOOLEAN, _start_cleanup(d, pivot),
           UNCHANGED <<libvirt, storage, chain, monitor, lock, merges, faults>>,
           lock = Nobody, job[d].state \in {"COMMIT", "CLEANUP"}, xml[d] = qemu[d],
           pivot <=> blockJob[d] # "none", blockJob[d] # "running",
           thread[d].pc \in {"none", "FAILED"}
    PROVE  IInv'
  <1> DEFINE k == [job[d] EXCEPT !.state = "CLEANUP", !.pivot = pivot]
  <1>1. k \in JobType /\ k.state = "CLEANUP" /\ k.pivot = pivot /\ k.top = job[d].top
        /\ k.disk = job[d].disk
    <2>1. job[d] \in JobType
      BY DEF IInv, Types, TypeOK
    <2> QED
      BY <2>1, JobCleaned, Zenon
  <1>2. job' = [job EXCEPT ![d] = k] /\ savedJob' = job' /\ UNCHANGED <<savedChain, extends>>
    BY DEF _start_cleanup, _persist_jobs, Track
  <1>3. \/ thread' = thread
        \/ /\ thread' = [thread EXCEPT ![d] = [pc |-> "size", pivot |-> pivot]]
           /\ Leaf(chain[d]) = job[d].disk
    BY Zenon DEF _start_cleanup, findDriveByUUIDs
  <1> HIDE DEF k
  <1> USE <1>1, <1>2, <1>3 DEF IInv, libvirt, storage
  <1>4. Types'
    BY DEF Types, TypeOK, Places, Working
  <1>5. \A e \in Drives \ {d} : Untouched(e)
    BY Zenon DEF Types, TypeOK, Untouched
  <1>6. job'[d] = k /\ savedJob'[d] = k
    BY Zenon DEF Types, TypeOK
  <1>7. /\ Original(d)' = Original(d) /\ (Merged(d)' <=> Merged(d))
        /\ (Pivoted(d)' <=> Pivoted(d))
    BY <1>6, Zenon DEF Original, Merged, Pivoted
  <1>8. SavedInv(d)' /\ job[d] # NoJob /\ job'[d] # NoJob
    BY <1>6, Nothing, Zenon DEF SavedInv
  <1>9. JobInv(d)'
    BY <1>6, <1>7, <1>8, LiveMergeAssumption DEF JobInv, DriveInv, Nobody
  <1>10. ChainInv(d)'
    <2>1. CASE job[d].state = "COMMIT"
      <3>1. ~Merged(d) => Original(d) = qemu[d]
        BY Zenon DEF Merged, Original
      <3> QED
        BY <1>6, <1>7, <1>8, <2>1, <3>1, Zenon DEF ChainInv, DriveInv
    <2>2. CASE job[d].state = "CLEANUP"
      BY <1>6, <1>7, <1>8, <2>2, Zenon DEF ChainInv, DriveInv
    <2> QED
      BY <2>1, <2>2, Zenon
  <1>11. ThreadInv(d)'
    <2>1. CASE thread' = thread
      BY <1>6, <1>7, <2>1, Zenon DEF ThreadInv, DriveInv, Working
    <2>2. CASE thread' # thread
      <3>1. /\ thread'[d] = [pc |-> "size", pivot |-> pivot] /\ Leaf(chain[d]) = job[d].disk
        BY <2>2, Zenon DEF Types
      <3>2. pivot => job[d].top = job[d].disk /\ ~Merged(d)
        BY DEF DriveInv, JobInv, Types, TypeOK
      <3> QED
        <4>1. thread'[d].pc = "size" /\ thread'[d].pivot = pivot
          BY <3>1
        <4>2. /\ Leaf(chain'[d]) = job'[d].disk
              /\ ~pivot => xml'[d] = qemu'[d] /\ blockJob'[d] = "none"
              /\ pivot => job'[d].top = job'[d].disk /\ ~Merged(d)'
          BY <1>6, <1>7, <3>1, <3>2, Zenon
        <4> HIDE <1>1, <1>2, <1>3
        <4> QED
          BY <4>1, <4>2, Zenon DEF ThreadInv, Working
    <2> QED
      BY <2>1, <2>2, Zenon
  <1> QED
    BY <1>4, <1>5, <1>8, <1>9, <1>10, <1>11, OthersKept, Zenon DEF DriveInv

LEMMA CommitKeepsIInv ==
    ASSUME IInv, NEW d \in Drives, _update_commit(d)
    PROVE  IInv'
  <1> USE DEF IInv, _update_commit
  <1>1. /\ xml[d] = qemu[d] /\ thread[d] = NoThread
        /\ blockJob[d] = "ready" => job[d].top = job[d].disk
    BY Zenon DEF DriveInv, ChainInv, JobInv
  <1>2. /\ _active_commit_ready(d) <=> blockJob[d] # "none"
        /\ _active_commit_ready(d) \in BOOLEAN /\ blockJob[d] # "running"
    BY <1>1 DEF _active_commit_ready, active_commit, Types, TypeOK
  <1> QED
    BY <1>1, <1>2, StartCleanupKeepsIInv DEF NoThread

LEMMA CleanupKeepsIInv ==
    ASSUME IInv, NEW d \in Drives, _update_cleanup(d), "lag" \notin Faults
    PROVE  IInv'
  <1> DEFINE pivot == job[d].pivot /\ blockJob[d] # "none"
  <1>1. /\ lock = Nobody /\ job[d].state = "CLEANUP" /\ xml[d] = qemu[d]
        /\ UNCHANGED <<libvirt, storage, chain, monitor, lock, merges, faults>>
    BY DEF _update_cleanup
  <1>2. pivot \in BOOLEAN /\ (pivot <=> blockJob[d] # "none") /\ blockJob[d] # "running"
    BY <1>1 DEF IInv, DriveInv, JobInv
  <1>3. CASE thread[d].pc \in {"none", "FAILED"}
    <2>1. _start_cleanup(d, pivot)
      BY <1>3, Zenon DEF _update_cleanup
    <2> HIDE DEF pivot
    <2> QED
      BY <1>1, <1>2, <1>3, <2>1, StartCleanupKeepsIInv
  <1>4. CASE thread[d].pc = "DONE"
    <2>1. _untrack_job(d)
      BY <1>4, Zenon DEF _update_cleanup
    <2>2. /\ blockJob[d] = "none" /\ chain[d] = qemu[d]
          /\ ~Merged(d) => legal[d] /\ md[d] = qemu[d]
          /\ Merged(d) /\ ~Pivoted(d) => legal[d] /\ md[d] = qemu[d]
          /\ Pivoted(d) => ~legal[d] /\ md[d] = Original(d)
      BY <1>1, <1>4, Zenon DEF IInv, DriveInv, ChainInv, ThreadInv
    <2>3. Pivoted(d) => BelowLeaf(Original(d)) = qemu[d]
      BY <1>1 DEF IInv, DriveInv, JobInv, Pivoted, Merged, Original, BelowLeaf, NoJob
    <2>4. faults' \subseteq Faults /\ lock' # d
      BY <1>1, LiveMergeAssumption DEF IInv, Types, TypeOK, Nobody
    <2> QED
      BY <1>1, <2>1, <2>2, <2>3, <2>4, UntrackKeepsIInv
  <1>5. CASE thread[d].pc \notin {"none", "FAILED", "DONE"}
    <2> DEFINE k == [job[d] EXCEPT !.pivot = pivot]
    <2>1. job' = [job EXCEPT ![d] = k] /\ UNCHANGED <<thread, extends, saved>>
      BY <1>5 DEF _update_cleanup, Track
    <2>2. k \in JobType /\ k.state = "CLEANUP" /\ k.pivot = pivot /\ k.top = job[d].top
          /\ k.disk = job[d].disk
      <3>1. job[d] \in JobType
        BY DEF IInv, Types, TypeOK
      <3> HIDE DEF pivot
      <3> QED
        BY <1>1, <1>2, <3>1, JobTold
    <2> HIDE DEF k
    <2> USE <1>1, <2>1, <2>2 DEF IInv, libvirt, storage, saved
    <2>3. Types'
      BY DEF Types, TypeOK
    <2>4. \A e \in Drives \ {d} : Untouched(e)
      BY Zenon DEF Types, TypeOK, Untouched
    <2>5. job'[d] = k /\ job[d] # NoJob /\ k # NoJob
      BY DEF Types, TypeOK, NoJob
    <2>6. /\ Original(d)' = Original(d) /\ (Merged(d)' <=> Merged(d))
          /\ (Pivoted(d)' <=> Pivoted(d))
      BY <2>5, Zenon DEF Original, Merged, Pivoted
    <2>7. SavedInv(d)'
      BY <2>5, Zenon DEF SavedInv, DriveInv
    <2>8. JobInv(d)'
      BY <1>2, <2>5, <2>6, ZenonT(30) DEF JobInv, DriveInv
    <2>9. ChainInv(d)'
      BY <2>5, <2>6, Zenon DEF ChainInv, DriveInv, Settled, NoThread, SavedInv, NoJob
    <2>10. ThreadInv(d)'
      BY <2>5, <2>6 DEF ThreadInv, DriveInv
    <2> QED
      BY <2>3, <2>4, <2>7, <2>8, <2>9, <2>10, OthersKept DEF DriveInv
  <1> QED
    BY <1>3, <1>4, <1>5

-----------------------------------------------------------------------------
(* The cleanup thread.                                                     *)

LEMMA ThreadMoved ==
    ASSUME Types, NEW d \in Drives, NEW pc \in Places, Goto(d, pc)
    PROVE  /\ thread' \in [Drives -> [pc : Places, pivot : BOOLEAN]]
           /\ thread'[d].pc = pc /\ thread'[d].pivot = thread[d].pivot
           /\ \A e \in Drives \ {d} : thread'[e] = thread[e]
  BY DEF Types, Goto

(* A thread belongs to a cleanup. *)
LEMMA ThreadOfCleanup ==
    ASSUME IInv, NEW d \in Drives, thread[d].pc # "none"
    PROVE  /\ job[d].state = "CLEANUP" /\ job[d] # NoJob /\ savedJob[d] # NoJob
           /\ job[d].top \in Volumes \ {Base} /\ job[d].disk = Leaf(Original(d))
           /\ Original(d) \in Chains
           /\ ~Merged(d) => Original(d) = qemu[d]
           /\ Pivoted(d) => BelowLeaf(Original(d)) = qemu[d]
           /\ Merged(d) /\ ~Pivoted(d) => Leaf(qemu[d]) = job[d].disk
  <1>1. job[d].state = "CLEANUP" /\ job[d] # NoJob /\ savedJob[d] # NoJob
    <2>1. job[d].state = "CLEANUP"
      BY Nothing, Zenon DEF IInv, Types, TypeOK
    <2> QED
      BY <2>1, Nothing, Zenon DEF IInv, DriveInv, SavedInv
  <1>2. job[d].top \in Volumes \ {Base} /\ job[d].disk = Leaf(Original(d))
    BY <1>1 DEF IInv, DriveInv, JobInv
  <1>3. Original(d) \in Chains
    BY <1>2 DEF Original, IInv, Types, TypeOK, Chains
  <1>4. ~Merged(d) => Original(d) = qemu[d]
    BY DEF Merged, Original
  <1>5. Merged(d) => Original(d) \ {job[d].top} = qemu[d]
    BY DEF Merged, Original
  <1>6. Pivoted(d) => BelowLeaf(Original(d)) = qemu[d]
    BY <1>2, <1>5 DEF Pivoted, BelowLeaf
  <1>7. Merged(d) /\ ~Pivoted(d) => Leaf(qemu[d]) = job[d].disk
    BY <1>2, <1>3, <1>5, InnerRemoved, Zenon DEF Pivoted
  <1> QED
    BY <1>1, <1>2, <1>3, <1>4, <1>6, <1>7

(* Image.syncVolumeChain, called with the chain in use. *)
Synced(d) ==
    /\ md' \in [Drives -> Chains] /\ legal' \in [Drives -> BOOLEAN]
    /\ \A e \in Drives \ {d} : md'[e] = md[e] /\ legal'[e] = legal[e]
    /\ Pivoted(d) => md'[d] = Original(d) /\ ~legal'[d]
    /\ ~Pivoted(d) => md'[d] = qemu[d] /\ legal'[d]

LEMMA SyncedXml ==
    ASSUME IInv, NEW d \in Drives, thread[d].pc = "sync", syncVolumeChain(d, xml[d])
    PROVE  Synced(d)
  <1>1. /\ job[d].state = "CLEANUP" /\ xml[d] = qemu[d] /\ Leaf(chain[d]) = job[d].disk
        /\ Original(d) \in Chains /\ job[d].disk = Leaf(Original(d))
    BY ThreadOfCleanup, Zenon DEF IInv, DriveInv, ThreadInv, Working
  <1>2. /\ md \in [Drives -> Chains] /\ legal \in [Drives -> BOOLEAN]
        /\ qemu[d] \in Chains
    BY DEF IInv, Types, TypeOK
  <1>3. TypeOK
    BY Zenon DEF IInv, Types
  <1>4. CASE ~Merged(d)
    <2>1. md[d] = qemu[d] /\ Leaf(md[d]) = job[d].disk
      BY <1>1, <1>4, ThreadOfCleanup, Zenon DEF IInv, DriveInv, ChainInv
    <2>2. legal' = [legal EXCEPT ![d] = TRUE] /\ md' = md
      BY <1>1, <1>3, <2>1, ChainSynced, Zenon
    <2> QED
      BY <1>2, <1>4, <2>1, <2>2, Zenon DEF Synced, Pivoted
  <1>5. CASE Pivoted(d)
    <2>1. md[d] = Original(d) /\ Leaf(md[d]) = job[d].disk /\ job[d].disk \notin qemu[d]
      BY <1>1, <1>5, Zenon DEF IInv, DriveInv, ChainInv, Pivoted, Merged
    <2>2. legal' = [legal EXCEPT ![d] = FALSE] /\ md' = md
      BY <1>1, <1>3, <2>1, ChainSynced
    <2> QED
      BY <1>2, <1>5, <2>1, <2>2, Zenon DEF Synced
  <1>6. CASE Merged(d) /\ ~Pivoted(d)
    <2>1. Leaf(qemu[d]) = job[d].disk /\ legal[d]
          /\ (md[d] = qemu[d] \/ md[d] = Original(d))
      BY <1>1, <1>6, ThreadOfCleanup, Zenon DEF IInv, DriveInv, ChainInv
    <2>2. Leaf(md[d]) = job[d].disk /\ Leaf(md[d]) \in qemu[d]
      BY <1>1, <1>2, <2>1, LeafType, Zenon
    <2>3. md[d] \intersect qemu[d] = qemu[d]
      BY <2>1, Zenon DEF Original
    <2>4. md[d] \subseteq qemu[d] => md[d] = qemu[d]
      BY <2>3, Zenon
    <2>5. /\ md' = [md EXCEPT ![d] = qemu[d]]
          /\ legal' = [legal EXCEPT ![d] = TRUE]
      <3>1. CASE md[d] \subseteq qemu[d]
        BY <1>1, <1>2, <1>3, <2>2, <2>4, <3>1, ChainSynced, Zenon
      <3>2. CASE ~(md[d] \subseteq qemu[d])
        <4>1. legal' = legal /\ md' = [md EXCEPT ![d] = @ \intersect qemu[d]]
          BY <1>1, <1>3, <2>2, <3>2, ChainSynced, Zenon
        <4>2. legal[d] = TRUE
          BY <1>2, <2>1
        <4> QED
          BY <1>2, <2>3, <4>1, <4>2, Zenon
      <3> QED
        BY <3>1, <3>2, Zenon
    <2> QED
      BY <1>2, <1>6, <2>5, Zenon DEF Synced
  <1> QED
    BY <1>4, <1>5, <1>6, Zenon DEF Pivoted

(* A thread that only goes on. *)
LEMMA GoingOnKeepsIInv ==
    ASSUME IInv, NEW d \in Drives, NEW pc \in Places, Goto(d, pc), thread[d].pc # "none",
           UNCHANGED <<libvirt, storage, chain, job, lock, extends, saved, merges>>,
           monitor' \in {"on", "off", "left"}, faults' \subseteq Faults, ThreadInv(d)'
    PROVE  IInv'
  <1> USE DEF libvirt, storage, saved
  <1>1. job[d].state = "CLEANUP" /\ job[d] # NoJob /\ savedJob[d] # NoJob
    BY ThreadOfCleanup, Zenon
  <1>2. Types'
    BY <1>1, ThreadMoved DEF IInv, Types, TypeOK
  <1>3. \A e \in Drives \ {d} : Untouched(e)
    BY ThreadMoved, Zenon DEF IInv, Untouched
  <1>4. SavedInv(d)' /\ JobInv(d)'
    BY Zenon DEF IInv, DriveInv, SavedInv, JobInv, Original, Merged
  <1>5. ChainInv(d)'
    BY <1>1, Zenon DEF IInv, DriveInv, ChainInv, Original, Merged, Pivoted
  <1> QED
    BY <1>2, <1>3, <1>4, <1>5, OthersKept DEF DriveInv

LEMMA FailingKeepsIInv ==
    ASSUME IInv, NEW d \in Drives, Goto(d, "FAILED"), thread[d].pc # "none",
           UNCHANGED <<libvirt, storage, chain, job, lock, extends, saved, merges>>,
           monitor' \in {"on", "off", "left"}, faults' \subseteq Faults
    PROVE  IInv'
  <1>1. thread'[d].pc = "FAILED" /\ "FAILED" \in Places
    BY ThreadMoved, Zenon DEF IInv, Places
  <1>2. ThreadInv(d)'
    BY <1>1, Zenon DEF ThreadInv, Working
  <1> QED
    BY <1>1, <1>2, GoingOnKeepsIInv, Zenon

LEMMA SizeKeepsIInv ==
    ASSUME IInv, NEW d \in Drives,
           update_base_size(d) \/ _waitForXMLUpdate(d) \/ teardown_top_volume(d)
    PROVE  IInv'
  <1> DEFINE next == IF At(d, "size") THEN (IF thread[d].pivot THEN "mark" ELSE "sync")
                     ELSE IF At(d, "xml") THEN "sync" ELSE "DONE"
  <1>1. /\ UNCHANGED <<libvirt, storage, chain, job, lock, extends, saved, merges>>
        /\ thread[d].pc \in {"size", "xml", "teardown"}
        /\ \/ Goto(d, "FAILED")
           \/ Goto(d, next) /\ (At(d, "xml") => xml[d] = BelowLeaf(chain[d]))
    BY Zenon DEF update_base_size, _waitForXMLUpdate, teardown_top_volume, At
  <1>2. faults' \subseteq Faults /\ monitor' \in {"on", "off", "left"}
    BY Zenon
       DEF update_base_size, _waitForXMLUpdate, teardown_top_volume, LeaveDisabled, Fault,
           IInv, Types, TypeOK
  <1>3. CASE Goto(d, "FAILED")
    BY <1>1, <1>2, <1>3, FailingKeepsIInv, Zenon
  <1>4. CASE Goto(d, next) /\ (At(d, "xml") => xml[d] = BelowLeaf(chain[d]))
    <2>1. next \in Places
      BY Zenon DEF Places, Working
    <2>2. thread'[d].pc = next /\ thread'[d].pivot = thread[d].pivot
      BY <1>4, <2>1, ThreadMoved, Zenon DEF IInv
    <2>3. At(d, "xml") => xml[d] = qemu[d] /\ blockJob[d] = "none"
      <3> SUFFICES ASSUME At(d, "xml") PROVE xml[d] = qemu[d] /\ blockJob[d] = "none"
        BY Zenon
      <3>1. Pivoted(d) /\ Leaf(chain[d]) = job[d].disk
        BY Zenon DEF At, IInv, DriveInv, ThreadInv, Working
      <3>2. blockJob[d] = "none"
        BY <3>1, Zenon DEF Pivoted, IInv, DriveInv, JobInv
      <3>3. chain[d] \in Chains /\ Leaf(chain[d]) \in chain[d]
        BY LeafType, Zenon DEF IInv, Types, TypeOK
      <3>4. chain[d] = Original(d)
        <4>1. job[d].state = "CLEANUP"
          BY <1>1, ThreadOfCleanup, Zenon
        <4>2. chain[d] \in {qemu[d], Original(d)}
          BY <4>1, Zenon DEF IInv, DriveInv, ChainInv
        <4>3. job[d].disk \notin qemu[d]
          BY <3>1, Zenon DEF Pivoted, Merged
        <4> QED
          BY <3>1, <3>3, <4>2, <4>3, Zenon
      <3> QED
        BY <1>1, <1>4, <3>1, <3>2, <3>4, ThreadOfCleanup, Zenon
    <2>4. ThreadInv(d)'
      BY <1>1, <2>2, <2>3, Zenon
         DEF IInv, DriveInv, ThreadInv, At, Working, Merged, Pivoted, libvirt,
         storage
    <2> HIDE DEF next
    <2> QED
      BY <1>1, <1>2, <1>4, <2>1, <2>4, GoingOnKeepsIInv, Zenon
  <1> QED
    BY <1>1, <1>3, <1>4, Zenon

(* A thread that is about to pivot sees the chain in use in all places. *)
LEMMA BeforePivot ==
    ASSUME IInv, NEW d \in Drives, thread[d].pc \in {"mark", "pivot"}
    PROVE  /\ ~Merged(d) /\ job[d].top = job[d].disk /\ job[d].disk = Leaf(qemu[d])
           /\ chain[d] = qemu[d] /\ md[d] = qemu[d] /\ xml[d] = qemu[d]
           /\ savedChain[d] = qemu[d]
           /\ qemu[d] \in Chains /\ Leaf(qemu[d]) # Base
  <1>1. ~Merged(d) /\ job[d].top = job[d].disk
    BY Zenon DEF IInv, DriveInv, ThreadInv
  <1>2. /\ job[d].state = "CLEANUP" /\ Original(d) = qemu[d] /\ job[d].disk = Leaf(qemu[d])
        /\ job[d].top # Base
    BY <1>1, ThreadOfCleanup
  <1> QED
    BY <1>1, <1>2, Zenon DEF IInv, DriveInv, ChainInv, Types, TypeOK, Pivoted

LEMMA MarkKeepsIInv ==
    ASSUME IInv, NEW d \in Drives, _mark_leaf_illegal(d)
    PROVE  IInv'
  <1> USE DEF _mark_leaf_illegal
  <1>1. thread[d].pc = "mark"
    BY Zenon DEF At
  <1>2. faults' \subseteq Faults /\ monitor' \in {"on", "off", "left"}
    BY Zenon DEF Fault, IInv, Types, TypeOK
  <1>3. CASE Goto(d, "FAILED") /\ UNCHANGED storage
    BY <1>1, <1>2, <1>3, FailingKeepsIInv
  <1>4. CASE syncVolumeChain(d, BelowLeaf(chain[d])) /\ Goto(d, "pivot")
    <2>1. /\ TypeOK /\ Leaf(chain[d]) = Leaf(md[d]) /\ Leaf(md[d]) \notin BelowLeaf(chain[d])
      BY <1>1, BeforePivot, Zenon DEF IInv, Types, BelowLeaf
    <2>2. legal' = [legal EXCEPT ![d] = FALSE] /\ md' = md
      BY <1>4, <2>1, ChainSynced, Zenon
    <2>3. /\ job[d].state = "CLEANUP" /\ job[d] # NoJob /\ savedJob[d] # NoJob
      BY <1>1, ThreadOfCleanup
    <2>4. "pivot" \in Places
      BY Zenon DEF Places, Working
    <2>5. /\ thread' \in [Drives -> [pc : Places, pivot : BOOLEAN]]
          /\ thread'[d].pc = "pivot" /\ thread'[d].pivot = thread[d].pivot
          /\ \A e \in Drives \ {d} : thread'[e] = thread[e]
      BY <1>4, <2>4, ThreadMoved, Zenon DEF IInv
    <2> USE <1>1, <2>2, <2>3, <2>5 DEF libvirt, saved
    <2>6. Types'
      BY <1>2, Zenon DEF IInv, Types, TypeOK
    <2>7. \A e \in Drives \ {d} : Untouched(e)
      BY DEF IInv, Types, TypeOK, Untouched
    <2>8. SavedInv(d)' /\ JobInv(d)'
      BY Zenon DEF IInv, DriveInv, SavedInv, JobInv, Original, Merged
    <2>9. ~Merged(d)' /\ ~Pivoted(d)' /\ Original(d)' = Original(d) /\ ~legal'[d]
      BY BeforePivot, Zenon DEF Merged, Pivoted, Original, IInv, Types, TypeOK
    <2>10. ChainInv(d)'
      BY <2>9, BeforePivot, Zenon DEF IInv, DriveInv, ChainInv
    <2>11. ThreadInv(d)'
      BY <2>9, BeforePivot, Zenon DEF IInv, DriveInv, ThreadInv, Working
    <2> QED
      BY <2>6, <2>7, <2>8, <2>10, <2>11, OthersKept, Zenon DEF DriveInv
  <1> QED
    BY <1>3, <1>4

LEMMA AbortKeepsIInv ==
    ASSUME IInv, NEW d \in Drives, blockJobAbort(d)
    PROVE  IInv'
  <1> USE DEF blockJobAbort
  <1>1. thread[d].pc = "pivot"
    BY Zenon DEF At
  <1>2. faults' \subseteq Faults /\ monitor' \in {"on", "off", "left"}
    BY Zenon DEF Failing, Fault, Refused, IInv, Types, TypeOK
  <1>3. job[d].state = "CLEANUP" /\ job[d] # NoJob /\ savedJob[d] # NoJob
    BY <1>1, ThreadOfCleanup
  <1>4. CASE Refused(d) /\ UNCHANGED <<qemu, blockJob>>
    <2>1. CASE UNCHANGED storage
      BY <1>1, <1>2, <1>4, <2>1, FailingKeepsIInv, Zenon DEF Refused, libvirt
    <2>2. CASE syncVolumeChain(d, chain[d])
      <3>1. TypeOK /\ Leaf(chain[d]) = Leaf(md[d]) /\ md[d] \subseteq chain[d]
        BY <1>1, BeforePivot, Zenon DEF IInv, Types
      <3>2. legal' = [legal EXCEPT ![d] = TRUE] /\ md' = md
        BY <2>2, <3>1, ChainSynced
      <3>3. "FAILED" \in Places
        BY Zenon DEF Places
      <3>4. /\ thread' \in [Drives -> [pc : Places, pivot : BOOLEAN]]
            /\ thread'[d].pc = "FAILED"
            /\ \A e \in Drives \ {d} : thread'[e] = thread[e]
        BY <1>4, <3>3, ThreadMoved, Zenon DEF IInv, Refused
      <3> USE <1>1, <1>3, <1>4, <3>2, <3>4 DEF libvirt, saved
      <3>5. Types'
        BY <1>2, Zenon DEF IInv, Types, TypeOK
      <3>6. \A e \in Drives \ {d} : Untouched(e)
        BY Zenon DEF IInv, Types, TypeOK, Untouched
      <3>7. SavedInv(d)' /\ JobInv(d)'
        BY Zenon DEF IInv, DriveInv, SavedInv, JobInv, Original, Merged
      <3>8. ~Merged(d)' /\ ~Pivoted(d)' /\ Original(d)' = Original(d) /\ legal'[d]
        BY BeforePivot, Zenon DEF Merged, Pivoted, Original, IInv, Types, TypeOK
      <3>9. ChainInv(d)'
        BY <3>8, BeforePivot, Zenon DEF IInv, DriveInv, ChainInv
      <3>10. ThreadInv(d)'
        BY Zenon DEF ThreadInv, Working
      <3> QED
        BY <3>5, <3>6, <3>7, <3>9, <3>10, OthersKept, Zenon DEF DriveInv
    <2> QED
      BY <1>4, <2>1, <2>2 DEF Refused
  <1>5. CASE blockJob[d] = "ready" /\ qemu' = [qemu EXCEPT ![d] = BelowLeaf(@)]
             /\ blockJob' = [blockJob EXCEPT ![d] = "none"]
             /\ Goto(d, "xml") /\ UNCHANGED <<storage, monitor, faults>>
    <2>1. "xml" \in Places
      BY Zenon DEF Places, Working
    <2>2. /\ thread' \in [Drives -> [pc : Places, pivot : BOOLEAN]]
          /\ thread'[d].pc = "xml" /\ thread'[d].pivot = thread[d].pivot
          /\ \A e \in Drives \ {d} : thread'[e] = thread[e]
      BY <1>5, <2>1, ThreadMoved, Zenon DEF IInv
    <2>3. BelowLeaf(qemu[d]) \in Chains
      BY <1>1, BeforePivot, LeafRemoved, Zenon
    <2>4. qemu'[d] = BelowLeaf(qemu[d]) /\ blockJob'[d] = "none"
      BY <1>5, Zenon DEF IInv, Types, TypeOK
    <2> USE <1>1, <1>3, <1>5, <2>2, <2>4 DEF storage, saved
    <2>5. Types'
      <3>1. /\ qemu' \in [Drives -> Chains]
            /\ blockJob' \in [Drives -> {"none", "running", "ready"}]
        BY <2>3, Zenon DEF IInv, Types, TypeOK
      <3> QED
        BY <1>2, <3>1 DEF IInv, Types, TypeOK
    <2>6. \A e \in Drives \ {d} : Untouched(e)
      BY Zenon DEF IInv, Types, TypeOK, Untouched
    <2>7. Leaf(qemu[d]) \in qemu[d]
      BY BeforePivot, LeafType, Zenon
    <2>8. /\ Original(d)' = qemu[d] /\ Original(d) = qemu[d]
          /\ Merged(d)' /\ Pivoted(d)'
      BY <2>7, BeforePivot, Zenon DEF Original, Merged, Pivoted, BelowLeaf
    <2>9. SavedInv(d)' /\ JobInv(d)'
      <3>1. SavedInv(d)'
        BY Zenon DEF IInv, DriveInv, SavedInv
      <3>2. job[d].disk = Leaf(qemu[d]) /\ job[d].top \in Volumes \ {Base} /\ lock # d
        BY BeforePivot, ThreadOfCleanup, Nothing, Zenon DEF IInv, DriveInv, JobInv
      <3> QED
        BY <2>8, <3>1, <3>2, Zenon DEF JobInv
    <2>10. ~legal[d]
      BY Zenon DEF IInv, DriveInv, ThreadInv
    <2>11. ChainInv(d)'
      BY <2>8, <2>10, BeforePivot, Zenon DEF ChainInv
    <2>12. ThreadInv(d)'
      BY <2>8, BeforePivot, Zenon DEF ThreadInv, Working, IInv, DriveInv
    <2> QED
      BY <2>5, <2>6, <2>9, <2>11, <2>12, OthersKept, Zenon DEF DriveInv
  <1> QED
    BY <1>4, <1>5

LEMMA SyncKeepsIInv ==
    ASSUME IInv, NEW d \in Drives, sync_volume_chain(d)
    PROVE  IInv'
  <1> USE DEF sync_volume_chain
  <1>1. thread[d].pc = "sync"
    BY Zenon DEF At
  <1>2. faults' \subseteq Faults /\ monitor' \in {"on", "off", "left"}
    BY Zenon DEF LeaveDisabled, Fault, IInv, Types, TypeOK
  <1>3. job[d].state = "CLEANUP" /\ job[d] # NoJob /\ savedJob[d] # NoJob
    BY <1>1, ThreadOfCleanup, Zenon
  <1>4. CASE Goto(d, "FAILED") /\ UNCHANGED <<chain, storage>>
    BY <1>1, <1>2, <1>4, FailingKeepsIInv, Zenon
  <1>5. CASE /\ syncVolumeChain(d, xml[d])
             /\ \/ Goto(d, "FAILED") /\ UNCHANGED chain
                \/ /\ Goto(d, IF job[d].top \in xml[d] THEN "DONE" ELSE "teardown")
                   /\ chain' = [chain EXCEPT ![d] = xml[d]]
    <2>1. Synced(d)
      BY <1>1, <1>5, SyncedXml, Zenon
    <2>2. PICK pc \in {"FAILED", "DONE", "teardown"} :
             Goto(d, pc) /\ chain' = IF pc = "FAILED" THEN chain
                                     ELSE [chain EXCEPT ![d] = xml[d]]
      BY <1>5, Zenon
    <2>3. /\ thread' \in [Drives -> [pc : Places, pivot : BOOLEAN]]
          /\ thread'[d].pc = pc
          /\ \A e \in Drives \ {d} : thread'[e] = thread[e]
      <3>1. pc \in Places
        BY Zenon DEF Places
      <3> QED
        BY <2>2, <3>1, ThreadMoved, Zenon DEF IInv
    <2>4. xml[d] = qemu[d] /\ blockJob[d] = "none" /\ chain[d] \in {qemu[d], Original(d)}
          /\ savedChain[d] \in {chain[d], Original(d)}
      BY <1>1, <1>3, Zenon DEF IInv, DriveInv, ThreadInv, ChainInv
    <2>5. /\ chain' \in [Drives -> Chains]
          /\ chain'[d] = IF pc = "FAILED" THEN chain[d] ELSE qemu[d]
          /\ \A e \in Drives \ {d} : chain'[e] = chain[e]
      BY <2>2, <2>4, Zenon DEF IInv, Types, TypeOK
    <2> USE <1>1, <1>3, <2>3, <2>4, <2>5 DEF libvirt, saved
    <2>6. Types'
      <3>1. md' \in [Drives -> Chains] /\ legal' \in [Drives -> BOOLEAN]
        BY <2>1, Zenon DEF Synced
      <3> QED
        BY <1>2, <3>1, Zenon DEF IInv, Types, TypeOK
    <2>7. \A e \in Drives \ {d} : Untouched(e)
      BY <2>1, Zenon DEF IInv, Untouched, Synced
    <2>8. SavedInv(d)' /\ JobInv(d)'
      BY Zenon DEF IInv, DriveInv, SavedInv, JobInv, Original, Merged
    <2>9. /\ Original(d)' = Original(d) /\ (Merged(d)' <=> Merged(d))
          /\ (Pivoted(d)' <=> Pivoted(d)) /\ (Pivoted(d) => Merged(d))
      BY Zenon DEF Original, Merged, Pivoted
    <2>10. ChainInv(d)'
      BY <2>1, <2>9, Zenon DEF ChainInv, Synced
    <2>11. ThreadInv(d)'
      BY <2>1, <2>9, Zenon DEF ThreadInv, Working, Synced
    <2> QED
      BY <2>6, <2>7, <2>8, <2>10, <2>11, OthersKept, Zenon DEF DriveInv
  <1> QED
    BY <1>4, <1>5, Zenon

-----------------------------------------------------------------------------
(* libvirt, the engine and the restart.                                    *)

LEMMA BlockJobKeepsIInv ==
    ASSUME IInv, NEW d \in Drives, BlockJobEnds(d)
    PROVE  IInv'
  <1> USE DEF BlockJobEnds
  <1>1. /\ job[d].state \in {"COMMIT", "CLEANUP"} /\ ~Merged(d) /\ job[d] # NoJob
        /\ job[d].top \in Volumes \ {Base} /\ lock # d /\ Original(d) = qemu[d]
        /\ savedJob[d] # NoJob
    <2>1. job[d].state \in {"COMMIT", "CLEANUP"} /\ ~Merged(d) /\ lock # d
      BY Zenon DEF IInv, DriveInv, JobInv
    <2>2. job[d] # NoJob /\ savedJob[d] # NoJob
      BY <2>1, Nothing, Zenon DEF IInv, DriveInv, SavedInv
    <2>3. Original(d) = qemu[d]
      BY <2>1, Zenon DEF Merged, Original
    <2> QED
      BY <2>1, <2>2, <2>3, Zenon DEF IInv, DriveInv, JobInv
  <1>2. faults' \subseteq Faults
    BY Zenon DEF Fault, IInv, Types, TypeOK
  <1>3. CASE /\ UNCHANGED <<qemu, xml>>
             /\ \/ blockJob' = [blockJob EXCEPT ![d] = "none"]
                \/ /\ blockJob[d] = "running" /\ job[d].top = job[d].disk
                   /\ blockJob' = [blockJob EXCEPT ![d] = "ready"]
    <2> USE <1>1, <1>3 DEF storage, saved
    <2>1. Types'
      BY <1>2, Zenon DEF IInv, Types, TypeOK
    <2>2. \A e \in Drives \ {d} : Untouched(e)
      BY Zenon DEF IInv, Types, TypeOK, Untouched
    <2>3. \/ blockJob'[d] = "none"
          \/ blockJob'[d] = "ready" /\ blockJob[d] = "running" /\ job[d].top = job[d].disk
      BY Zenon DEF IInv, Types, TypeOK
    <2>4. SavedInv(d)' /\ JobInv(d)'
      BY <2>3, Zenon DEF IInv, DriveInv, SavedInv, JobInv, Original, Merged
    <2>5. ChainInv(d)'
      BY <2>3, Zenon DEF IInv, DriveInv, ChainInv, Original, Merged, Pivoted
    <2>6. ThreadInv(d)'
      BY <2>3, Zenon DEF IInv, DriveInv, ThreadInv, Merged, Pivoted
    <2> QED
      BY <2>1, <2>2, <2>4, <2>5, <2>6, OthersKept, Zenon DEF DriveInv
  <1>4. CASE /\ blockJob[d] = "running" /\ job[d].top # job[d].disk
             /\ blockJob' = [blockJob EXCEPT ![d] = "none"]
             /\ qemu' = [qemu EXCEPT ![d] = qemu[d] \ {job[d].top}]
             /\ xml' = [xml EXCEPT ![d] = qemu[d] \ {job[d].top}]
    <2>1. qemu[d] \ {job[d].top} \in Chains /\ job[d].state = "COMMIT"
      <3>1. qemu[d] \in Chains
        BY Zenon DEF IInv, Types, TypeOK
      <3>2. job[d].state = "COMMIT"
        BY <1>4, Zenon DEF IInv, DriveInv, JobInv
      <3> QED
        BY <1>1, <3>1, <3>2, Zenon DEF Chains
    <2>2. /\ qemu'[d] = qemu[d] \ {job[d].top} /\ xml'[d] = qemu'[d] /\ blockJob'[d] = "none"
      BY <1>4, Zenon DEF IInv, Types, TypeOK
    <2> USE <1>1, <1>4, <2>2 DEF storage, saved
    <2>3. Types'
      BY <1>2, <2>1 DEF IInv, Types, TypeOK
    <2>4. \A e \in Drives \ {d} : Untouched(e)
      BY Zenon DEF IInv, Types, TypeOK, Untouched
    <2>5. Original(d)' = Original(d) /\ Merged(d)' /\ ~Pivoted(d)'
      BY Zenon DEF Original, Merged, Pivoted
    <2>6. SavedInv(d)' /\ JobInv(d)'
      BY <2>1, <2>5, Zenon DEF IInv, DriveInv, SavedInv, JobInv
    <2>7. ChainInv(d)'
      BY <2>1, <2>5, Zenon DEF IInv, DriveInv, ChainInv
    <2>8. ThreadInv(d)'
      BY <2>1, Zenon DEF IInv, DriveInv, ChainInv, ThreadInv, NoThread, Working
    <2> QED
      BY <2>3, <2>4, <2>6, <2>7, <2>8, OthersKept, Zenon DEF DriveInv
  <1> QED
    BY <1>3, <1>4, Zenon DEF active_commit

LEMMA OutsideKeepsIInv ==
    ASSUME IInv, NEW d \in Drives, XmlUpdated(d) \/ EngineDeletes(d)
    PROVE  IInv'
  <1>1. CASE XmlUpdated(d)
    <2> USE <1>1 DEF XmlUpdated, storage, saved
    <2>1. Types'
      BY DEF IInv, Types, TypeOK
    <2>2. \A e \in Drives \ {d} : Untouched(e)
      BY DEF IInv, Types, TypeOK, Untouched
    <2>3. xml'[d] = qemu[d] /\ xml[d] # qemu[d]
      BY DEF IInv, Types, TypeOK
    <2>4. SavedInv(d)' /\ JobInv(d)'
      BY Zenon DEF IInv, DriveInv, SavedInv, JobInv, Original, Merged
    <2>5. ChainInv(d)'
      BY <2>3, Zenon DEF IInv, DriveInv, ChainInv, Original, Merged, Pivoted, Settled
    <2>6. ThreadInv(d)'
      BY <2>3, Zenon DEF IInv, DriveInv, ThreadInv, Merged, Pivoted
    <2> QED
      BY <2>1, <2>2, <2>4, <2>5, <2>6, OthersKept, Zenon DEF DriveInv
  <1>2. CASE EngineDeletes(d)
    <2> USE <1>2 DEF EngineDeletes, libvirt, saved
    <2>1. Types'
      BY DEF IInv, Types, TypeOK
    <2>2. \A e \in Drives \ {d} : Untouched(e)
      BY Zenon DEF IInv, Types, TypeOK, Untouched
    <2>3. Idle(d)
      BY DriveIdle, Zenon DEF IInv
    <2>4. Idle(d)'
      BY <2>3, Zenon DEF IInv, Types, TypeOK, Idle, Settled
    <2> QED
      BY <2>1, <2>2, <2>4, IdleInv, OthersKept, Zenon
  <1> QED
    BY <1>1, <1>2

(* vdsm starts again with what was saved of each drive. *)
LEMMA RestartKeepsIInv ==
    ASSUME IInv, Restart
    PROVE  IInv'
  <1> USE DEF Restart, libvirt, storage, saved
  <1>1. Types'
    BY LiveMergeAssumption DEF IInv, Types, TypeOK, Fault, NoThread, Places
  <1>2. ASSUME NEW d \in Drives PROVE DriveInv(d)'
    <2>1. thread'[d] = NoThread /\ lock' # d
      BY LiveMergeAssumption DEF Nobody
    <2>2. CASE savedJob[d] = NoJob
      <3>1. Settled(d)
        BY <2>2, Zenon DEF IInv, DriveInv, ChainInv
      <3>2. Idle(d)'
        BY <2>1, <2>2, <3>1, Zenon DEF Idle, Settled
      <3> QED
        BY <3>2, IdleInv, Zenon
    <2>3. CASE savedJob[d] # NoJob
      <3>1. /\ savedJob[d].top = job[d].top /\ savedJob[d].disk = job[d].disk
            /\ savedJob[d].state = job[d].state /\ job[d] # NoJob
        BY <2>3 DEF IInv, DriveInv, SavedInv, NoJob
      <3>2. /\ Original(d)' = Original(d) /\ (Merged(d)' <=> Merged(d))
            /\ (Pivoted(d)' <=> Pivoted(d))
        BY <3>1, Zenon DEF Original, Merged, Pivoted
      <3>3. SavedInv(d)' /\ savedJob[d].state # "none"
        BY <3>1, Zenon DEF SavedInv, IInv, DriveInv, JobInv
      <3>4. JobInv(d)'
        BY <2>1, <3>1, <3>2, <3>3, Zenon DEF IInv, DriveInv, JobInv
      <3>5. ChainInv(d)'
        BY <2>1, <2>3, <3>1, <3>2, Zenon DEF IInv, DriveInv, ChainInv
      <3>6. ThreadInv(d)'
        BY <2>1, Zenon DEF ThreadInv, NoThread, Working
      <3> QED
        BY <3>3, <3>4, <3>5, <3>6, Zenon DEF DriveInv
    <2> QED
      BY <2>2, <2>3
  <1> QED
    BY <1>1, <1>2, Zenon DEF IInv

LEMMA InitIInv == Init => IInv
  <1> SUFFICES ASSUME Init PROVE IInv
    BY Zenon
  <1> USE DEF Init
  <1>1. NoJob \in JobType /\ Volumes \in Chains /\ NoThread \in [pc : Places, pivot : BOOLEAN]
    BY LiveMergeAssumption DEF NoJob, JobType, NoThread, Places, Chains, Volumes, Base
  <1>2. Types
    BY <1>1, LiveMergeAssumption DEF Types, TypeOK
  <1>3. ASSUME NEW d \in Drives PROVE DriveInv(d)
    <2>1. Settled(d) /\ lock # d /\ job[d] = NoJob /\ savedJob[d] = NoJob
      BY LiveMergeAssumption DEF Settled, Nobody
    <2> QED
      BY <2>1, Zenon DEF Settled, NoJob, NoThread, Working, DriveInv, SavedInv, JobInv, ChainInv,
                  ThreadInv
  <1> QED
    BY <1>2, <1>3 DEF IInv

LEMMA NextIInv == "lag" \notin Faults /\ IInv /\ [Next]_vars => IInv'
  <1> SUFFICES ASSUME "lag" \notin Faults, IInv, [Next]_vars PROVE IInv'
    OBVIOUS
  <1>1. CASE UNCHANGED vars
    <2> USE <1>1 DEF vars, libvirt, storage, saved
    <2>1. Types'
      BY Zenon DEF IInv, Types, TypeOK
    <2>2. \A e \in Drives : Untouched(e)
      BY Zenon DEF Untouched
    <2> QED
      BY <2>1, <2>2, OtherDriveKept, Zenon DEF IInv
  <1>2. ASSUME NEW d \in Drives, Cleanup(d) PROVE IInv'
    BY <1>2, SizeKeepsIInv, MarkKeepsIInv, AbortKeepsIInv, SyncKeepsIInv DEF Cleanup
  <1>3. ASSUME NEW d \in Drives, query_jobs(d) PROVE IInv'
    BY <1>3, ExtendKeepsIInv, CommitKeepsIInv, CleanupKeepsIInv DEF query_jobs
  <1> QED
    BY <1>1, <1>2, <1>3, MergeKeepsIInv, BlockCommitKeepsIInv, ExtendKeepsIInv,
       BlockJobKeepsIInv, OutsideKeepsIInv, RestartKeepsIInv, Zenon DEF Next

LEMMA Invariance == ASSUME "lag" \notin Faults PROVE Spec => []IInv
  <1>1. IInv /\ [Next]_vars => IInv'
    BY NextIInv
  <1> QED
    BY <1>1, InitIInv, PTL DEF Spec

-----------------------------------------------------------------------------
(* Whatever fails, and wherever vdsm is restarted, as long as the domain   *)
(* XML shows a pivot by the next poll: a leaf that the storage metadata    *)
(* calls legal is the volume the guest writes to.                          *)
THEOREM LegalLeafInUse == ASSUME "lag" \notin Faults PROVE Spec => []RestartSafe
  <1>1. IInv => RestartSafe
    <2> SUFFICES ASSUME IInv, NEW d \in Drives, legal[d]
                 PROVE  Leaf(md[d]) = Leaf(qemu[d])
      BY Zenon DEF RestartSafe
    <2>1. CASE job[d].state # "CLEANUP"
      <3>1. job[d] = NoJob => md[d] = qemu[d]
        BY Zenon DEF IInv, DriveInv, ChainInv, Settled
      <3>2. job[d] # NoJob => /\ job[d].state \in {"INIT", "EXTEND", "COMMIT"}
                              /\ md[d] = Original(d) /\ ~Pivoted(d)
        <4>1. job[d].state \in {"none", "INIT", "EXTEND", "COMMIT", "CLEANUP"}
          BY DEF IInv, Types, TypeOK, JobType
        <4>2. job[d] # NoJob => job[d].state # "none"
          BY Zenon DEF IInv, DriveInv, JobInv
        <4> QED
          BY <2>1, <4>1, <4>2, Zenon DEF IInv, DriveInv, ChainInv
      <3>3. job[d] # NoJob => /\ job[d].top \in Volumes \ {Base}
                              /\ job[d].disk = Leaf(Original(d))
        BY Zenon DEF IInv, DriveInv, JobInv
      <3>4. ~Merged(d) => Original(d) = qemu[d]
        BY Zenon DEF Merged, Original
      <3>5. Merged(d) => Original(d) \ {job[d].top} = qemu[d]
        BY Zenon DEF Merged, Original
      <3>6. job[d] # NoJob => Original(d) \in Chains
        BY <3>3, Zenon DEF Original, IInv, Types, TypeOK, Chains
      <3> QED
        BY <3>1, <3>2, <3>3, <3>4, <3>5, <3>6, InnerRemoved DEF Pivoted
    <2>2. CASE job[d].state = "CLEANUP"
      <3>1. job[d] # NoJob
        BY <2>2 DEF NoJob
      <3>2. /\ ~Pivoted(d) /\ md[d] \in {qemu[d], Original(d)}
        BY <2>2, Zenon DEF IInv, DriveInv, ChainInv
      <3>3. /\ job[d].top \in Volumes \ {Base} /\ job[d].disk = Leaf(Original(d))
        BY <3>1, Zenon DEF IInv, DriveInv, JobInv
      <3>4. ~Merged(d) => Original(d) = qemu[d]
        BY Zenon DEF Merged, Original
      <3>5. Merged(d) => Original(d) \ {job[d].top} = qemu[d]
        BY DEF Merged, Original
      <3>6. Original(d) \in Chains
        BY <3>3, Zenon DEF Original, IInv, Types, TypeOK, Chains
      <3> QED
        BY <3>2, <3>3, <3>4, <3>5, <3>6, InnerRemoved DEF Pivoted
    <2> QED
      BY <2>1, <2>2
  <1> QED
    BY <1>1, Invariance, PTL

(* Under the same condition, a merge half done is saved: with no job in    *)
(* the VM's metadata, the storage metadata and the saved drive agree with  *)
(* the chain in use, but for a leaf that is marked illegal.                *)
THEOREM MergeRemembered == ASSUME "lag" \notin Faults PROVE Spec => []NothingForgotten
  <1>1. IInv => NothingForgotten
    <2> SUFFICES ASSUME IInv, NEW d \in Drives, savedJob[d] = NoJob
                 PROVE  /\ legal[d] <=> Leaf(md[d]) = Leaf(qemu[d])
                        /\ IF legal[d] THEN md[d] = qemu[d] ELSE BelowLeaf(md[d]) = qemu[d]
                        /\ savedChain[d] = qemu[d]
      BY Zenon DEF NothingForgotten, IInv, Types
    <2>1. Settled(d)
      BY Zenon DEF IInv, DriveInv, ChainInv
    <2>2. md[d] \in Chains /\ qemu[d] \in Chains
      BY Zenon DEF IInv, Types, TypeOK
    <2>3. BelowLeaf(md[d]) = qemu[d] => Leaf(md[d]) # Leaf(qemu[d])
      BY <2>2, LeafType, Zenon DEF BelowLeaf
    <2> QED
      BY <2>1, <2>3, Zenon DEF Settled
  <1> QED
    BY <1>1, Invariance, PTL
=============================================================================
