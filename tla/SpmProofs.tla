------------------------------ MODULE SpmProofs ------------------------------
(***************************************************************************)
(* Proofs about Spm for every set of hosts, any number of upgrade threads, *)
(* any number of faults and any tolerance of the watchdog.                 *)
(*                                                                         *)
(* That a host acts as SPM only with the lease is not inductive: what a    *)
(* host does when it has given the role up depends on upgrade threads that *)
(* are still on their way.  The invariant says what stopSpm has undone at  *)
(* each of its steps, before it releases the lease (RoleInv); the lease is *)
(* then the host's from its acquisition on (LeaseInv).                     *)
(***************************************************************************)
EXTENDS Spm, TLAPS

Steps == {"idle", "acquire", "status", "upgrade", "mount", "load", "watch", "mailer",
          "recover", "stop_cancel", "stop_watch", "stop_insecure", "stop_mount",
          "stop_mailer", "stop_release"}

Types ==
    /\ TypeOK
    /\ secure \in [Hosts -> BOOLEAN] /\ watch \in [Hosts -> BOOLEAN]
    /\ mailer \in [Hosts -> BOOLEAN] /\ mounted \in [Hosts -> BOOLEAN]
    /\ todo \in [Hosts -> BOOLEAN]
    /\ pc \in [Hosts -> Steps]

(* Nothing that only the SPM may do, and nothing that leads to it. *)
Converting(h) == todo[h] \/ upgrade[h]["convert"] > 0
Quiet(h) == ~secure[h] /\ ~mailer[h] /\ ~mounted[h] /\ ~Converting(h)

(* What a host has undone by then, or not begun. *)
RoleInv ==
    \A h \in Hosts :
        /\ ~up[h] => role[h] = "Free" /\ ~secure[h] /\ ~mailer[h] /\ ~Converting(h)
        /\ role[h] = "Free" => pc[h] = "idle"
        /\ up[h] /\ (role[h] = "Free" \/ pc[h] = "acquire") => Quiet(h)
        /\ pc[h] \in {"stop_watch", "stop_insecure", "stop_mount", "stop_mailer",
                      "stop_release"} => ~Converting(h)
        /\ pc[h] \in {"stop_mount", "stop_mailer", "stop_release"} => ~secure[h]
        /\ pc[h] \in {"stop_mailer", "stop_release"} => ~mounted[h]
        /\ pc[h] = "stop_release" => ~mailer[h]

(* Unless sanlock lost it, a host with a role has the lease, once it got it. *)
LeaseInv ==
    \/ "lost" \in faults
    \/ \A h \in Hosts : role[h] # "Free" /\ pc[h] # "acquire" => lease = h

IInv == Types /\ RoleInv /\ LeaseInv

-----------------------------------------------------------------------------
(* What the proofs need of the assumption on the constants. *)
LEMMA ConstantTypes == NoHost \notin Hosts /\ MaxThreads \in Nat /\ MaxErrors \in Nat
  BY SpmAssumption

(* An upgrade thread that goes on is one less here and one more there. *)
ThreadsKept(h, to) ==
    /\ upgrade' \in [Hosts -> [Stages -> 0..MaxThreads]]
    /\ \A g \in Hosts : upgrade'[g]["none"] + upgrade'[g]["listed"]
           + upgrade'[g]["wait"] + upgrade'[g]["shared"] + upgrade'[g]["convert"]
           = MaxThreads
    /\ \A g \in Hosts \ {h} : upgrade'[g] = upgrade[g]
    /\ to # "convert" => upgrade'[h]["convert"] <= upgrade[h]["convert"]

LEMMA ThreadMoved ==
    ASSUME TypeOK, NEW h \in Hosts, NEW from \in Stages, NEW to \in Stages, from # to,
           Thread(h, from, to)
    PROVE  up[h] /\ ThreadsKept(h, to)
  <1> DEFINE f == upgrade[h]
             g == [f EXCEPT ![from] = @ - 1, ![to] = @ + 1]
  <1>1. f \in [Stages -> 0..MaxThreads] /\ f[from] > 0 /\ MaxThreads \in Nat
    BY ConstantTypes DEF TypeOK, Thread
  <1>2. f["none"] + f["listed"] + f["wait"] + f["shared"] + f["convert"] = MaxThreads
    BY DEF TypeOK
  <1>3. upgrade' = [upgrade EXCEPT ![h] = g]
    BY DEF Thread, TypeOK
  <1>4. /\ g["none"] + g["listed"] + g["wait"] + g["shared"] + g["convert"] = MaxThreads
        /\ g \in [Stages -> Nat]
        /\ to # "convert" => g["convert"] <= f["convert"]
    BY <1>1, <1>2 DEF Stages
  <1>5. g \in [Stages -> 0..MaxThreads]
    BY <1>1, <1>4 DEF Stages
  <1> HIDE DEF g
  <1> QED
    BY <1>3, <1>4, <1>5 DEF TypeOK, Thread, ThreadsKept

(* A killed process has no role, and its lease goes back to sanlock. *)
LEMMA PanicKeepsIInv ==
    ASSUME IInv, NEW h \in Hosts, up[h], panic(h),
           faults \subseteq faults'
    PROVE  IInv'
  <1> USE DEF IInv, panic
  <1>1. NoUpgrade \in [Stages -> 0..MaxThreads]
        /\ NoUpgrade["none"] + NoUpgrade["listed"] + NoUpgrade["wait"]
           + NoUpgrade["shared"] + NoUpgrade["convert"] = MaxThreads
        /\ NoUpgrade["convert"] = 0
    BY ConstantTypes DEF NoUpgrade, Stages
  <1>2. Types'
    BY <1>1, ConstantTypes DEF Types, TypeOK, Steps
  <1>3. RoleInv'
    BY <1>1 DEF Types, TypeOK, RoleInv, Quiet, Converting
  <1>4. LeaseInv'
    BY DEF Types, TypeOK, LeaseInv
  <1> QED
    BY <1>2, <1>3, <1>4

LEMMA InitIInv == Init => IInv
  <1> SUFFICES ASSUME Init PROVE IInv
    OBVIOUS
  <1> USE DEF Init
  <1>1. NoUpgrade \in [Stages -> 0..MaxThreads]
        /\ NoUpgrade["none"] + NoUpgrade["listed"] + NoUpgrade["wait"]
           + NoUpgrade["shared"] + NoUpgrade["convert"] = MaxThreads
        /\ NoUpgrade["convert"] = 0
    BY ConstantTypes DEF NoUpgrade, Stages
  <1>2. TypeOK
    <2>1. errors \in [Hosts -> 0..MaxErrors]
      BY ConstantTypes
    <2> QED
      BY <1>1, <2>1 DEF TypeOK
  <1>3. Types
    <2>1. /\ secure \in [Hosts -> BOOLEAN] /\ watch \in [Hosts -> BOOLEAN]
          /\ mailer \in [Hosts -> BOOLEAN] /\ mounted \in [Hosts -> BOOLEAN]
          /\ todo \in [Hosts -> BOOLEAN] /\ pc \in [Hosts -> Steps]
      BY Zenon DEF Steps
    <2> QED
      BY <1>2, <2>1 DEF Types
  <1>4. RoleInv
    <2> SUFFICES ASSUME NEW h \in Hosts
                 PROVE  up[h] /\ Quiet(h) /\ pc[h] = "idle"
      BY Zenon DEF RoleInv, Quiet
    <2>1. upgrade[h]["convert"] = 0
      BY <1>1, Zenon
    <2>2. ~(upgrade[h]["convert"] > 0)
      BY <2>1
    <2> QED
      BY <2>2, Zenon DEF Quiet, Converting
  <1> QED
    BY <1>3, <1>4 DEF IInv, LeaseInv

(* The steps of startSpm, failures included. *)
LEMMA StartKeepsIInv ==
    ASSUME IInv, NEW h \in Hosts, Start(h)
    PROVE  IInv'
  <1> USE DEF IInv, At, Go, StartFails
  <1>1. CASE startSpm_acquire(h)
    <2> USE <1>1 DEF startSpm_acquire
    <2>1. Types'
      BY ConstantTypes, Zenon DEF Types, TypeOK, Steps
    <2>2. RoleInv'
      BY DEF Types, TypeOK, RoleInv, Quiet, Converting
    <2>3. LeaseInv'
      BY ConstantTypes DEF Types, TypeOK, LeaseInv, RoleInv, Fault
    <2> QED
      BY <2>1, <2>2, <2>3
  <1>2. CASE startSpm_setSpmStatus(h)
    <2> USE <1>2 DEF startSpm_setSpmStatus
    <2>1. Types'
      BY ConstantTypes, Zenon DEF Types, TypeOK, Steps
    <2>2. RoleInv'
      BY DEF Types, TypeOK, RoleInv, Quiet, Converting
    <2>3. LeaseInv'
      BY ConstantTypes DEF Types, TypeOK, LeaseInv, RoleInv, Fault
    <2> QED
      BY <2>1, <2>2, <2>3
  <1>3. CASE startSpm_upgradePool(h)
    <2>1. CASE StartFails(h) /\ UNCHANGED <<todo, upgrade, old>>
      <3> USE <1>3, <2>1 DEF startSpm_upgradePool
      <3>1. Types'
        BY DEF Types, TypeOK, Steps
      <3>2. RoleInv'
        BY DEF Types, TypeOK, RoleInv, Quiet, Converting
      <3>3. LeaseInv'
        BY DEF Types, TypeOK, LeaseInv, RoleInv, Fault
      <3> QED
        BY <3>1, <3>2, <3>3
    <2>2. CASE _upgradePool(h) /\ Go(h, "mount") /\ UNCHANGED faults
      <3>1. up[h] /\ ThreadsKept(h, "listed")
        BY <2>2, ThreadMoved DEF _upgradePool, Types, Stages
      <3> USE <1>3, <2>2, <3>1 DEF startSpm_upgradePool, _upgradePool, ThreadsKept
      <3>2. Types'
        BY Zenon DEF Types, TypeOK, Steps
      <3>3. RoleInv'
        BY DEF Types, TypeOK, RoleInv, Quiet, Converting, Stages
      <3>4. LeaseInv'
        BY DEF Types, TypeOK, LeaseInv, RoleInv, Fault
      <3> QED
        BY <3>2, <3>3, <3>4
    <2> QED
      BY <1>3, <2>1, <2>2, Zenon DEF startSpm_upgradePool
  <1>4. CASE startSpm_mountMaster(h)
    <2> USE <1>4 DEF startSpm_mountMaster
    <2>1. Types'
      BY ConstantTypes, Zenon DEF Types, TypeOK, Steps
    <2>2. RoleInv'
      BY DEF Types, TypeOK, RoleInv, Quiet, Converting
    <2>3. LeaseInv'
      BY ConstantTypes DEF Types, TypeOK, LeaseInv, RoleInv, Fault
    <2> QED
      BY <2>1, <2>2, <2>3
  <1>5. CASE startSpm_loadDumpedTasks(h)
    <2> USE <1>5 DEF startSpm_loadDumpedTasks
    <2>1. Types'
      BY ConstantTypes, Zenon DEF Types, TypeOK, Steps
    <2>2. RoleInv'
      BY DEF Types, TypeOK, RoleInv, Quiet, Converting
    <2>3. LeaseInv'
      BY ConstantTypes DEF Types, TypeOK, LeaseInv, RoleInv, Fault
    <2> QED
      BY <2>1, <2>2, <2>3
  <1>6. CASE _start_watching_spm_lease(h)
    <2>1. CASE panic(h) /\ Fault("crash")
      BY <1>6, <2>1, PanicKeepsIInv DEF _start_watching_spm_lease, Fault
    <2>2. CASE ~(panic(h) /\ Fault("crash"))
      <3>1. /\ errors' = [errors EXCEPT ![h] = 0] /\ watch' = [watch EXCEPT ![h] = h \in Watched]
            /\ pc' = [pc EXCEPT ![h] = "mailer"]
            /\ UNCHANGED <<up, role, secure, mailer, mounted, todo, upgrade, lease,
                           old, faults>>
        BY <1>6, <2>2 DEF _start_watching_spm_lease
      <3>2. Types'
        BY <3>1, ConstantTypes DEF Types, TypeOK, Steps
      <3>3. RoleInv'
        BY <1>6, <3>1 DEF Types, RoleInv, Quiet, Converting, _start_watching_spm_lease
      <3>4. LeaseInv'
        BY <1>6, <3>1 DEF Types, TypeOK, LeaseInv, RoleInv, _start_watching_spm_lease, Fault
      <3> QED
        BY <3>2, <3>3, <3>4
    <2> QED
      BY <2>1, <2>2
  <1>7. CASE startSpm_mailer(h)
    <2> USE <1>7 DEF startSpm_mailer
    <2>1. Types'
      BY ConstantTypes, Zenon DEF Types, TypeOK, Steps
    <2>2. RoleInv'
      BY DEF Types, TypeOK, RoleInv, Quiet, Converting
    <2>3. LeaseInv'
      BY ConstantTypes DEF Types, TypeOK, LeaseInv, RoleInv, Fault
    <2> QED
      BY <2>1, <2>2, <2>3
  <1>8. CASE startSpm_recoverDumpedTasks(h)
    <2> USE <1>8 DEF startSpm_recoverDumpedTasks
    <2>1. Types'
      BY ConstantTypes, Zenon DEF Types, TypeOK, Steps
    <2>2. RoleInv'
      BY DEF Types, TypeOK, RoleInv, Quiet, Converting
    <2>3. LeaseInv'
      BY ConstantTypes DEF Types, TypeOK, LeaseInv, RoleInv, Fault
    <2> QED
      BY <2>1, <2>2, <2>3
  <1> QED
    BY <1>1, <1>2, <1>3, <1>4, <1>5, <1>6, <1>7, <1>8 DEF Start

(* The steps of stopSpm.  What the last one leaves has nothing of the SPM's. *)
LEMMA StopKeepsIInv ==
    ASSUME IInv, NEW h \in Hosts, Stop(h)
    PROVE  IInv'
  <1> USE DEF IInv, At, Go, StartFails
  <1>1. CASE _cancel_upgrade(h)
    <2> USE <1>1 DEF _cancel_upgrade
    <2>1. Types'
      BY ConstantTypes DEF Types, TypeOK, Steps
    <2>2. upgrade[h]["convert"] = 0
      BY DEF UpgradeLockFree, Types, TypeOK, Stages
    <2>3. RoleInv'
      BY <2>2 DEF Types, TypeOK, RoleInv, Quiet, Converting
    <2>4. LeaseInv'
      BY ConstantTypes DEF Types, TypeOK, LeaseInv, RoleInv, Fault
    <2> QED
      BY <2>1, <2>3, <2>4
  <1>2. CASE _stop_watching_spm_lease(h)
    <2> USE <1>2 DEF _stop_watching_spm_lease
    <2>1. Types'
      BY ConstantTypes, Zenon DEF Types, TypeOK, Steps
    <2>2. RoleInv'
      BY DEF Types, TypeOK, RoleInv, Quiet, Converting
    <2>3. LeaseInv'
      BY ConstantTypes DEF Types, TypeOK, LeaseInv, RoleInv, Fault
    <2> QED
      BY <2>1, <2>2, <2>3
  <1>3. CASE stopSpm_set_insecure(h)
    <2> USE <1>3 DEF stopSpm_set_insecure
    <2>1. Types'
      BY ConstantTypes DEF Types, TypeOK, Steps
    <2>2. RoleInv'
      BY DEF Types, TypeOK, RoleInv, Quiet, Converting
    <2>3. LeaseInv'
      BY ConstantTypes DEF Types, TypeOK, LeaseInv, RoleInv, Fault
    <2> QED
      BY <2>1, <2>2, <2>3
  <1>4. CASE cleanupMasterMount(h)
    <2>1. CASE Fault("crash") /\ panic(h)
      BY <1>4, <2>1, PanicKeepsIInv DEF cleanupMasterMount, Fault
    <2>2. CASE ~(Fault("crash") /\ panic(h))
      <3> USE <1>4, <2>2 DEF cleanupMasterMount
      <3>1. Types'
        BY ConstantTypes, Zenon DEF Types, TypeOK, Steps
      <3>2. RoleInv'
        BY DEF Types, TypeOK, RoleInv, Quiet, Converting
      <3>3. LeaseInv'
        BY DEF Types, TypeOK, LeaseInv, RoleInv, Fault
      <3> QED
        BY <3>1, <3>2, <3>3
    <2> QED
      BY <1>4, <2>1, <2>2 DEF cleanupMasterMount
  <1>5. CASE stopSpm_mailer(h)
    <2>1. CASE Fault("crash") /\ panic(h)
      BY <1>5, <2>1, PanicKeepsIInv DEF stopSpm_mailer, Fault
    <2>2. CASE ~(Fault("crash") /\ panic(h))
      <3> USE <1>5, <2>2 DEF stopSpm_mailer
      <3>1. Types'
        BY ConstantTypes, Zenon DEF Types, TypeOK, Steps
      <3>2. RoleInv'
        BY DEF Types, TypeOK, RoleInv, Quiet, Converting
      <3>3. LeaseInv'
        BY DEF Types, TypeOK, LeaseInv, RoleInv, Fault
      <3> QED
        BY <3>1, <3>2, <3>3
    <2> QED
      BY <1>5, <2>1, <2>2 DEF stopSpm_mailer
  <1>6. CASE stopSpm_releaseClusterLock(h)
    <2>1. CASE lease # h
      BY <1>6, <2>1, PanicKeepsIInv DEF stopSpm_releaseClusterLock
    <2>2. CASE lease = h
      <3> USE <1>6, <2>2 DEF stopSpm_releaseClusterLock
      <3>1. Types'
        BY ConstantTypes, Zenon DEF Types, TypeOK, Steps
      <3>2. RoleInv'
        BY DEF Types, TypeOK, RoleInv, Quiet, Converting
      <3>3. LeaseInv'
        <4>1. /\ role'[h] = "Free" /\ faults' = faults
              /\ \A g \in Hosts \ {h} : role'[g] = role[g] /\ pc'[g] = pc[g]
          BY Zenon DEF Types, TypeOK
        <4>2. \/ "lost" \in faults
              \/ \A g \in Hosts \ {h} : role[g] = "Free" \/ pc[g] = "acquire"
          BY Zenon DEF LeaseInv
        <4> QED
          BY <4>1, <4>2, Zenon DEF LeaseInv
      <3> QED
        BY <3>1, <3>2, <3>3
    <2> QED
      BY <1>6, <2>1, <2>2 DEF stopSpm_releaseClusterLock
  <1> QED
    BY <1>1, <1>2, <1>3, <1>4, <1>5, <1>6 DEF Stop

(* The upgrade threads: a conversion begins only while the domain is listed. *)
LEMMA UpgradeKeepsIInv ==
    ASSUME IInv, NEW h \in Hosts, Upgrade(h)
    PROVE  IInv'
  <1> USE DEF IInv, At, Go, StartFails
  <1>1. CASE upgrade_isListed(h)
    <2>1. PICK to \in {"wait", "none"} : Thread(h, "listed", to)
      BY <1>1 DEF upgrade_isListed, Stages
    <2>2. up[h] /\ ThreadsKept(h, to)
      BY <2>1, ThreadMoved DEF Types, ThreadsKept, Stages
    <2> USE <1>1, <2>1, <2>2 DEF upgrade_isListed, ThreadsKept
    <2>3. Types'
      BY DEF Types, TypeOK
    <2>4. \A g \in Hosts : Converting(g)' => Converting(g)
      BY DEF Types, TypeOK, Converting, Stages
    <2>5. RoleInv'
      BY <2>4 DEF RoleInv, Quiet
    <2>6. LeaseInv'
      BY DEF Types, TypeOK, LeaseInv, RoleInv
    <2> QED
      BY <2>3, <2>5, <2>6
  <1>2. CASE upgrade_acquireShared(h)
    <2>1. Thread(h, "wait", "shared")
      BY <1>2 DEF upgrade_acquireShared
    <2>2. up[h] /\ ThreadsKept(h, "shared")
      BY <2>1, ThreadMoved DEF Types, Stages
    <2> USE <1>2, <2>1, <2>2 DEF upgrade_acquireShared, ThreadsKept
    <2>3. Types'
      BY DEF Types, TypeOK
    <2>4. \A g \in Hosts : Converting(g)' => Converting(g)
      BY DEF Types, TypeOK, Converting, Stages
    <2>5. RoleInv'
      BY <2>4 DEF RoleInv, Quiet
    <2>6. LeaseInv'
      BY DEF Types, TypeOK, LeaseInv, RoleInv
    <2> QED
      BY <2>3, <2>5, <2>6
  <1>3. CASE upgrade_begin(h)
    <2>1. PICK to \in {"convert", "none"} :
              Thread(h, "shared", to) /\ (to = "convert" => todo[h])
      BY <1>3 DEF upgrade_begin
    <2>2. up[h] /\ ThreadsKept(h, to)
      BY <2>1, ThreadMoved DEF Types, Stages
    <2>3. todo' \in [Hosts -> BOOLEAN] /\ \A g \in Hosts : todo'[g] => todo[g]
      BY <1>3, Zenon DEF upgrade_begin, Types
    <2>4. \A g \in Hosts : Converting(g)' => Converting(g)
      <3>1. ASSUME NEW g \in Hosts, g # h PROVE Converting(g)' => Converting(g)
        BY <2>2, <2>3, <3>1 DEF Converting, ThreadsKept
      <3>2. CASE to = "convert"
        BY <2>1, <3>1, <3>2 DEF Converting
      <3>3. CASE to = "none"
        BY <2>2, <2>3, <3>1, <3>3 DEF Types, TypeOK, Converting, ThreadsKept, Stages
      <3> QED
        BY <2>1, <3>2, <3>3
    <2>5. Types'
      BY <1>3, <2>2, <2>3 DEF Types, TypeOK, upgrade_begin, ThreadsKept
    <2>6. RoleInv'
      BY <1>3, <2>4 DEF RoleInv, Quiet, upgrade_begin
    <2>7. LeaseInv'
      BY <1>3 DEF LeaseInv, upgrade_begin
    <2> QED
      BY <2>5, <2>6, <2>7
  <1>4. CASE upgrade_end(h)
    <2>1. Thread(h, "convert", "none")
      BY <1>4 DEF upgrade_end
    <2>2. up[h] /\ ThreadsKept(h, "none")
      BY <2>1, ThreadMoved DEF Types, Stages
    <2> USE <1>4, <2>1, <2>2 DEF upgrade_end, ThreadsKept
    <2>3. Types'
      BY Zenon DEF Types, TypeOK
    <2>4. \A g \in Hosts : Converting(g)' => Converting(g)
      BY DEF Types, TypeOK, Converting, Stages
    <2>5. RoleInv'
      BY <2>4 DEF RoleInv, Quiet
    <2>6. LeaseInv'
      BY DEF Types, TypeOK, LeaseInv, RoleInv, Fault
    <2> QED
      BY <2>3, <2>5, <2>6
  <1> QED
    BY <1>1, <1>2, <1>3, <1>4 DEF Upgrade

(* The watchdog panics, or changes its own count only. *)
LEMMA WatchdogKeepsIInv ==
    ASSUME IInv, NEW h \in Hosts, Watchdog_check(h)
    PROVE  IInv'
  <1>1. CASE panic(h)
    BY <1>1, PanicKeepsIInv DEF Watchdog_check, Fault
  <1>2. CASE ~panic(h)
    <2> USE <1>2 DEF IInv, Watchdog_check
    <2>1. Types'
      BY ConstantTypes DEF Types, TypeOK
    <2>2. RoleInv'
      BY DEF RoleInv, Quiet, Converting
    <2>3. LeaseInv'
      BY DEF LeaseInv, Fault
    <2> QED
      BY <2>1, <2>2, <2>3
  <1> QED
    BY <1>1, <1>2

LEMMA NextIInv == IInv /\ [Next]_vars => IInv'
  <1> SUFFICES ASSUME IInv, [Next]_vars PROVE IInv'
    OBVIOUS
  <1>1. ASSUME NEW h \in Hosts, startSpm_contend(h) \/ stopSpm(h) PROVE IInv'
    <2> USE <1>1 DEF IInv, startSpm_contend, stopSpm, At, Go
    <2>1. Types'
      BY ZenonT(30) DEF Types, TypeOK, Steps
    <2>2. RoleInv'
      BY DEF Types, TypeOK, RoleInv, Quiet, Converting
    <2>3. LeaseInv'
      BY DEF Types, TypeOK, LeaseInv, RoleInv
    <2> QED
      BY <2>1, <2>2, <2>3
  <1>2. ASSUME NEW h \in Hosts, UpgradeEvent(h) PROVE IInv'
    <2>1. up[h] /\ ThreadsKept(h, "listed")
      BY <1>2, ThreadMoved DEF IInv, Types, UpgradeEvent, Stages
    <2> USE <1>2, <2>1 DEF IInv, UpgradeEvent, ThreadsKept
    <2>2. Types'
      BY DEF Types, TypeOK
    <2>3. \A g \in Hosts : Converting(g)' => Converting(g)
      BY DEF Types, TypeOK, Converting, Stages
    <2>4. RoleInv'
      BY <2>3 DEF RoleInv, Quiet
    <2>5. LeaseInv'
      BY DEF LeaseInv
    <2> QED
      BY <2>2, <2>4, <2>5
  <1>3. ASSUME NEW h \in Hosts, LeaseLost(h) PROVE IInv'
    BY <1>3 DEF IInv, LeaseLost, Fault, Types, TypeOK, RoleInv, Quiet, Converting, LeaseInv
  <1>4. ASSUME NEW h \in Hosts, Crash(h) PROVE IInv'
    BY <1>4, PanicKeepsIInv DEF Crash, Fault
  <1>5. ASSUME NEW h \in Hosts, Restart(h) PROVE IInv'
    <2> USE <1>5 DEF IInv, Restart
    <2>1. Types'
      BY DEF Types, TypeOK
    <2>2. RoleInv'
      BY DEF Types, TypeOK, RoleInv, Quiet, Converting
    <2>3. LeaseInv'
      BY DEF LeaseInv
    <2> QED
      BY <2>1, <2>2, <2>3
  <1>7. CASE UNCHANGED vars
    BY <1>7 DEF vars, IInv, Types, TypeOK, RoleInv, Quiet, Converting, LeaseInv
  <1>6. ASSUME NEW h \in Hosts, upgradeStoragePool(h) PROVE IInv'
    <2>1. up[h] /\ ThreadsKept(h, "listed")
      BY <1>6, ThreadMoved DEF IInv, Types, upgradeStoragePool, _upgradePool, Stages
    <2> USE <1>6, <2>1 DEF IInv, upgradeStoragePool, _upgradePool, At, ThreadsKept
    <2>2. Types'
      BY Zenon DEF Types, TypeOK
    <2>3. RoleInv'
      BY DEF Types, TypeOK, RoleInv, Quiet, Converting, Stages
    <2>4. LeaseInv'
      BY DEF LeaseInv
    <2> QED
      BY <2>2, <2>3, <2>4
  <1> QED
    BY <1>1, <1>2, <1>3, <1>4, <1>5, <1>6, <1>7, StartKeepsIInv, StopKeepsIInv,
       UpgradeKeepsIInv, WatchdogKeepsIInv DEF Next

LEMMA Invariance == Spec => []IInv
  BY InitIInv, NextIInv, PTL DEF Spec

-----------------------------------------------------------------------------
(* However startSpm, stopSpm, the upgrade threads, the watchdog, crashes   *)
(* and restarts of any number of hosts interleave, a live host that is     *)
(* secured, serves the mailbox, has the master mounted or converts a       *)
(* domain holds the lease, unless sanlock lost it.                         *)
THEOREM LeaseHolderActs == Spec => []OnlyTheLeaseHolderActs
  <1>1. IInv => OnlyTheLeaseHolderActs
    BY DEF IInv, Types, TypeOK, RoleInv, LeaseInv, Quiet, Converting,
           OnlyTheLeaseHolderActs, ActsAsSpm
  <1> QED
    BY <1>1, Invariance, PTL

(* Two live hosts that both act as SPM have lost the lease on the way. *)
THEOREM NoTwoSpms ==
    Spec => [](\A g, h \in Hosts :
                   ActsAsSpm(g) /\ ActsAsSpm(h) => g = h \/ "lost" \in faults)
  <1>1. OnlyTheLeaseHolderActs =>
            \A g, h \in Hosts :
                ActsAsSpm(g) /\ ActsAsSpm(h) => g = h \/ "lost" \in faults
    BY DEF OnlyTheLeaseHolderActs
  <1> QED
    BY <1>1, LeaseHolderActs, PTL
=============================================================================
