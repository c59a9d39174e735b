--------------------------------- MODULE Spm ---------------------------------
(***************************************************************************)
(* The storage pool manager role (sp.py, securable.py, spwd.py).  A host   *)
(* becomes SPM in startSpm and gives the role up in stopSpm, both long     *)
(* sequences of steps under StoragePool.lock, every one of which may fail; *)
(* upgrade threads and the lease watchdog run beside them.  What keeps two *)
(* hosts apart is the cluster lease of the master domain, which sanlock    *)
(* (external) grants to one host at a time, takes back when the process    *)
(* dies, and may lose.                                                     *)
(*                                                                         *)
(* One pool, and one regular domain that needs an upgrade.  A panic kills  *)
(* the process; the mounts of the host stay until vdsm starts again.       *)
(***************************************************************************)
EXTENDS Naturals

CONSTANTS
    Hosts,
    Watched,    \* the hosts with watchdog_enable, of a master domain that supports inquire
    MaxThreads, \* upgrade threads there may be on a host at a time
    MaxErrors,  \* Watchdog._max_errors
    Faults      \* the sets of faults that may happen together

NoHost == "nobody"
ASSUME SpmAssumption ==
    NoHost \notin Hosts /\ Watched \subseteq Hosts /\ {MaxThreads, MaxErrors} \subseteq Nat

VARIABLES
    up,       \* the vdsm process of each host is alive
    role,     \* StoragePool.spmRole
    secure,   \* StoragePool._secured
    watch,    \* StoragePool._watchdog is running
    errors,   \* Watchdog._errors
    mailer,   \* StoragePool.spmMailer is running
    mounted,  \* the master file system is mounted on the host
    todo,     \* the regular domain is in StoragePool._domainsToUpgrade
    pc,       \* the thread that holds StoragePool.lock
    upgrade,  \* how many upgrade threads of each host are where; "none" may yet start
    lease,    \* the host that sanlock lets hold the lease of the master domain
    old,      \* the regular domain has an older version than the master domain
    faults

vars == <<up, role, secure, watch, errors, mailer, mounted, todo, pc, upgrade,
          lease, old, faults>>

Stages == {"none", "listed", "wait", "shared", "convert"}
NoUpgrade == [s \in Stages |-> IF s = "none" THEN MaxThreads ELSE 0]

Fault(kind) ==
    /\ kind \notin faults /\ \E together \in Faults : faults \union {kind} \subseteq together
    /\ faults' = faults \union {kind}

Init ==
    /\ up = [h \in Hosts |-> TRUE] /\ role = [h \in Hosts |-> "Free"]
    /\ secure = [h \in Hosts |-> FALSE] /\ watch = [h \in Hosts |-> FALSE]
    /\ errors = [h \in Hosts |-> 0] /\ mailer = [h \in Hosts |-> FALSE]
    /\ mounted = [h \in Hosts |-> FALSE] /\ todo = [h \in Hosts |-> FALSE]
    /\ pc = [h \in Hosts |-> "idle"]
    /\ upgrade = [h \in Hosts |-> NoUpgrade]
    /\ lease = NoHost /\ old = TRUE /\ faults = {}

\* The process of h is killed: what it had in memory is gone, and sanlock
\* releases its lease.
panic(h) ==
    /\ up' = [up EXCEPT ![h] = FALSE] /\ role' = [role EXCEPT ![h] = "Free"]
    /\ secure' = [secure EXCEPT ![h] = FALSE] /\ watch' = [watch EXCEPT ![h] = FALSE]
    /\ errors' = [errors EXCEPT ![h] = 0] /\ mailer' = [mailer EXCEPT ![h] = FALSE]
    /\ todo' = [todo EXCEPT ![h] = FALSE] /\ pc' = [pc EXCEPT ![h] = "idle"]
    /\ upgrade' = [upgrade EXCEPT ![h] = NoUpgrade]
    /\ lease' = IF lease = h THEN NoHost ELSE lease
    /\ UNCHANGED <<mounted, old>>

At(h, step) == up[h] /\ pc[h] = step
Go(h, step) == pc' = [pc EXCEPT ![h] = step]

\* An exception after the lease was acquired: startSpm calls stopSpm(force=True)
\* with the security override, still holding the lock.
StartFails(h) == Fault("start") /\ Go(h, "stop_cancel")

\* The resource "upgrade_" + spUUID: exclusive only when no thread shares it.
UpgradeLockFree(h) == upgrade[h]["shared"] + upgrade[h]["convert"] = 0

\* One of the upgrade threads of h goes on to another stage.
Thread(h, from, to) ==
    /\ up[h] /\ upgrade[h][from] > 0
    /\ upgrade' = [upgrade EXCEPT ![h][from] = @ - 1, ![h][to] = @ + 1]

-----------------------------------------------------------------------------
(* startSpm.                                                               *)

\* hsm.spmStart validates under the exclusive lock of the pool that the role is
\* free, and startSpm contends.
startSpm_contend(h) ==
    /\ At(h, "idle") /\ role[h] = "Free"
    /\ role' = [role EXCEPT ![h] = "Contend"] /\ Go(h, "acquire")
    /\ UNCHANGED <<up, secure, watch, errors, mailer, mounted, todo, upgrade, lease, old, faults>>

startSpm_acquire(h) ==
    /\ At(h, "acquire")
    /\ \/ /\ lease = NoHost
          /\ lease' = h /\ Go(h, "status") /\ UNCHANGED <<role, faults>>
       \/ /\ IF lease = NoHost THEN Fault("start") ELSE UNCHANGED faults
          /\ role' = [role EXCEPT ![h] = "Free"] /\ Go(h, "idle") /\ UNCHANGED lease
    /\ UNCHANGED <<up, secure, watch, errors, mailer, mounted, todo, upgrade, old>>

startSpm_setSpmStatus(h) ==
    /\ At(h, "status")
    /\ StartFails(h) \/ (Go(h, "upgrade") /\ UNCHANGED faults)
    /\ UNCHANGED <<up, role, secure, watch, errors, mailer, mounted, todo, upgrade, lease, old>>

\* Inside the exclusive lock of the upgrade.  When the master domain is converted
\* the regular domain is old again.  The registered callback lets any later state
\* change start another thread.
_upgradePool(h) ==
    /\ UpgradeLockFree(h)
    /\ old' \in {old, TRUE}
    /\ todo' = [todo EXCEPT ![h] = TRUE]
    /\ Thread(h, "none", "listed")

\* Waits for the threads of an upgrade that began before.
startSpm_upgradePool(h) ==
    /\ At(h, "upgrade")
    /\ \/ StartFails(h) /\ UpgradeLockFree(h) /\ UNCHANGED <<todo, upgrade, old>>
       \/ _upgradePool(h) /\ Go(h, "mount") /\ UNCHANGED faults
    /\ UNCHANGED <<up, role, secure, watch, errors, mailer, mounted, lease>>

\* hsm.upgradeStoragePool has the exclusive lock of the pool, so nobody is in
\* startSpm or stopSpm.  It does not wait: with threads of an upgrade at work it
\* raises PoolUpgradeInProgress, which changes nothing.
upgradeStoragePool(h) ==
    /\ At(h, "idle") /\ secure[h] /\ _upgradePool(h)
    /\ UNCHANGED <<up, role, secure, watch, errors, mailer, mounted, pc, lease, faults>>

startSpm_mountMaster(h) ==
    /\ At(h, "mount")
    /\ \/ StartFails(h) /\ UNCHANGED mounted
       \/ mounted' = [mounted EXCEPT ![h] = TRUE] /\ Go(h, "load") /\ UNCHANGED faults
    /\ UNCHANGED <<up, role, secure, watch, errors, mailer, todo, upgrade, lease, old>>

startSpm_loadDumpedTasks(h) ==
    /\ At(h, "load")
    /\ \/ StartFails(h) /\ UNCHANGED <<role, secure>>
       \/ /\ role' = [role EXCEPT ![h] = "SPM"] /\ secure' = [secure EXCEPT ![h] = TRUE]
          /\ Go(h, "watch") /\ UNCHANGED faults
    /\ UNCHANGED <<up, watch, errors, mailer, mounted, todo, upgrade, lease, old>>

\* Without the option, or the domain's support, nobody watches the lease.  The
\* watchdog of an earlier startSpm is always gone: stopSpm ended it, or raised
\* before there was one.
_start_watching_spm_lease(h) ==
    /\ At(h, "watch")
    /\ \/ h \in Watched /\ Fault("crash") /\ panic(h)
       \/ /\ watch' = [watch EXCEPT ![h] = h \in Watched]
          /\ errors' = [errors EXCEPT ![h] = 0]
          /\ Go(h, "mailer")
          /\ UNCHANGED <<up, role, secure, mailer, mounted, todo, upgrade, lease, old, faults>>

startSpm_mailer(h) ==
    /\ At(h, "mailer")
    /\ \/ StartFails(h) /\ UNCHANGED mailer
       \/ mailer' = [mailer EXCEPT ![h] = TRUE] /\ Go(h, "recover") /\ UNCHANGED faults
    /\ UNCHANGED <<up, role, secure, watch, errors, mounted, todo, upgrade, lease, old>>

startSpm_recoverDumpedTasks(h) ==
    /\ At(h, "recover")
    /\ StartFails(h) \/ (Go(h, "idle") /\ UNCHANGED faults)
    /\ UNCHANGED <<up, role, secure, watch, errors, mailer, mounted, todo, upgrade, lease, old>>

-----------------------------------------------------------------------------
(* stopSpm, from hsm.spmStop (or a forced detach): a secured method.       *)

stopSpm(h) ==
    /\ At(h, "idle") /\ secure[h] /\ role[h] # "Free" /\ Go(h, "stop_cancel")
    /\ UNCHANGED <<up, role, secure, watch, errors, mailer, mounted, todo, upgrade, lease, old, faults>>

\* Mutant: the upgrade threads are not waited for.
_cancel_upgrade_nowait(h) ==
    /\ At(h, "stop_cancel")
    /\ todo' = [todo EXCEPT ![h] = FALSE] /\ Go(h, "stop_watch")
    /\ UNCHANGED <<up, role, secure, watch, errors, mailer, mounted, upgrade, lease, old, faults>>

_cancel_upgrade(h) ==
    /\ At(h, "stop_cancel") /\ UpgradeLockFree(h)
    /\ todo' = [todo EXCEPT ![h] = FALSE] /\ Go(h, "stop_watch")
    /\ UNCHANGED <<up, role, secure, watch, errors, mailer, mounted, upgrade, lease, old, faults>>

\* Secured as well, and called without the override: when startSpm failed before
\* _set_secure it raises SecureError, and stopSpm ends here.
_stop_watching_spm_lease(h) ==
    /\ At(h, "stop_watch")
    /\ IF secure[h]
         THEN Go(h, "stop_insecure") /\ watch' = [watch EXCEPT ![h] = FALSE]
         ELSE Go(h, "idle") /\ UNCHANGED watch
    /\ UNCHANGED <<up, role, secure, errors, mailer, mounted, todo, upgrade, lease, old, faults>>

stopSpm_set_insecure(h) ==
    /\ At(h, "stop_insecure")
    /\ secure' = [secure EXCEPT ![h] = FALSE] /\ Go(h, "stop_mount")
    /\ UNCHANGED <<up, role, watch, errors, mailer, mounted, todo, upgrade, lease, old, faults>>

cleanupMasterMount(h) ==
    /\ At(h, "stop_mount")
    /\ \/ Fault("crash") /\ panic(h)
       \/ /\ mounted' = [mounted EXCEPT ![h] = FALSE] /\ Go(h, "stop_mailer")
          /\ UNCHANGED <<up, role, secure, watch, errors, mailer, todo, upgrade, lease, old, faults>>

stopSpm_mailer(h) ==
    /\ At(h, "stop_mailer")
    /\ \/ mailer[h] /\ Fault("crash") /\ panic(h)
       \/ /\ mailer' = [mailer EXCEPT ![h] = FALSE] /\ Go(h, "stop_release")
          /\ UNCHANGED <<up, role, secure, watch, errors, mounted, todo, upgrade, lease, old, faults>>

\* Writing the free SPM status may fail, which is ignored; releasing a lease that
\* sanlock no longer knows panics.
stopSpm_releaseClusterLock(h) ==
    /\ At(h, "stop_release")
    /\ IF lease = h
         THEN /\ lease' = NoHost /\ role' = [role EXCEPT ![h] = "Free"] /\ Go(h, "idle")
              /\ UNCHANGED <<up, secure, watch, errors, mailer, mounted, todo, upgrade, old>>
         ELSE panic(h)
    /\ UNCHANGED faults

-----------------------------------------------------------------------------
(* _upgradePoolDomain, in its own threads: of _upgradePool, with the        *)
(* security override, or of the domain monitor's state change event.       *)

\* The event, while the callback is registered, reaches a secured method.
UpgradeEvent(h) ==
    /\ todo[h] /\ secure[h] /\ Thread(h, "none", "listed")
    /\ UNCHANGED <<up, role, secure, watch, errors, mailer, mounted, todo, pc, lease, old, faults>>

upgrade_isListed(h) ==
    /\ Thread(h, "listed", IF todo[h] THEN "wait" ELSE "none")
    /\ UNCHANGED <<up, role, secure, watch, errors, mailer, mounted, todo, pc, lease, old, faults>>

\* Neither _upgradePool nor _cancel_upgrade holds the lock beyond its own step.
upgrade_acquireShared(h) ==
    /\ Thread(h, "wait", "shared")
    /\ UNCHANGED <<up, role, secure, watch, errors, mailer, mounted, todo, pc, lease, old, faults>>

\* Mutant: the conversion takes StoragePool.lock as well.
upgrade_begin_locked(h) ==
    /\ upgrade[h]["convert"] = 0 /\ pc[h] = "idle"
    /\ Thread(h, "shared", IF old /\ todo[h] THEN "convert" ELSE "none")
    /\ UNCHANGED <<up, role, secure, watch, errors, mailer, mounted, todo, pc, lease, old, faults>>

\* Under the exclusive lock of the domain the list is read again, if the domain is
\* old; when it was removed the thread returns.
upgrade_begin(h) ==
    /\ upgrade[h]["convert"] = 0
    /\ IF old
         THEN /\ Thread(h, "shared", IF todo[h] THEN "convert" ELSE "none")
              /\ UNCHANGED todo
         ELSE Thread(h, "shared", "none") /\ todo' = [todo EXCEPT ![h] = FALSE]
    /\ UNCHANGED <<up, role, secure, watch, errors, mailer, mounted, pc, lease, old, faults>>

upgrade_end(h) ==
    /\ Thread(h, "convert", "none")
    /\ \/ Fault("convert") /\ UNCHANGED <<todo, old>>
       \/ old' = FALSE /\ todo' = [todo EXCEPT ![h] = FALSE] /\ UNCHANGED faults
    /\ UNCHANGED <<up, role, secure, watch, errors, mailer, mounted, pc, lease>>

Upgrade(h) ==
    upgrade_isListed(h) \/ upgrade_acquireShared(h) \/ upgrade_begin(h)
    \/ upgrade_end(h)

-----------------------------------------------------------------------------
(* The watchdog, sanlock, and the host.                                    *)

\* Mutant: a lease that is gone is only an inquiry that succeeded.
Watchdog_check_blind(h) ==
    /\ up[h] /\ watch[h]
    /\ errors' = [errors EXCEPT ![h] = 0]
    /\ UNCHANGED <<up, role, secure, watch, mailer, mounted, todo, pc, upgrade, lease, old, faults>>

\* A failed inquiry that is temporary is tolerated up to _max_errors times in a row.
Watchdog_check(h) ==
    /\ up[h] /\ watch[h]
    /\ \/ /\ lease = h /\ errors' = [errors EXCEPT ![h] = 0]
          /\ UNCHANGED <<up, role, secure, watch, mailer, mounted, todo, pc, upgrade, lease, old, faults>>
       \/ lease # h /\ panic(h) /\ UNCHANGED faults
       \/ /\ errors[h] < MaxErrors
          /\ IF errors[h] > 0 THEN UNCHANGED faults ELSE Fault("inquire")
          /\ errors' = [errors EXCEPT ![h] = @ + 1]
          /\ UNCHANGED <<up, role, secure, watch, mailer, mounted, todo, pc, upgrade, lease, old>>
       \/ /\ IF errors[h] > 0 /\ errors[h] = MaxErrors THEN UNCHANGED faults ELSE Fault("inquire")
          /\ panic(h)

\* sanlock closes the connection, and with it takes back the lease.
LeaseLost(h) ==
    /\ lease = h /\ Fault("lost") /\ lease' = NoHost
    /\ UNCHANGED <<up, role, secure, watch, errors, mailer, mounted, todo, pc, upgrade, old>>

Crash(h) == up[h] /\ Fault("crash") /\ panic(h)

\* A new vdsm process first unmounts a master file system it finds mounted.
Restart(h) ==
    /\ ~up[h]
    /\ up' = [up EXCEPT ![h] = TRUE] /\ mounted' = [mounted EXCEPT ![h] = FALSE]
    /\ UNCHANGED <<role, secure, watch, errors, mailer, todo, pc, upgrade, lease, old, faults>>

Start(h) ==
    \/ startSpm_acquire(h) \/ startSpm_setSpmStatus(h) \/ startSpm_upgradePool(h)
    \/ startSpm_mountMaster(h) \/ startSpm_loadDumpedTasks(h)
    \/ _start_watching_spm_lease(h) \/ startSpm_mailer(h) \/ startSpm_recoverDumpedTasks(h)
Stop(h) ==
    \/ _cancel_upgrade(h) \/ _stop_watching_spm_lease(h) \/ stopSpm_set_insecure(h)
    \/ cleanupMasterMount(h) \/ stopSpm_mailer(h) \/ stopSpm_releaseClusterLock(h)

Next ==
    \/ \E h \in Hosts :
        \/ startSpm_contend(h) \/ Start(h) \/ stopSpm(h) \/ Stop(h)
        \/ upgradeStoragePool(h) \/ UpgradeEvent(h) \/ Upgrade(h)
        \/ Watchdog_check(h) \/ LeaseLost(h) \/ Crash(h) \/ Restart(h)

\* Threads of a live process go on.  A start that waits for upgrade threads gets
\* the lock, since the resource manager queues it before later readers.
Fairness ==
    \A h \in Hosts :
        /\ SF_vars(Start(h) \/ Stop(h))
        /\ WF_vars(Upgrade(h))
        /\ WF_vars(Watchdog_check(h))

Spec == Init /\ [][Next]_vars /\ Fairness

-----------------------------------------------------------------------------
(* Properties.                                                             *)

\* The watchdog tolerates at most _max_errors failed inquiries in a row, and no
\* upgrade thread is lost or counted twice.
TypeOK ==
    /\ \A h \in Hosts : upgrade[h]["none"] + upgrade[h]["listed"] + upgrade[h]["wait"]
           + upgrade[h]["shared"] + upgrade[h]["convert"] = MaxThreads
    /\ up \in [Hosts -> BOOLEAN] /\ role \in [Hosts -> {"Free", "Contend", "SPM"}]
    /\ errors \in [Hosts -> 0..MaxErrors] /\ lease \in Hosts \union {NoHost}
    /\ upgrade \in [Hosts -> [Stages -> 0..MaxThreads]]

\* What h does that only the SPM may do.
ActsAsSpm(h) ==
    up[h] /\ (secure[h] \/ mailer[h] \/ mounted[h]
              \/ upgrade[h]["convert"] > 0)

\* However startSpm, stopSpm, a failure in the middle of either and the upgrade
\* threads interleave, a live host that runs SPM operations, serves the mailbox,
\* has the master file system mounted or converts a domain holds the lease,
\* unless sanlock lost it.  So no two hosts do any of this together.  The types hold.
OnlyTheLeaseHolderActs ==
    TypeOK /\ \A h \in Hosts : ActsAsSpm(h) => lease = h \/ "lost" \in faults

\* startSpm failed before _set_secure, and stopSpm raised SecureError: the role is
\* neither taken nor given up, and the master file system may stay mounted.
HalfStarted(h) == pc[h] = "idle" /\ role[h] = "Contend"

\* A host that acts as SPM after sanlock lost its lease, and whose lease is watched,
\* does not do so for ever, even if the inquiries of the watchdog fail as well: the
\* watchdog kills it, or its own stopSpm does.  Only a start that failed half-way
\* has no watchdog.  The same as P ~> ~P for a host P that acts without the lease.
LostLeaseEndsTheRole ==
    \A h \in Watched : []<>(~ActsAsSpm(h) \/ lease = h \/ HalfStarted(h))

\* A startSpm or stopSpm that began comes to its end: it never waits for ever for
\* an upgrade thread that waits for it.  The same as pc[h] # "idle" ~> pc[h] = "idle".
StartAndStopEnd ==
    \A h \in Hosts : []<>(pc[h] = "idle")

\* "Since we added the lock the following should NEVER happen", of the role
\* "Contend": when nobody is in startSpm or stopSpm, the role is never "Contend".
ContendOnlyInsideTheLock ==
    \A h \in Hosts : ~HalfStarted(h)
=============================================================================
