-------------------------------- MODULE Task --------------------------------
(***************************************************************************)
(* One task of lib/vdsm/storage/task.py, from prepare() to its end, with   *)
(* the task manager of taskManager.py that hands it to a worker thread,    *)
(* and what a restart of vdsm finds on disk.                               *)
(*                                                                         *)
(* The threads are the client, whose API call runs prepare(); a worker of  *)
(* the pool, that runs commit() or, after a restart, recover(); the        *)
(* clients that call stopTask(); and one that calls revertTask().  They    *)
(* share the task's state, the flag _aborting and the reference count.     *)
(* Only the count is locked, so _updateState() is a step for each access   *)
(* to the others: it reads _aborting, resets it, moves to the new state,   *)
(* saves the task and runs the state's handler.  The handlers end with a   *)
(* call of _updateState(), so a thread needs no stack: it is in one such   *)
(* chain and knows where to go on when the chain ends.                     *)
(*                                                                         *)
(* A job changes the storage after it has pushed the recovery that undoes  *)
(* the change.  Recoveries are numbered from the bottom of the stack, and  *)
(* so are the changes.                                                     *)
(***************************************************************************)
EXTENDS Naturals, FiniteSets

CONSTANTS Stopper,        \* the threads that may call stopTask()
          Kinds,          \* the tasks to consider: see Kind
          Faults          \* what may go wrong: see Fault

(* Whether the job is scheduled with a store, as the SPM does, whether      *)
(* stopTask() and revertTask() are called for the task, and the bounds on  *)
(* the recoveries a job pushes and on the restarts of vdsm.                *)
Kind == [stored : BOOLEAN, stopped : BOOLEAN, reverted : BOOLEAN,
         MaxRecoveries : Nat, MaxCrashes : Nat]

(* func, job, recovery: it raises; persist: the task cannot be saved;      *)
(* pool: the thread pool shuts down and refuses the task.                  *)
Fault == {"func", "job", "recovery", "persist", "pool"}

ASSUME StopperAssumption == IsFiniteSet(Stopper)
                            /\ Stopper \cap {"client", "worker", "reverter"} = {}
ASSUME KindAssumption == Kinds \subseteq Kind
ASSUME FaultAssumption == Faults \subseteq Fault

VARIABLES kind,         \* which of the Kinds the task is; never changes
          state,        \* Task.state
          aborting,     \* Task._aborting
          forceAbort,   \* Task._forceAbort
          ref,          \* Task.ref
          policy,       \* Task.recoveryPolicy; "auto" once a job is scheduled
          stored,       \* persistPolicy auto, cleanPolicy manual: it has a store
          recoveries,   \* the length of Task.recoveries
          owned,        \* Task.resOwner has the resources the function took
          managed,      \* the id is in TaskManager._tasks
          pool,         \* what the thread pool is to do with the task
          disk,         \* the task's directory
          changes,      \* the highest change that is not undone, 0 if none
          raborted,     \* the state has been raborting
          crashes,      \* the number of restarts so far
          pc,           \* where each thread is
          frame         \* the local variables of each thread

status == <<state, raborted>>
abort == <<aborting, forceAbort>>
setup == <<policy, stored, owned>>
stack == <<recoveries, changes>>
outside == <<managed, pool, disk, crashes, kind>>
vars == <<status, abort, ref, setup, stack, outside, pc, frame>>

Thread == {"client", "worker", "reverter"} \cup Stopper

State == {"unknown", "init", "preparing", "acquiring", "queued", "running",
          "finished", "aborting", "racquiring", "recovering", "raborting",
          "recovered", "failed"}

(* State._moveto, without the states blocked and waitrecover: nothing      *)
(* blocks a task any more and no task has the manual recovery policy.      *)
MoveTo == [s \in State |->
    CASE s = "preparing"  -> {"init"}
      [] s = "acquiring"  -> {"preparing", "acquiring"}
      [] s = "queued"     -> {"acquiring", "running"}
      [] s = "running"    -> {"queued"}
      [] s = "finished"   -> {"running", "preparing"}
      [] s = "aborting"   -> {"preparing", "acquiring", "queued", "running"}
      [] s = "racquiring" -> {"aborting", "finished", "racquiring"}
      [] s = "recovering" -> {"racquiring"}
      [] s = "raborting"  -> {"racquiring", "recovering"}
      [] s = "recovered"  -> {"recovering"}
      [] s = "failed"     -> {"recovering", "aborting", "raborting"}
      [] OTHER            -> {}]

isDone == state \in {"finished", "recovered", "failed"}
isRecovering == state \in {"racquiring", "recovering"}
canAbort == state \in MoveTo["aborting"]
canAbortRecovery == state \in MoveTo["raborting"]

(* Task.aborting() *)
Aborting == aborting \/ state \in {"aborting", "raborting"}

(* The fields of the task's file, or no directory, or an empty one. *)
Disk == [state : State \cup {"absent", "empty"},
         recoveries : 0..kind.MaxRecoveries,
         policy : {"none", "auto"}]
Absent == [state |-> "absent", recoveries |-> 0, policy |-> "none"]
Empty == [Absent EXCEPT !.state = "empty"]
OnDisk == disk.state \in State

(* The locals of a thread: what it was called for, the state it wants,     *)
(* where the chain of _updateState() calls returns to, whether that is     *)
(* inside _recover() and its last steps, and moveto()'s force.             *)
Frame == [op : {"none", "prepare", "commit", "recover", "stop", "revert"},
          req : State,
          cont : {"func", "decref", "abortend", "unref", "end"},
          inner : {"none", "failing", "ending"},
          force : BOOLEAN]

(* Where a thread can be in a chain of _updateState() calls. *)
ChainPC == {"choose", "reset", "move", "persist", "entered", "register",
            "enqueue", "runjobs", "job", "jobfails", "recovering", "undo",
            "recoverdone"}

PC == ChainPC \cup
      {"idle", "gone", "func", "funcfails", "prepared", "commit", "recover",
       "recoverstate", "decref", "zero", "doabort", "abortcheck", "abortend",
       "abortlast", "stopcheck", "stopset", "unref"}

TypeOK ==
    /\ kind \in Kinds
    /\ state \in State
    /\ aborting \in BOOLEAN
    /\ forceAbort \in BOOLEAN
    /\ ref \in Nat
    /\ policy \in {"none", "auto"}
    /\ stored \in BOOLEAN
    /\ recoveries \in 0..kind.MaxRecoveries
    /\ owned \in BOOLEAN
    /\ managed \in BOOLEAN
    /\ pool \in {"none", "commit", "unqueued", "recover"}
    /\ disk \in Disk
    /\ changes \in 0..kind.MaxRecoveries
    /\ raborted \in BOOLEAN
    /\ crashes \in 0..kind.MaxCrashes
    /\ pc \in [Thread -> PC]
    /\ frame \in [Thread -> Frame]

NoFrame == [op |-> "none", req |-> "unknown", cont |-> "end",
            inner |-> "none", force |-> FALSE]

Init ==
    /\ kind \in Kinds
    /\ state = "init"
    /\ aborting = FALSE
    /\ forceAbort = FALSE
    /\ ref = 0
    /\ policy = "none"
    /\ stored = FALSE
    /\ recoveries = 0
    /\ owned = FALSE
    /\ managed = FALSE
    /\ pool = "none"
    /\ disk = Absent
    /\ changes = 0
    /\ raborted = FALSE
    /\ crashes = 0
    /\ pc = [t \in Thread |-> "idle"]
    /\ frame = [t \in Thread |-> NoFrame]

-----------------------------------------------------------------------------
Goto(t, p) == pc' = [pc EXCEPT ![t] = p]

(* A thread leaves the task: the client's API call is over, the others may *)
(* call again.                                                             *)
Rest(t) == IF t = "client" THEN "gone" ELSE "idle"

(* _updateState(s), with an operation's first call of it. *)
Begin(t, op, s, cont, force) ==
    /\ Goto(t, "choose")
    /\ frame' = [frame EXCEPT ![t] = [op |-> op, req |-> s, cont |-> cont,
                                      inner |-> "none", force |-> force]]

(* _updateState(s) further down the chain. *)
Call(t, s, inner) ==
    /\ Goto(t, "choose")
    /\ frame' = [frame EXCEPT ![t].req = s, ![t].inner = inner, ![t].force = FALSE]

(* The chain ends.  An error in _recover() still has _recoverDone() to     *)
(* come.                                                                   *)
Return(t) ==
    /\ Goto(t, IF frame[t].inner = "failing" THEN "recoverdone"
               ELSE IF frame[t].cont = "end" THEN Rest(t) ELSE frame[t].cont)
    /\ frame' = [frame EXCEPT ![t].inner = "none"]

(* The chain is left by an exception: _recover() and _recoverDone() catch  *)
(* it, prepare(), commit() and recover() go on to their finally clause.    *)
Raise(t) ==
    /\ Goto(t, IF frame[t].inner # "none" THEN "recoverdone"
               ELSE IF frame[t].cont = "end" THEN Rest(t)
               ELSE IF frame[t].cont = "func" THEN "decref" ELSE frame[t].cont)
    /\ frame' = [frame EXCEPT ![t].inner = "none"]

(* What persist() leaves on disk.  It fails if the directory is gone. *)
Saved(s, r, p) ==
    (IF disk = Absent THEN {} ELSE {[state |-> s, recoveries |-> r, policy |-> p]})
    \cup (IF "persist" \in Faults \/ disk = Absent THEN {disk} ELSE {})

(* stop() by a thread that is inside the task already, with a reference:   *)
(* whatever comes of it, the thread goes on with TaskAborted.              *)
StopSelf(force) ==
    IF \/ isDone
       \/ isRecovering /\ ~force /\ ~stored
       \/ Aborting /\ (forceAbort \/ ~force)
    THEN UNCHANGED abort
    ELSE aborting' = TRUE /\ forceAbort' = force

-----------------------------------------------------------------------------
(* _updateState(): an abort that was asked for replaces the new state. *)
Choose(t) ==
    /\ pc[t] = "choose"
    /\ frame' = [frame EXCEPT ![t].req =
                    IF aborting /\ canAbort THEN "aborting"
                    ELSE IF aborting /\ canAbortRecovery /\ @ # "recovered"
                         THEN "raborting"
                    ELSE @]
    /\ Goto(t, "reset")
    /\ UNCHANGED <<status, abort, ref, setup, stack, outside>>

Reset(t) ==
    /\ pc[t] = "reset"
    /\ aborting' = FALSE
    /\ Goto(t, "move")
    /\ UNCHANGED <<status, forceAbort, ref, setup, stack, outside, frame>>

(* State.moveto() *)
Move(t) ==
    /\ pc[t] = "move"
    /\ IF frame[t].force \/ state \in MoveTo[frame[t].req]
       THEN /\ state' = frame[t].req
            /\ raborted' = (raborted \/ state' = "raborting")
            /\ Goto(t, IF stored THEN "persist" ELSE "entered")
            /\ UNCHANGED frame
       ELSE /\ Raise(t)
            /\ UNCHANGED status
    /\ UNCHANGED <<abort, ref, setup, stack, outside>>

(* The error of a persist() that fails is logged and forgotten. *)
Persist(t) ==
    /\ pc[t] = "persist"
    /\ disk' \in Saved(state, recoveries, policy)
    /\ Goto(t, "entered")
    /\ UNCHANGED <<status, abort, ref, setup, stack, managed, pool, crashes, kind, frame>>

(* The handlers of the states in which a task goes on by itself. *)
EnterNext(t) ==
    /\ pc[t] = "entered"
    /\ CASE frame[t].req = "preparing"  -> Return(t)
         [] frame[t].req = "acquiring"  -> Call(t, "queued", "none")
         [] frame[t].req = "queued"     -> Goto(t, "register") /\ UNCHANGED frame
         [] frame[t].req = "running"    -> Goto(t, "runjobs") /\ UNCHANGED frame
         [] frame[t].req = "racquiring" -> Call(t, "recovering", "none")
         [] frame[t].req = "recovering" ->
                IF state = "recovering" THEN Goto(t, "recovering") /\ UNCHANGED frame
                ELSE Raise(t)
         [] OTHER                       -> FALSE
    /\ UNCHANGED <<status, abort, ref, setup, stack, outside>>

(* Mutant: __state_aborting() does not wait for the other threads. *)
EnterAbortHasty(t) ==
    /\ pc[t] = "entered"
    /\ \/ /\ frame[t].req = "aborting"
          /\ Call(t, IF policy = "auto" THEN "racquiring" ELSE "failed", "none")
       \/ /\ frame[t].req = "raborting"
          /\ IF ref = 1 THEN Call(t, "failed", frame[t].inner) ELSE Return(t)
    /\ UNCHANGED <<status, abort, ref, setup, stack, outside>>

(* __state_aborting() and __state_raborting(): only the last thread that   *)
(* has a reference goes on.                                                *)
EnterAbort(t) ==
    /\ pc[t] = "entered"
    /\ \/ /\ frame[t].req = "aborting"
          /\ IF ref > 1 THEN Return(t)
             ELSE Call(t, IF policy = "auto" THEN "racquiring" ELSE "failed", "none")
       \/ /\ frame[t].req = "raborting"
          /\ IF ref = 1 THEN Call(t, "failed", frame[t].inner) ELSE Return(t)
    /\ UNCHANGED <<status, abort, ref, setup, stack, outside>>

(* _done(): a task with the automatic clean policy has no directory. *)
EnterDone(t) ==
    /\ pc[t] = "entered"
    /\ frame[t].req \in {"finished", "recovered", "failed"}
    /\ owned' = FALSE
    /\ Return(t)
    /\ UNCHANGED <<status, abort, ref, policy, stored, stack, outside>>

UpdateState(t) ==
    \/ Choose(t) \/ Reset(t) \/ Move(t) \/ Persist(t)
    \/ EnterNext(t) \/ EnterAbort(t) \/ EnterDone(t)

-----------------------------------------------------------------------------
(* prepare(): nobody else knows the task yet. *)
Prepare ==
    /\ pc["client"] = "idle" /\ state = "init"
    /\ ref' = ref + 1
    /\ Begin("client", "prepare", "preparing", "func", FALSE)
    /\ UNCHANGED <<status, abort, setup, stack, outside>>

(* The function acquires its resources: Owner.acquire(). *)
AcquireResources ==
    /\ pc["client"] = "func"
    /\ ~owned
    /\ owned' = TRUE
    /\ UNCHANGED <<status, abort, ref, policy, stored, stack, outside, pc, frame>>

(* TaskManager.scheduleJob(): the recovery policy is set after the task    *)
(* was saved for the first time, and not at all if that fails.             *)
ScheduleJob ==
    /\ pc["client"] = "func"
    /\ owned /\ policy = "none"
    /\ IF kind.stored
       THEN /\ stored' = TRUE
            /\ disk' \in {[state |-> state, recoveries |-> recoveries,
                           policy |-> policy]}
                         \cup (IF "persist" \in Faults THEN {Absent, Empty} ELSE {})
       ELSE UNCHANGED <<stored, disk>>
    /\ IF stored' /\ disk'.state # state
       THEN Goto("client", "funcfails") /\ UNCHANGED policy
       ELSE policy' = "auto" /\ UNCHANGED pc
    /\ UNCHANGED <<status, abort, ref, owned, stack, managed, pool, crashes, kind, frame>>

FuncReturns ==
    /\ pc["client"] = "func"
    /\ Goto("client", "prepared")
    /\ UNCHANGED <<status, abort, ref, setup, stack, outside, frame>>

FuncRaises ==
    /\ \/ pc["client"] = "func" /\ "func" \in Faults
       \/ pc["client"] = "funcfails"
    /\ StopSelf(FALSE)
    /\ Goto("client", "prepared")
    /\ UNCHANGED <<status, ref, setup, stack, outside, frame>>

(* prepare() after the function: give up, queue the job, or finish. *)
Prepared ==
    /\ pc["client"] = "prepared"
    /\ IF Aborting
       THEN Goto("client", "decref") /\ UNCHANGED frame
       ELSE Begin("client", "prepare",
                  IF policy = "auto" THEN "acquiring" ELSE "finished",
                  "decref", FALSE)
    /\ UNCHANGED <<status, abort, ref, setup, stack, outside>>

(* __state_queued(), _queueTask(): the id is in the table before the task  *)
(* is in the thread pool's queue.                                          *)
Register(t) ==
    /\ pc[t] = "register"
    /\ managed' = TRUE
    /\ Goto(t, "enqueue")
    /\ UNCHANGED <<status, abort, ref, setup, stack, pool, disk, crashes, kind, frame>>

Enqueue(t) ==
    /\ pc[t] = "enqueue"
    /\ \/ /\ pool' = "commit"
          /\ UNCHANGED <<abort, managed>>
       \/ /\ "pool" \in Faults
          /\ managed' = FALSE
          /\ StopSelf(FALSE)
          /\ UNCHANGED pool
    /\ Return(t)
    /\ UNCHANGED <<status, ref, setup, stack, disk, crashes, kind>>

-----------------------------------------------------------------------------
(* A worker takes the task from the pool's queue. *)
Take ==
    /\ pc["worker"] = "idle"
    /\ pool \in {"commit", "recover"}
    /\ Goto("worker", pool)
    /\ pool' = "none"
    /\ UNCHANGED <<status, abort, ref, setup, stack, managed, disk, crashes, kind, frame>>

(* commit(): _incref() raises if the task is being aborted. *)
Commit ==
    /\ pc["worker"] = "commit"
    /\ IF Aborting
       THEN /\ Goto("worker", "doabort")
            /\ frame' = [frame EXCEPT !["worker"].op = "commit"]
            /\ UNCHANGED ref
       ELSE /\ ref' = ref + 1
            /\ Begin("worker", "commit", "running", "decref", FALSE)
    /\ UNCHANGED <<status, abort, setup, stack, outside>>

(* _runJobs() before the job. *)
RunJobs(t) ==
    /\ pc[t] = "runjobs"
    /\ IF Aborting THEN Return(t)
       ELSE IF state = "running" THEN Goto(t, "job") /\ UNCHANGED frame
       ELSE Raise(t)
    /\ UNCHANGED <<status, abort, ref, setup, stack, outside>>

(* Mutant: the task is not saved with the new recovery. *)
PushRecoveryUnsaved(t) ==
    /\ pc[t] = "job"
    /\ recoveries < kind.MaxRecoveries
    /\ recoveries' = recoveries + 1
    /\ UNCHANGED <<status, abort, ref, setup, changes, outside, pc, frame>>

(* pushRecovery(): a persist() that fails makes the job fail. *)
PushRecovery(t) ==
    /\ pc[t] = "job"
    /\ recoveries < kind.MaxRecoveries
    /\ recoveries' = recoveries + 1
    /\ IF stored
       THEN /\ disk' \in Saved(state, recoveries', policy)
            /\ Goto(t, IF disk'.recoveries = recoveries' THEN "job" ELSE "jobfails")
       ELSE UNCHANGED <<disk, pc>>
    /\ UNCHANGED <<status, abort, ref, setup, changes, managed, pool, crashes,
                   kind, frame>>

(* replaceRecoveries(): one recovery for the ones above the sentinel, or   *)
(* for all of them.                                                        *)
ReplaceRecoveries(t) ==
    /\ pc[t] = "job"
    /\ recoveries > 1
    /\ \E kept \in 0..(recoveries - 2) :
        /\ recoveries' = kept + 1
        /\ changes' = IF changes > kept THEN kept + 1 ELSE changes
    /\ IF stored
       THEN /\ disk' \in Saved(state, recoveries', policy)
            /\ Goto(t, IF disk'.recoveries = recoveries' THEN "job" ELSE "jobfails")
       ELSE UNCHANGED <<disk, pc>>
    /\ UNCHANGED <<status, abort, ref, setup, managed, pool, crashes, kind, frame>>

(* clearRecoveries(): the changes made so far are final. *)
ClearRecoveries(t) ==
    /\ pc[t] = "job"
    /\ recoveries > 0
    /\ recoveries' = 0
    /\ changes' = 0
    /\ IF stored
       THEN /\ disk' \in Saved(state, recoveries', policy)
            /\ Goto(t, IF disk'.recoveries = 0 THEN "job" ELSE "jobfails")
       ELSE UNCHANGED <<disk, pc>>
    /\ UNCHANGED <<status, abort, ref, setup, managed, pool, crashes, kind, frame>>

(* The job makes the change its last recovery undoes. *)
Change(t) ==
    /\ pc[t] = "job"
    /\ changes < recoveries
    /\ changes' = recoveries
    /\ UNCHANGED <<status, abort, ref, setup, recoveries, outside, pc, frame>>

JobReturns(t) ==
    /\ pc[t] = "job"
    /\ IF Aborting THEN Return(t) ELSE Call(t, "finished", "none")
    /\ UNCHANGED <<status, abort, ref, setup, stack, outside>>

JobRaises(t) ==
    /\ \/ pc[t] = "job" /\ "job" \in Faults
       \/ pc[t] = "jobfails"
    /\ StopSelf(FALSE)
    /\ UNCHANGED state
    /\ IF Aborting' THEN Return(t) ELSE Raise(t)
    /\ UNCHANGED <<raborted, ref, setup, stack, outside>>

-----------------------------------------------------------------------------
(* Mutant: the task is saved without the recovery before that has run. *)
PopRecoverySaving(t) ==
    /\ pc[t] = "recovering"
    /\ IF state = "recovering" /\ recoveries > 0
       THEN recoveries' = recoveries - 1 /\ Goto(t, "undo")
       ELSE UNCHANGED recoveries /\ Goto(t, "recoverdone")
    /\ disk' = IF OnDisk THEN [disk EXCEPT !.recoveries = recoveries'] ELSE disk
    /\ UNCHANGED <<status, abort, ref, setup, changes, managed, pool, crashes,
                   kind, frame>>

(* _recover() takes the next recovery from the stack. *)
PopRecovery(t) ==
    /\ pc[t] = "recovering"
    /\ IF state = "recovering" /\ recoveries > 0
       THEN recoveries' = recoveries - 1 /\ Goto(t, "undo")
       ELSE UNCHANGED recoveries /\ Goto(t, "recoverdone")
    /\ UNCHANGED <<status, abort, ref, setup, changes, outside, frame>>

(* The recovery undoes the change above the ones that are left, if that    *)
(* change was made and is not undone yet.                                  *)
Undo(t) ==
    /\ pc[t] = "undo"
    /\ changes' = IF changes > recoveries THEN recoveries ELSE changes
    /\ Goto(t, "recovering")
    /\ UNCHANGED <<status, abort, ref, setup, recoveries, outside, frame>>

UndoRaises(t) ==
    /\ pc[t] = "undo" /\ "recovery" \in Faults
    /\ StopSelf(FALSE)
    /\ IF state = "recovering"
       THEN Call(t, "raborting", "failing")
       ELSE Goto(t, "recoverdone") /\ UNCHANGED frame
    /\ UNCHANGED <<status, ref, setup, stack, outside>>

(* _recoverDone() *)
RecoverDone(t) ==
    /\ pc[t] = "recoverdone"
    /\ CASE state = "recovering" -> Call(t, "recovered", "ending")
         [] state = "raborting"  -> Call(t, "failed", "ending")
         [] OTHER                -> Return(t)
    /\ UNCHANGED <<status, abort, ref, setup, stack, outside>>

-----------------------------------------------------------------------------
(* _decref(), with the lock. *)
Decref(t) ==
    /\ pc[t] = "decref"
    /\ ref' = ref - 1
    /\ Goto(t, IF ref = 1 THEN "zero" ELSE Rest(t))
    /\ UNCHANGED <<status, abort, setup, stack, outside, frame>>

(* Mutant: the last _decref() leaves the task alone. *)
ZeroForgetting(t) ==
    /\ pc[t] = "zero"
    /\ Goto(t, Rest(t))
    /\ UNCHANGED <<status, abort, ref, setup, stack, outside, frame>>

(* The last _decref() aborts the task if it is to be aborted. *)
Zero(t) ==
    /\ pc[t] = "zero"
    /\ Goto(t, IF Aborting THEN "doabort" ELSE Rest(t))
    /\ UNCHANGED <<status, abort, ref, setup, stack, outside, frame>>

(* Mutant: _doAbort() takes no reference of its own. *)
DoAbortUncounted(t) ==
    /\ pc[t] = "doabort"
    /\ Goto(t, IF ref # 0 THEN Rest(t) ELSE "abortcheck")
    /\ UNCHANGED <<status, abort, ref, setup, stack, outside, frame>>

(* _doAbort(): am I really the last? *)
DoAbort(t) ==
    /\ pc[t] = "doabort"
    /\ IF ref # 0
       THEN Goto(t, Rest(t)) /\ UNCHANGED ref
       ELSE Goto(t, "abortcheck") /\ ref' = ref + 1
    /\ UNCHANGED <<status, abort, setup, stack, outside, frame>>

AbortCheck(t) ==
    /\ pc[t] = "abortcheck"
    /\ IF ~canAbort /\ frame[t].op = "recover" /\ ~canAbortRecovery
       THEN Goto(t, "abortend") /\ UNCHANGED frame
       ELSE Begin(t, frame[t].op, IF canAbort THEN "aborting" ELSE "raborting",
                  "abortend", FALSE)
    /\ UNCHANGED <<status, abort, ref, setup, stack, outside>>

AbortEnd(t) ==
    /\ pc[t] = "abortend"
    /\ ref' = ref - 1
    /\ Goto(t, "abortlast")
    /\ UNCHANGED <<status, abort, setup, stack, outside, frame>>

(* If something horrible went wrong, just fail the task. *)
AbortLast(t) ==
    /\ pc[t] = "abortlast"
    /\ IF isDone
       THEN Goto(t, Rest(t)) /\ UNCHANGED frame
       ELSE Begin(t, frame[t].op, "failed", "end", FALSE)
    /\ UNCHANGED <<status, abort, ref, setup, stack, outside>>

-----------------------------------------------------------------------------
(* stopTask(): _incref() raises if the task is being aborted already. *)
Stop(t) ==
    /\ kind.stopped /\ t \in Stopper /\ pc[t] = "idle"
    /\ managed /\ ~Aborting
    /\ ref' = ref + 1
    /\ Goto(t, "stopcheck")
    /\ frame' = [frame EXCEPT ![t] = [NoFrame EXCEPT !.op = "stop"]]
    /\ UNCHANGED <<status, abort, setup, stack, outside>>

(* Mutant: stop() does not spare a recovery. *)
StopCheckEager(t) ==
    /\ pc[t] = "stopcheck"
    /\ Goto(t, IF isDone THEN "decref" ELSE "stopset")
    /\ UNCHANGED <<status, abort, ref, setup, stack, outside, frame>>

StopCheck(t) ==
    /\ pc[t] = "stopcheck"
    /\ Goto(t, IF isDone \/ (isRecovering /\ ~stored) THEN "decref" ELSE "stopset")
    /\ UNCHANGED <<status, abort, ref, setup, stack, outside, frame>>

StopSet(t) ==
    /\ pc[t] = "stopset"
    /\ aborting' = TRUE
    /\ forceAbort' = FALSE
    /\ Goto(t, "decref")
    /\ UNCHANGED <<status, ref, setup, stack, outside, frame>>

(* revertTask(), rollback() and _doRecover(). *)
Revert ==
    /\ kind.reverted
    /\ pc["reverter"] = "idle"
    /\ managed /\ policy = "auto" /\ isDone /\ ref = 0
    /\ ref' = ref + 1
    /\ Begin("reverter", "revert", "racquiring", "unref", FALSE)
    /\ UNCHANGED <<status, abort, setup, stack, outside>>

Unref(t) ==
    /\ pc[t] = "unref"
    /\ ref' = ref - 1
    /\ Goto(t, Rest(t))
    /\ UNCHANGED <<status, abort, setup, stack, outside, frame>>

(* clearTask(): a task without a store is forgotten in any state. *)
Clear ==
    /\ managed
    /\ stored => isDone
    /\ managed' = FALSE
    /\ disk' = Absent
    /\ UNCHANGED <<status, abort, ref, setup, stack, pool, crashes, kind, pc, frame>>

-----------------------------------------------------------------------------
(* vdsm dies and starts again as the SPM: loadDumpedTasks() reads the task *)
(* from its directory, and skips it if it cannot be read or saved again.   *)
Crash ==
    /\ crashes < kind.MaxCrashes
    /\ crashes' = crashes + 1
    /\ \/ /\ OnDisk
          /\ state' = disk.state /\ recoveries' = disk.recoveries
          /\ policy' = disk.policy
          /\ stored' = TRUE
          /\ pool' = "unqueued"
       \/ /\ ~OnDisk \/ "persist" \in Faults
          /\ state' = "unknown" /\ recoveries' = 0 /\ policy' = "none"
          /\ stored' = FALSE
          /\ pool' = "none"
    /\ aborting' = FALSE
    /\ forceAbort' = FALSE
    /\ ref' = 0
    /\ owned' = FALSE
    /\ managed' = FALSE
    /\ pc' = [t \in Thread |-> Rest(t)]
    /\ frame' = [t \in Thread |-> NoFrame]
    /\ UNCHANGED <<raborted, changes, disk, kind>>

(* recoverDumpedTasks().  When the pool refuses the task, its id leaves    *)
(* the table again, the task stays unqueued for the next start of the SPM, *)
(* and the exception ends this start: a stuttering step of the task.       *)
QueueRecovery ==
    /\ pool = "unqueued"
    /\ managed' = TRUE
    /\ pool' = "recover"
    /\ UNCHANGED <<status, abort, ref, setup, stack, disk, crashes, kind, pc, frame>>

(* recover(): _incref() *)
Recover ==
    /\ pc["worker"] = "recover"
    /\ frame' = [frame EXCEPT !["worker"] = [NoFrame EXCEPT !.op = "recover"]]
    /\ IF Aborting /\ forceAbort
       THEN Goto("worker", "doabort") /\ UNCHANGED ref
       ELSE Goto("worker", "recoverstate") /\ ref' = ref + 1
    /\ UNCHANGED <<status, abort, setup, stack, outside>>

(* recover(): what becomes of the task depends on where the crash was. *)
RecoverState ==
    /\ pc["worker"] = "recoverstate"
    /\ \/ /\ isDone
          /\ Goto("worker", "decref")
          /\ UNCHANGED <<abort, frame>>
       \/ /\ canAbort
          /\ StopSelf(FALSE)
          /\ Goto("worker", "decref")
          /\ UNCHANGED frame
       \/ /\ isRecovering
          /\ Begin("worker", "recover", "racquiring", "decref", TRUE)
          /\ UNCHANGED abort
       \/ /\ ~isDone /\ ~canAbort /\ ~isRecovering
          /\ StopSelf(TRUE)
          /\ Goto("worker", "decref")
          /\ UNCHANGED frame
    /\ UNCHANGED <<status, ref, setup, stack, outside>>

-----------------------------------------------------------------------------
Function == AcquireResources \/ ScheduleJob \/ FuncReturns \/ FuncRaises \/ Prepared

Job(t) ==
    \/ RunJobs(t) \/ PushRecovery(t) \/ ReplaceRecoveries(t) \/ ClearRecoveries(t)
    \/ Change(t) \/ JobReturns(t) \/ JobRaises(t)

Recovery(t) == PopRecovery(t) \/ Undo(t) \/ UndoRaises(t) \/ RecoverDone(t)

Leave(t) ==
    \/ Decref(t) \/ Zero(t) \/ DoAbort(t) \/ AbortCheck(t) \/ AbortEnd(t)
    \/ AbortLast(t) \/ Unref(t)

(* A step that a thread in the task is ready to make. *)
Step(t) ==
    \/ UpdateState(t) \/ Register(t) \/ Enqueue(t) \/ Job(t) \/ Recovery(t)
    \/ StopCheck(t) \/ StopSet(t) \/ Leave(t)

Next ==
    \/ \E t \in Thread : Step(t) \/ Stop(t)
    \/ Prepare \/ Function
    \/ Take \/ Commit \/ Recover \/ RecoverState
    \/ QueueRecovery
    \/ Revert \/ Clear \/ Crash

(* The threads are scheduled, the function and the job come to an end, and *)
(* the pool has a worker for the task.                                     *)
Fairness ==
    /\ \A t \in Thread : WF_vars(Step(t)) /\ WF_vars(JobReturns(t))
    /\ WF_vars(FuncReturns) /\ WF_vars(Prepared) /\ WF_vars(FuncRaises)
    /\ WF_vars(Take) /\ WF_vars(Commit) /\ WF_vars(Recover) /\ WF_vars(RecoverState)
    /\ WF_vars(QueueRecovery)

Spec == Init /\ [][Next]_vars

FairSpec == Spec /\ Fairness
-----------------------------------------------------------------------------
(* The threads between _incref() and _decref(). *)
Inside(t) ==
    \/ pc[t] \in ChainPC /\ frame[t].cont # "end"
    \/ pc[t] \in {"func", "funcfails", "prepared", "recoverstate", "decref",
                  "abortcheck", "abortend", "stopcheck", "stopset", "unref"}

(* The types hold, and the reference count is the number of threads that   *)
(* use the task, whoever of them _incref(), _decref() and _doAbort() meet. *)
RefsCounted == TypeOK /\ ref = Cardinality({t \in Thread : Inside(t)})

(* A change that is not undone is covered by a recovery on disk, until the *)
(* task is done or its recovery failed: a crash can be recovered from.     *)
UndoLogDurable ==
    stored /\ ~raborted /\ ~isDone /\ changes > 0 =>
        OnDisk /\ disk.recoveries >= changes

(* A task is recovered when all it changed is undone: through any failures *)
(* and restarts of vdsm if nobody stops or reverts it, and through any     *)
(* failures and stops if vdsm is not restarted.  A stop that races a state *)
(* change, and then a restart, can break it (README, section 4).           *)
RecoveredMeansUndone == state = "recovered" => changes = 0

(* Recoveries run only when neither the function nor the job does. *)
RecoveryExclusive ==
    (\E t \in Thread : pc[t] \in {"recovering", "undo"}) =>
        \A t \in Thread :
            pc[t] \notin {"func", "funcfails", "prepared", "job", "jobfails"}

(* Nobody abandons a task that is not done: if no thread is in it and it   *)
(* is in nobody's queue, it is done or was never loaded.                   *)
NotAbandoned ==
    /\ \A t \in Thread : pc[t] = Rest(t)
    /\ pool = "none"
    => isDone \/ state = "unknown"

(* Every task ends, also after a crash if it is loaded again. *)
EveryTaskEnds == state # "init" ~> isDone \/ state = "unknown"

-----------------------------------------------------------------------------
(* What the comments and the API say, and the code does not do: see the    *)
(* README, section 4.                                                      *)

(* A job has the resources of its task: they are not released under it. *)
JobOwnsResources ==
    \A t \in Thread : pc[t] \in {"job", "jobfails"} => owned

(* "cleanFailure: The task failed and recovery also failed": a failed task *)
(* leaves changes behind only if its recovery was given up.                *)
FailedMeansRecoveryFailed == state = "failed" /\ changes > 0 => raborted
=============================================================================
