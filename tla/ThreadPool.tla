----------------------------- MODULE ThreadPool -----------------------------
(***************************************************************************)
(* The thread pool of lib/vdsm/storage/threadPool.py, that runs the tasks  *)
(* of the task manager and the messages of the mailboxes.                  *)
(*                                                                         *)
(* queueTask() looks at __isJoining before it puts the task in the queue,  *)
(* and a put waits while the queue is full.  A worker looks at __isDying   *)
(* before it waits for a task and again when it has one.  joinAll() marks  *)
(* the pool as joining and, if it is to wait, tells the workers to go away *)
(* and joins them.  No lock makes any two of these steps one.              *)
(***************************************************************************)
EXTENDS Naturals, Sequences, SequencesExt

CONSTANTS Worker,     \* the threads of the pool
          Task,       \* the tasks: each is queued once
          NoTask,     \* not a task
          MaxTasks    \* maxTasks, the size of the queue

ASSUME TaskAssumption == NoTask \notin Task
ASSUME SizeAssumption == MaxTasks \in Nat \ {0}

VARIABLES tasks,      \* __tasks: the queue
          isJoining,  \* __isJoining
          isDying,    \* __isDying of each worker
          worker,     \* where each worker is
          holds,      \* the task a worker has taken from the queue
          queuer,     \* where the call of queueTask() for each task is
          joiner,     \* where joinAll() is
          ran         \* the tasks that have been run

vars == <<tasks, isJoining, isDying, worker, holds, queuer, joiner, ran>>

TypeOK ==
    /\ tasks \in Seq(Task) /\ Len(tasks) <= MaxTasks
    /\ isJoining \in BOOLEAN
    /\ isDying \in [Worker -> BOOLEAN]
    /\ worker \in [Worker -> {"loop", "get", "got", "running", "exited"}]
    /\ holds \in [Worker -> Task \cup {NoTask}]
    /\ queuer \in [Task -> {"new", "putting", "queued", "refused"}]
    /\ joiner \in {"idle", "dismissing", "joined"}
    /\ ran \in SUBSET Task

Init ==
    /\ tasks = <<>>
    /\ isJoining = FALSE
    /\ isDying = [w \in Worker |-> FALSE]
    /\ worker = [w \in Worker |-> "loop"]
    /\ holds = [w \in Worker |-> NoTask]
    /\ queuer = [t \in Task |-> "new"]
    /\ joiner = "idle"
    /\ ran = {}

-----------------------------------------------------------------------------
(* queueTask() refuses a task when the pool is joining. *)
QueueTask(t) ==
    /\ queuer[t] = "new"
    /\ queuer' = [queuer EXCEPT ![t] = IF isJoining THEN "refused" ELSE "putting"]
    /\ UNCHANGED <<tasks, isJoining, isDying, worker, holds, joiner, ran>>

Put(t) ==
    /\ queuer[t] = "putting"
    /\ Len(tasks) < MaxTasks
    /\ tasks' = Append(tasks, t)
    /\ queuer' = [queuer EXCEPT ![t] = "queued"]
    /\ UNCHANGED <<isJoining, isDying, worker, holds, joiner, ran>>

-----------------------------------------------------------------------------
(* WorkerThread.run() *)
Loop(w) ==
    /\ worker[w] = "loop"
    /\ worker' = [worker EXCEPT ![w] = IF isDying[w] THEN "exited" ELSE "get"]
    /\ UNCHANGED <<tasks, isJoining, isDying, holds, queuer, joiner, ran>>

(* Mutant: the task is read from the queue but not removed. *)
GetPeeking(w) ==
    /\ worker[w] = "get"
    /\ tasks # <<>>
    /\ holds' = [holds EXCEPT ![w] = Head(tasks)]
    /\ worker' = [worker EXCEPT ![w] = "got"]
    /\ UNCHANGED <<tasks, isJoining, isDying, queuer, joiner, ran>>

(* getNextTask() *)
Get(w) ==
    /\ worker[w] = "get"
    /\ tasks # <<>>
    /\ holds' = [holds EXCEPT ![w] = Head(tasks)]
    /\ tasks' = Tail(tasks)
    /\ worker' = [worker EXCEPT ![w] = "got"]
    /\ UNCHANGED <<isJoining, isDying, queuer, joiner, ran>>

(* Mutant: getNextTask() waits without a timeout. *)
GetEmptyForever(w) ==
    /\ FALSE
    /\ UNCHANGED vars

(* getNextTask() finds the queue empty for waitTimeout seconds. *)
GetEmpty(w) ==
    /\ worker[w] = "get"
    /\ tasks = <<>>
    /\ worker' = [worker EXCEPT ![w] = "loop"]
    /\ UNCHANGED <<tasks, isJoining, isDying, holds, queuer, joiner, ran>>

(* Mutant: a worker goes away as soon as the pool is joining. *)
StartUnlessJoining(w) ==
    /\ worker[w] = "got"
    /\ worker' = [worker EXCEPT ![w] = IF isJoining THEN "exited" ELSE "running"]
    /\ UNCHANGED <<tasks, isJoining, isDying, holds, queuer, joiner, ran>>

(* A worker that is to go away has no attribute _WorkerThread__tasks to    *)
(* put the task back with: the error ends the thread.                      *)
Start(w) ==
    /\ worker[w] = "got"
    /\ IF isDying[w]
       THEN /\ worker' = [worker EXCEPT ![w] = "exited"]
            /\ holds' = [holds EXCEPT ![w] = NoTask]
       ELSE /\ worker' = [worker EXCEPT ![w] = "running"]
            /\ UNCHANGED holds
    /\ UNCHANGED <<tasks, isJoining, isDying, queuer, joiner, ran>>

(* The command returns, or raises an exception that is logged. *)
Finish(w) ==
    /\ worker[w] = "running"
    /\ ran' = ran \cup {holds[w]}
    /\ holds' = [holds EXCEPT ![w] = NoTask]
    /\ worker' = [worker EXCEPT ![w] = "loop"]
    /\ UNCHANGED <<tasks, isJoining, isDying, queuer, joiner>>

-----------------------------------------------------------------------------
(* joinAll(waitForThreads) *)
JoinAll(wait) ==
    /\ joiner = "idle"
    /\ isJoining' = TRUE
    /\ joiner' = IF wait THEN "dismissing" ELSE "joined"
    /\ UNCHANGED <<tasks, isDying, worker, holds, queuer, ran>>

GoAway(w) ==
    /\ joiner = "dismissing"
    /\ ~isDying[w]
    /\ isDying' = [isDying EXCEPT ![w] = TRUE]
    /\ UNCHANGED <<tasks, isJoining, worker, holds, queuer, joiner, ran>>

Joined ==
    /\ joiner = "dismissing"
    /\ \A w \in Worker : isDying[w] /\ worker[w] = "exited"
    /\ joiner' = "joined"
    /\ UNCHANGED <<tasks, isJoining, isDying, worker, holds, queuer, ran>>

Work(w) == Loop(w) \/ Get(w) \/ GetEmpty(w) \/ Start(w) \/ Finish(w)

Next ==
    \/ \E t \in Task : QueueTask(t) \/ Put(t)
    \/ \E w \in Worker : Work(w) \/ GoAway(w)
    \/ \E wait \in BOOLEAN : JoinAll(wait)
    \/ Joined

(* Threads are scheduled, commands return, a get() times out, and a put()  *)
(* that finds room goes on.                                                *)
Fairness ==
    /\ \A w \in Worker : WF_vars(Work(w)) /\ WF_vars(GoAway(w))
    /\ \A t \in Task : WF_vars(Put(t))
    /\ WF_vars(Joined)

Spec == Init /\ [][Next]_vars /\ Fairness

-----------------------------------------------------------------------------
(* The tasks that queueTask() returned True for and nobody will run.       *)
Dropped == {t \in Task : queuer[t] = "queued" /\ t \notin ToSet(tasks) \cup ran
                         /\ \A w \in Worker : holds[w] # t}

(* The types hold, the queue keeps to its bound, and a task that was taken *)
(* from the queue by one worker is run by no other, and not again: it is   *)
(* in one place only.  The only tasks that are in none are those a worker  *)
(* had taken, one at most, when it was told to go away.                    *)
RunOnce ==
    /\ TypeOK
    /\ \A v, w \in Worker : v # w /\ holds[v] = holds[w] => holds[v] = NoTask
    /\ \A w \in Worker : holds[w] \notin ToSet(tasks) \cup ran
    /\ ran \cap ToSet(tasks) = {}
    /\ Cardinality(Dropped) <= Cardinality({w \in Worker : isDying[w] /\ worker[w] = "exited"})

(* A task that queueTask() let pass is run, or all workers have gone away. *)
(* So joinAll() without waiting stops nothing that got past the check of   *)
(* __isJoining, whatever was put before or is put after it: its docstring  *)
(* says it clears the queue and terminates the threads (README, section 4). *)
QueuedIsRun ==
    \A t \in Task :
        queuer[t] = "putting" ~> t \in ran \/ \A w \in Worker : worker[w] = "exited"

(* joinAll() returns: every worker sees that it is to go away.             *)
JoinReturns == joiner = "dismissing" ~> joiner = "joined"
=============================================================================
