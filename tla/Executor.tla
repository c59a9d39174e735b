------------------------------ MODULE Executor ------------------------------
(***************************************************************************)
(* The executor (executor.py) with the scheduler that times its tasks      *)
(* (schedule.py).  WorkersCount workers take tasks from a bounded queue.   *)
(* A worker whose task does not finish in time is discarded: it ends when  *)
(* its task does, and a new worker takes its place, while there are fewer  *)
(* than MaxWorkers in all.  Three threads meet here: the worker, the       *)
(* scheduler thread that checks it, and the caller of dispatch or stop.    *)
(*                                                                         *)
(* A task is dispatched once, so the task a check was scheduled for stands *)
(* for the worker's _task_counter.  Every task has a timeout, and it is    *)
(* longer than the few instructions between scheduling the check and       *)
(* setting _Worker._task.                                                  *)
(***************************************************************************)
EXTENDS Naturals, Sequences, FiniteSets

CONSTANTS
    Tasks,        \* the tasks that may be dispatched
    Discardable,  \* those dispatched with discard=True
    WorkersCount, MaxWorkers, MaxTasks

ASSUME ExecutorAssumption ==
    /\ Discardable \subseteq Tasks /\ {"STOP", "none"} \intersect Tasks = {}
    /\ {WorkersCount, MaxWorkers, MaxTasks} \subseteq Nat \ {0}
    /\ WorkersCount <= MaxWorkers

VARIABLES
    running,    \* Executor._running
    queue,      \* TaskQueue._tasks, with "STOP" for _STOP
    workers,    \* Executor._workers
    pc,         \* each worker's thread
    task,       \* the task of each worker: its _task and its _task_counter
    check,      \* whether its _scheduled_check is still to come
    discarded,  \* the workers with _discarded set
    sched,      \* what the scheduler thread is executing
    status,     \* what became of each task
    stop,       \* the thread in stop(), which holds Executor._lock while it puts
    stops       \* how many _STOP it has still to put

vars == <<running, queue, workers, pc, task, check, discarded, sched, status, stop,
          stops>>

Ids == 1..(MaxWorkers + 1)
Idle == [step |-> "idle"]
active_workers == workers \ discarded

\* Mutant (of _may_add_workers): the active workers are not counted.
_may_add_workers_total(W) == Cardinality(W) < MaxWorkers

_may_add_workers(W) ==
    /\ Cardinality(W \ discarded) < WorkersCount
    /\ Cardinality(W) < MaxWorkers

\* _add_worker, with the set of workers as it is once the caller changed it.
\* The caller holds Executor._lock.
AddWorkerIfAllowed(W) ==
    IF running /\ _may_add_workers(W)
      THEN LET new == CHOOSE i \in Ids : i \notin W
           IN  /\ workers' = W \union {new}
               /\ discarded' = discarded \intersect W
               /\ pc' = [i \in Ids |-> IF i = new THEN "get"
                                       ELSE IF i \in W THEN pc[i] ELSE "gone"]
      ELSE /\ workers' = W
           /\ discarded' = discarded \intersect W
           /\ pc' = [i \in Ids |-> IF i \in W THEN pc[i] ELSE "gone"]

\* The executor once start() returned.
Init ==
    /\ running = TRUE /\ queue = <<>>
    /\ workers = 1..WorkersCount
    /\ pc = [i \in Ids |-> IF i \in workers THEN "get" ELSE "gone"]
    /\ task = [i \in Ids |-> "none"] /\ check = [i \in Ids |-> FALSE]
    /\ discarded = {} /\ sched = Idle
    /\ status = [t \in Tasks |-> "new"] /\ stop = "no" /\ stops = 0

-----------------------------------------------------------------------------
(* The callers.  dispatch looks at _running before it puts, without a lock. *)

dispatch(t) ==
    /\ status[t] = "new"
    /\ status' = [status EXCEPT ![t] = IF running THEN "dispatched" ELSE "refused"]
    /\ UNCHANGED <<running, queue, workers, pc, task, check, discarded, sched, stop, stops>>

put(t) ==
    /\ status[t] = "dispatched"
    /\ IF Len(queue) = MaxTasks
         THEN status' = [status EXCEPT ![t] = "refused"] /\ UNCHANGED queue
         ELSE status' = [status EXCEPT ![t] = "queued"] /\ queue' = Append(queue, t)
    /\ UNCHANGED <<running, workers, pc, task, check, discarded, sched, stop, stops>>

\* Mutant: one _STOP less than there are workers.
stop_clear_short ==
    /\ stop = "no"
    /\ running' = FALSE /\ queue' = <<>> /\ stop' = "putting" /\ stops' = WorkersCount - 1
    /\ status' = [t \in Tasks |-> IF status[t] = "queued" THEN "cleared" ELSE status[t]]
    /\ UNCHANGED <<workers, pc, task, check, discarded, sched>>

stop_clear ==
    /\ stop = "no"
    /\ running' = FALSE /\ queue' = <<>> /\ stop' = "putting" /\ stops' = WorkersCount
    /\ status' = [t \in Tasks |-> IF status[t] = "queued" THEN "cleared" ELSE status[t]]
    /\ UNCHANGED <<workers, pc, task, check, discarded, sched>>

\* A full queue makes stop() itself raise ResourceExhausted.
stop_put ==
    /\ stop = "putting"
    /\ IF Len(queue) = MaxTasks
         THEN stop' = "raised" /\ UNCHANGED <<queue, stops>>
         ELSE /\ queue' = Append(queue, "STOP") /\ stops' = stops - 1
              /\ stop' = IF stops = 1 THEN "waiting" ELSE stop
    /\ UNCHANGED <<running, workers, pc, task, check, discarded, sched, status>>

-----------------------------------------------------------------------------
(* A worker.                                                               *)

_next_task(w) ==
    /\ pc[w] = "get" /\ queue # <<>>
    /\ queue' = Tail(queue)
    /\ LET t == Head(queue)
       IN  IF t = "STOP"
             THEN pc' = [pc EXCEPT ![w] = "stopping"] /\ UNCHANGED <<task, check, status>>
             ELSE /\ pc' = [pc EXCEPT ![w] = "run"]
                  /\ task' = [task EXCEPT ![w] = t]
                  /\ check' = [check EXCEPT ![w] = TRUE]
                  /\ status' = [status EXCEPT ![t] = "started"]
    /\ UNCHANGED <<running, workers, discarded, sched, stop, stops>>

\* The task blocks; it may, or may not, return one day.
TaskBlocks(w) ==
    /\ pc[w] = "run" /\ pc' = [pc EXCEPT ![w] = "blocked"]
    /\ UNCHANGED <<running, queue, workers, task, check, discarded, sched, status, stop, stops>>

TaskReturns(w) ==
    /\ pc[w] \in {"run", "blocked"} /\ pc' = [pc EXCEPT ![w] = "returned"]
    /\ UNCHANGED <<running, queue, workers, task, check, discarded, sched, status, stop, stops>>

\* The finally of _execute_task: cancel the check under the worker's lock.
_execute_task_finally(w) ==
    /\ pc[w] = "returned"
    /\ status' = [status EXCEPT ![task[w]] = "done"]
    /\ task' = [task EXCEPT ![w] = "none"] /\ check' = [check EXCEPT ![w] = FALSE]
    /\ pc' = [pc EXCEPT ![w] = IF w \in discarded THEN "stopping" ELSE "get"]
    /\ UNCHANGED <<running, queue, workers, discarded, sched, stop, stops>>

\* Mutant: only _worker_discarded adds workers.
_worker_stopped_only(w) ==
    /\ pc[w] = "stopping" /\ stop # "putting"
    /\ workers' = workers \ {w} /\ discarded' = discarded \ {w}
    /\ pc' = [pc EXCEPT ![w] = "gone"]
    /\ UNCHANGED <<running, queue, task, check, sched, status, stop, stops>>

_worker_stopped(w) ==
    /\ pc[w] = "stopping" /\ stop # "putting"
    /\ AddWorkerIfAllowed(workers \ {w})
    /\ UNCHANGED <<running, queue, task, check, sched, status, stop, stops>>

-----------------------------------------------------------------------------
(* The scheduler thread.  A check whose call has begun cannot be cancelled  *)
(* any more: it may find the worker with its next task, or gone.           *)

ScheduledCall_execute(w) ==
    /\ sched = Idle /\ check[w]
    /\ check' = [check EXCEPT ![w] = FALSE]
    /\ sched' = [step |-> "check", worker |-> w, task |-> task[w]]
    /\ UNCHANGED <<running, queue, workers, pc, task, discarded, status, stop, stops>>

\* Between the end of its task and the finally block _Worker._task is None and
\* the check raises, which only the scheduler's log shows.
_check_task ==
    /\ sched.step = "check"
    /\ LET w == sched.worker
           current == task[w] = sched.task
       IN  \/ /\ ~current \/ pc[w] = "returned"
              /\ sched' = Idle /\ UNCHANGED <<discarded, check>>
           \/ /\ current /\ pc[w] # "returned" /\ task[w] \in Discardable
              /\ discarded' = discarded \union {w}
              /\ sched' = [step |-> "discarded"] /\ UNCHANGED check
           \/ /\ current /\ pc[w] # "returned" /\ task[w] \notin Discardable
              /\ check' = [check EXCEPT ![w] = TRUE]
              /\ sched' = Idle /\ UNCHANGED discarded
    /\ UNCHANGED <<running, queue, workers, pc, task, status, stop, stops>>

\* Mutant: only _worker_stopped adds workers.
_worker_discarded_only ==
    /\ sched.step = "discarded" /\ stop # "putting" /\ sched' = Idle
    /\ UNCHANGED <<running, queue, workers, pc, task, check, discarded, status, stop, stops>>

_worker_discarded ==
    /\ sched.step = "discarded" /\ stop # "putting" /\ sched' = Idle
    /\ AddWorkerIfAllowed(workers)
    /\ UNCHANGED <<running, queue, task, check, status, stop, stops>>

-----------------------------------------------------------------------------
Worker(w) == _next_task(w) \/ _execute_task_finally(w) \/ _worker_stopped(w)
             \/ (pc[w] = "run" /\ TaskReturns(w)) \/ (pc[w] = "run" /\ TaskBlocks(w))
Scheduler == _check_task \/ _worker_discarded \/ \E w \in Ids : ScheduledCall_execute(w)

Next ==
    \/ \E t \in Tasks : dispatch(t) \/ put(t)
    \/ stop_clear \/ stop_put
    \/ \E w \in Ids : Worker(w) \/ TaskReturns(w)
    \/ Scheduler

\* Threads go on, and time passes for the checks of blocked workers; a blocked
\* task need never return.
Fairness ==
    /\ \A t \in Tasks : WF_vars(put(t))
    /\ WF_vars(stop_put)
    /\ \A w \in Ids : WF_vars(Worker(w))
    /\ WF_vars(_check_task \/ _worker_discarded)
    /\ \A w \in Ids : SF_vars(pc[w] = "blocked" /\ ScheduledCall_execute(w))

Spec == Init /\ [][Next]_vars /\ Fairness

-----------------------------------------------------------------------------
(* Properties.                                                             *)

\* A check that the scheduler has begun, and finds the worker gone, discards
\* nobody: the discarded workers are workers.
TypeOK ==
    /\ running \in BOOLEAN /\ queue \in Seq(Tasks \union {"STOP"})
    /\ workers \subseteq Ids /\ discarded \subseteq workers
    /\ pc \in [Ids -> {"gone", "get", "run", "blocked", "returned", "stopping"}]
    /\ task \in [Ids -> Tasks \union {"none"}] /\ check \in [Ids -> BOOLEAN]
    /\ sched.step \in {"idle", "check", "discarded"}

\* "there is a limit on the total number of the workers": in whatever order the
\* scheduler's _worker_discarded and the worker's own _worker_stopped take the
\* lock, there are never more than MaxWorkers threads, nor more than WorkersCount
\* that take tasks, nor a worker that is discarded while it is free; and the types hold.
WorkerLimits ==
    /\ TypeOK
    /\ Cardinality(workers) <= MaxWorkers
    /\ Cardinality(active_workers) <= WorkersCount
    /\ \A w \in discarded : pc[w] # "get"

\* "the worker pool is automatically replenished": but for the moment between the
\* discard of a worker and its notification, a running executor lacks a worker only
\* at its limit; no replacement is lost when a discarded worker ends before it was
\* replaced.
Replenished ==
    running /\ sched.step # "discarded"
        => \/ Cardinality(active_workers) = WorkersCount
           \/ Cardinality(workers) = MaxWorkers

\* Every worker there may be is blocked: at the limit, or on tasks that were
\* dispatched with discard=False.
AllBlocked ==
    /\ \A w \in workers : pc[w] = "blocked"
    /\ \/ Cardinality(workers) = MaxWorkers
       \/ /\ Cardinality(active_workers) = WorkersCount
          /\ \A w \in active_workers : task[w] \notin Discardable

\* A task that was queued is started, or cleared by stop(), unless all workers
\* stay blocked; a single blocked task never holds up the queue.
EveryTaskStarts ==
    \A t \in Tasks : []<>(status[t] # "queued" \/ AllBlocked \/ ~running)

\* Once stop() has put its _STOPs, every worker ends, but for those whose task blocks.
StopEndsWorkers ==
    stop = "waiting" ~> \A w \in workers : pc[w] = "blocked"
=============================================================================
