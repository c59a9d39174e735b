--------------------------- MODULE ExecutorProofs ---------------------------
(***************************************************************************)
(* Proofs about Executor for every set of tasks, every size of the queue   *)
(* and every pair of worker limits.                                        *)
(*                                                                         *)
(* What keeps the limits is the count of workers as _may_add_workers sees  *)
(* it; that the pool is replenished rests on who may be missing when: the  *)
(* scheduler thread that discards a worker notifies the executor before it *)
(* checks another one (PoolFull), and a worker that ends while the         *)
(* executor runs was discarded before (WorkerInv).                         *)
(***************************************************************************)
EXTENDS Executor, FiniteSetTheorems, SequenceTheorems, TLAPS

Busy == {"run", "blocked", "returned"}

Discarding == [step |-> "discarded"]
Checking == [step : {"check"}, worker : Ids, task : Tasks]

(* What the position of a worker's thread says about it. *)
WorkerInv ==
    \A w \in Ids :
        /\ w \in workers <=> pc[w] # "gone"
        /\ task[w] # "none" <=> pc[w] \in Busy
        /\ check[w] => pc[w] \in Busy
        /\ w \in discarded => pc[w] \in Busy \union {"stopping"}
        /\ running /\ pc[w] = "stopping" => w \in discarded

(* A running executor has not been stopped, and its queue has only tasks. *)
StopInv ==
    /\ running => stop = "no"
    /\ running => queue \in Seq(Tasks)

SchedInv == sched \in {Idle, Discarding} \union Checking

(* A worker is missing only while the executor has not heard of it. *)
PoolFull ==
    running => \/ Cardinality(workers) = MaxWorkers
               \/ Cardinality(active_workers) = WorkersCount
               \/ /\ Cardinality(active_workers) = WorkersCount - 1
                  /\ sched = Discarding

IInv ==
    /\ TypeOK
    /\ WorkerInv
    /\ StopInv
    /\ SchedInv
    /\ Cardinality(workers) <= MaxWorkers
    /\ Cardinality(active_workers) <= WorkersCount
    /\ PoolFull

-----------------------------------------------------------------------------
(* Sets of workers are finite, and there is always a thread left to use. *)
LEMMA IdsFinite ==
    /\ IsFiniteSet(Ids) /\ Cardinality(Ids) = MaxWorkers + 1
    /\ \A W \in SUBSET Ids : IsFiniteSet(W) /\ Cardinality(W) \in Nat
  <1>1. MaxWorkers \in Nat /\ MaxWorkers + 1 \in Int /\ 1 \in Int
    BY ExecutorAssumption
  <1>2. IsFiniteSet(Ids) /\ Cardinality(Ids) = MaxWorkers + 1
    BY <1>1, FS_Interval DEF Ids
  <1>3. ASSUME NEW W \in SUBSET Ids
        PROVE  IsFiniteSet(W) /\ Cardinality(W) \in Nat
    BY <1>2, FS_Subset, FS_CardinalityType
  <1> QED
    BY <1>2, <1>3

LEMMA SpareWorker ==
    ASSUME NEW W \in SUBSET Ids, Cardinality(W) < MaxWorkers
    PROVE  (CHOOSE i \in Ids : i \notin W) \in Ids \ W
  <1>1. W # Ids
    BY IdsFinite, ExecutorAssumption
  <1>2. \E i \in Ids : i \notin W
    BY <1>1
  <1> QED
    BY <1>2

(* The two outcomes of _add_worker: the workers are W, or W and a new one. *)
LEMMA WorkerAdded ==
    ASSUME NEW W \in SUBSET Ids, AddWorkerIfAllowed(W)
    PROVE  /\ discarded' = discarded \intersect W
           /\ \/ /\ ~(running /\ _may_add_workers(W)) /\ workers' = W
                 /\ pc' = [i \in Ids |-> IF i \in W THEN pc[i] ELSE "gone"]
              \/ /\ running /\ _may_add_workers(W)
                 /\ \E new \in Ids \ W :
                        /\ workers' = W \union {new}
                        /\ pc' = [i \in Ids |-> IF i = new THEN "get"
                                                ELSE IF i \in W THEN pc[i] ELSE "gone"]
  <1>1. CASE running /\ _may_add_workers(W)
    <2> DEFINE new == CHOOSE i \in Ids : i \notin W
    <2>1. new \in Ids \ W
      BY <1>1, SpareWorker DEF _may_add_workers
    <2>2. /\ discarded' = discarded \intersect W
          /\ workers' = W \union {new}
          /\ pc' = [i \in Ids |-> IF i = new THEN "get"
                                  ELSE IF i \in W THEN pc[i] ELSE "gone"]
      BY <1>1 DEF AddWorkerIfAllowed
    <2> HIDE DEF new
    <2> QED
      BY <1>1, <2>1, <2>2
  <1>2. CASE ~(running /\ _may_add_workers(W))
    BY <1>2 DEF AddWorkerIfAllowed
  <1> QED
    BY <1>1, <1>2

(* _add_worker keeps both limits, and makes up for the one worker that may *)
(* be missing.                                                             *)
LEMMA WorkersCounted ==
    ASSUME NEW W \in SUBSET Ids, AddWorkerIfAllowed(W), discarded \subseteq Ids,
           Cardinality(W) <= MaxWorkers, Cardinality(W \ discarded) <= WorkersCount
    PROVE  /\ Cardinality(workers') <= MaxWorkers
           /\ Cardinality(active_workers') <= WorkersCount
           /\ running /\ (\/ Cardinality(W \ discarded) >= WorkersCount - 1
                          \/ Cardinality(W) >= MaxWorkers - 1)
                => \/ Cardinality(workers') = MaxWorkers
                   \/ Cardinality(active_workers') = WorkersCount
  <1>1. WorkersCount \in Nat /\ MaxWorkers \in Nat
    BY ExecutorAssumption
  <1>2. /\ IsFiniteSet(W) /\ Cardinality(W) \in Nat
        /\ IsFiniteSet(W \ discarded) /\ Cardinality(W \ discarded) \in Nat
    BY IdsFinite
  <1>3. CASE ~(running /\ _may_add_workers(W)) /\ workers' = W
    <2>1. active_workers' = W \ discarded
      BY <1>3, WorkerAdded DEF active_workers
    <2> QED
      BY <1>1, <1>2, <1>3, <2>1 DEF _may_add_workers
  <1>4. ASSUME running, _may_add_workers(W), NEW new \in Ids \ W, workers' = W \union {new}
        PROVE  /\ Cardinality(workers') = Cardinality(W) + 1
               /\ Cardinality(active_workers') = Cardinality(W \ discarded) + 1
    <2>1. Cardinality(workers') = Cardinality(W) + 1
      BY <1>2, <1>4, FS_AddElement, Zenon
    <2>2. active_workers' = (W \ discarded) \union {new} /\ new \notin W \ discarded
      BY <1>4, WorkerAdded DEF active_workers
    <2> QED
      BY <1>2, <2>1, <2>2, FS_AddElement, Zenon
  <1>5. CASE running /\ _may_add_workers(W) /\ \E new \in Ids \ W : workers' = W \union {new}
    <2>1. /\ Cardinality(workers') = Cardinality(W) + 1
          /\ Cardinality(active_workers') = Cardinality(W \ discarded) + 1
      BY <1>4, <1>5
    <2> QED
      BY <1>1, <1>2, <1>5, <2>1 DEF _may_add_workers
  <1> QED
    BY <1>3, <1>5, WorkerAdded

-----------------------------------------------------------------------------
LEMMA InitIInv == Init => IInv
  <1> SUFFICES ASSUME Init PROVE IInv
    OBVIOUS
  <1>1. WorkersCount \in Nat \ {0} /\ MaxWorkers \in Nat \ {0} /\ WorkersCount <= MaxWorkers
    BY ExecutorAssumption
  <1>2. workers \subseteq Ids /\ workers \ discarded = workers
    BY <1>1 DEF Init, Ids
  <1>3. Cardinality(workers) = WorkersCount /\ Cardinality(active_workers) = WorkersCount
    BY <1>1, <1>2, FS_Interval DEF Init, active_workers
  <1>4. TypeOK
    BY <1>2 DEF Init, TypeOK, Idle
  <1>5. WorkerInv
    BY <1>2 DEF Init, WorkerInv, Busy
  <1> QED
    BY <1>1, <1>3, <1>4, <1>5 DEF Init, IInv, StopInv, SchedInv, PoolFull

(* The steps that leave the workers and what is discarded alone keep the   *)
(* counts.                                                                 *)
LEMMA CountsKept ==
    ASSUME IInv, UNCHANGED <<workers, discarded>>, running' => running,
           sched = Discarding => sched' = Discarding
    PROVE  /\ Cardinality(workers') <= MaxWorkers
           /\ Cardinality(active_workers') <= WorkersCount
           /\ PoolFull'
  <1>1. active_workers' = active_workers
    BY DEF active_workers
  <1> QED
    BY <1>1 DEF IInv, PoolFull

LEMMA CallersKeepIInv ==
    ASSUME IInv, NEW t \in Tasks, dispatch(t) \/ put(t)
    PROVE  IInv'
  <1>1. TypeOK' /\ StopInv'
    <2>1. queue \in Seq(Tasks \union {"STOP"}) /\ (running => queue \in Seq(Tasks))
      BY DEF IInv, TypeOK, StopInv
    <2>2. Append(queue, t) \in Seq(Tasks \union {"STOP"})
      BY <2>1, AppendProperties
    <2>3. running => Append(queue, t) \in Seq(Tasks)
      BY <2>1, AppendProperties
    <2> QED
      BY <2>1, <2>2, <2>3 DEF IInv, TypeOK, StopInv, dispatch, put
  <1>2. WorkerInv' /\ SchedInv'
    BY DEF IInv, WorkerInv, SchedInv, dispatch, put
  <1> QED
    BY <1>1, <1>2, CountsKept DEF IInv, dispatch, put

LEMMA StopKeepsIInv ==
    ASSUME IInv, stop_clear \/ stop_put
    PROVE  IInv'
  <1>1. TypeOK'
    <2>1. queue \in Seq(Tasks \union {"STOP"})
      BY DEF IInv, TypeOK
    <2>2. Append(queue, "STOP") \in Seq(Tasks \union {"STOP"}) /\ <<>> \in Seq(Tasks \union {"STOP"})
      BY <2>1, AppendProperties
    <2> QED
      BY <2>1, <2>2, Zenon DEF IInv, TypeOK, stop_clear, stop_put
  <1>2. WorkerInv' /\ SchedInv' /\ StopInv'
    BY DEF IInv, WorkerInv, SchedInv, StopInv, stop_clear, stop_put
  <1> QED
    BY <1>1, <1>2, CountsKept DEF IInv, stop_clear, stop_put

LEMMA NextTaskKeepsIInv ==
    ASSUME IInv, NEW w \in Ids, _next_task(w)
    PROVE  IInv'
  <1>1. /\ queue \in Seq(Tasks \union {"STOP"}) /\ queue # <<>>
        /\ running => queue \in Seq(Tasks)
    BY DEF IInv, TypeOK, StopInv, _next_task
  <1>2. /\ Head(queue) \in Tasks \union {"STOP"}
        /\ Tail(queue) \in Seq(Tasks \union {"STOP"})
        /\ running => Head(queue) \in Tasks /\ Tail(queue) \in Seq(Tasks)
    BY <1>1, HeadTailProperties
  <1>3. TypeOK' /\ StopInv' /\ SchedInv'
    BY <1>2, Zenon DEF IInv, TypeOK, StopInv, SchedInv, _next_task
  <1>4. WorkerInv'
    BY <1>2, ExecutorAssumption DEF IInv, TypeOK, WorkerInv, _next_task, Busy
  <1> QED
    BY <1>3, <1>4, CountsKept DEF IInv, _next_task

LEMMA TaskKeepsIInv ==
    ASSUME IInv, NEW w \in Ids, TaskBlocks(w) \/ TaskReturns(w) \/ _execute_task_finally(w)
    PROVE  IInv'
  <1>1. StopInv' /\ SchedInv'
    BY DEF IInv, StopInv, SchedInv, TaskBlocks, TaskReturns, _execute_task_finally
  <1>2. TypeOK'
    BY Zenon DEF IInv, TypeOK, TaskBlocks, TaskReturns, _execute_task_finally
  <1>3. WorkerInv'
    BY DEF IInv, TypeOK, WorkerInv, TaskBlocks, TaskReturns, _execute_task_finally, Busy
  <1> QED
    BY <1>1, <1>2, <1>3, CountsKept DEF IInv, TaskBlocks, TaskReturns, _execute_task_finally

(* What _add_worker does to the threads: those of W stay as they are, and  *)
(* a new worker is free.                                                   *)
LEMMA AddedKeepsWorkers ==
    ASSUME IInv, NEW W \in SUBSET workers, AddWorkerIfAllowed(W),
           \A w \in workers \ W : pc[w] = "stopping",
           UNCHANGED <<running, queue, task, check, stop>>,
           sched' \in {Idle, sched}
    PROVE  TypeOK' /\ WorkerInv' /\ StopInv' /\ SchedInv'
  <1> W \in SUBSET Ids
    BY DEF IInv, TypeOK
  <1>1. StopInv' /\ SchedInv'
    BY DEF IInv, StopInv, SchedInv
  <1>2. discarded' = discarded \intersect W /\ W \subseteq workers'
    BY WorkerAdded
  <1>3. CASE workers' = W /\ pc' = [i \in Ids |-> IF i \in W THEN pc[i] ELSE "gone"]
    <2>1. TypeOK'
      BY <1>2, <1>3 DEF IInv, TypeOK, Idle
    <2>2. WorkerInv'
      BY <1>2, <1>3 DEF IInv, TypeOK, WorkerInv, Busy
    <2> QED
      BY <1>1, <2>1, <2>2
  <1>4. ASSUME NEW new \in Ids \ W, workers' = W \union {new},
               pc' = [i \in Ids |-> IF i = new THEN "get"
                                    ELSE IF i \in W THEN pc[i] ELSE "gone"]
        PROVE  TypeOK' /\ WorkerInv'
    <2>1. TypeOK'
      BY <1>2, <1>4 DEF IInv, TypeOK, Idle
    <2>2. WorkerInv'
      BY <1>2, <1>4 DEF IInv, TypeOK, WorkerInv, Busy
    <2> QED
      BY <2>1, <2>2
  <1> QED
    BY <1>1, <1>3, <1>4, WorkerAdded

LEMMA StoppedKeepsIInv ==
    ASSUME IInv, NEW w \in Ids, _worker_stopped(w)
    PROVE  IInv'
  <1> DEFINE W == workers \ {w}
  <1>1. W \in SUBSET workers /\ W \in SUBSET Ids /\ discarded \subseteq Ids /\ w \in workers
    BY DEF IInv, TypeOK, WorkerInv, _worker_stopped
  <1>2. AddWorkerIfAllowed(W) /\ UNCHANGED <<running, queue, task, check, sched, stop>>
    BY DEF _worker_stopped
  <1>3. TypeOK' /\ WorkerInv' /\ StopInv' /\ SchedInv'
    BY <1>1, <1>2, AddedKeepsWorkers DEF _worker_stopped
  <1>4. /\ Cardinality(W) = Cardinality(workers) - 1
        /\ Cardinality(W \ discarded) <= Cardinality(active_workers)
        /\ running => W \ discarded = active_workers
    <2>1. IsFiniteSet(workers) /\ IsFiniteSet(active_workers)
      BY IdsFinite DEF IInv, TypeOK, active_workers
    <2>2. W \ discarded \in SUBSET active_workers
      BY DEF active_workers
    <2>3. running => w \in discarded
      BY DEF IInv, WorkerInv, _worker_stopped
    <2>4. running => W \ discarded = active_workers
      BY <2>3 DEF active_workers
    <2> QED
      BY <1>1, <2>1, <2>2, <2>4, FS_RemoveElement, FS_Subset
  <1>5. /\ Cardinality(workers) \in Nat /\ Cardinality(active_workers) \in Nat
        /\ Cardinality(W \ discarded) \in Nat
        /\ WorkersCount \in Nat /\ MaxWorkers \in Nat
    BY <1>1, IdsFinite, ExecutorAssumption DEF active_workers, IInv, TypeOK
  <1>6. Cardinality(W) <= MaxWorkers /\ Cardinality(W \ discarded) <= WorkersCount
    BY <1>4, <1>5 DEF IInv
  <1>7. running => \/ Cardinality(W \ discarded) >= WorkersCount - 1
                   \/ Cardinality(W) >= MaxWorkers - 1
    BY <1>4, <1>5 DEF IInv, PoolFull
  <1> HIDE DEF W
  <1>8. /\ Cardinality(workers') <= MaxWorkers
        /\ Cardinality(active_workers') <= WorkersCount
        /\ running => \/ Cardinality(workers') = MaxWorkers
                      \/ Cardinality(active_workers') = WorkersCount
    BY <1>1, <1>2, <1>6, <1>7, WorkersCounted
  <1> QED
    BY <1>2, <1>3, <1>8 DEF IInv, PoolFull

LEMMA DiscardedKeepsIInv ==
    ASSUME IInv, _worker_discarded
    PROVE  IInv'
  <1>1. /\ workers \in SUBSET Ids /\ discarded \subseteq Ids
        /\ AddWorkerIfAllowed(workers) /\ sched' = Idle
        /\ UNCHANGED <<running, queue, task, check, stop>>
    BY DEF IInv, TypeOK, _worker_discarded
  <1>2. TypeOK' /\ WorkerInv' /\ StopInv' /\ SchedInv'
    BY <1>1, AddedKeepsWorkers
  <1>3. /\ Cardinality(workers) \in Nat /\ Cardinality(active_workers) \in Nat
        /\ WorkersCount \in Nat /\ MaxWorkers \in Nat
    BY <1>1, IdsFinite, ExecutorAssumption DEF active_workers
  <1>4. running => \/ Cardinality(active_workers) >= WorkersCount - 1
                   \/ Cardinality(workers) >= MaxWorkers - 1
    BY <1>3 DEF IInv, PoolFull
  <1>5. /\ Cardinality(workers') <= MaxWorkers
        /\ Cardinality(active_workers') <= WorkersCount
        /\ running => \/ Cardinality(workers') = MaxWorkers
                      \/ Cardinality(active_workers') = WorkersCount
    BY <1>1, <1>4, WorkersCounted DEF IInv, active_workers
  <1> QED
    BY <1>1, <1>2, <1>5 DEF IInv, PoolFull

LEMMA ScheduledKeepsIInv ==
    ASSUME IInv, NEW w \in Ids, ScheduledCall_execute(w)
    PROVE  IInv'
  <1>1. task[w] \in Tasks /\ sched = Idle
    BY DEF IInv, TypeOK, WorkerInv, ScheduledCall_execute
  <1>2. sched' \in Checking /\ sched'.step = "check"
    BY <1>1 DEF ScheduledCall_execute, Checking
  <1>3. TypeOK' /\ StopInv' /\ SchedInv'
    BY <1>2 DEF IInv, TypeOK, StopInv, SchedInv, ScheduledCall_execute
  <1>4. WorkerInv'
    BY DEF IInv, TypeOK, WorkerInv, ScheduledCall_execute
  <1>5. sched # Discarding
    BY <1>1 DEF Idle, Discarding
  <1> QED
    BY <1>3, <1>4, <1>5, CountsKept DEF IInv, ScheduledCall_execute

LEMMA CheckKeepsIInv ==
    ASSUME IInv, _check_task
    PROVE  IInv'
  <1>1. sched \in Checking /\ sched # Discarding
    BY DEF IInv, SchedInv, Idle, Discarding, _check_task
  <1> DEFINE w == sched.worker
  <1>2. w \in Ids /\ sched.task \in Tasks
    BY <1>1 DEF Checking
  <1>3. UNCHANGED <<running, queue, workers, pc, task, status, stop, stops>>
    BY DEF _check_task
  <1>4. CASE sched' = Idle /\ UNCHANGED <<discarded, check>>
    <2>1. TypeOK' /\ WorkerInv' /\ StopInv' /\ SchedInv'
      BY <1>3, <1>4 DEF IInv, TypeOK, WorkerInv, StopInv, SchedInv, Idle
    <2> QED
      BY <1>1, <1>3, <1>4, <2>1, CountsKept DEF IInv
  <1>5. CASE /\ task[w] = sched.task /\ pc[w] # "returned"
             /\ check' = [check EXCEPT ![w] = TRUE]
             /\ sched' = Idle /\ UNCHANGED discarded
    <2>1. pc[w] \in Busy
      BY <1>2, <1>5, ExecutorAssumption DEF IInv, WorkerInv
    <2>2. TypeOK' /\ WorkerInv' /\ StopInv' /\ SchedInv'
      BY <1>2, <1>3, <1>5, <2>1 DEF IInv, TypeOK, WorkerInv, StopInv, SchedInv, Idle
    <2> QED
      BY <1>1, <1>3, <1>5, <2>2, CountsKept DEF IInv
  <1>6. CASE /\ task[w] = sched.task /\ pc[w] # "returned"
             /\ discarded' = discarded \union {w}
             /\ sched' = Discarding /\ UNCHANGED check
    <2>1. pc[w] \in Busy /\ w \in workers
      BY <1>2, <1>6, ExecutorAssumption DEF IInv, WorkerInv, Busy
    <2>2. TypeOK' /\ WorkerInv' /\ StopInv' /\ SchedInv'
      BY <1>2, <1>3, <1>6, <2>1 DEF IInv, TypeOK, WorkerInv, StopInv, SchedInv, Discarding
    <2>3. active_workers' = active_workers \ {w}
      BY <1>3, <1>6 DEF active_workers
    <2>4. IsFiniteSet(active_workers) /\ Cardinality(active_workers) \in Nat
      BY IdsFinite DEF IInv, TypeOK, active_workers
    <2>5. \/ Cardinality(active_workers') = Cardinality(active_workers)
          \/ Cardinality(active_workers') = Cardinality(active_workers) - 1
      BY <2>3, <2>4, FS_RemoveElement
    <2>6. running => \/ Cardinality(workers) = MaxWorkers
                     \/ Cardinality(active_workers) = WorkersCount
      BY <1>1 DEF IInv, PoolFull
    <2>7. PoolFull' /\ Cardinality(active_workers') <= WorkersCount
      BY <1>3, <1>6, <2>4, <2>5, <2>6, ExecutorAssumption DEF IInv, PoolFull
    <2> QED
      BY <1>3, <2>2, <2>7 DEF IInv
  <1> QED
    BY <1>4, <1>5, <1>6 DEF _check_task, Discarding

LEMMA NextIInv == IInv /\ [Next]_vars => IInv'
  <1> SUFFICES ASSUME IInv, [Next]_vars PROVE IInv'
    OBVIOUS
  <1>1. CASE UNCHANGED vars
    BY <1>1 DEF vars, IInv, TypeOK, WorkerInv, StopInv, SchedInv, PoolFull, active_workers
  <1>2. ASSUME NEW w \in Ids, Worker(w) \/ TaskReturns(w) PROVE IInv'
    BY <1>2, NextTaskKeepsIInv, TaskKeepsIInv, StoppedKeepsIInv DEF Worker
  <1>3. CASE Scheduler
    BY <1>3, CheckKeepsIInv, DiscardedKeepsIInv, ScheduledKeepsIInv DEF Scheduler
  <1> QED
    BY <1>1, <1>2, <1>3, CallersKeepIInv, StopKeepsIInv DEF Next

LEMMA Invariance == Spec => []IInv
  BY InitIInv, NextIInv, PTL DEF Spec

-----------------------------------------------------------------------------
(* However discarding, stopping and replacing workers interleave, there    *)
(* are never more workers than max_workers, nor more free to take tasks    *)
(* than workers_count, and a discarded worker never takes a task: what     *)
(* _may_add_workers() promises, for all sizes.                             *)
THEOREM LimitsKept == Spec => []WorkerLimits
  <1>1. IInv => WorkerLimits
    BY DEF IInv, WorkerLimits, WorkerInv, TypeOK, Busy
  <1> QED
    BY <1>1, Invariance, PTL

(* A running executor that has been told of every discarded worker lacks   *)
(* one only at max_workers: no replacement is lost between                 *)
(* _worker_discarded() and _worker_stopped(), for all sizes.               *)
THEOREM PoolReplenished == Spec => []Replenished
  <1>1. IInv => Replenished
    BY DEF IInv, Replenished, PoolFull, Discarding
  <1> QED
    BY <1>1, Invariance, PTL
=============================================================================
