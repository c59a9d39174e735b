---------------------------- MODULE RWLockProofs ----------------------------
(***************************************************************************)
(* Proofs about RWLock for every set of threads and every recursion bound. *)
(*                                                                         *)
(* WriterExclusion is not inductive: a step that takes the lock after a    *)
(* wait relies on what the thread that granted it saw.  The invariant      *)
(* below says what a set event means (GrantInv), that only the oldest      *)
(* waiter can have its event set, and how the queue and the recursion      *)
(* counts follow the threads' positions (QueueInv, CountInv).              *)
(***************************************************************************)
EXTENDS RWLock, SequenceTheorems, TLAPS

(* The recursion count of a thread follows from where the thread is. *)
CountInv ==
    \A t \in Thread :
        /\ pc[t] = "idle" => (t \in holders <=> depth[t] > 0)
        /\ pc[t] = "waiting" => t \notin holders /\ depth[t] = 0
        /\ pc[t] = "releasing" => t \in holders /\ depth[t] = 0

(* The queue lists the blocked threads, each once. *)
QueueInv ==
    /\ \A i \in 1..Len(waiters) : pc[waiters[i].thread] = "waiting"
    /\ \A i, j \in 1..Len(waiters) :
            waiters[i].thread = waiters[j].thread => i = j

(* Only the oldest waiter can be granted, and then the lock is free for it. *)
GrantInv ==
    \A t \in granted :
        /\ waiters # <<>>
        /\ waiters[1].thread = t
        /\ writer = NoThread
        /\ waiters[1].wants_write => holders = {}

IInv ==
    /\ TypeOK
    /\ CountInv
    /\ QueueInv
    /\ GrantInv
    /\ WriterExclusion
    /\ NoLostWakeup

-----------------------------------------------------------------------------
(* Removing the first waiter of the queue leaves the tail: what _wait()    *)
(* does when the thread that wakes is the oldest one.                      *)
LEMMA RemoveOldest ==
    ASSUME NEW S, NEW s \in Seq(S), s # <<>>
    PROVE  RemoveAt(s, 1) = Tail(s)
  <1>1. SubSeq(s, 1, 1-1) = <<>>
    BY SubSeqEmpty
  <1>2. SubSeq(s, 1+1, Len(s)) = Tail(s)
    BY TailIsSubSeq
  <1>3. Tail(s) \in Seq(S)
    BY HeadTailProperties
  <1>4. <<>> \o Tail(s) = Tail(s)
    BY <1>3, ConcatEmptySeq
  <1> QED
    BY <1>1, <1>2, <1>4 DEF RemoveAt

(* The threads in the queue are threads. *)
LEMMA QueuedThreads ==
    ASSUME TypeOK
    PROVE  /\ \A i \in 1..Len(waiters) : waiters[i] \in Waiter /\ waiters[i].thread \in Thread
           /\ waiters # <<>> => Head(waiters) = waiters[1] /\ 1 \in 1..Len(waiters)
  <1>1. waiters \in Seq(Waiter)
    BY DEF TypeOK
  <1>2. ASSUME NEW i \in 1..Len(waiters)
        PROVE  waiters[i] \in Waiter /\ waiters[i].thread \in Thread
    <2>1. waiters[i] \in Waiter
      BY <1>1, ElementOfSeq
    <2> QED
      BY <2>1 DEF Waiter
  <1>3. waiters # <<>> => Len(waiters) \in Nat \ {0}
    BY <1>1, EmptySeq
  <1> QED
    BY <1>1, <1>2, <1>3

(* Each step of the lock preserves the invariant. *)
LEMMA InitInvariant == Init => IInv
  BY ThreadAssumption, DepthAssumption
     DEF Init, IInv, TypeOK, CountInv, QueueInv, GrantInv, WriterExclusion,
         NoLostWakeup, PC

LEMMA RecurseInvariant ==
    ASSUME IInv, NEW t \in Thread, pc[t] = "idle", t \in holders, Recurse(t)
    PROVE  IInv'
  BY ThreadAssumption, DepthAssumption
     DEF Recurse, IInv, TypeOK, CountInv, QueueInv, GrantInv, WriterExclusion,
         NoLostWakeup, PC

LEMMA RefuseInvariant ==
    ASSUME IInv, NEW t \in Thread, Refuse(t)
    PROVE  IInv'
  BY DEF Refuse, IInv, TypeOK, CountInv, QueueInv, GrantInv, WriterExclusion,
         NoLostWakeup, PC

LEMMA BlockInvariant ==
    ASSUME IInv, NEW t \in Thread, NEW w \in BOOLEAN,
           pc[t] = "idle", t \notin holders,
           Block(t, w),
           waiters = <<>> => writer # NoThread \/ (w /\ holders # {})
    PROVE  IInv'
  <1> DEFINE me == [thread |-> t, wants_write |-> w]
  <1>0. me \in Waiter /\ waiters \in Seq(Waiter)
    BY DEF Waiter, IInv, TypeOK
  <1>1. /\ waiters' \in Seq(Waiter)
        /\ waiters' # <<>>
        /\ Len(waiters') = Len(waiters) + 1
        /\ \A i \in 1..Len(waiters) : waiters'[i] = waiters[i]
        /\ waiters'[Len(waiters) + 1] = me
    BY <1>0, AppendProperties DEF Block
  <1>2. Head(waiters') = IF waiters = <<>> THEN me ELSE Head(waiters)
    BY <1>0, HeadTailAppend DEF Block
  <1>3. Len(waiters) \in Nat /\ (waiters # <<>> => Len(waiters) > 0)
    BY <1>0, LenProperties, EmptySeq
  <1>4. TypeOK'
    BY <1>1 DEF Block, IInv, TypeOK, PC
  <1>5. CountInv'
    BY DEF Block, IInv, TypeOK, CountInv
  <1>6. QueueInv'
    <2>1. \A i \in 1..Len(waiters) : waiters[i].thread \in Thread /\ waiters[i].thread # t
      BY QueuedThreads DEF IInv, QueueInv
    <2> QED
      BY <1>0, <1>1, <1>3, <2>1 DEF Block, IInv, QueueInv, TypeOK
  <1>7. GrantInv'
    BY <1>1, <1>3 DEF Block, IInv, GrantInv, TypeOK
  <1>8. WriterExclusion'
    BY DEF Block, IInv, WriterExclusion
  <1>9. NoLostWakeup'
    BY <1>1, <1>2 DEF Block, IInv, NoLostWakeup
  <1> QED
    BY <1>4, <1>5, <1>6, <1>7, <1>8, <1>9, Zenon DEF IInv

LEMMA AcquireWriteInvariant ==
    ASSUME IInv, NEW t \in Thread, AcquireWrite(t)
    PROVE  IInv'
  <1>0. pc[t] = "idle"
    BY DEF AcquireWrite
  <1>1. CASE t = writer /\ Recurse(t)
    <2>1. t \in holders
      BY <1>1, ThreadAssumption DEF IInv, WriterExclusion
    <2> QED
      BY <1>0, <1>1, <2>1, RecurseInvariant
  <1>2. CASE t # writer /\ t \in holders /\ Refuse(t)
    BY <1>2, RefuseInvariant
  <1>3. CASE /\ t \notin holders
             /\ holders # {} \/ waiters # <<>>
             /\ Block(t, TRUE)
    BY <1>0, <1>3, BlockInvariant, Zenon
  <1>4. CASE /\ holders = {} /\ waiters = <<>>
             /\ holders' = {t}
             /\ depth' = [depth EXCEPT ![t] = 1]
             /\ writer' = t
             /\ raised' = raised \ {t}
             /\ UNCHANGED <<waiters, granted, pc>>
    <2>1. granted = {}
      BY <1>4 DEF IInv, GrantInv
    <2>2. Len(waiters) = 0
      BY <1>4, EmptySeq
    <2> QED
      BY <1>0, <1>4, <2>1, <2>2, DepthAssumption
         DEF IInv, TypeOK, CountInv, QueueInv, GrantInv, WriterExclusion, NoLostWakeup
  <1> QED
    BY <1>1, <1>2, <1>3, <1>4, Zenon DEF AcquireWrite

LEMMA AcquireReadInvariant ==
    ASSUME IInv, NEW t \in Thread, AcquireRead(t)
    PROVE  IInv'
  <1>0. pc[t] = "idle"
    BY DEF AcquireRead
  <1>1. CASE t = writer /\ Refuse(t)
    BY <1>1, RefuseInvariant
  <1>2. CASE t # writer /\ t \in holders /\ Recurse(t)
    BY <1>0, <1>2, RecurseInvariant
  <1>3. CASE /\ t \notin holders
             /\ writer # NoThread \/ waiters # <<>>
             /\ Block(t, FALSE)
    BY <1>0, <1>3, BlockInvariant, Zenon
  <1>4. CASE /\ t \notin holders
             /\ writer = NoThread /\ waiters = <<>>
             /\ holders' = holders \cup {t}
             /\ depth' = [depth EXCEPT ![t] = 1]
             /\ raised' = raised \ {t}
             /\ UNCHANGED <<writer, waiters, granted, pc>>
    <2>1. granted = {}
      BY <1>4 DEF IInv, GrantInv
    <2>2. Len(waiters) = 0
      BY <1>4, EmptySeq
    <2> QED
      BY <1>0, <1>4, <2>1, <2>2, DepthAssumption
         DEF IInv, TypeOK, CountInv, QueueInv, GrantInv, WriterExclusion, NoLostWakeup
  <1> QED
    BY <1>1, <1>2, <1>3, <1>4, Zenon DEF AcquireRead

LEMMA WakeInvariant ==
    ASSUME IInv, NEW t \in Thread, Wake(t)
    PROVE  IInv'
  <1> DEFINE w == waiters[1]
  <1>1. /\ waiters # <<>> /\ w.thread = t /\ writer = NoThread
        /\ w.wants_write => holders = {}
        /\ granted = {t}
    BY DEF Wake, IInv, GrantInv
  <1>2. waiters \in Seq(Waiter) /\ Len(waiters) \in Nat \ {0} /\ DOMAIN waiters = 1..Len(waiters)
    BY <1>1, EmptySeq, LenProperties, Zenon DEF IInv, TypeOK
  <1>3. PICK i \in 1..Len(waiters) :
            /\ waiters[i].thread = t
            /\ waiters' = RemoveAt(waiters, i)
            /\ holders' = holders \cup {t}
            /\ depth' = [depth EXCEPT ![t] = 1]
            /\ IF waiters[i].wants_write
               THEN /\ writer' = t
                    /\ granted' = granted \ {t}
               ELSE /\ granted' = GrantNext(holders', waiters', granted \ {t})
                    /\ UNCHANGED writer
    BY <1>2 DEF Wake
  <1>4. i = 1
    BY <1>1, <1>2, <1>3 DEF IInv, QueueInv
  <1>5. /\ waiters' = Tail(waiters)
        /\ waiters' \in Seq(Waiter)
        /\ Len(waiters') = Len(waiters) - 1
        /\ \A k \in 1..Len(waiters') : waiters'[k] = waiters[k + 1]
    <2>1. waiters' = Tail(waiters)
      BY <1>1, <1>2, <1>3, <1>4, RemoveOldest, Zenon
    <2> QED
      BY <1>1, <1>2, <2>1, HeadTailProperties, Zenon
  <1>6. waiters' # <<>> => Len(waiters') > 0
    BY <1>5, EmptySeq
  <1>7. /\ pc[t] = "waiting" /\ t \notin holders /\ depth[t] = 0
        /\ pc' = [pc EXCEPT ![t] = "idle"] /\ raised' = raised
    BY DEF Wake, IInv, CountInv
  <1>8. ASSUME NEW k \in 1..Len(waiters)
        PROVE  waiters[k] \in Waiter
    BY <1>2, ElementOfSeq
  <1>9. /\ \A k \in 1..Len(waiters') : waiters'[k].thread \in Thread /\ waiters'[k].thread # t
        /\ waiters' # <<>> => Head(waiters') = waiters'[1]
    BY <1>1, <1>2, <1>5, <1>6, <1>8 DEF Waiter, IInv, QueueInv
  <1>10. granted' \in SUBSET Thread
    <2>1. Len(waiters') \in Nat
      BY <1>2, <1>5
    <2>2. waiters' # <<>> => Head(waiters').thread \in Thread
      BY <2>1, <1>6, <1>9
    <2> QED
      BY <1>1, <1>3, <2>2 DEF GrantNext
  <1>11. TypeOK'
    BY <1>3, <1>5, <1>7, <1>10, DepthAssumption DEF IInv, TypeOK, PC
  <1>12. CountInv'
    BY <1>3, <1>7 DEF IInv, TypeOK, CountInv
  <1>13. QueueInv'
    BY <1>2, <1>5, <1>7, <1>9 DEF IInv, TypeOK, QueueInv
  <1>14. GrantInv'
    BY <1>1, <1>3, <1>4, <1>9 DEF GrantInv, GrantNext
  <1>15. WriterExclusion'
    BY <1>1, <1>3, <1>4 DEF WriterExclusion
  <1>16. NoLostWakeup'
    BY <1>1, <1>3, <1>4, ThreadAssumption, Zenon DEF NoLostWakeup, GrantNext
  <1> QED
    BY <1>11, <1>12, <1>13, <1>14, <1>15, <1>16, Zenon DEF IInv

LEMMA ReleaseInvariant ==
    ASSUME IInv, NEW t \in Thread, Release(t)
    PROVE  IInv'
  <1>0. pc[t] = "idle"
    BY DEF Release
  <1>1. CASE t \notin holders /\ Refuse(t)
    BY <1>1, RefuseInvariant
  <1>2. CASE /\ t \in holders
             /\ depth' = [depth EXCEPT ![t] = @ - 1]
             /\ pc' = [pc EXCEPT ![t] = IF depth[t] > 1 THEN "idle" ELSE "releasing"]
             /\ raised' = raised \ {t}
             /\ UNCHANGED <<holders, writer, waiters, granted>>
    <2>1. depth[t] \in 1..MaxDepth
      BY <1>0, <1>2, DepthAssumption DEF IInv, TypeOK, CountInv
    <2>2. TypeOK'
      BY <1>2, <2>1, DepthAssumption DEF IInv, TypeOK, PC
    <2>3. CountInv'
      BY <1>0, <1>2, <2>1, DepthAssumption DEF IInv, TypeOK, CountInv
    <2>4. QueueInv'
      <3>1. \A i \in 1..Len(waiters) : waiters[i].thread \in Thread
        BY QueuedThreads DEF IInv
      <3> QED
        BY <1>0, <1>2, <3>1 DEF IInv, TypeOK, QueueInv
    <2> QED
      BY <1>2, <2>2, <2>3, <2>4, Zenon DEF IInv, GrantInv, WriterExclusion, NoLostWakeup
  <1> QED
    BY <1>1, <1>2 DEF Release

LEMMA FinishReleaseInvariant ==
    ASSUME IInv, NEW t \in Thread, FinishRelease(t)
    PROVE  IInv'
  <1>1. /\ pc[t] = "releasing" /\ t \in holders /\ depth[t] = 0
        /\ writer' = NoThread
        /\ holders' = holders \ {t}
        /\ granted' = GrantNext(holders', waiters, granted)
        /\ pc' = [pc EXCEPT ![t] = "idle"]
        /\ UNCHANGED <<depth, waiters, raised>>
    BY DEF FinishRelease, IInv, CountInv
  <1>2. /\ \A i \in 1..Len(waiters) : waiters[i].thread \in Thread
        /\ waiters # <<>> => Head(waiters) = waiters[1] /\ 1 \in 1..Len(waiters)
    BY QueuedThreads DEF IInv
  <1>3. TypeOK'
    BY <1>1, <1>2 DEF IInv, TypeOK, PC, GrantNext
  <1>4. CountInv'
    BY <1>1 DEF IInv, TypeOK, CountInv
  <1>5. QueueInv'
    BY <1>1, <1>2 DEF IInv, TypeOK, QueueInv
  <1>6. GrantInv'
    BY <1>1, <1>2 DEF IInv, GrantInv, GrantNext
  <1>7. WriterExclusion'
    BY <1>1 DEF WriterExclusion
  <1>8. NoLostWakeup'
    BY <1>1 DEF NoLostWakeup, GrantNext
  <1> QED
    BY <1>3, <1>4, <1>5, <1>6, <1>7, <1>8, Zenon DEF IInv

LEMMA StepInvariant == IInv /\ [Next]_vars => IInv'
  <1> SUFFICES ASSUME IInv, [Next]_vars PROVE IInv'
    OBVIOUS
  <1>1. CASE UNCHANGED vars
    BY <1>1 DEF vars, IInv, TypeOK, CountInv, QueueInv, GrantInv,
                WriterExclusion, NoLostWakeup
  <1>2. ASSUME NEW t \in Thread, AcquireWrite(t) PROVE IInv'
    BY <1>2, AcquireWriteInvariant
  <1>3. ASSUME NEW t \in Thread, AcquireRead(t) PROVE IInv'
    BY <1>3, AcquireReadInvariant, Zenon
  <1>4. ASSUME NEW t \in Thread, Wake(t) PROVE IInv'
    BY <1>4, WakeInvariant
  <1>5. ASSUME NEW t \in Thread, Release(t) PROVE IInv'
    BY <1>5, ReleaseInvariant
  <1>6. ASSUME NEW t \in Thread, FinishRelease(t) PROVE IInv'
    BY <1>6, FinishReleaseInvariant
  <1> QED
    BY <1>1, <1>2, <1>3, <1>4, <1>5, <1>6, Zenon DEF Next

(* The inductive invariant holds in every behaviour of the lock. *)
THEOREM Invariance == Spec => []IInv
  BY InitInvariant, StepInvariant, PTL DEF Spec

(* The lock's fields keep their types: in particular no recursion count    *)
(* goes below zero, whatever calls the threads make.                       *)
THEOREM TypeCorrect == Spec => []TypeOK
  <1>1. IInv => TypeOK
    BY DEF IInv
  <1> QED
    BY <1>1, Invariance, PTL

(* A writer is alone, for any number of threads and any recursion. *)
THEOREM WriterIsAlone == Spec => []WriterExclusion
  <1>1. IInv => WriterExclusion
    BY DEF IInv
  <1> QED
    BY <1>1, Invariance, PTL

(* No wakeup is lost: whenever threads wait, the oldest one has its event  *)
(* set or a holder it is incompatible with has still to release.           *)
THEOREM WakeupsAreKept == Spec => []NoLostWakeup
  <1>1. IInv => NoLostWakeup
    BY DEF IInv
  <1> QED
    BY <1>1, Invariance, PTL

(* Requests are served first come, first served: a thread that gets the    *)
(* lock overtakes no waiter.                                               *)
THEOREM FirstComeFirstServed == Spec => ServedInOrder
  <1> DEFINE Served == \A t \in Thread : t \in holders' \ holders =>
                            waiters = <<>> \/ Head(waiters).thread = t
  <1>1. IInv /\ [Next]_vars => [Served]_vars
    <2> SUFFICES ASSUME IInv, Next PROVE Served
      BY DEF vars
    <2>1. PICK t \in Thread : \/ AcquireWrite(t) \/ AcquireRead(t) \/ Wake(t)
                              \/ Release(t) \/ FinishRelease(t)
      BY DEF Next
    <2>2. CASE AcquireWrite(t) \/ AcquireRead(t) \/ Release(t) \/ FinishRelease(t)
      BY <2>2 DEF AcquireWrite, AcquireRead, Release, FinishRelease, Recurse, Refuse, Block
    <2>3. CASE Wake(t)
      <3>1. waiters # <<>> /\ Head(waiters).thread = t
        BY <2>3, QueuedThreads DEF Wake, IInv, GrantInv
      <3> QED
        BY <2>3, <3>1 DEF Wake
    <2> QED
      BY <2>1, <2>2, <2>3
  <1> QED
    BY <1>1, Invariance, PTL DEF Spec, ServedInOrder

-----------------------------------------------------------------------------
(* The refinement: what a step of the lock does to the modes the clients   *)
(* have is a step of SharedExclusive or leaves them alone.                 *)
LEMMA InitRefines == Init => Abstract!Init
  BY DEF Init, Abstract!Init, HeldMode

LEMMA StepRefines ==
    ASSUME IInv, [Next]_vars
    PROVE  [Abstract!Next]_([t \in Thread |-> HeldMode(t)])
  <1> DEFINE mode == [t \in Thread |-> HeldMode(t)]
  <1> SUFFICES ASSUME mode' # mode PROVE Abstract!Next
    BY DEF Abstract!Next
  <1>0. /\ holders \in SUBSET Thread /\ writer \in Thread \cup {NoThread}
        /\ writer # NoThread => holders = {writer}
    BY DEF IInv, TypeOK, WriterExclusion
  <1>1. ~ UNCHANGED <<holders, writer>>
    BY DEF HeldMode
  <1>2. PICK t \in Thread : \/ AcquireWrite(t) \/ AcquireRead(t) \/ Wake(t)
                            \/ Release(t) \/ FinishRelease(t)
    BY <1>1 DEF Next, vars
  <1>3. CASE holders = {} /\ holders' = {t} /\ writer' = t
    <2>1. Abstract!Exclude(t)
      BY <1>0, <1>3 DEF Abstract!Exclude, HeldMode
    <2> QED
      BY <2>1 DEF Abstract!Next
  <1>4. CASE /\ t \notin holders /\ writer = NoThread
             /\ holders' = holders \cup {t} /\ writer' = writer
    <2>1. Abstract!Share(t)
      BY <1>0, <1>4, ThreadAssumption, Zenon DEF Abstract!Share, HeldMode
    <2> QED
      BY <2>1 DEF Abstract!Next
  <1>5. CASE t \in holders /\ holders' = holders \ {t} /\ writer' = NoThread
    <2>1. Abstract!Release(t)
      BY <1>0, <1>5, ThreadAssumption, Zenon DEF Abstract!Release, HeldMode
    <2> QED
      BY <2>1 DEF Abstract!Next
  <1>6. CASE AcquireWrite(t) \/ AcquireRead(t) \/ Release(t)
    BY <1>1, <1>3, <1>4, <1>6
       DEF AcquireWrite, AcquireRead, Release, Recurse, Refuse, Block
  <1>7. CASE FinishRelease(t)
    BY <1>5, <1>7 DEF FinishRelease, IInv, CountInv
  <1>8. CASE Wake(t)
    <2>1. /\ waiters # <<>> /\ waiters[1].thread = t /\ writer = NoThread
          /\ waiters[1].wants_write => holders = {}
          /\ t \notin holders
      BY <1>8 DEF Wake, IInv, GrantInv, CountInv
    <2>2. \A i \in DOMAIN waiters : waiters[i].thread = t => i = 1
      <3>1. DOMAIN waiters = 1..Len(waiters) /\ 1 \in 1..Len(waiters)
        BY <2>1, QueuedThreads, LenProperties DEF IInv, TypeOK
      <3> QED
        BY <2>1, <3>1 DEF IInv, QueueInv
    <2> QED
      BY <1>3, <1>4, <1>8, <2>1, <2>2, Zenon DEF Wake
  <1> QED
    BY <1>2, <1>6, <1>7, <1>8

(* RWLock implements SharedExclusive, for every set of threads. *)
THEOREM Refinement == Spec => ImplementsSharedExclusive
  BY InitRefines, StepRefines, Invariance, PTL
     DEF Spec, ImplementsSharedExclusive, Abstract!Spec

=============================================================================
