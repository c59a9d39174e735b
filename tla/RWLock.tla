------------------------------- MODULE RWLock -------------------------------
(***************************************************************************)
(* The readers-writer lock of lib/vdsm/storage/rwlock.py.                  *)
(*                                                                         *)
(* Everything a thread does while it has self._lock is one step, except    *)
(* that _wait() gives the lock up: a blocked acquire is a step that        *)
(* appends a waiter and, once the waiter's event is set, a second step     *)
(* that removes the waiter and takes the lock.  release() decrements the   *)
(* recursion count before it takes self._lock, so the last release is two  *)
(* steps as well.                                                          *)
(***************************************************************************)
EXTENDS Naturals, Sequences, SequencesExt

CONSTANTS Thread,      \* the threads that use the lock
          NoThread,    \* Python's None, in _writer
          MaxDepth     \* bound on the recursion count of one thread

ASSUME ThreadAssumption == NoThread \notin Thread
ASSUME DepthAssumption == MaxDepth \in Nat \ {0}

VARIABLES holders,     \* the keys of _holders
          depth,       \* the values of _holders; 0 for a thread not in it
          writer,      \* _writer
          waiters,     \* _waiters, oldest first
          granted,     \* the threads whose waiter's event is set
          pc,          \* where each thread is
          raised       \* the threads whose last call raised RuntimeError

vars == <<holders, depth, writer, waiters, granted, pc, raised>>

Waiter == [thread : Thread, wants_write : BOOLEAN]

(* idle: outside the lock's methods; waiting: in Waiter.wait();            *)
(* releasing: in release(), the count is 0, self._lock is not yet taken.   *)
PC == {"idle", "waiting", "releasing"}

TypeOK ==
    /\ holders \in SUBSET Thread
    /\ depth \in [Thread -> 0..MaxDepth]
    /\ writer \in Thread \cup {NoThread}
    /\ waiters \in Seq(Waiter)
    /\ granted \in SUBSET Thread
    /\ pc \in [Thread -> PC]
    /\ raised \in SUBSET Thread

Init ==
    /\ holders = {}
    /\ depth = [t \in Thread |-> 0]
    /\ writer = NoThread
    /\ waiters = <<>>
    /\ granted = {}
    /\ pc = [t \in Thread |-> "idle"]
    /\ raised = {}

-----------------------------------------------------------------------------
(* _grant_next_waiter() with holders hs and a queue ws: sets the event of  *)
(* the oldest waiter unless that is a writer and somebody has the lock.    *)
GrantNext(hs, ws, g) ==
    IF ws = <<>> \/ (hs # {} /\ Head(ws).wants_write)
    THEN g
    ELSE g \cup {Head(ws).thread}

(* The holder's fast path of both acquires: no lock is needed to count. *)
Recurse(t) ==
    /\ depth[t] < MaxDepth
    /\ depth' = [depth EXCEPT ![t] = @ + 1]
    /\ raised' = raised \ {t}
    /\ UNCHANGED <<holders, writer, waiters, granted, pc>>

(* The part of _wait() before the event: enqueue and give up self._lock. *)
Block(t, wants_write) ==
    /\ waiters' = Append(waiters, [thread |-> t, wants_write |-> wants_write])
    /\ pc' = [pc EXCEPT ![t] = "waiting"]
    /\ raised' = raised \ {t}
    /\ UNCHANGED <<holders, depth, writer, granted>>

Refuse(t) ==
    /\ raised' = raised \cup {t}
    /\ UNCHANGED <<holders, depth, writer, waiters, granted, pc>>

(* An acquire_write() that promotes a reader instead of refusing it. *)
AcquireWritePromoting(t) ==
    /\ pc[t] = "idle"
    /\ \/ t = writer /\ Recurse(t)
       \/ t \notin holders /\ (holders # {} \/ waiters # <<>>) /\ Block(t, TRUE)
       \/ /\ t # writer /\ holders \subseteq {t} /\ waiters = <<>>
          /\ holders' = {t}
          /\ depth' = [depth EXCEPT ![t] = 1]
          /\ writer' = t
          /\ UNCHANGED <<waiters, granted, pc, raised>>

(* acquire_write() up to the point where it returns, raises or waits. *)
AcquireWrite(t) ==
    /\ pc[t] = "idle"
    /\ \/ t = writer /\ Recurse(t)
       \/ t # writer /\ t \in holders /\ Refuse(t)
       \/ /\ t \notin holders
          /\ holders # {} \/ waiters # <<>>
          /\ Block(t, TRUE)
       \/ /\ holders = {} /\ waiters = <<>>
          /\ holders' = {t}
          /\ depth' = [depth EXCEPT ![t] = 1]
          /\ writer' = t
          /\ raised' = raised \ {t}
          /\ UNCHANGED <<waiters, granted, pc>>

(* An acquire_read() that looks only at the writer, not at the waiters. *)
AcquireReadBarging(t) ==
    /\ pc[t] = "idle"
    /\ \/ t = writer /\ Refuse(t)
       \/ t # writer /\ t \in holders /\ Recurse(t)
       \/ t \notin holders /\ writer # NoThread /\ Block(t, FALSE)
       \/ /\ t \notin holders /\ writer = NoThread
          /\ holders' = holders \cup {t}
          /\ depth' = [depth EXCEPT ![t] = 1]
          /\ raised' = raised \ {t}
          /\ UNCHANGED <<writer, waiters, granted, pc>>

(* acquire_read() up to the point where it returns, raises or waits. *)
AcquireRead(t) ==
    /\ pc[t] = "idle"
    /\ \/ t = writer /\ Refuse(t)
       \/ t # writer /\ t \in holders /\ Recurse(t)
       \/ /\ t \notin holders
          /\ writer # NoThread \/ waiters # <<>>
          /\ Block(t, FALSE)
       \/ /\ t \notin holders
          /\ writer = NoThread /\ waiters = <<>>
          /\ holders' = holders \cup {t}
          /\ depth' = [depth EXCEPT ![t] = 1]
          /\ raised' = raised \ {t}
          /\ UNCHANGED <<writer, waiters, granted, pc>>

(* A woken reader that does not pass the grant on to the next waiter. *)
WakeKeepingGrant(t) ==
    /\ pc[t] = "waiting"
    /\ t \in granted
    /\ \E i \in DOMAIN waiters :
        /\ waiters[i].thread = t
        /\ waiters' = RemoveAt(waiters, i)
        /\ writer' = IF waiters[i].wants_write THEN t ELSE writer
    /\ holders' = holders \cup {t}
    /\ depth' = [depth EXCEPT ![t] = 1]
    /\ granted' = granted \ {t}
    /\ pc' = [pc EXCEPT ![t] = "idle"]
    /\ UNCHANGED raised

(* A granted waiter has self._lock again: _wait() removes the waiter and   *)
(* the acquire that called it takes the lock.  A reader passes the grant   *)
(* on; a writer does not.                                                  *)
Wake(t) ==
    /\ pc[t] = "waiting"
    /\ t \in granted
    /\ \E i \in DOMAIN waiters :
        /\ waiters[i].thread = t
        /\ waiters' = RemoveAt(waiters, i)
        /\ holders' = holders \cup {t}
        /\ depth' = [depth EXCEPT ![t] = 1]
        /\ IF waiters[i].wants_write
           THEN /\ writer' = t
                /\ granted' = granted \ {t}
           ELSE /\ granted' = GrantNext(holders', waiters', granted \ {t})
                /\ UNCHANGED writer
    /\ pc' = [pc EXCEPT ![t] = "idle"]
    /\ UNCHANGED raised

(* release() before it needs self._lock. *)
Release(t) ==
    /\ pc[t] = "idle"
    /\ \/ t \notin holders /\ Refuse(t)
       \/ /\ t \in holders
          /\ depth' = [depth EXCEPT ![t] = @ - 1]
          /\ pc' = [pc EXCEPT ![t] = IF depth[t] > 1 THEN "idle" ELSE "releasing"]
          /\ raised' = raised \ {t}
          /\ UNCHANGED <<holders, writer, waiters, granted>>

(* A last release() that grants only when it leaves the lock free of a     *)
(* writer: the readers' last release forgets the waiting writer.           *)
FinishReleaseForgetting(t) ==
    /\ pc[t] = "releasing"
    /\ writer' = NoThread
    /\ holders' = holders \ {t}
    /\ granted' = IF t = writer THEN GrantNext(holders', waiters, granted) ELSE granted
    /\ pc' = [pc EXCEPT ![t] = "idle"]
    /\ UNCHANGED <<depth, waiters, raised>>

(* The last release() of a thread, with self._lock. *)
FinishRelease(t) ==
    /\ pc[t] = "releasing"
    /\ writer' = NoThread
    /\ holders' = holders \ {t}
    /\ granted' = GrantNext(holders', waiters, granted)
    /\ pc' = [pc EXCEPT ![t] = "idle"]
    /\ UNCHANGED <<depth, waiters, raised>>

Next ==
    \E t \in Thread :
        \/ AcquireWrite(t) \/ AcquireRead(t) \/ Wake(t)
        \/ Release(t) \/ FinishRelease(t)

(* Locks are used through the shared and exclusive contexts, so the        *)
(* outermost `with` block of a thread ends (strong fairness: the thread    *)
(* may enter and leave nested blocks meanwhile) and so does an inner one;  *)
(* a thread that can run is scheduled.                                     *)
LastRelease(t) == depth[t] = 1 /\ Release(t)

Fairness ==
    \A t \in Thread :
        /\ WF_vars(Wake(t))
        /\ WF_vars(t \in holders /\ Release(t))
        /\ SF_vars(LastRelease(t))
        /\ WF_vars(FinishRelease(t))

Spec == Init /\ [][Next]_vars

FairSpec == Spec /\ Fairness
-----------------------------------------------------------------------------
(* The lock mode a thread has, as the clients see it. *)
HeldMode(t) ==
    IF t \notin holders THEN "none"
    ELSE IF t = writer THEN "exclusive" ELSE "shared"

(* While a thread has the write lock no other thread has the lock: the     *)
(* check in acquire_read/acquire_write and the grants of                   *)
(* _grant_next_waiter never let a second thread in.                        *)
WriterExclusion == writer # NoThread => holders = {writer}

(* No lost wakeup: when threads wait, either the oldest of them has its    *)
(* event set, or somebody has the lock in a mode the oldest waiter is not  *)
(* compatible with, whose release() will run _grant_next_waiter.           *)
NoLostWakeup ==
    waiters # <<>> =>
        \/ Head(waiters).thread \in granted
        \/ writer # NoThread
        \/ holders # {} /\ Head(waiters).wants_write

(* "Served in the order of the request": a thread gets the lock either     *)
(* when nobody waits or as the oldest waiter, readers included.            *)
ServedInOrder ==
    [][\A t \in Thread : t \in holders' \ holders =>
            waiters = <<>> \/ Head(waiters).thread = t]_vars

(* A thread that waits for the lock gets it, whatever the others do, as    *)
(* long as the holders' with blocks end.                                   *)
EveryWaiterServed ==
    \A t \in Thread : pc[t] = "waiting" ~> t \in holders

Abstract == INSTANCE SharedExclusive
                WITH Client <- Thread, mode <- [t \in Thread |-> HeldMode(t)]

(* The lock implements a shared/exclusive lock: no promotion, no           *)
(* demotion, no two incompatible holders, at every step of every thread.   *)
ImplementsSharedExclusive == Abstract!Spec
=============================================================================
