--------------------------- MODULE ResourceManager ---------------------------
(***************************************************************************)
(* One resource of lib/vdsm/storage/resourceManager.py, its namespace lock *)
(* and the threads that acquire and release it.                            *)
(*                                                                         *)
(* A member of Request stands for a Request object together with the       *)
(* acquireResource() call that made it, from the call until the reference  *)
(* is released.  An identity is used again only once the object is in      *)
(* nobody's hands and not in the queue, where a canceled request stays     *)
(* until a release pops it.                                                *)
(*                                                                         *)
(* registerResource() is one step: it has the namespace lock throughout.   *)
(* releaseResource() has that lock too, but a request can be canceled at   *)
(* any time meanwhile, so it is one step for each request it looks at.     *)
(* Granted requests are handed their reference (emit) after the namespace  *)
(* lock is given up.  Resources of other names share only the lock, so     *)
(* they can only delay the steps below.  Calls that raise before they      *)
(* touch anything (a bad name or lock type, an unregistered namespace, a   *)
(* resource that does not exist) are not steps.                            *)
(***************************************************************************)
EXTENDS Naturals, Sequences, FiniteSets

CONSTANTS Request,     \* the requests alive at a time
          NoRequest,   \* nobody, in nsLock
          Factory,     \* what the namespace's factory makes: see FactoryKind
          Failures     \* where the factory may raise: see FailurePoint

(* null: SimpleResourceFactory, no object; recreate: an object with a      *)
(* close() method; switch: an object that also has switchLockType().       *)
FactoryKind == {"null", "recreate", "switch"}

(* create: createResource() raises for a free resource; recreate: it       *)
(* raises while the lock type is switched.                                 *)
FailurePoint == {"create", "recreate"}

ASSUME RequestAssumption == IsFiniteSet(Request) /\ NoRequest \notin Request
ASSUME FactoryAssumption == Factory \in FactoryKind /\ Failures \subseteq FailurePoint

VARIABLES registered,   \* the namespace is in _namespaces
          nsLock,       \* the release that has the namespace lock
          present,      \* the name is in namespace.resources
          queue,        \* ResourceInfo.queue, oldest first
          activeUsers,  \* ResourceInfo.activeUsers
          currentLock,  \* ResourceInfo.currentLock
          object,       \* ResourceInfo.realObj
          lockType,     \* lockType of each request
          state,        \* _isActive, _isCanceled of each request
          delivered,    \* the requests whose callback got the reference
          emits,        \* the emits each release has deferred
          pc            \* where the thread of each request is

resource == <<present, queue, activeUsers, currentLock, object>>
vars == <<registered, nsLock, resource, lockType, state, delivered, emits, pc>>

LockType == {"shared", "exclusive"}

(* The object a factory made, the lock type it was made for or switched    *)
(* to, and whether it is still open.                                       *)
Object == [lock : LockType, open : BOOLEAN]
NoObject == [lock |-> "shared", open |-> FALSE]

(* none: no such object; active: _isActive; granted: grant() ran and the   *)
(* user count includes it; canceled: _isCanceled.                          *)
RequestState == {"none", "active", "granted", "canceled"}

(* waiting: in request.wait(); canceling: wait() returned and granted()    *)
(* was false; getting: in resource.get(); holding: acquireResource()       *)
(* returned the reference.  The others are in releaseResource(): granting  *)
(* and sharing are its two loops, picked is between the canceled() test    *)
(* and grant() of the second, emitting runs the deferred emits.            *)
PC == {"idle", "registering", "waiting", "canceling", "getting", "holding",
       "granting", "sharing", "picked", "emitting"}

TypeOK ==
    /\ registered \in BOOLEAN
    /\ nsLock \in Request \cup {NoRequest}
    /\ present \in BOOLEAN
    /\ queue \in Seq(Request)
    /\ activeUsers \in Nat
    /\ currentLock \in LockType
    /\ object \in Object
    /\ lockType \in [Request -> LockType]
    /\ state \in [Request -> RequestState]
    /\ delivered \in SUBSET Request
    /\ emits \in [Request -> Seq(Request)]
    /\ pc \in [Request -> PC]

(* No ResourceInfo for the name. *)
NoResource ==
    /\ present' = FALSE
    /\ queue' = <<>>
    /\ activeUsers' = 0
    /\ currentLock' = "shared"
    /\ object' = NoObject

Init ==
    /\ registered = FALSE
    /\ nsLock = NoRequest
    /\ present = FALSE
    /\ queue = <<>>
    /\ activeUsers = 0
    /\ currentLock = "shared"
    /\ object = NoObject
    /\ lockType = [r \in Request |-> "shared"]
    /\ state = [r \in Request |-> "none"]
    /\ delivered = {}
    /\ emits = [r \in Request |-> <<>>]
    /\ pc = [r \in Request |-> "idle"]

-----------------------------------------------------------------------------
Goto(r, p) == pc' = [pc EXCEPT ![r] = p]

SetState(r, s) == state' = [state EXCEPT ![r] = s]

Queued(r) == \E i \in 1..Len(queue) : queue[i] = r

(* registerNamespace() up to the point where it waits for _syncRoot. *)
CheckNamespace(r) ==
    /\ pc[r] = "idle" /\ ~Queued(r)
    /\ ~registered
    /\ Goto(r, "registering")
    /\ UNCHANGED <<registered, nsLock, resource, lockType, state, delivered, emits>>

(* A registerNamespace() that does not look again. *)
InstallNamespaceBlindly(r) ==
    /\ pc[r] = "registering"
    /\ nsLock = NoRequest
    /\ registered' = TRUE /\ NoResource
    /\ Goto(r, "idle")
    /\ UNCHANGED <<nsLock, lockType, state, delivered, emits>>

(* registerNamespace() with _syncRoot exclusively: it looks again. *)
InstallNamespace(r) ==
    /\ pc[r] = "registering"
    /\ nsLock = NoRequest
    /\ IF registered
       THEN UNCHANGED <<registered, resource>>
       ELSE registered' = TRUE /\ NoResource
    /\ Goto(r, "idle")
    /\ UNCHANGED <<nsLock, lockType, state, delivered, emits>>

(* What acquireResource(name, lt) asks for: a request that is not in use. *)
Ask(r, lt) ==
    /\ registered
    /\ pc[r] = "idle" /\ ~Queued(r)
    /\ nsLock = NoRequest
    /\ lockType' = [lockType EXCEPT ![r] = lt]

(* The request is granted by registerResource() itself, which also emits   *)
(* the reference to its caller: acquireResource() returns it.              *)
GrantNow(r) ==
    /\ SetState(r, "granted")
    /\ Goto(r, "holding")
    /\ UNCHANGED <<registered, nsLock, delivered, emits>>

(* A registerResource() that joins without a look at the queue. *)
JoinOvertaking(r, lt) ==
    /\ Ask(r, lt)
    /\ present /\ currentLock = "shared" /\ lt = "shared"
    /\ activeUsers' = activeUsers + 1
    /\ GrantNow(r)
    /\ UNCHANGED <<present, queue, currentLock, object>>

(* registerResource() of a shared resource nobody waits for. *)
Join(r, lt) ==
    /\ Ask(r, lt)
    /\ present /\ queue = <<>> /\ currentLock = "shared" /\ lt = "shared"
    /\ activeUsers' = activeUsers + 1
    /\ GrantNow(r)
    /\ UNCHANGED <<present, queue, currentLock, object>>

(* registerResource() of a resource in use. *)
Enqueue(r, lt) ==
    /\ Ask(r, lt)
    /\ present /\ ~(queue = <<>> /\ currentLock = "shared" /\ lt = "shared")
    /\ queue' = Append(queue, r)
    /\ SetState(r, "active")
    /\ Goto(r, "waiting")
    /\ UNCHANGED <<registered, nsLock, present, activeUsers, currentLock, object,
                   delivered, emits>>

(* createResource(): the object, or the null factory's None. *)
Created(lt) == IF Factory = "null" THEN NoObject ELSE [lock |-> lt, open |-> TRUE]

(* registerResource() of a free resource: the factory makes the object. *)
Create(r, lt) ==
    /\ Ask(r, lt)
    /\ ~present
    /\ present' = TRUE
    /\ queue' = <<>>
    /\ activeUsers' = 1
    /\ currentLock' = lt
    /\ object' = Created(lt)
    /\ GrantNow(r)

(* The factory raises: the request is canceled before the caller waits. *)
CreateFails(r, lt) ==
    /\ Ask(r, lt)
    /\ ~present
    /\ "create" \in Failures
    /\ SetState(r, "canceled")
    /\ Goto(r, "waiting")
    /\ UNCHANGED <<registered, nsLock, resource, delivered, emits>>

(* request.wait() returned, because the request is done or the timeout     *)
(* expired, and granted() tells which.                                     *)
WaitReturns(r) ==
    /\ pc[r] = "waiting"
    /\ Goto(r, IF state[r] = "granted" THEN "getting" ELSE "canceling")
    /\ UNCHANGED <<registered, nsLock, resource, lockType, state, delivered, emits>>

(* A cancel() that does not look whether the request was processed. *)
CancelProcessed(r) ==
    /\ pc[r] = "canceling"
    /\ SetState(r, "canceled")
    /\ Goto(r, "idle")
    /\ UNCHANGED <<registered, nsLock, resource, lockType, delivered, emits>>

(* cancel() after the wait: it times the request out, or finds that a      *)
(* release canceled it (ResourceAcqusitionFailed) or granted it meanwhile. *)
Cancel(r) ==
    /\ pc[r] = "canceling"
    /\ \/ /\ state[r] \in {"active", "canceled"}
          /\ SetState(r, "canceled")
          /\ Goto(r, "idle")
       \/ /\ state[r] = "granted"
          /\ Goto(r, "getting")
          /\ UNCHANGED state
    /\ UNCHANGED <<registered, nsLock, resource, lockType, delivered, emits>>

(* resource.get() returns the reference the release emitted. *)
Get(r) ==
    /\ pc[r] = "getting"
    /\ r \in delivered
    /\ delivered' = delivered \ {r}
    /\ Goto(r, "holding")
    /\ UNCHANGED <<registered, nsLock, resource, lockType, state, emits>>

-----------------------------------------------------------------------------
(* releaseResource() up to its first look at the queue. *)
Release(r) ==
    /\ pc[r] = "holding"
    /\ nsLock = NoRequest
    /\ activeUsers' = activeUsers - 1
    /\ SetState(r, "none")
    /\ IF activeUsers' > 0
       THEN Goto(r, "idle") /\ UNCHANGED nsLock
       ELSE Goto(r, "granting") /\ nsLock' = r
    /\ UNCHANGED <<registered, present, queue, currentLock, object, lockType,
                   delivered, emits>>

(* Nobody waits: _freeResource() and forget the resource. *)
Free(r) ==
    /\ pc[r] = "granting"
    /\ queue = <<>>
    /\ NoResource
    /\ nsLock' = NoRequest
    /\ Goto(r, "idle")
    /\ UNCHANGED <<registered, lockType, state, delivered, emits>>

(* A first loop that gives up after a canceled request. *)
SkipCanceledReturning(r) ==
    /\ pc[r] \in {"granting", "sharing"}
    /\ queue # <<>> /\ state[Head(queue)] = "canceled"
    /\ queue' = Tail(queue)
    /\ nsLock' = NoRequest
    /\ Goto(r, "idle")
    /\ UNCHANGED <<registered, present, activeUsers, currentLock, object,
                   lockType, state, delivered, emits>>

(* The oldest request was canceled: both loops drop it. *)
SkipCanceled(r) ==
    /\ pc[r] \in {"granting", "sharing"}
    /\ queue # <<>> /\ state[Head(queue)] = "canceled"
    /\ queue' = Tail(queue)
    /\ UNCHANGED <<registered, nsLock, present, activeUsers, currentLock, object,
                   lockType, state, delivered, emits, pc>>

(* _switchLockType(): the objects it may leave in realObj. *)
Switched(lt) ==
    IF lt = currentLock \/ Factory = "null"
    THEN {object}
    ELSE {Created(lt)} \cup
         (IF Factory = "switch" THEN {[object EXCEPT !.lock = lt]} ELSE {})

SwitchMayFail(lt) ==
    lt # currentLock /\ Factory # "null" /\ "recreate" \in Failures

(* releaseResource() leaves the namespace lock and goes on to the emits. *)
LeaveLock(r, deferred) ==
    /\ nsLock' = NoRequest
    /\ Goto(r, IF deferred = <<>> THEN "idle" ELSE "emitting")

(* The first loop grants the oldest request, with the request's syncRoot   *)
(* from the canceled() test to grant().  If that made the lock exclusive   *)
(* the release is done.                                                    *)
GrantFirst(r) ==
    /\ pc[r] = "granting"
    /\ queue # <<>> /\ state[Head(queue)] = "active"
    /\ LET next == Head(queue)
       IN  /\ object' \in Switched(lockType[next])
           /\ currentLock' = lockType[next]
           /\ SetState(next, "granted")
           /\ emits' = [emits EXCEPT ![r] = Append(@, next)]
    /\ queue' = Tail(queue)
    /\ activeUsers' = activeUsers + 1
    /\ IF currentLock' = "exclusive"
       THEN LeaveLock(r, emits'[r])
       ELSE Goto(r, "sharing") /\ UNCHANGED nsLock
    /\ UNCHANGED <<registered, present, lockType, delivered>>

(* A first loop that gives up after a failed switch. *)
SwitchFailsReturning(r) ==
    /\ pc[r] = "granting"
    /\ queue # <<>> /\ state[Head(queue)] = "active"
    /\ SwitchMayFail(lockType[Head(queue)])
    /\ object' = [object EXCEPT !.open = FALSE]
    /\ currentLock' = lockType[Head(queue)]
    /\ SetState(Head(queue), "canceled")
    /\ queue' = Tail(queue)
    /\ nsLock' = NoRequest
    /\ Goto(r, "idle")
    /\ UNCHANGED <<registered, present, activeUsers, lockType, delivered, emits>>

(* createResource() raises in _switchLockType(), after the old object was  *)
(* closed: the request is canceled and the loop goes on.                   *)
SwitchFails(r) ==
    /\ pc[r] = "granting"
    /\ queue # <<>> /\ state[Head(queue)] = "active"
    /\ SwitchMayFail(lockType[Head(queue)])
    /\ object' = [object EXCEPT !.open = FALSE]
    /\ currentLock' = lockType[Head(queue)]
    /\ SetState(Head(queue), "canceled")
    /\ queue' = Tail(queue)
    /\ UNCHANGED <<registered, nsLock, present, activeUsers, lockType, delivered,
                   emits, pc>>

(* The second loop finds a shared request that is not canceled. *)
PickShared(r) ==
    /\ pc[r] = "sharing"
    /\ queue # <<>> /\ state[Head(queue)] # "canceled"
    /\ lockType[Head(queue)] = "shared"
    /\ Goto(r, "picked")
    /\ UNCHANGED <<registered, nsLock, resource, lockType, state, delivered, emits>>

(* A second loop that grants a request and forgets to emit the reference. *)
GrantSharedSilently(r) ==
    /\ pc[r] = "picked"
    /\ queue' = Tail(queue)
    /\ IF state[Head(queue)] = "active"
       THEN SetState(Head(queue), "granted") /\ activeUsers' = activeUsers + 1
       ELSE UNCHANGED <<state, activeUsers>>
    /\ Goto(r, "sharing")
    /\ UNCHANGED <<registered, nsLock, present, currentLock, object, lockType,
                   delivered, emits>>

(* It pops the request and grants it, unless it was canceled meanwhile. *)
GrantShared(r) ==
    /\ pc[r] = "picked"
    /\ queue' = Tail(queue)
    /\ IF state[Head(queue)] = "active"
       THEN /\ SetState(Head(queue), "granted")
            /\ emits' = [emits EXCEPT ![r] = Append(@, Head(queue))]
            /\ activeUsers' = activeUsers + 1
       ELSE UNCHANGED <<state, emits, activeUsers>>
    /\ Goto(r, "sharing")
    /\ UNCHANGED <<registered, nsLock, present, currentLock, object, lockType,
                   delivered>>

(* The second loop ends at an exclusive request or at the queue's end. *)
EndSharing(r) ==
    /\ pc[r] = "sharing"
    /\ queue # <<>> =>
          state[Head(queue)] # "canceled" /\ lockType[Head(queue)] = "exclusive"
    /\ LeaveLock(r, emits[r])
    /\ UNCHANGED <<registered, resource, lockType, state, delivered, emits>>

(* A deferred emit puts the reference into the queue of the acquirer. *)
Emit(r) ==
    /\ pc[r] = "emitting"
    /\ delivered' = delivered \cup {Head(emits[r])}
    /\ emits' = [emits EXCEPT ![r] = Tail(@)]
    /\ Goto(r, IF Len(emits[r]) = 1 THEN "idle" ELSE "emitting")
    /\ UNCHANGED <<registered, nsLock, resource, lockType, state>>

-----------------------------------------------------------------------------
Acquire(r, lt) == Join(r, lt) \/ Enqueue(r, lt) \/ Create(r, lt) \/ CreateFails(r, lt)

Grant(r) ==
    \/ Free(r) \/ SkipCanceled(r) \/ GrantFirst(r) \/ SwitchFails(r)
    \/ PickShared(r) \/ GrantShared(r) \/ EndSharing(r) \/ Emit(r)

Next ==
    \E r \in Request :
        \/ CheckNamespace(r) \/ InstallNamespace(r)
        \/ \E lt \in LockType : Acquire(r, lt)
        \/ WaitReturns(r) \/ Cancel(r) \/ Get(r)
        \/ Release(r) \/ Grant(r)

(* A thread that can run is scheduled, a reference is released, and a      *)
(* thread that waits for the namespace lock gets it if the lock is free    *)
(* again and again.  Nothing forces a timeout to expire.                   *)
Fairness ==
    \A r \in Request :
        /\ WF_vars(state[r] # "active" /\ WaitReturns(r))
        /\ WF_vars(Cancel(r))
        /\ WF_vars(Get(r))
        /\ SF_vars(Release(r))
        /\ WF_vars(Grant(r))

Spec == Init /\ [][Next]_vars

FairSpec == Spec /\ Fairness
-----------------------------------------------------------------------------
Users == {r \in Request : state[r] = "granted"}

(* The user count is the number of granted requests whose reference was    *)
(* not released, in every step of a release and of a timeout that races    *)
(* it: no user is lost, none is counted twice.                             *)
CountsUsers == activeUsers = Cardinality(Users)

(* All users have the lock type the resource records, and an exclusive     *)
(* user is alone.                                                          *)
UsersAgree ==
    \A r \in Users :
        /\ present /\ lockType[r] = currentLock
        /\ currentLock = "exclusive" => Users = {r}

(* No request is stranded: a request that still waits is queued on a       *)
(* resource that somebody uses, or that a release is about to pass on.     *)
NoStrandedRequest ==
    \A r \in Request : state[r] = "active" =>
        /\ Queued(r)
        /\ activeUsers > 0 \/ nsLock # NoRequest

(* The records of a resource are cleared as soon as nobody uses it. *)
NoOrphanedResource == present => activeUsers > 0 \/ nsLock # NoRequest

(* A granted request overtakes no older request that still waits. *)
GrantedInOrder ==
    [][\A r, q \in Request :
            /\ state[r] # "granted" /\ state'[r] = "granted"
            /\ state[q] = "active" /\ q # r
            => \E i, j \in 1..Len(queue) : i < j /\ queue[i] = r /\ queue[j] = q]_vars

(* The object users were given is open and was made for their lock type:   *)
(* "we cannot grant the request before there is a resource switch".  Holds *)
(* if the factory always makes the object again, and only then: see the    *)
(* README, section 4.                                                      *)
ObjectUsable ==
    Factory # "null" /\ Users # {} => object = [lock |-> currentLock, open |-> TRUE]

(* Every acquireResource() call returns: with the reference, or because    *)
(* it timed out or failed.  Nobody waits for ever for a grant or an emit.  *)
EveryAcquireReturns ==
    \A r \in Request :
        pc[r] \in {"waiting", "canceling", "getting"} ~> pc[r] \in {"holding", "idle"}

Abstract == INSTANCE SharedExclusive
                WITH Client <- Request,
                     mode <- [r \in Request |->
                                IF state[r] = "granted" THEN lockType[r] ELSE "none"]

(* A resource implements a shared/exclusive lock. *)
ImplementsSharedExclusive == Abstract!Spec
=============================================================================
