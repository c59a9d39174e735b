----------------------- MODULE ResourceManagerProofs -----------------------
(***************************************************************************)
(* Proofs about ResourceManager for every finite set of requests, every    *)
(* kind of factory and every pattern of factory failures.                  *)
(*                                                                         *)
(* The invariant ties the three views of a request together: where its     *)
(* thread is (PcInv), whether it is in the queue (QueueInv) and whether    *)
(* the user count includes it (CountsUsers), and says what the thread that *)
(* has the namespace lock may rely on (LockInv).                           *)
(***************************************************************************)
EXTENDS ResourceManager, FiniteSetTheorems, SequenceTheorems, TLAPS

Releasing == {"granting", "sharing", "picked"}

(* What the position of a thread says about its request. *)
PcInv ==
    \A r \in Request :
        /\ pc[r] \in {"idle", "registering"} => state[r] \in {"none", "canceled"}
        /\ pc[r] = "registering" => ~Queued(r)
        /\ pc[r] \in {"waiting", "canceling"} => state[r] # "none"
        /\ pc[r] \in {"getting", "holding"} => state[r] = "granted"
        /\ pc[r] \in Releasing \cup {"emitting"} => state[r] = "none"
        /\ pc[r] \in Releasing <=> nsLock = r

(* The queue has the waiting requests and canceled ones, each once. *)
QueueInv ==
    /\ \A r \in Request : Queued(r) => state[r] \in {"active", "canceled"}
    /\ \A i, j \in 1..Len(queue) : queue[i] = queue[j] => i = j
    /\ \A r \in Request : state[r] = "active" => Queued(r)

(* What the namespace lock protects. *)
LockInv ==
    /\ ~registered => ~present
    /\ ~present => queue = <<>> /\ activeUsers = 0 /\ nsLock = NoRequest
    /\ present /\ nsLock = NoRequest => activeUsers > 0
    /\ \A r \in Request :
        /\ pc[r] = "granting" => activeUsers = 0
        /\ pc[r] \in {"sharing", "picked"} => activeUsers > 0 /\ currentLock = "shared"
        /\ pc[r] = "picked" => queue # <<>> /\ lockType[Head(queue)] = "shared"

(* A release has emits to run as long as it is at them. *)
EmitInv == \A r \in Request : pc[r] = "emitting" => emits[r] # <<>>

IInv ==
    /\ TypeOK
    /\ PcInv
    /\ QueueInv
    /\ LockInv
    /\ EmitInv
    /\ CountsUsers
    /\ UsersAgree

-----------------------------------------------------------------------------
(* What granting, releasing and canceling do to the set of users. *)
LEMMA UsersFinite == IsFiniteSet(Users) /\ Cardinality(Users) \in Nat
  <1>1. IsFiniteSet(Users)
    BY RequestAssumption, FS_Subset DEF Users
  <1> QED
    BY <1>1, FS_CardinalityType

LEMMA UserAdded ==
    ASSUME NEW r \in Request, state \in [Request -> RequestState],
           state[r] # "granted", SetState(r, "granted")
    PROVE  Users' = Users \cup {r} /\ Cardinality(Users') = Cardinality(Users) + 1
  <1>1. Users' = Users \cup {r} /\ r \notin Users
    BY DEF Users, SetState
  <1> QED
    BY <1>1, UsersFinite, FS_AddElement, Zenon

LEMMA UserRemoved ==
    ASSUME NEW r \in Request, state \in [Request -> RequestState],
           state[r] = "granted", SetState(r, "none")
    PROVE  Users' = Users \ {r} /\ Cardinality(Users') = Cardinality(Users) - 1
  <1>1. Users' = Users \ {r} /\ r \in Users
    BY DEF Users, SetState
  <1> QED
    BY <1>1, UsersFinite, FS_RemoveElement, Zenon

LEMMA UsersKept ==
    ASSUME NEW r \in Request, NEW s \in RequestState \ {"granted"},
           state \in [Request -> RequestState],
           state[r] # "granted", SetState(r, s)
    PROVE  Users' = Users
  BY DEF Users, SetState

LEMMA NoUsers ==
    ASSUME CountsUsers, activeUsers = 0
    PROVE  Users = {}
  BY UsersFinite, FS_EmptySet, Zenon DEF CountsUsers

(* What deferring the emit of a grant does. *)
LEMMA Deferred ==
    ASSUME NEW r \in Request, NEW q \in Request, emits \in [Request -> Seq(Request)],
           emits' = [emits EXCEPT ![r] = Append(@, q)]
    PROVE  /\ emits'[r] \in Seq(Request) /\ emits'[r] # <<>>
           /\ emits' \in [Request -> Seq(Request)]
  <1>1. emits[r] \in Seq(Request) /\ emits'[r] = Append(emits[r], q)
    OBVIOUS
  <1>2. Append(emits[r], q) \in Seq(Request) /\ Append(emits[r], q) # <<>>
    BY <1>1, AppendProperties
  <1> QED
    BY <1>1, <1>2

(* What popping and pushing do to the queue. *)
LEMMA Popped ==
    ASSUME TypeOK, QueueInv, queue # <<>>, queue' = Tail(queue)
    PROVE  /\ Head(queue) \in Request /\ Queued(Head(queue))
           /\ queue' \in Seq(Request)
           /\ \A q \in Request : Queued(q)' <=> Queued(q) /\ q # Head(queue)
           /\ \A i, j \in 1..Len(queue') : queue'[i] = queue'[j] => i = j
  <1>1. queue \in Seq(Request) /\ Len(queue) \in Nat \ {0}
    BY EmptySeq DEF TypeOK
  <1>2. /\ Head(queue) \in Request /\ Head(queue) = queue[1]
        /\ queue' \in Seq(Request)
        /\ Len(queue') = Len(queue) - 1
        /\ \A i \in 1..Len(queue') : queue'[i] = queue[i + 1]
    BY <1>1, HeadTailProperties
  <1>3. \A i, j \in 1..Len(queue) : queue[i] = queue[j] => i = j
    BY DEF QueueInv
  <1>4. ASSUME NEW q \in Request
        PROVE  Queued(q)' <=> Queued(q) /\ q # Head(queue)
    <2>1. ASSUME Queued(q)' PROVE Queued(q) /\ q # Head(queue)
      <3>1. PICK i \in 1..Len(queue') : queue'[i] = q
        BY <2>1 DEF Queued
      <3>2. i + 1 \in 1..Len(queue) /\ 1 \in 1..Len(queue) /\ i + 1 # 1 /\ queue[i + 1] = q
        BY <1>1, <1>2, <3>1
      <3> QED
        BY <1>2, <1>3, <3>2 DEF Queued
    <2>2. ASSUME Queued(q), q # Head(queue) PROVE Queued(q)'
      <3>1. PICK i \in 1..Len(queue) : queue[i] = q
        BY <2>2 DEF Queued
      <3>2. i - 1 \in 1..Len(queue') /\ (i - 1) + 1 = i
        BY <1>1, <1>2, <2>2, <3>1
      <3>3. queue'[i - 1] = q
        BY <1>2, <3>1, <3>2
      <3> QED
        BY <3>2, <3>3, Zenon DEF Queued
    <2> QED
      BY <2>1, <2>2
  <1>5. ASSUME NEW i \in 1..Len(queue'), NEW j \in 1..Len(queue'), queue'[i] = queue'[j]
        PROVE  i = j
    <2>1. i + 1 \in 1..Len(queue) /\ j + 1 \in 1..Len(queue)
      BY <1>1, <1>2
    <2>2. queue[i + 1] = queue[j + 1]
      BY <1>2, <1>5
    <2>3. i + 1 = j + 1
      BY <1>3, <2>1, <2>2
    <2> QED
      BY <1>1, <1>2, <2>3
  <1>6. Queued(Head(queue))
    BY <1>1, <1>2 DEF Queued
  <1> QED
    BY <1>2, <1>4, <1>5, <1>6

LEMMA Pushed ==
    ASSUME TypeOK, QueueInv, NEW r \in Request, ~Queued(r), queue' = Append(queue, r)
    PROVE  /\ queue' \in Seq(Request) /\ queue' # <<>>
           /\ \A q \in Request : Queued(q)' <=> Queued(q) \/ q = r
           /\ \A i, j \in 1..Len(queue') : queue'[i] = queue'[j] => i = j
  <1>1. queue \in Seq(Request) /\ Len(queue) \in Nat
    BY LenProperties DEF TypeOK
  <1>2. /\ queue' \in Seq(Request) /\ queue' # <<>>
        /\ Len(queue') = Len(queue) + 1
        /\ \A i \in 1..Len(queue) : queue'[i] = queue[i]
        /\ queue'[Len(queue) + 1] = r
    BY <1>1, AppendProperties
  <1>3. ASSUME NEW q \in Request
        PROVE  Queued(q)' <=> Queued(q) \/ q = r
    BY <1>1, <1>2 DEF Queued
  <1>4. ASSUME NEW i \in 1..Len(queue'), NEW j \in 1..Len(queue'), queue'[i] = queue'[j]
        PROVE  i = j
    <2>1. \A k \in 1..Len(queue) : queue[k] # r
      BY DEF Queued
    <2> QED
      BY <1>1, <1>2, <1>4, <2>1 DEF QueueInv
  <1> QED
    BY <1>2, <1>3, <1>4

-----------------------------------------------------------------------------
(* The queue is what it was: so are the queued requests. *)
LEMMA QueueKept ==
    ASSUME UNCHANGED queue
    PROVE  \A q \in Request : Queued(q)' <=> Queued(q)
  BY DEF Queued

(* Only one thread is in the locked part of releaseResource(). *)
LEMMA OneReleaser ==
    ASSUME PcInv
    PROVE  /\ \A r \in Request : pc[r] \in Releasing => nsLock = r
           /\ nsLock = NoRequest => \A r \in Request : pc[r] \notin Releasing
           /\ \A r, q \in Request :
                 pc[r] \in Releasing /\ pc[q] \in Releasing => r = q
  BY RequestAssumption DEF PcInv

(* Each step preserves the invariant. *)
LEMMA InitInvariant == Init => IInv
  <1> SUFFICES ASSUME Init PROVE IInv
    OBVIOUS
  <1>1. Users = {} /\ Cardinality(Users) = 0
    BY FS_EmptySet, Zenon DEF Init, Users
  <1>2. \A r \in Request : ~Queued(r)
    BY DEF Init, Queued
  <1>3. TypeOK
    BY EmptySeq, Zenon DEF Init, TypeOK, PC, RequestState, LockType, Object, NoObject
  <1>4. PcInv
    BY <1>2, RequestAssumption DEF Init, PcInv, Releasing
  <1>5. QueueInv
    <2>1. Len(queue) = 0
      BY EmptySeq DEF Init
    <2> QED
      BY <1>2, <2>1 DEF Init, QueueInv
  <1>6. LockInv /\ EmitInv
    BY DEF Init, LockInv, EmitInv
  <1>7. CountsUsers /\ UsersAgree
    BY <1>1 DEF Init, CountsUsers, UsersAgree
  <1> QED
    BY <1>3, <1>4, <1>5, <1>6, <1>7 DEF IInv

LEMMA CheckNamespaceInvariant ==
    ASSUME IInv, NEW r \in Request, CheckNamespace(r)
    PROVE  IInv'
  <1>1. \A q \in Request : Queued(q)' <=> Queued(q)
    BY QueueKept DEF CheckNamespace, resource
  <1>2. Users' = Users
    BY DEF CheckNamespace, Users
  <1>3. TypeOK'
    BY DEF IInv, TypeOK, CheckNamespace, Goto, resource, PC
  <1>4. PcInv'
    BY <1>1 DEF IInv, TypeOK, PcInv, CheckNamespace, Goto, resource, Releasing
  <1>5. QueueInv'
    BY <1>1 DEF IInv, QueueInv, CheckNamespace, resource
  <1>6. LockInv' /\ EmitInv'
    BY DEF IInv, TypeOK, LockInv, EmitInv, CheckNamespace, Goto, resource
  <1>7. CountsUsers' /\ UsersAgree'
    BY <1>2 DEF IInv, CountsUsers, UsersAgree, CheckNamespace, resource
  <1> QED
    BY <1>3, <1>4, <1>5, <1>6, <1>7 DEF IInv

LEMMA InstallNamespaceInvariant ==
    ASSUME IInv, NEW r \in Request, InstallNamespace(r)
    PROVE  IInv'
  <1>1. /\ pc' = [pc EXCEPT ![r] = "idle"] /\ pc[r] = "registering"
        /\ UNCHANGED <<nsLock, queue, activeUsers, lockType, state, delivered, emits>>
        /\ present' = present
        /\ \/ UNCHANGED <<registered, currentLock, object>>
           \/ ~present /\ registered' = TRUE /\ currentLock' = "shared" /\ object' = NoObject
    <2>1. CASE registered
      BY <2>1 DEF InstallNamespace, Goto, resource
    <2>2. CASE ~registered
      <3>1. present = FALSE /\ queue = <<>> /\ activeUsers = 0
        BY <2>2 DEF IInv, TypeOK, LockInv
      <3> QED
        BY <2>2, <3>1, Zenon DEF InstallNamespace, NoResource, Goto
    <2> QED
      BY <2>1, <2>2, Zenon
  <1>2. \A q \in Request : Queued(q)' <=> Queued(q)
    BY <1>1, QueueKept
  <1>3. Users' = Users
    BY <1>1 DEF Users
  <1>4. ~present => Users = {}
    BY NoUsers DEF IInv, LockInv
  <1>5. TypeOK'
    <2>1. NoObject \in Object /\ "shared" \in LockType
      BY DEF LockType, Object, NoObject
    <2> QED
      BY <1>1, <2>1, Zenon DEF IInv, TypeOK, PC
  <1>6. PcInv'
    BY <1>1, <1>2 DEF IInv, TypeOK, PcInv, Releasing
  <1>7. QueueInv'
    BY <1>1, <1>2 DEF IInv, QueueInv
  <1>8. LockInv' /\ EmitInv'
    <2>1. \A q \in Request : ~present => pc[q] \notin Releasing
      BY OneReleaser DEF IInv, LockInv
    <2> QED
      BY <1>1, <2>1 DEF IInv, TypeOK, LockInv, EmitInv, Releasing
  <1>9. CountsUsers' /\ UsersAgree'
    BY <1>1, <1>3, <1>4 DEF IInv, CountsUsers, UsersAgree
  <1> QED
    BY <1>5, <1>6, <1>7, <1>8, <1>9 DEF IInv

LEMMA JoinInvariant ==
    ASSUME IInv, NEW r \in Request, NEW lt \in LockType, Join(r, lt)
    PROVE  IInv'
  <1>1. /\ pc[r] = "idle" /\ state[r] \in {"none", "canceled"} /\ ~Queued(r)
        /\ nsLock = NoRequest /\ registered /\ present /\ currentLock = "shared"
        /\ lockType' = [lockType EXCEPT ![r] = "shared"]
        /\ SetState(r, "granted") /\ state' = [state EXCEPT ![r] = "granted"]
        /\ pc' = [pc EXCEPT ![r] = "holding"]
        /\ activeUsers' = activeUsers + 1
        /\ UNCHANGED <<registered, nsLock, present, queue, currentLock, object, delivered, emits>>
    BY DEF IInv, PcInv, Join, Ask, GrantNow, Goto, SetState
  <1>2. \A q \in Request : Queued(q)' <=> Queued(q)
    BY <1>1, QueueKept
  <1>3. Users' = Users \cup {r} /\ Cardinality(Users') = Cardinality(Users) + 1
    BY <1>1, UserAdded DEF IInv, TypeOK
  <1>4. \A q \in Request : pc[q] \notin Releasing
    BY <1>1, OneReleaser DEF IInv
  <1>5. TypeOK'
    BY <1>1 DEF IInv, TypeOK, PC, RequestState, LockType
  <1>6. PcInv'
    BY <1>1, <1>2, <1>4, RequestAssumption DEF IInv, TypeOK, PcInv, Releasing
  <1>7. QueueInv'
    BY <1>1, <1>2 DEF IInv, TypeOK, QueueInv
  <1>8. LockInv' /\ EmitInv'
    BY <1>1, <1>4 DEF IInv, TypeOK, LockInv, EmitInv, Releasing
  <1>9. CountsUsers'
    BY <1>1, <1>3 DEF IInv, CountsUsers
  <1>10. UsersAgree'
    BY <1>1, <1>3 DEF IInv, TypeOK, UsersAgree
  <1> QED
    BY <1>5, <1>6, <1>7, <1>8, <1>9, <1>10 DEF IInv

LEMMA EnqueueInvariant ==
    ASSUME IInv, NEW r \in Request, NEW lt \in LockType, Enqueue(r, lt)
    PROVE  IInv'
  <1>1. /\ pc[r] = "idle" /\ state[r] \in {"none", "canceled"} /\ ~Queued(r)
        /\ nsLock = NoRequest /\ registered /\ present
        /\ lockType' = [lockType EXCEPT ![r] = lt]
        /\ SetState(r, "active") /\ state' = [state EXCEPT ![r] = "active"]
        /\ pc' = [pc EXCEPT ![r] = "waiting"]
        /\ queue' = Append(queue, r)
        /\ UNCHANGED <<registered, nsLock, present, activeUsers, currentLock, object, delivered, emits>>
    BY DEF IInv, PcInv, Enqueue, Ask, Goto, SetState
  <1>2. /\ queue' \in Seq(Request) /\ queue' # <<>>
        /\ \A q \in Request : Queued(q)' <=> Queued(q) \/ q = r
        /\ \A i, j \in 1..Len(queue') : queue'[i] = queue'[j] => i = j
    BY <1>1, Pushed DEF IInv
  <1>3. Users' = Users
    BY <1>1, UsersKept DEF IInv, TypeOK, RequestState
  <1>4. \A q \in Request : pc[q] \notin Releasing
    BY <1>1, OneReleaser DEF IInv
  <1>5. TypeOK'
    BY <1>1, <1>2 DEF IInv, TypeOK, PC, RequestState
  <1>6. PcInv'
    BY <1>1, <1>2, <1>4, RequestAssumption DEF IInv, TypeOK, PcInv, Releasing
  <1>7. QueueInv'
    BY <1>1, <1>2 DEF IInv, TypeOK, QueueInv
  <1>8. LockInv' /\ EmitInv'
    BY <1>1, <1>4 DEF IInv, TypeOK, LockInv, EmitInv, Releasing
  <1>9. CountsUsers' /\ UsersAgree'
    BY <1>1, <1>3, Zenon DEF IInv, TypeOK, CountsUsers, UsersAgree, Users
  <1> QED
    BY <1>5, <1>6, <1>7, <1>8, <1>9 DEF IInv

LEMMA CreateInvariant ==
    ASSUME IInv, NEW r \in Request, NEW lt \in LockType, Create(r, lt)
    PROVE  IInv'
  <1>1. /\ pc[r] = "idle" /\ state[r] \in {"none", "canceled"} /\ ~Queued(r)
        /\ nsLock = NoRequest /\ registered /\ ~present /\ queue = <<>> /\ activeUsers = 0
        /\ lockType' = [lockType EXCEPT ![r] = lt]
        /\ SetState(r, "granted") /\ state' = [state EXCEPT ![r] = "granted"]
        /\ pc' = [pc EXCEPT ![r] = "holding"]
        /\ present' = TRUE /\ activeUsers' = 1 /\ currentLock' = lt /\ object' = Created(lt)
        /\ UNCHANGED <<registered, nsLock, queue, delivered, emits>>
    BY DEF IInv, PcInv, LockInv, Create, Ask, GrantNow, Goto, SetState
  <1>2. \A q \in Request : Queued(q)' <=> Queued(q)
    BY <1>1, QueueKept
  <1>3. Users = {} /\ Users' = {r} /\ Cardinality(Users') = 1
    <2>1. Users = {}
      BY <1>1, NoUsers DEF IInv
    <2>2. Users' = Users \cup {r} /\ Cardinality(Users') = Cardinality(Users) + 1
      BY <1>1, UserAdded, Zenon DEF IInv, TypeOK
    <2> QED
      BY <2>1, <2>2, FS_EmptySet
  <1>4. \A q \in Request : pc[q] \notin Releasing
    BY <1>1, OneReleaser DEF IInv
  <1>5. TypeOK'
    BY <1>1 DEF IInv, TypeOK, PC, RequestState, LockType, Created, Object, NoObject
  <1>6. PcInv'
    BY <1>1, <1>2, <1>4, RequestAssumption DEF IInv, TypeOK, PcInv, Releasing
  <1>7. QueueInv'
    BY <1>1, <1>2 DEF IInv, TypeOK, QueueInv
  <1>8. LockInv' /\ EmitInv'
    BY <1>1, <1>4 DEF IInv, TypeOK, LockInv, EmitInv, Releasing
  <1>9. CountsUsers' /\ UsersAgree'
    BY <1>1, <1>3, Zenon DEF IInv, TypeOK, CountsUsers, UsersAgree
  <1> QED
    BY <1>5, <1>6, <1>7, <1>8, <1>9 DEF IInv

LEMMA CreateFailsInvariant ==
    ASSUME IInv, NEW r \in Request, NEW lt \in LockType, CreateFails(r, lt)
    PROVE  IInv'
  <1>1. /\ pc[r] = "idle" /\ state[r] \in {"none", "canceled"} /\ ~Queued(r)
        /\ nsLock = NoRequest
        /\ lockType' = [lockType EXCEPT ![r] = lt]
        /\ SetState(r, "canceled") /\ state' = [state EXCEPT ![r] = "canceled"]
        /\ pc' = [pc EXCEPT ![r] = "waiting"]
        /\ UNCHANGED <<registered, nsLock, present, queue, activeUsers, currentLock, object, delivered, emits>>
    BY DEF IInv, PcInv, CreateFails, Ask, Goto, SetState, resource
  <1>2. \A q \in Request : Queued(q)' <=> Queued(q)
    BY <1>1, QueueKept
  <1>3. Users' = Users
    BY <1>1, UsersKept, Zenon DEF IInv, TypeOK, RequestState
  <1>4. \A q \in Request : pc[q] \notin Releasing
    BY <1>1, OneReleaser DEF IInv
  <1>5. TypeOK'
    BY <1>1 DEF IInv, TypeOK, PC, RequestState
  <1>6. PcInv'
    BY <1>1, <1>2, <1>4, RequestAssumption DEF IInv, TypeOK, PcInv, Releasing
  <1>7. QueueInv'
    BY <1>1, <1>2 DEF IInv, TypeOK, QueueInv
  <1>8. LockInv' /\ EmitInv'
    BY <1>1, <1>4 DEF IInv, TypeOK, LockInv, EmitInv, Releasing
  <1>9. CountsUsers' /\ UsersAgree'
    BY <1>1, <1>3, Zenon DEF IInv, TypeOK, CountsUsers, UsersAgree, Users
  <1> QED
    BY <1>5, <1>6, <1>7, <1>8, <1>9 DEF IInv

LEMMA WaitReturnsInvariant ==
    ASSUME IInv, NEW r \in Request, WaitReturns(r)
    PROVE  IInv'
  <1>1. /\ pc[r] = "waiting" /\ state[r] # "none"
        /\ pc' = [pc EXCEPT ![r] = IF state[r] = "granted" THEN "getting" ELSE "canceling"]
        /\ UNCHANGED <<registered, nsLock, present, queue, activeUsers, currentLock, object,
                       lockType, state, delivered, emits>>
    BY DEF IInv, PcInv, WaitReturns, Goto, resource
  <1>2. \A q \in Request : Queued(q)' <=> Queued(q)
    BY <1>1, QueueKept
  <1>3. TypeOK'
    BY <1>1 DEF IInv, TypeOK, PC
  <1>4. PcInv'
    BY <1>1, <1>2 DEF IInv, TypeOK, PcInv, Releasing
  <1>5. QueueInv'
    BY <1>1, <1>2 DEF IInv, QueueInv
  <1>6. LockInv' /\ EmitInv'
    BY <1>1 DEF IInv, TypeOK, LockInv, EmitInv
  <1>7. CountsUsers' /\ UsersAgree'
    BY <1>1, Zenon DEF IInv, CountsUsers, UsersAgree, Users
  <1> QED
    BY <1>3, <1>4, <1>5, <1>6, <1>7 DEF IInv

LEMMA GetInvariant ==
    ASSUME IInv, NEW r \in Request, Get(r)
    PROVE  IInv'
  <1>1. /\ pc[r] = "getting" /\ state[r] = "granted"
        /\ pc' = [pc EXCEPT ![r] = "holding"]
        /\ delivered' = delivered \ {r}
        /\ UNCHANGED <<registered, nsLock, present, queue, activeUsers, currentLock, object,
                       lockType, state, emits>>
    BY DEF IInv, PcInv, Get, Goto, resource
  <1>2. \A q \in Request : Queued(q)' <=> Queued(q)
    BY <1>1, QueueKept, Zenon
  <1>3. TypeOK'
    BY <1>1 DEF IInv, TypeOK, PC
  <1>4. PcInv'
    BY <1>1, <1>2 DEF IInv, TypeOK, PcInv, Releasing
  <1>5. QueueInv'
    BY <1>1, <1>2 DEF IInv, QueueInv
  <1>6. LockInv' /\ EmitInv'
    BY <1>1 DEF IInv, TypeOK, LockInv, EmitInv
  <1>7. CountsUsers' /\ UsersAgree'
    BY <1>1, Zenon DEF IInv, CountsUsers, UsersAgree, Users
  <1> QED
    BY <1>3, <1>4, <1>5, <1>6, <1>7 DEF IInv

LEMMA CancelInvariant ==
    ASSUME IInv, NEW r \in Request, Cancel(r)
    PROVE  IInv'
  <1>1. /\ pc[r] = "canceling" /\ state[r] # "none"
        /\ \/ /\ state[r] \in {"active", "canceled"}
              /\ SetState(r, "canceled") /\ state' = [state EXCEPT ![r] = "canceled"]
              /\ pc' = [pc EXCEPT ![r] = "idle"]
           \/ /\ state[r] = "granted" /\ state' = state
              /\ pc' = [pc EXCEPT ![r] = "getting"]
        /\ UNCHANGED <<registered, nsLock, present, queue, activeUsers, currentLock, object,
                       lockType, delivered, emits>>
    BY DEF IInv, PcInv, Cancel, Goto, SetState, resource
  <1>2. \A q \in Request : Queued(q)' <=> Queued(q)
    BY <1>1, QueueKept
  <1>3. Users' = Users
    BY <1>1, UsersKept DEF IInv, TypeOK, RequestState, Users
  <1>4. TypeOK'
    BY <1>1, Zenon DEF IInv, TypeOK, PC, RequestState
  <1>5. PcInv'
    BY <1>1, <1>2 DEF IInv, TypeOK, PcInv, Releasing
  <1>6. QueueInv'
    BY <1>1, <1>2, Zenon DEF IInv, TypeOK, QueueInv
  <1>7. LockInv' /\ EmitInv'
    BY <1>1 DEF IInv, TypeOK, LockInv, EmitInv
  <1>8. CountsUsers' /\ UsersAgree'
    BY <1>1, <1>3 DEF IInv, CountsUsers, UsersAgree
  <1> QED
    BY <1>4, <1>5, <1>6, <1>7, <1>8 DEF IInv

LEMMA ReleaseInvariant ==
    ASSUME IInv, NEW r \in Request, Release(r)
    PROVE  IInv'
  <1>1. /\ pc[r] = "holding" /\ state[r] = "granted" /\ nsLock = NoRequest
        /\ SetState(r, "none") /\ state' = [state EXCEPT ![r] = "none"]
        /\ activeUsers' = activeUsers - 1
        /\ IF activeUsers' > 0
           THEN pc' = [pc EXCEPT ![r] = "idle"] /\ nsLock' = nsLock
           ELSE pc' = [pc EXCEPT ![r] = "granting"] /\ nsLock' = r
        /\ UNCHANGED <<registered, present, queue, currentLock, object, lockType,
                       delivered, emits>>
    BY DEF IInv, PcInv, Release, Goto, SetState
  <1>2. \A q \in Request : Queued(q)' <=> Queued(q)
    BY <1>1, QueueKept
  <1>3. Users' = Users \ {r} /\ Cardinality(Users') = Cardinality(Users) - 1
    BY <1>1, UserRemoved DEF IInv, TypeOK
  <1>4. activeUsers > 0 /\ activeUsers \in Nat /\ present
    <2>1. r \in Users
      BY <1>1 DEF Users
    <2>2. Cardinality(Users) # 0
      BY <2>1, UsersFinite, FS_EmptySet
    <2> QED
      BY <2>1, <2>2, UsersFinite DEF IInv, TypeOK, CountsUsers, UsersAgree
  <1>5. \A q \in Request : pc[q] \notin Releasing
    BY <1>1, OneReleaser DEF IInv
  <1>6. TypeOK'
    <2>1. activeUsers' \in Nat /\ nsLock' \in Request \cup {NoRequest}
      BY <1>1, <1>4
    <2>2. state' \in [Request -> RequestState] /\ pc' \in [Request -> PC]
      BY <1>1, Zenon DEF IInv, TypeOK, PC, RequestState
    <2> QED
      BY <1>1, <2>1, <2>2 DEF IInv, TypeOK
  <1>7. PcInv'
    BY <1>1, <1>2, <1>5, RequestAssumption DEF IInv, TypeOK, PcInv, Releasing
  <1>8. QueueInv'
    BY <1>1, <1>2 DEF IInv, TypeOK, QueueInv
  <1>9. LockInv' /\ EmitInv'
    BY <1>1, <1>4, <1>5, RequestAssumption DEF IInv, TypeOK, LockInv, EmitInv, Releasing
  <1>10. CountsUsers' /\ UsersAgree'
    BY <1>1, <1>3, Zenon DEF IInv, CountsUsers, UsersAgree
  <1> QED
    BY <1>6, <1>7, <1>8, <1>9, <1>10 DEF IInv

LEMMA FreeInvariant ==
    ASSUME IInv, NEW r \in Request, Free(r)
    PROVE  IInv'
  <1>1. /\ pc[r] = "granting" /\ nsLock = r /\ state[r] = "none"
        /\ queue = <<>> /\ queue' = <<>> /\ activeUsers = 0 /\ activeUsers' = 0
        /\ present' = FALSE /\ currentLock' = "shared" /\ object' = NoObject
        /\ nsLock' = NoRequest
        /\ pc' = [pc EXCEPT ![r] = "idle"]
        /\ UNCHANGED <<registered, lockType, state, delivered, emits>>
    BY DEF IInv, PcInv, LockInv, Releasing, Free, NoResource, Goto
  <1>2. \A q \in Request : Queued(q)' <=> Queued(q)
    BY <1>1, QueueKept
  <1>3. Users = {} /\ Users' = Users
    BY <1>1, NoUsers DEF IInv, Users
  <1>4. \A q \in Request : pc[q] \in Releasing => q = r
    BY <1>1, OneReleaser DEF IInv
  <1>5. TypeOK'
    <2>1. NoObject \in Object /\ "shared" \in LockType
      BY DEF LockType, Object, NoObject
    <2> QED
      BY <1>1, <2>1, Zenon DEF IInv, TypeOK, PC
  <1>6. PcInv'
    BY <1>1, <1>2, <1>4, RequestAssumption DEF IInv, TypeOK, PcInv, Releasing
  <1>7. QueueInv'
    BY <1>1, <1>2 DEF IInv, QueueInv
  <1>8. LockInv' /\ EmitInv'
    BY <1>1, <1>4 DEF IInv, TypeOK, LockInv, EmitInv, Releasing
  <1>9. CountsUsers' /\ UsersAgree'
    BY <1>1, <1>3, Zenon DEF IInv, CountsUsers, UsersAgree
  <1> QED
    BY <1>5, <1>6, <1>7, <1>8, <1>9 DEF IInv

LEMMA SkipCanceledInvariant ==
    ASSUME IInv, NEW r \in Request, SkipCanceled(r)
    PROVE  IInv'
  <1>1. /\ pc[r] \in {"granting", "sharing"} /\ nsLock = r
        /\ queue # <<>> /\ state[Head(queue)] = "canceled" /\ queue' = Tail(queue)
        /\ UNCHANGED <<registered, nsLock, present, activeUsers, currentLock, object,
                       lockType, state, delivered, emits, pc>>
    BY DEF IInv, PcInv, Releasing, SkipCanceled
  <1>2. /\ queue' \in Seq(Request)
        /\ \A q \in Request : Queued(q)' <=> Queued(q) /\ q # Head(queue)
        /\ \A i, j \in 1..Len(queue') : queue'[i] = queue'[j] => i = j
    BY <1>1, Popped DEF IInv
  <1>3. \A q \in Request : pc[q] \in Releasing => q = r
    BY <1>1, OneReleaser DEF IInv
  <1>4. TypeOK'
    BY <1>1, <1>2 DEF IInv, TypeOK
  <1>5. PcInv'
    BY <1>1, <1>2, Zenon DEF IInv, PcInv
  <1>6. QueueInv'
    BY <1>1, <1>2 DEF IInv, QueueInv
  <1>7. LockInv' /\ EmitInv'
    <2>1. present
      BY <1>1, RequestAssumption DEF IInv, LockInv
    <2> QED
      BY <1>1, <1>3, <2>1, Zenon DEF IInv, LockInv, EmitInv, Releasing
  <1>8. CountsUsers' /\ UsersAgree'
    BY <1>1 DEF IInv, CountsUsers, UsersAgree, Users
  <1> QED
    BY <1>4, <1>5, <1>6, <1>7, <1>8 DEF IInv

(* A switch leaves an object in place. *)
LEMMA SwitchedType ==
    ASSUME TypeOK, NEW lt \in LockType
    PROVE  Switched(lt) \subseteq Object
  <1>1. object \in Object /\ [object EXCEPT !.lock = lt] \in Object
    BY Zenon DEF TypeOK, Object
  <1>2. Created(lt) \in Object
    BY DEF Created, Object, NoObject, LockType
  <1> QED
    BY <1>1, <1>2 DEF Switched

LEMMA GrantFirstInvariant ==
    ASSUME IInv, NEW r \in Request, GrantFirst(r)
    PROVE  IInv'
  <1> DEFINE next == Head(queue)
  <1>0. next \in Request /\ Queued(next)
    <2>1. queue # <<>> /\ queue \in Seq(Request)
      BY DEF GrantFirst, IInv, TypeOK
    <2>2. Len(queue) \in Nat \ {0} /\ next = queue[1] /\ next \in Request
      BY <2>1, EmptySeq, HeadTailProperties
    <2> QED
      BY <2>2 DEF Queued
  <1>1. /\ pc[r] = "granting" /\ nsLock = r /\ state[r] = "none" /\ activeUsers = 0
        /\ present
        /\ queue # <<>> /\ state[next] = "active" /\ queue' = Tail(queue)
        /\ object' \in Switched(lockType[next])
        /\ currentLock' = lockType[next]
        /\ SetState(next, "granted") /\ state' = [state EXCEPT ![next] = "granted"]
        /\ emits' = [emits EXCEPT ![r] = Append(@, next)]
        /\ activeUsers' = activeUsers + 1
        /\ IF currentLock' = "exclusive"
           THEN nsLock' = NoRequest
                /\ pc' = [pc EXCEPT ![r] = IF emits'[r] = <<>> THEN "idle" ELSE "emitting"]
           ELSE pc' = [pc EXCEPT ![r] = "sharing"] /\ nsLock' = nsLock
        /\ UNCHANGED <<registered, present, lockType, delivered>>
    BY RequestAssumption
       DEF IInv, PcInv, LockInv, Releasing, GrantFirst, LeaveLock, Goto, SetState
  <1>2. /\ queue' \in Seq(Request)
        /\ \A q \in Request : Queued(q)' <=> Queued(q) /\ q # Head(queue)
        /\ \A i, j \in 1..Len(queue') : queue'[i] = queue'[j] => i = j
    BY <1>1, Popped, Zenon DEF IInv
  <1>3. emits'[r] \in Seq(Request) /\ emits'[r] # <<>> /\ emits' \in [Request -> Seq(Request)]
    BY <1>0, <1>1, Deferred, Zenon DEF IInv, TypeOK
  <1>4. Users = {} /\ Users' = {next} /\ Cardinality(Users') = 1
    <2>1. Users = {}
      BY <1>1, NoUsers DEF IInv
    <2>2. Users' = Users \cup {next} /\ Cardinality(Users') = Cardinality(Users) + 1
      BY <1>0, <1>1, UserAdded, Zenon DEF IInv, TypeOK
    <2> QED
      BY <2>1, <2>2, FS_EmptySet
  <1>5. \A q \in Request : pc[q] \in Releasing => q = r
    BY <1>1, OneReleaser DEF IInv
  <1>6. lockType[next] \in LockType /\ object' \in Object
    BY <1>0, <1>1, SwitchedType DEF IInv, TypeOK
  <1>7. TypeOK'
    <2>1. activeUsers' \in Nat /\ nsLock' \in Request \cup {NoRequest}
      BY <1>1
    <2>2. state' \in [Request -> RequestState] /\ pc' \in [Request -> PC]
      BY <1>0, <1>1, Zenon DEF IInv, TypeOK, PC, RequestState
    <2> QED
      BY <1>1, <1>2, <1>3, <1>6, <2>1, <2>2, Zenon DEF IInv, TypeOK
  <1>8. PcInv'
    BY <1>0, <1>1, <1>2, <1>3, <1>5, RequestAssumption DEF IInv, TypeOK, PcInv, Releasing
  <1>9. QueueInv'
    BY <1>0, <1>1, <1>2 DEF IInv, TypeOK, QueueInv
  <1>10. LockInv' /\ EmitInv'
    <2>1. CASE currentLock' = "exclusive"
      <3>1. pc' = [pc EXCEPT ![r] = "emitting"] /\ nsLock' = NoRequest /\ activeUsers' = 1
        BY <1>1, <1>3, <2>1
      <3> QED
        BY <1>1, <1>3, <1>5, <3>1 DEF IInv, TypeOK, LockInv, EmitInv, Releasing
    <2>2. CASE currentLock' = "shared"
      <3>1. pc' = [pc EXCEPT ![r] = "sharing"] /\ nsLock' = r /\ activeUsers' = 1
        BY <1>1, <2>2
      <3> QED
        BY <1>1, <1>3, <1>5, <2>2, <3>1, RequestAssumption
           DEF IInv, TypeOK, LockInv, EmitInv, Releasing
    <2> QED
      BY <1>1, <1>6, <2>1, <2>2, Zenon DEF LockType
  <1>11. CountsUsers' /\ UsersAgree'
    BY <1>1, <1>4 DEF IInv, CountsUsers, UsersAgree
  <1> QED
    BY <1>7, <1>8, <1>9, <1>10, <1>11 DEF IInv

LEMMA SwitchFailsInvariant ==
    ASSUME IInv, NEW r \in Request, SwitchFails(r)
    PROVE  IInv'
  <1> DEFINE next == Head(queue)
  <1>0. queue # <<>> /\ queue' = Tail(queue)
    BY DEF SwitchFails
  <1>1. /\ next \in Request /\ Queued(next)
        /\ queue' \in Seq(Request)
        /\ \A q \in Request : Queued(q)' <=> Queued(q) /\ q # Head(queue)
        /\ \A i, j \in 1..Len(queue') : queue'[i] = queue'[j] => i = j
    BY <1>0, Popped DEF IInv
  <1>2. /\ pc[r] = "granting" /\ nsLock = r /\ activeUsers = 0 /\ present
        /\ state[next] = "active"
        /\ object' = [object EXCEPT !.open = FALSE]
        /\ currentLock' = lockType[next]
        /\ SetState(next, "canceled") /\ state' = [state EXCEPT ![next] = "canceled"]
        /\ UNCHANGED <<registered, nsLock, present, activeUsers, lockType, delivered,
                       emits, pc>>
    BY RequestAssumption DEF IInv, PcInv, LockInv, Releasing, SwitchFails, SetState
  <1>3. Users = {} /\ Users' = Users
    BY <1>1, <1>2, NoUsers, UsersKept, Zenon DEF IInv, TypeOK, RequestState
  <1>4. \A q \in Request : pc[q] \in Releasing => q = r
    BY <1>2, OneReleaser DEF IInv
  <1>5. TypeOK'
    <2>1. object' \in Object /\ currentLock' \in LockType
      BY <1>1, <1>2, Zenon DEF IInv, TypeOK, Object
    <2> QED
      BY <1>1, <1>2, <2>1 DEF IInv, TypeOK, RequestState
  <1>6. PcInv'
    BY <1>1, <1>2 DEF IInv, TypeOK, PcInv, Releasing
  <1>7. QueueInv'
    BY <1>1, <1>2 DEF IInv, TypeOK, QueueInv
  <1>8. LockInv' /\ EmitInv'
    BY <1>2, <1>4, RequestAssumption DEF IInv, LockInv, EmitInv, Releasing
  <1>9. CountsUsers' /\ UsersAgree'
    BY <1>2, <1>3, Zenon DEF IInv, CountsUsers, UsersAgree
  <1> QED
    BY <1>5, <1>6, <1>7, <1>8, <1>9 DEF IInv

LEMMA PickSharedInvariant ==
    ASSUME IInv, NEW r \in Request, PickShared(r)
    PROVE  IInv'
  <1>1. /\ pc[r] = "sharing" /\ nsLock = r /\ state[r] = "none"
        /\ queue # <<>> /\ lockType[Head(queue)] = "shared"
        /\ pc' = [pc EXCEPT ![r] = "picked"]
        /\ UNCHANGED <<registered, nsLock, present, queue, activeUsers, currentLock, object,
                       lockType, state, delivered, emits>>
    BY DEF IInv, PcInv, Releasing, PickShared, Goto, resource
  <1>2. \A q \in Request : Queued(q)' <=> Queued(q)
    BY <1>1, QueueKept
  <1>3. TypeOK'
    BY <1>1 DEF IInv, TypeOK, PC
  <1>4. PcInv'
    BY <1>1, <1>2 DEF IInv, TypeOK, PcInv, Releasing
  <1>5. QueueInv'
    BY <1>1, <1>2 DEF IInv, QueueInv
  <1>6. LockInv' /\ EmitInv'
    BY <1>1, Zenon DEF IInv, TypeOK, LockInv, EmitInv
  <1>7. CountsUsers' /\ UsersAgree'
    BY <1>1 DEF IInv, CountsUsers, UsersAgree, Users
  <1> QED
    BY <1>3, <1>4, <1>5, <1>6, <1>7 DEF IInv

LEMMA GrantSharedInvariant ==
    ASSUME IInv, NEW r \in Request, GrantShared(r)
    PROVE  IInv'
  <1> DEFINE next == Head(queue)
  <1>0. /\ pc[r] = "picked" /\ nsLock = r /\ state[r] = "none" /\ present
        /\ queue # <<>> /\ queue' = Tail(queue)
        /\ lockType[next] = "shared" /\ currentLock = "shared" /\ activeUsers > 0
        /\ pc' = [pc EXCEPT ![r] = "sharing"]
        /\ UNCHANGED <<registered, nsLock, present, currentLock, object, lockType, delivered>>
    BY RequestAssumption DEF IInv, PcInv, LockInv, Releasing, GrantShared, Goto
  <1>1. /\ next \in Request /\ Queued(next) /\ state[next] \in {"active", "canceled"}
        /\ queue' \in Seq(Request)
        /\ \A q \in Request : Queued(q)' <=> Queued(q) /\ q # Head(queue)
        /\ \A i, j \in 1..Len(queue') : queue'[i] = queue'[j] => i = j
    BY <1>0, Popped DEF IInv, QueueInv
  <1>2. \A q \in Request : pc[q] \in Releasing => q = r
    BY <1>0, OneReleaser, Zenon DEF IInv
  <1>3. CASE state[next] = "active"
    <2>1. /\ SetState(next, "granted") /\ state' = [state EXCEPT ![next] = "granted"]
          /\ emits' = [emits EXCEPT ![r] = Append(@, next)]
          /\ activeUsers' = activeUsers + 1
      BY <1>3 DEF GrantShared, SetState
    <2>2. emits' \in [Request -> Seq(Request)]
      BY <1>1, <2>1, Deferred DEF IInv, TypeOK
    <2>3. Users' = Users \cup {next} /\ Cardinality(Users') = Cardinality(Users) + 1
      BY <1>1, <1>3, <2>1, UserAdded, Zenon DEF IInv, TypeOK
    <2>4. TypeOK'
      BY <1>0, <1>1, <2>1, <2>2 DEF IInv, TypeOK, PC, RequestState
    <2>5. PcInv'
      BY <1>0, <1>1, <1>2, <1>3, <2>1 DEF IInv, TypeOK, PcInv, Releasing
    <2>6. QueueInv'
      BY <1>1, <2>1 DEF IInv, TypeOK, QueueInv
    <2>7. LockInv' /\ EmitInv'
      BY <1>0, <1>2, <2>1, RequestAssumption
         DEF IInv, TypeOK, LockInv, EmitInv, Releasing
    <2>8. CountsUsers' /\ UsersAgree'
      BY <1>0, <2>1, <2>3, Zenon DEF IInv, CountsUsers, UsersAgree
    <2> QED
      BY <2>4, <2>5, <2>6, <2>7, <2>8 DEF IInv
  <1>4. CASE state[next] = "canceled"
    <2>1. UNCHANGED <<state, emits, activeUsers>>
      BY <1>4 DEF GrantShared
    <2>2. TypeOK'
      BY <1>0, <1>1, <2>1, Zenon DEF IInv, TypeOK, PC
    <2>3. PcInv'
      BY <1>0, <1>1, <1>2, <2>1 DEF IInv, TypeOK, PcInv, Releasing
    <2>4. QueueInv'
      BY <1>1, <1>4, <2>1 DEF IInv, QueueInv
    <2>5. LockInv' /\ EmitInv'
      BY <1>0, <1>2, <2>1, RequestAssumption, Zenon
         DEF IInv, TypeOK, LockInv, EmitInv, Releasing
    <2>6. CountsUsers' /\ UsersAgree'
      BY <1>0, <2>1, Zenon DEF IInv, CountsUsers, UsersAgree, Users
    <2> QED
      BY <2>2, <2>3, <2>4, <2>5, <2>6 DEF IInv
  <1> QED
    BY <1>1, <1>3, <1>4

LEMMA EndSharingInvariant ==
    ASSUME IInv, NEW r \in Request, EndSharing(r)
    PROVE  IInv'
  <1>1. /\ pc[r] = "sharing" /\ nsLock = r /\ state[r] = "none"
        /\ present /\ activeUsers > 0
        /\ nsLock' = NoRequest
        /\ pc' = [pc EXCEPT ![r] = IF emits[r] = <<>> THEN "idle" ELSE "emitting"]
        /\ UNCHANGED <<registered, present, queue, activeUsers, currentLock, object,
                       lockType, state, delivered, emits>>
    BY RequestAssumption
       DEF IInv, PcInv, LockInv, Releasing, EndSharing, LeaveLock, Goto, resource
  <1>2. \A q \in Request : Queued(q)' <=> Queued(q)
    BY <1>1, QueueKept
  <1>3. \A q \in Request : pc[q] \in Releasing => q = r
    BY <1>1, OneReleaser DEF IInv
  <1>4. TypeOK'
    BY <1>1 DEF IInv, TypeOK, PC
  <1>5. PcInv'
    BY <1>1, <1>2, <1>3, RequestAssumption, Zenon DEF IInv, TypeOK, PcInv, Releasing
  <1>6. QueueInv'
    BY <1>1, <1>2 DEF IInv, QueueInv
  <1>7. LockInv' /\ EmitInv'
    BY <1>1, <1>3, Zenon DEF IInv, TypeOK, LockInv, EmitInv, Releasing
  <1>8. CountsUsers' /\ UsersAgree'
    BY <1>1 DEF IInv, CountsUsers, UsersAgree, Users
  <1> QED
    BY <1>4, <1>5, <1>6, <1>7, <1>8 DEF IInv

LEMMA EmitInvariant ==
    ASSUME IInv, NEW r \in Request, Emit(r)
    PROVE  IInv'
  <1>1. /\ pc[r] = "emitting" /\ state[r] = "none" /\ emits[r] # <<>>
        /\ delivered' = delivered \cup {Head(emits[r])}
        /\ emits' = [emits EXCEPT ![r] = Tail(@)]
        /\ pc' = [pc EXCEPT ![r] = IF Len(emits[r]) = 1 THEN "idle" ELSE "emitting"]
        /\ UNCHANGED <<registered, nsLock, present, queue, activeUsers, currentLock, object,
                       lockType, state>>
    BY Zenon DEF IInv, PcInv, EmitInv, Emit, Goto, resource
  <1>2. /\ Head(emits[r]) \in Request /\ Tail(emits[r]) \in Seq(Request)
        /\ Len(emits[r]) \in Nat \ {0}
        /\ Len(Tail(emits[r])) = Len(emits[r]) - 1
    <2>1. emits[r] \in Seq(Request)
      BY DEF IInv, TypeOK
    <2> QED
      BY <1>1, <2>1, HeadTailProperties, EmptySeq
  <1>3. Len(emits[r]) # 1 => Tail(emits[r]) # <<>>
    <2>1. ASSUME Tail(emits[r]) = <<>> PROVE Len(emits[r]) = 1
      <3>1. \A s : s = <<>> => Len(s) = 0
        BY EmptySeq
      <3>2. Len(Tail(emits[r])) = 0
        BY <2>1, <3>1, Zenon
      <3> QED
        BY <1>2, <3>2
    <2> QED
      BY <2>1
  <1>4. \A q \in Request : Queued(q)' <=> Queued(q)
    BY <1>1, QueueKept, Zenon
  <1>5. TypeOK'
    BY <1>1, <1>2, Zenon DEF IInv, TypeOK, PC
  <1>6. PcInv'
    BY <1>1, <1>4 DEF IInv, TypeOK, PcInv, Releasing
  <1>7. QueueInv'
    BY <1>1, <1>4 DEF IInv, QueueInv
  <1>8. LockInv'
    BY <1>1 DEF IInv, TypeOK, LockInv
  <1>9. EmitInv'
    BY <1>1, <1>3, Zenon DEF IInv, TypeOK, EmitInv
  <1>10. CountsUsers' /\ UsersAgree'
    BY <1>1 DEF IInv, CountsUsers, UsersAgree, Users
  <1> QED
    BY <1>5, <1>6, <1>7, <1>8, <1>9, <1>10, Zenon DEF IInv

LEMMA StepInvariant == IInv /\ [Next]_vars => IInv'
  <1> SUFFICES ASSUME IInv, [Next]_vars PROVE IInv'
    BY Zenon
  <1>1. CASE UNCHANGED vars
    BY <1>1 DEF vars, resource, IInv, TypeOK, PcInv, QueueInv, LockInv, EmitInv,
                CountsUsers, UsersAgree, Users, Queued
  <1>2. ASSUME NEW r \in Request, CheckNamespace(r) \/ InstallNamespace(r) PROVE IInv'
    BY <1>2, CheckNamespaceInvariant, InstallNamespaceInvariant
  <1>3. ASSUME NEW r \in Request, NEW lt \in LockType, Acquire(r, lt) PROVE IInv'
    BY <1>3, JoinInvariant, EnqueueInvariant, CreateInvariant, CreateFailsInvariant
       DEF Acquire
  <1>4. ASSUME NEW r \in Request, WaitReturns(r) \/ Cancel(r) \/ Get(r) PROVE IInv'
    BY <1>4, WaitReturnsInvariant, CancelInvariant, GetInvariant
  <1>5. ASSUME NEW r \in Request, Release(r) PROVE IInv'
    BY <1>5, ReleaseInvariant
  <1>6. ASSUME NEW r \in Request, Grant(r) PROVE IInv'
    BY <1>6, FreeInvariant, SkipCanceledInvariant, GrantFirstInvariant,
       SwitchFailsInvariant, PickSharedInvariant, GrantSharedInvariant,
       EndSharingInvariant, EmitInvariant, Zenon
       DEF Grant
  <1> QED
    BY <1>1, <1>2, <1>3, <1>4, <1>5, <1>6, Zenon DEF Next

(* The inductive invariant holds in every behaviour of the manager. *)
THEOREM Invariance == Spec => []IInv
  BY InitInvariant, StepInvariant, PTL DEF Spec

(* The manager's records keep their types; the user count never goes below *)
(* zero, however timeouts, cancels and releases interleave.                *)
THEOREM TypeCorrect == Spec => []TypeOK
  <1>1. IInv => TypeOK
    BY DEF IInv
  <1> QED
    BY <1>1, Invariance, PTL

(* The user count is exact in every state, for any number of requests. *)
THEOREM UserCountExact == Spec => []CountsUsers
  <1>1. IInv => CountsUsers
    BY DEF IInv
  <1> QED
    BY <1>1, Invariance, PTL

(* Users have the lock type the resource records, and an exclusive user is *)
(* alone, whatever the factory does.                                       *)
THEOREM UsersCompatible == Spec => []UsersAgree
  <1>1. IInv => UsersAgree
    BY Zenon DEF IInv
  <1> QED
    BY <1>1, Invariance, PTL

(* No waiting request is forgotten by a release or by a race with one. *)
THEOREM RequestsNotStranded == Spec => []NoStrandedRequest
  <1>1. IInv => NoStrandedRequest
    <2> SUFFICES ASSUME IInv, NEW r \in Request, state[r] = "active"
                 PROVE  Queued(r) /\ (activeUsers > 0 \/ nsLock # NoRequest)
      BY DEF NoStrandedRequest
    <2>1. Queued(r)
      BY DEF IInv, QueueInv
    <2>2. queue # <<>>
      BY <2>1, EmptySeq DEF Queued
    <2> QED
      BY <2>1, <2>2 DEF IInv, LockInv
  <1> QED
    BY <1>1, Invariance, PTL

(* A resource nobody uses is not kept. *)
THEOREM ResourcesNotOrphaned == Spec => []NoOrphanedResource
  <1>1. IInv => NoOrphanedResource
    BY DEF IInv, LockInv, NoOrphanedResource
  <1> QED
    BY <1>1, Invariance, PTL

(* No grant overtakes an older waiting request: neither a join, nor a      *)
(* creation, nor either loop of a release.                                 *)
THEOREM GrantsInOrder == Spec => GrantedInOrder
  <1> DEFINE Before(r, q) == \E i, j \in 1..Len(queue) : i < j /\ queue[i] = r /\ queue[j] = q
             InOrder == \A r, q \in Request :
                /\ state[r] # "granted" /\ state'[r] = "granted"
                /\ state[q] = "active" /\ q # r
                => Before(r, q)
  <1>1. IInv /\ [Next]_vars => [InOrder]_vars
    <2> SUFFICES ASSUME IInv, Next,
                        NEW r \in Request, NEW q \in Request,
                        state[r] # "granted", state'[r] = "granted",
                        state[q] = "active", q # r
                 PROVE  Before(r, q)
      BY DEF vars
    <2>1. state \in [Request -> RequestState] /\ queue \in Seq(Request)
      BY Zenon DEF IInv, TypeOK
    <2>2. PICK k \in 1..Len(queue) : queue[k] = q
      BY DEF IInv, QueueInv, Queued
    <2>3. queue # <<>> /\ present /\ Len(queue) \in Nat
      <3>1. queue # <<>>
        BY <2>2, EmptySeq
      <3> QED
        BY <2>1, <3>1, LenProperties DEF IInv, LockInv
    <2>4. PICK p \in Request : GrantFirst(p) \/ GrantShared(p)
      <3>1. ASSUME NEW p \in Request, NEW lt \in LockType, Acquire(p, lt) PROVE FALSE
        BY <2>1, <2>3, <3>1, Zenon
           DEF Acquire, Join, Enqueue, Create, CreateFails, SetState
      <3>2. ASSUME NEW p \in Request,
                   \/ CheckNamespace(p) \/ InstallNamespace(p) \/ WaitReturns(p)
                   \/ Cancel(p) \/ Get(p) \/ Release(p) \/ Free(p) \/ SkipCanceled(p)
                   \/ SwitchFails(p) \/ PickShared(p) \/ EndSharing(p) \/ Emit(p)
            PROVE  FALSE
        BY <2>1, <3>2
           DEF CheckNamespace, InstallNamespace, WaitReturns, Cancel, Get, Release, Free,
               SkipCanceled, SwitchFails, PickShared, EndSharing, Emit, SetState
      <3> QED
        BY <3>1, <3>2, Zenon DEF Next, Grant
    <2>5. r = Head(queue) /\ Head(queue) = queue[1]
      <3>1. state' = state \/ state' = [state EXCEPT ![Head(queue)] = "granted"]
        BY <2>4 DEF GrantFirst, GrantShared, SetState
      <3>2. Head(queue) \in Request /\ Head(queue) = queue[1]
        BY <2>1, <2>3, HeadTailProperties
      <3> QED
        BY <2>1, <3>1, <3>2
    <2>6. 1 \in 1..Len(queue) /\ 1 < k
      BY <2>2, <2>3, <2>5
    <2> QED
      BY <2>2, <2>5, <2>6, Zenon
  <1> QED
    BY <1>1, Invariance, PTL DEF Spec, GrantedInOrder

(* With a factory that can always make the object again, users always get  *)
(* an open object made for their lock type.                                *)
THEOREM ObjectsUsable ==
    ASSUME "recreate" \notin Failures
    PROVE  Spec => []ObjectUsable
  <1> DEFINE Fresh == Factory # "null" /\ present =>
                          object = [lock |-> currentLock, open |-> TRUE]
  <1>1. Init => Fresh
    BY DEF Init
  <1>2. IInv /\ Fresh /\ [Next]_vars => Fresh'
    <2> SUFFICES ASSUME IInv, Fresh, [Next]_vars, Factory # "null", present'
                 PROVE  object' = [lock |-> currentLock', open |-> TRUE]
      OBVIOUS
    <2>1. CASE UNCHANGED <<present, currentLock, object>>
      BY <2>1
    <2>2. ASSUME NEW r \in Request, NEW lt \in LockType, Create(r, lt)
          PROVE  object' = [lock |-> currentLock', open |-> TRUE]
      BY <2>2 DEF Create, Created
    <2>3. ASSUME NEW r \in Request, GrantFirst(r)
          PROVE  object' = [lock |-> currentLock', open |-> TRUE]
      <3> DEFINE lt == lockType[Head(queue)]
      <3>1. /\ pc[r] = "granting" /\ present' = present
            /\ object' \in Switched(lt) /\ currentLock' = lt
        BY <2>3, Zenon DEF GrantFirst
      <3>2. object = [lock |-> currentLock, open |-> TRUE]
        BY <3>1
      <3> QED
        BY <3>1, <3>2 DEF Switched, Created
    <2>4. ASSUME NEW r \in Request, SwitchFails(r) PROVE FALSE
      BY <2>4 DEF SwitchFails, SwitchMayFail
    <2>5. ASSUME NEW r \in Request, InstallNamespace(r) \/ Free(r)
          PROVE  UNCHANGED <<present, currentLock, object>>
      BY <2>5, Zenon DEF InstallNamespace, Free, NoResource, resource
    <2>6. ASSUME NEW r \in Request,
                 \/ CheckNamespace(r) \/ WaitReturns(r) \/ Cancel(r) \/ Get(r)
                 \/ Release(r) \/ SkipCanceled(r) \/ PickShared(r) \/ GrantShared(r)
                 \/ EndSharing(r) \/ Emit(r)
          PROVE  UNCHANGED <<present, currentLock, object>>
      BY <2>6, Zenon DEF CheckNamespace, WaitReturns, Cancel, Get, Release, SkipCanceled,
                  PickShared, GrantShared, EndSharing, Emit, resource
    <2>7. ASSUME NEW r \in Request, NEW lt \in LockType,
                 Join(r, lt) \/ Enqueue(r, lt) \/ CreateFails(r, lt)
          PROVE  UNCHANGED <<present, currentLock, object>>
      BY <2>7, Zenon DEF Join, Enqueue, CreateFails, resource
    <2>8. CASE UNCHANGED vars
      BY <2>1, <2>8 DEF vars, resource
    <2> QED
      BY <2>1, <2>2, <2>3, <2>4, <2>5, <2>6, <2>7, <2>8, Zenon DEF Next, Acquire, Grant
  <1>3. IInv /\ Fresh => ObjectUsable
    BY DEF IInv, UsersAgree, ObjectUsable
  <1> QED
    BY <1>1, <1>2, <1>3, Invariance, PTL DEF Spec

-----------------------------------------------------------------------------
(* The refinement: what a step does to the lock types the requests have is *)
(* a step of SharedExclusive or leaves them alone.                         *)
LEMMA InitRefines == Init => Abstract!Init
  BY DEF Init, Abstract!Init

(* A request that becomes a user while it is compatible with the others. *)
LEMMA GrantRefines ==
    ASSUME IInv, IInv', NEW r \in Request, state[r] # "granted",
           SetState(r, "granted"),
           \A q \in Request \ {r} : lockType'[q] = lockType[q]
    PROVE  Abstract!Next
  <1> DEFINE m == [q \in Request |-> IF state[q] = "granted" THEN lockType[q] ELSE "none"]
  <1>1. /\ state' = [state EXCEPT ![r] = "granted"] /\ state \in [Request -> RequestState]
        /\ lockType \in [Request -> LockType] /\ lockType'[r] \in LockType
    BY DEF SetState, IInv, TypeOK
  <1>2. Users' = Users \cup {r} /\ r \in Users'
    BY <1>1, UserAdded
  <1>3. m' = [m EXCEPT ![r] = lockType'[r]] /\ m[r] = "none"
    BY <1>1, Zenon
  <1>4. \A q \in Request : q \in Users' => lockType'[q] = currentLock'
    BY DEF IInv, UsersAgree
  <1>5. CASE lockType'[r] = "shared"
    <2>1. \A q \in Request : m[q] # "exclusive"
      BY <1>1, <1>2, <1>4, <1>5 DEF Users
    <2>2. Abstract!Share(r)
      BY <1>3, <1>5, <2>1 DEF Abstract!Share
    <2> QED
      BY <2>2 DEF Abstract!Next
  <1>6. CASE lockType'[r] = "exclusive"
    <2>1. Users' = {r}
      BY <1>2, <1>4, <1>6 DEF IInv, UsersAgree
    <2>2. \A q \in Request : m[q] = "none"
      BY <1>1, <1>2, <2>1, Zenon DEF Users
    <2>3. Abstract!Exclude(r)
      BY <1>3, <1>6, <2>2 DEF Abstract!Exclude
    <2> QED
      BY <2>3, Zenon DEF Abstract!Next
  <1> QED
    BY <1>1, <1>5, <1>6, Zenon DEF LockType

LEMMA ReleaseRefines ==
    ASSUME IInv, NEW r \in Request, Release(r)
    PROVE  Abstract!Next
  <1> DEFINE m == [q \in Request |-> IF state[q] = "granted" THEN lockType[q] ELSE "none"]
  <1>1. /\ state[r] = "granted" /\ state' = [state EXCEPT ![r] = "none"] /\ lockType' = lockType
        /\ state \in [Request -> RequestState] /\ lockType \in [Request -> LockType]
    BY DEF Release, SetState, IInv, TypeOK, PcInv
  <1>2. m[r] # "none" /\ m' = [m EXCEPT ![r] = "none"]
    BY <1>1, Zenon DEF LockType
  <1>3. Abstract!Release(r)
    BY <1>2 DEF Abstract!Release
  <1> QED
    BY <1>3 DEF Abstract!Next

(* A step that grants nothing and releases nothing leaves the modes alone. *)
LEMMA OtherRefines ==
    ASSUME IInv, NEW r \in Request, state[r] # "granted",
           \/ state' = state
           \/ \E s \in {"active", "canceled"} : state' = [state EXCEPT ![r] = s],
           \A q \in Request \ {r} : lockType'[q] = lockType[q]
    PROVE  UNCHANGED [q \in Request |-> IF state[q] = "granted" THEN lockType[q] ELSE "none"]
  BY DEF IInv, TypeOK

LEMMA StepRefines ==
    ASSUME IInv, IInv', [Next]_vars
    PROVE  [Abstract!Next]_([r \in Request |->
                                IF state[r] = "granted" THEN lockType[r] ELSE "none"])
  <1> DEFINE m == [q \in Request |-> IF state[q] = "granted" THEN lockType[q] ELSE "none"]
  <1>1. CASE UNCHANGED <<state, lockType>>
    BY <1>1
  <1>2. ASSUME NEW r \in Request, CheckNamespace(r) \/ InstallNamespace(r)
        PROVE  UNCHANGED <<state, lockType>>
    BY <1>2, Zenon DEF CheckNamespace, InstallNamespace
  <1>3. ASSUME NEW r \in Request, NEW lt \in LockType, Acquire(r, lt)
        PROVE  [Abstract!Next]_m
    <2>1. /\ state[r] # "granted"
          /\ \A q \in Request \ {r} : lockType'[q] = lockType[q]
      BY <1>3, Zenon DEF Acquire, Join, Enqueue, Create, CreateFails, Ask, IInv, PcInv, TypeOK
    <2>2. CASE Join(r, lt) \/ Create(r, lt)
      BY <2>1, <2>2, GrantRefines, Zenon DEF Join, Create, GrantNow
    <2>3. CASE Enqueue(r, lt) \/ CreateFails(r, lt)
      <3>1. \E s \in {"active", "canceled"} : state' = [state EXCEPT ![r] = s]
        BY <2>3, Zenon DEF Enqueue, CreateFails, SetState
      <3> QED
        BY <2>1, <3>1, OtherRefines, Zenon
    <2> QED
      BY <1>3, <2>2, <2>3, Zenon DEF Acquire
  <1>4. ASSUME NEW r \in Request, WaitReturns(r) \/ Get(r)
        PROVE  UNCHANGED <<state, lockType>>
    BY <1>4, Zenon DEF WaitReturns, Get
  <1>5. ASSUME NEW r \in Request, Cancel(r)
        PROVE  [Abstract!Next]_m
    <2>1. CASE UNCHANGED state
      BY <1>5, <2>1, <1>1, Zenon DEF Cancel
    <2>2. CASE state[r] # "granted" /\ state' = [state EXCEPT ![r] = "canceled"] /\ lockType' = lockType
      BY <2>2, OtherRefines
    <2> QED
      BY <1>5, <2>1, <2>2, Zenon DEF Cancel, SetState
  <1>6. ASSUME NEW r \in Request, Release(r)
        PROVE  Abstract!Next
    BY <1>6, ReleaseRefines, Zenon
  <1>7. ASSUME NEW r \in Request,
               Free(r) \/ SkipCanceled(r) \/ PickShared(r) \/ EndSharing(r) \/ Emit(r)
        PROVE  UNCHANGED <<state, lockType>>
    BY <1>7 DEF Free, SkipCanceled, PickShared, EndSharing, Emit
  <1>8. ASSUME NEW r \in Request, GrantFirst(r) \/ GrantShared(r) \/ SwitchFails(r)
        PROVE  [Abstract!Next]_m
    <2>1. queue # <<>> /\ queue' = Tail(queue) /\ lockType' = lockType
      BY <1>8, Zenon DEF GrantFirst, GrantShared, SwitchFails, IInv, LockInv
    <2>2. Head(queue) \in Request /\ state[Head(queue)] \in {"active", "canceled"}
      BY <2>1, Popped, Zenon DEF IInv, QueueInv
    <2>3. CASE SetState(Head(queue), "granted")
      BY <2>1, <2>2, <2>3, GrantRefines, Zenon
    <2>4. CASE SetState(Head(queue), "canceled") \/ UNCHANGED state
      BY <2>1, <2>2, <2>4, OtherRefines DEF SetState
    <2> QED
      BY <1>8, <2>3, <2>4, Zenon DEF GrantFirst, GrantShared, SwitchFails
  <1> QED
    BY <1>1, <1>2, <1>3, <1>4, <1>5, <1>6, <1>7, <1>8, Zenon DEF Next, Grant, vars

(* Every resource implements SharedExclusive, whatever the factory does. *)
THEOREM Refinement == Spec => ImplementsSharedExclusive
  <1>1. Init => Abstract!Init
    BY InitRefines
  <1>2. IInv /\ IInv' /\ [Next]_vars =>
            [Abstract!Next]_([r \in Request |->
                                IF state[r] = "granted" THEN lockType[r] ELSE "none"])
    BY StepRefines
  <1> QED
    BY <1>1, <1>2, Invariance, PTL DEF Spec, ImplementsSharedExclusive, Abstract!Spec

=============================================================================
