----------------------------- MODULE TaskProofs -----------------------------
(***************************************************************************)
(* Proofs about Task for every set of stopping threads, every set of kinds *)
(* of task and all faults and restarts.                                    *)
(***************************************************************************)
EXTENDS Task, FiniteSetTheorems, TLAPS

(* The states a task does not leave for one in which its function or job   *)
(* may run.                                                                *)
Late == State \ {"init", "preparing", "acquiring", "queued", "running"}

(* Where a call of _updateState() still has the state it was called for. *)
Updating == {"choose", "reset", "move", "persist", "entered"}

Early == \/ pc["client"] \in {"idle", "func", "funcfails", "prepared"}
         \/ pc["client"] \in ChainPC /\ frame["client"].cont = "func"

(* The worker is about to run the job, or runs it. *)
JobZone == \/ pc["worker"] \in {"persist", "entered"} /\ frame["worker"].req = "running"
           \/ pc["worker"] \in {"runjobs", "job", "jobfails"}

RecoveryMode(t) ==
    \/ pc[t] \in Updating /\ frame[t].req \in {"racquiring", "recovering"}
    \/ pc[t] \in {"recovering", "undo"}

(* Until the client has queued the task nobody else knows it. *)
EarlyInv ==
    /\ Early => /\ pool = "none" /\ ~managed
                /\ \A t \in Thread \ {"client"} : pc[t] = "idle"
    /\ state = "init" => \/ pc["client"] = "idle"
                         \/ /\ pc["client"] \in {"choose", "reset", "move"}
                            /\ frame["client"].cont = "func"
    /\ disk.state # "init"

ThreadInv(t) ==
    /\ t # "client" => frame[t].cont # "func" /\ pc[t] \notin {"func", "funcfails", "prepared"}
    /\ pc[t] \in ChainPC /\ frame[t].cont = "func" =>
           /\ pc[t] \in Updating /\ frame[t].req = "preparing" /\ frame[t].inner = "none"
           /\ pc[t] \in {"choose", "reset", "move"} => state = "init"
    /\ pc[t] \in ChainPC /\ frame[t].req = "running" => t = "worker" /\ frame[t].cont = "decref"
    /\ pc[t] \in {"runjobs", "job", "jobfails"} => frame[t].req = "running"
    /\ pc[t] \in {"choose", "reset", "move"} /\ frame[t].force =>
           frame[t].req \in {"racquiring", "aborting", "raborting"}
    /\ pc[t] \in {"choose", "reset", "move"} /\ frame[t].cont = "abortend" =>
           frame[t].req = "aborting" \/ state \in Late
    /\ pc[t] \in ChainPC \ {"choose", "reset", "move"} /\ frame[t].cont = "abortend" =>
           state \in Late
    /\ pc[t] \in {"abortend", "abortlast"} => state \in Late
    /\ pc[t] \in ChainPC /\ frame[t].cont = "end" => state \in Late
    /\ pc[t] \in Updating /\ frame[t].req = "aborting" => frame[t].cont # "end"
    /\ pc[t] \in {"persist", "entered"} /\ frame[t].req = "aborting" => state \in Late
    /\ RecoveryMode(t) => state \in Late /\ ~JobZone

IInv == RefsCounted /\ EarlyInv /\ \A t \in Thread : ThreadInv(t)

-----------------------------------------------------------------------------
(* A step of thread t leaves the other threads where they are. *)
Local(t) == \A u \in Thread \ {t} : pc'[u] = pc[u] /\ frame'[u] = frame[u]

(* The effect of the steps from which the actions are built. *)

LEMMA GotoEffect ==
    ASSUME TypeOK, NEW t \in Thread, NEW p \in PC, Goto(t, p)
    PROVE  /\ pc' \in [Thread -> PC]
           /\ pc'[t] = p
           /\ \A u \in Thread \ {t} : pc'[u] = pc[u]
BY DEF TypeOK, Goto

LEMMA BeginEffect ==
    ASSUME TypeOK, NEW t \in Thread,
           NEW op \in {"none", "prepare", "commit", "recover", "stop", "revert"},
           NEW s \in State, NEW cont \in {"func", "decref", "abortend", "unref", "end"},
           NEW force \in BOOLEAN,
           Begin(t, op, s, cont, force)
    PROVE  /\ pc' \in [Thread -> PC] /\ frame' \in [Thread -> Frame]
           /\ Local(t)
           /\ pc'[t] = "choose" /\ frame'[t].req = s /\ frame'[t].cont = cont
           /\ frame'[t].inner = "none" /\ (frame'[t].force <=> force)
<1> DEFINE f == [op |-> op, req |-> s, cont |-> cont, inner |-> "none", force |-> force]
<1>1. f \in Frame
  BY DEF Frame
<1>2. /\ f.req = s /\ f.cont = cont /\ f.inner = "none" /\ f.force = force
  OBVIOUS
<1>3. frame' = [frame EXCEPT ![t] = f] /\ Goto(t, "choose")
  BY DEF Begin
<1> HIDE DEF f
<1>4. "choose" \in PC
  BY DEF PC, ChainPC
<1> QED BY <1>1, <1>2, <1>3, <1>4, GotoEffect DEF TypeOK, Local

(* What the caller's caller sees, whatever the operation. *)
Begun(t, s, cont) ==
    /\ Local(t)
    /\ pc'[t] = "choose" /\ frame'[t].req = s /\ frame'[t].cont = cont
    /\ frame'[t].inner = "none"

LEMMA BeginStarts ==
    ASSUME TypeOK, NEW t \in Thread, NEW op, NEW s, NEW cont, NEW force,
           Begin(t, op, s, cont, force)
    PROVE  Begun(t, s, cont)
<1> DEFINE f == [op |-> op, req |-> s, cont |-> cont, inner |-> "none", force |-> force]
<1>1. f.req = s /\ f.cont = cont /\ f.inner = "none"
  OBVIOUS
<1>2. frame' = [frame EXCEPT ![t] = f] /\ Goto(t, "choose")
  BY DEF Begin
<1> HIDE DEF f
<1>3. "choose" \in PC
  BY DEF PC, ChainPC
<1> QED BY <1>1, <1>2, <1>3, GotoEffect DEF TypeOK, Local, Begun

LEMMA BeginUnforced ==
    ASSUME TypeOK, NEW t \in Thread, NEW op, NEW s, NEW cont, Begin(t, op, s, cont, FALSE)
    PROVE  ~frame'[t].force
BY DEF Begin, TypeOK

LEMMA CallEffect ==
    ASSUME TypeOK, NEW t \in Thread, NEW s \in State,
           NEW inner \in {"none", "failing", "ending"},
           Call(t, s, inner)
    PROVE  /\ pc' \in [Thread -> PC] /\ frame' \in [Thread -> Frame]
           /\ Local(t)
           /\ pc'[t] = "choose" /\ frame'[t].req = s /\ frame'[t].cont = frame[t].cont
           /\ frame'[t].inner = inner /\ ~frame'[t].force
<1> DEFINE f == [frame[t] EXCEPT !.req = s, !.inner = inner, !.force = FALSE]
<1>1. f \in Frame
  BY Zenon DEF Frame, TypeOK
<1>2. frame[t] \in Frame
  BY DEF TypeOK
<1>3. f.req = s /\ f.cont = frame[t].cont /\ f.inner = inner /\ f.force = FALSE
  BY <1>2 DEF Frame
<1>4. frame' = [frame EXCEPT ![t] = f] /\ Goto(t, "choose")
  BY Zenon DEF Call
<1> HIDE DEF f
<1>5. "choose" \in PC
  BY DEF PC, ChainPC
<1> QED BY <1>1, <1>3, <1>4, <1>5, GotoEffect DEF TypeOK, Local

LEMMA RestIn == ASSUME NEW t PROVE Rest(t) \in {"idle", "gone"}
BY DEF Rest

LEMMA LeaveFrame ==
    ASSUME TypeOK, NEW t \in Thread, NEW p \in PC, Goto(t, p),
           frame' = [frame EXCEPT ![t].inner = "none"]
    PROVE  /\ pc' \in [Thread -> PC] /\ frame' \in [Thread -> Frame]
           /\ Local(t)
           /\ pc'[t] = p /\ frame'[t].req = frame[t].req /\ frame'[t].cont = frame[t].cont
           /\ frame'[t].inner = "none" /\ frame'[t].force = frame[t].force
<1> DEFINE f == [frame[t] EXCEPT !.inner = "none"]
<1>1. f \in Frame
  BY DEF Frame, TypeOK
<1>2. frame[t] \in Frame
  BY DEF TypeOK
<1>3. /\ f.req = frame[t].req /\ f.cont = frame[t].cont
      /\ f.inner = "none" /\ f.force = frame[t].force
  BY <1>2 DEF Frame
<1>4. frame' = [frame EXCEPT ![t] = f]
  OBVIOUS
<1> HIDE DEF f
<1> QED BY <1>1, <1>3, <1>4, GotoEffect DEF TypeOK, Local

LEMMA ReturnEffect ==
    ASSUME TypeOK, NEW t \in Thread, Return(t)
    PROVE  /\ pc' \in [Thread -> PC] /\ frame' \in [Thread -> Frame]
           /\ Local(t)
           /\ pc'[t] = IF frame[t].inner = "failing" THEN "recoverdone"
                       ELSE IF frame[t].cont = "end" THEN Rest(t) ELSE frame[t].cont
           /\ frame'[t].req = frame[t].req /\ frame'[t].cont = frame[t].cont
           /\ frame'[t].inner = "none" /\ frame'[t].force = frame[t].force
<1> DEFINE p == IF frame[t].inner = "failing" THEN "recoverdone"
                ELSE IF frame[t].cont = "end" THEN Rest(t) ELSE frame[t].cont
<1>1. frame[t].cont \in {"func", "decref", "abortend", "unref", "end"}
  BY DEF TypeOK, Frame
<1>2. p \in PC
  BY <1>1, RestIn DEF PC, ChainPC
<1>3. Goto(t, p) /\ frame' = [frame EXCEPT ![t].inner = "none"]
  BY DEF Return
<1> HIDE DEF p
<1>4. /\ pc' \in [Thread -> PC] /\ frame' \in [Thread -> Frame]
      /\ Local(t)
      /\ pc'[t] = p /\ frame'[t].req = frame[t].req /\ frame'[t].cont = frame[t].cont
      /\ frame'[t].inner = "none" /\ frame'[t].force = frame[t].force
  BY <1>2, <1>3, LeaveFrame, Zenon
<1> QED BY <1>4 DEF p

LEMMA RaiseEffect ==
    ASSUME TypeOK, NEW t \in Thread, Raise(t)
    PROVE  /\ pc' \in [Thread -> PC] /\ frame' \in [Thread -> Frame]
           /\ Local(t)
           /\ pc'[t] = IF frame[t].inner # "none" THEN "recoverdone"
                       ELSE IF frame[t].cont = "end" THEN Rest(t)
                       ELSE IF frame[t].cont = "func" THEN "decref" ELSE frame[t].cont
           /\ frame'[t].req = frame[t].req /\ frame'[t].cont = frame[t].cont
           /\ frame'[t].inner = "none" /\ frame'[t].force = frame[t].force
<1> DEFINE p == IF frame[t].inner # "none" THEN "recoverdone"
                ELSE IF frame[t].cont = "end" THEN Rest(t)
                ELSE IF frame[t].cont = "func" THEN "decref" ELSE frame[t].cont
<1>1. frame[t].cont \in {"func", "decref", "abortend", "unref", "end"}
  BY DEF TypeOK, Frame
<1>2. p \in PC
  BY <1>1, RestIn DEF PC, ChainPC
<1>3. Goto(t, p) /\ frame' = [frame EXCEPT ![t].inner = "none"]
  BY DEF Raise
<1> HIDE DEF p
<1>4. /\ pc' \in [Thread -> PC] /\ frame' \in [Thread -> Frame]
      /\ Local(t)
      /\ pc'[t] = p /\ frame'[t].req = frame[t].req /\ frame'[t].cont = frame[t].cont
      /\ frame'[t].inner = "none" /\ frame'[t].force = frame[t].force
  BY <1>2, <1>3, LeaveFrame, Zenon
<1> QED BY <1>4 DEF p

LEMMA SavedType ==
    ASSUME TypeOK, NEW s \in State, NEW r \in 0..kind.MaxRecoveries,
           NEW p \in {"none", "auto"}, NEW d \in Saved(s, r, p)
    PROVE  d \in Disk /\ (d.state = s \/ d = disk)
BY DEF TypeOK, Disk, Saved

LEMMA StopSelfType ==
    ASSUME TypeOK, NEW force \in BOOLEAN, StopSelf(force)
    PROVE  aborting' \in BOOLEAN /\ forceAbort' \in BOOLEAN
BY Zenon DEF TypeOK, StopSelf, abort

-----------------------------------------------------------------------------
(* Types, and the number of references. *)

LEMMA ThreadFinite == IsFiniteSet(Thread)
<1>1. IsFiniteSet({"client", "worker", "reverter"})
  <2>1. IsFiniteSet({}) /\ IsFiniteSet({"client"})
    BY FS_EmptySet, FS_Singleton, Zenon
  <2>2. IsFiniteSet({"client"} \cup {"worker"})
    BY <2>1, FS_AddElement
  <2>3. IsFiniteSet(({"client"} \cup {"worker"}) \cup {"reverter"})
    BY <2>2, FS_AddElement
  <2>4. {"client", "worker", "reverter"} = ({"client"} \cup {"worker"}) \cup {"reverter"}
    OBVIOUS
  <2> QED BY <2>3, <2>4
<1> QED BY <1>1, StopperAssumption, FS_Union, Zenon DEF Thread

LEMMA InsideHasRef ==
    ASSUME RefsCounted, NEW t \in Thread, Inside(t)
    PROVE  ref \in Nat /\ ref >= 1
<1> DEFINE S == {u \in Thread : Inside(u)}
<1>1. IsFiniteSet(S) /\ IsFiniteSet({t})
  BY ThreadFinite, FS_Subset, FS_Singleton
<1>2. {t} \subseteq S
  OBVIOUS
<1>3. Cardinality({t}) <= Cardinality(S) /\ Cardinality({t}) = 1
  BY <1>1, <1>2, FS_Subset, FS_Singleton
<1>4. ref = Cardinality(S) /\ ref \in Nat
  BY DEF RefsCounted, TypeOK
<1> HIDE DEF S
<1> QED BY <1>3, <1>4

(* Two threads in the task are two references: __state_aborting() and      *)
(* rollback() see every other thread that runs the task.                   *)
LEMMA TwoInside ==
    ASSUME RefsCounted, NEW t \in Thread, NEW u \in Thread, t # u, Inside(t), Inside(u)
    PROVE  ref > 1
<1> DEFINE S == {v \in Thread : Inside(v)}
<1>1. IsFiniteSet(S) /\ IsFiniteSet({t}) /\ Cardinality({t}) = 1
  BY ThreadFinite, FS_Subset, FS_Singleton, Zenon
<1>2. {t} \cup {u} \subseteq S
  OBVIOUS
<1>3. IsFiniteSet({t} \cup {u}) /\ Cardinality({t} \cup {u}) = 2
  <2>1. u \notin {t}
    OBVIOUS
  <2>2. /\ IsFiniteSet({t} \cup {u})
        /\ Cardinality({t} \cup {u}) = Cardinality({t}) + 1
    BY <1>1, <2>1, FS_AddElement, Zenon
  <2> QED BY <1>1, <2>2
<1>4. Cardinality({t} \cup {u}) <= Cardinality(S)
  BY <1>1, <1>2, FS_Subset
<1>5. ref = Cardinality(S) /\ ref \in Nat
  BY DEF RefsCounted, TypeOK
<1> HIDE DEF S
<1> QED BY <1>3, <1>4, <1>5

LEMMA KindNat == ASSUME TypeOK PROVE kind.MaxRecoveries \in Nat /\ kind.MaxCrashes \in Nat
BY KindAssumption DEF TypeOK, Kind

LEMMA Constants == /\ "client" \in Thread /\ "worker" \in Thread /\ "reverter" \in Thread
                   /\ NoFrame \in Frame /\ NoFrame.cont = "end"
                   /\ Stopper \subseteq Thread
BY DEF Thread, NoFrame, Frame, State

LEMMA AbsentDisk == ASSUME TypeOK PROVE Absent \in Disk /\ Empty \in Disk
BY KindNat DEF Absent, Empty, Disk

LEMMA SmallStep ==
    ASSUME TypeOK, pc' \in [Thread -> PC], frame' \in [Thread -> Frame], state' \in State,
           raborted' \in BOOLEAN, aborting' \in BOOLEAN, forceAbort' \in BOOLEAN,
           owned' \in BOOLEAN, ref' \in Nat, UNCHANGED <<policy, stored, stack, outside>>
    PROVE  TypeOK'
BY Zenon DEF TypeOK, Disk, stack, outside

LEMMA UpdateTypes ==
    ASSUME RefsCounted, NEW t \in Thread, UpdateState(t)
    PROVE  TypeOK'
<1> USE DEF status, abort, setup, stack, outside
<1>0. TypeOK
  BY DEF RefsCounted
<1>1. CASE Choose(t)
  <2> DEFINE s == IF aborting /\ canAbort THEN "aborting"
                  ELSE IF aborting /\ canAbortRecovery /\ frame[t].req # "recovered"
                       THEN "raborting"
                  ELSE frame[t].req
  <2>1. frame[t] \in Frame
    BY <1>0 DEF TypeOK
  <2>2. s \in State
    BY <2>1 DEF Frame, State
  <2>3. frame' = [frame EXCEPT ![t].req = s] /\ Goto(t, "reset")
    BY <1>1 DEF Choose
  <2> HIDE DEF s
  <2>4. [frame[t] EXCEPT !.req = s] \in Frame
    BY <2>1, <2>2 DEF Frame
  <2>5. frame' \in [Thread -> Frame]
    BY <1>0, <2>3, <2>4 DEF TypeOK
  <2>6. pc' \in [Thread -> PC]
    BY <1>0, <2>3, GotoEffect DEF PC, ChainPC
  <2> QED BY <1>0, <1>1, <2>5, <2>6 DEF Choose, TypeOK, Disk
<1>2. CASE Reset(t)
  <2>1. pc' \in [Thread -> PC]
    BY <1>0, <1>2, GotoEffect DEF Reset, PC, ChainPC
  <2>2. /\ aborting' = FALSE
        /\ UNCHANGED <<state, raborted, forceAbort, owned, ref, policy, stored, stack, outside, frame>>
    BY <1>2, Zenon DEF Reset
  <2> QED BY <1>0, <2>1, <2>2, SmallStep, Zenon DEF TypeOK
<1>3. CASE Move(t)
  <2>1. frame[t].req \in State
    BY <1>0 DEF TypeOK, Frame
  <2>2. CASE frame[t].force \/ state \in MoveTo[frame[t].req]
    <3>1. pc' \in [Thread -> PC]
      BY <1>0, <1>3, <2>2, GotoEffect DEF Move, PC, ChainPC
    <3>2. /\ state' = frame[t].req /\ raborted' = (raborted \/ state' = "raborting")
          /\ UNCHANGED <<aborting, forceAbort, owned, ref, policy, stored, stack, outside, frame>>
      BY <1>3, <2>2, Zenon DEF Move
    <3>3. raborted' \in BOOLEAN
      BY <3>2, Zenon
    <3> QED BY <1>0, <2>1, <3>1, <3>2, <3>3, SmallStep, Zenon DEF TypeOK
  <2>3. CASE ~(frame[t].force \/ state \in MoveTo[frame[t].req])
    BY <1>0, <1>3, <2>3, RaiseEffect DEF Move, TypeOK, Disk
  <2> QED BY <2>2, <2>3
<1>4. CASE Persist(t)
  <2>1. disk' \in Disk
    BY <1>0, <1>4, SavedType DEF Persist, TypeOK
  <2> QED BY <1>0, <1>4, <2>1, GotoEffect DEF Persist, TypeOK, Disk, PC, ChainPC
<1>5. CASE EnterNext(t)
  <2>1. pc' \in [Thread -> PC] /\ frame' \in [Thread -> Frame]
    <3>1. "queued" \in State /\ "recovering" \in State /\ "register" \in PC /\ "runjobs" \in PC
          /\ "recovering" \in PC
      BY DEF State, PC, ChainPC
    <3>2. frame' = frame => frame' \in [Thread -> Frame]
      BY <1>0 DEF TypeOK
    <3> QED BY <1>0, <1>5, <3>1, <3>2, ReturnEffect, RaiseEffect, CallEffect, GotoEffect
            DEF EnterNext
  <2> QED BY <1>0, <1>5, <2>1 DEF EnterNext, TypeOK, Disk
<1>6. CASE EnterAbort(t)
  <2>1. pc' \in [Thread -> PC] /\ frame' \in [Thread -> Frame]
    <3>1. "racquiring" \in State /\ "failed" \in State
      BY DEF State
    <3>2. frame[t].inner \in {"none", "failing", "ending"}
      BY <1>0 DEF TypeOK, Frame
    <3> QED BY <1>0, <1>6, <3>1, <3>2, ReturnEffect, CallEffect DEF EnterAbort
  <2> QED BY <1>0, <1>6, <2>1 DEF EnterAbort, TypeOK, Disk
<1>7. CASE EnterDone(t)
  <2>1. pc' \in [Thread -> PC] /\ frame' \in [Thread -> Frame]
    BY <1>0, <1>7, ReturnEffect, Zenon DEF EnterDone
  <2>2. /\ owned' = FALSE
        /\ UNCHANGED <<state, raborted, aborting, forceAbort, ref, policy, stored, stack, outside>>
    BY <1>7, Zenon DEF EnterDone
  <2> QED BY <1>0, <2>1, <2>2, SmallStep, Zenon DEF TypeOK
<1> QED BY <1>1, <1>2, <1>3, <1>4, <1>5, <1>6, <1>7 DEF UpdateState

LEMMA JobTypes ==
    ASSUME RefsCounted, NEW t \in Thread, Job(t)
    PROVE  TypeOK'
<1> USE DEF status, abort, setup, stack, outside
<1>0. TypeOK /\ kind.MaxRecoveries \in Nat
  BY KindNat DEF RefsCounted
<1>1. CASE RunJobs(t)
  <2>1. pc' \in [Thread -> PC] /\ frame' \in [Thread -> Frame]
    <3>1. "job" \in PC
      BY DEF PC, ChainPC
    <3>2. frame' = frame => frame' \in [Thread -> Frame]
      BY <1>0 DEF TypeOK
    <3> QED BY <1>0, <1>1, <3>1, <3>2, ReturnEffect, RaiseEffect, GotoEffect DEF RunJobs
  <2> QED BY <1>0, <1>1, <2>1 DEF RunJobs, TypeOK, Disk
<1>2. ASSUME recoveries' \in 0..kind.MaxRecoveries,
             \/ /\ disk' \in Saved(state, recoveries', policy)
                /\ \E p \in {"job", "jobfails"} : Goto(t, p)
             \/ UNCHANGED <<disk, pc>>
      PROVE  disk' \in Disk /\ pc' \in [Thread -> PC]
  <2>1. disk' \in Disk
    BY <1>0, <1>2, SavedType DEF TypeOK
  <2>2. pc' \in [Thread -> PC]
    BY <1>0, <1>2, GotoEffect DEF TypeOK, PC, ChainPC
  <2> QED BY <2>1, <2>2
<1>3. CASE PushRecovery(t)
  <2>1. recoveries' \in 0..kind.MaxRecoveries
    BY <1>0, <1>3 DEF PushRecovery, TypeOK
  <2>2. disk' \in Disk /\ pc' \in [Thread -> PC]
    BY <1>2, <1>3, <2>1 DEF PushRecovery
  <2> QED BY <1>0, <1>3, <2>1, <2>2 DEF PushRecovery, TypeOK, Disk
<1>4. CASE ReplaceRecoveries(t)
  <2>1. PICK kept \in 0..(recoveries - 2) :
          /\ recoveries' = kept + 1
          /\ changes' = IF changes > kept THEN kept + 1 ELSE changes
    BY <1>4 DEF ReplaceRecoveries
  <2>2. recoveries' \in 0..kind.MaxRecoveries /\ changes' \in 0..kind.MaxRecoveries
    BY <1>0, <2>1 DEF TypeOK
  <2>3. disk' \in Disk /\ pc' \in [Thread -> PC]
    BY <1>2, <1>4, <2>2 DEF ReplaceRecoveries
  <2> QED BY <1>0, <1>4, <2>2, <2>3 DEF ReplaceRecoveries, TypeOK, Disk
<1>5. CASE ClearRecoveries(t)
  <2>1. recoveries' \in 0..kind.MaxRecoveries /\ changes' \in 0..kind.MaxRecoveries
    BY <1>0, <1>5 DEF ClearRecoveries, TypeOK
  <2>2. disk' \in Disk /\ pc' \in [Thread -> PC]
    BY <1>2, <1>5, <2>1 DEF ClearRecoveries
  <2> QED BY <1>0, <1>5, <2>1, <2>2 DEF ClearRecoveries, TypeOK, Disk
<1>6. CASE Change(t)
  BY <1>0, <1>6 DEF Change, TypeOK, Disk
<1>7. CASE JobReturns(t)
  <2>1. pc' \in [Thread -> PC] /\ frame' \in [Thread -> Frame]
    BY <1>0, <1>7, ReturnEffect, CallEffect DEF JobReturns, State
  <2>2. UNCHANGED <<state, raborted, aborting, forceAbort, owned, ref, policy, stored, stack, outside>>
    BY <1>7, Zenon DEF JobReturns
  <2> QED BY <1>0, <2>1, <2>2, SmallStep, Zenon DEF TypeOK
<1>8. CASE JobRaises(t)
  <2>1. pc' \in [Thread -> PC] /\ frame' \in [Thread -> Frame]
    BY <1>0, <1>8, ReturnEffect, RaiseEffect DEF JobRaises
  <2>2. aborting' \in BOOLEAN /\ forceAbort' \in BOOLEAN
    BY <1>0, <1>8, StopSelfType, Zenon DEF JobRaises
  <2> QED BY <1>0, <1>8, <2>1, <2>2, Zenon DEF JobRaises, TypeOK, Disk
<1> QED BY <1>1, <1>3, <1>4, <1>5, <1>6, <1>7, <1>8 DEF Job

LEMMA RecoveryTypes ==
    ASSUME RefsCounted, NEW t \in Thread, Recovery(t)
    PROVE  TypeOK'
<1> USE DEF status, abort, setup, stack, outside
<1>0. TypeOK /\ kind.MaxRecoveries \in Nat
  BY KindNat DEF RefsCounted
<1>1. CASE PopRecovery(t)
  <2>1. pc' \in [Thread -> PC]
    BY <1>0, <1>1, GotoEffect DEF PopRecovery, PC, ChainPC
  <2>2. recoveries' \in 0..kind.MaxRecoveries
    BY <1>0, <1>1 DEF PopRecovery, TypeOK
  <2> QED BY <1>0, <1>1, <2>1, <2>2 DEF PopRecovery, TypeOK, Disk
<1>2. CASE Undo(t)
  <2>1. pc' \in [Thread -> PC]
    BY <1>0, <1>2, GotoEffect DEF Undo, PC, ChainPC
  <2>2. changes' \in 0..kind.MaxRecoveries
    BY <1>0, <1>2 DEF Undo, TypeOK
  <2> QED BY <1>0, <1>2, <2>1, <2>2 DEF Undo, TypeOK, Disk
<1>3. CASE UndoRaises(t)
  <2>1. pc' \in [Thread -> PC] /\ frame' \in [Thread -> Frame]
    <3>1. CASE state = "recovering"
      BY <1>0, <1>3, <3>1, CallEffect DEF UndoRaises, State
    <3>2. CASE state # "recovering"
      <4>1. pc' \in [Thread -> PC]
        BY <1>0, <1>3, <3>2, GotoEffect DEF UndoRaises, PC, ChainPC
      <4> QED BY <1>0, <1>3, <3>2, <4>1, Zenon DEF UndoRaises, TypeOK
    <3> QED BY <3>1, <3>2, Zenon
  <2>2. aborting' \in BOOLEAN /\ forceAbort' \in BOOLEAN
    BY <1>0, <1>3, StopSelfType, Zenon DEF UndoRaises
  <2> QED BY <1>0, <1>3, <2>1, <2>2 DEF UndoRaises, TypeOK, Disk
<1>4. CASE RecoverDone(t)
  <2>1. pc' \in [Thread -> PC] /\ frame' \in [Thread -> Frame]
    BY <1>0, <1>4, ReturnEffect, CallEffect DEF RecoverDone, State
  <2> QED BY <1>0, <1>4, <2>1 DEF RecoverDone, TypeOK, Disk
<1> QED BY <1>1, <1>2, <1>3, <1>4 DEF Recovery

LEMMA LeaveTypes ==
    ASSUME RefsCounted, NEW t \in Thread, Leave(t)
    PROVE  TypeOK'
<1> USE DEF status, abort, setup, stack, outside
<1>0. TypeOK /\ Rest(t) \in PC
  BY RestIn DEF RefsCounted, PC
<1>1. CASE Decref(t)
  <2>1. pc' \in [Thread -> PC]
    BY <1>0, <1>1, GotoEffect DEF Decref, PC
  <2>2. ref' \in Nat
    BY <1>1, InsideHasRef DEF Decref, Inside
  <2> QED BY <1>0, <1>1, <2>1, <2>2 DEF Decref, TypeOK, Disk
<1>2. CASE Zero(t)
  <2>1. pc' \in [Thread -> PC]
    BY <1>0, <1>2, GotoEffect DEF Zero, PC
  <2> QED BY <1>0, <1>2, <2>1 DEF Zero, TypeOK, Disk
<1>3. CASE DoAbort(t)
  <2>1. pc' \in [Thread -> PC]
    BY <1>0, <1>3, GotoEffect DEF DoAbort, PC
  <2> QED BY <1>0, <1>3, <2>1 DEF DoAbort, TypeOK, Disk
<1>4. CASE AbortCheck(t)
  <2>1. pc' \in [Thread -> PC] /\ frame' \in [Thread -> Frame]
    <3>1. frame[t].op \in {"none", "prepare", "commit", "recover", "stop", "revert"}
      BY <1>0 DEF TypeOK, Frame
    <3>2. "aborting" \in State /\ "raborting" \in State /\ "abortend" \in PC
      BY DEF State, PC
    <3>3. frame' = frame => frame' \in [Thread -> Frame]
      BY <1>0 DEF TypeOK
    <3> QED BY <1>0, <1>4, <3>1, <3>2, <3>3, GotoEffect, BeginEffect, Zenon DEF AbortCheck
  <2>2. UNCHANGED <<state, raborted, aborting, forceAbort, owned, ref, policy, stored, stack, outside>>
    BY <1>4, Zenon DEF AbortCheck
  <2> QED BY <1>0, <2>1, <2>2, SmallStep, Zenon DEF TypeOK
<1>5. CASE AbortEnd(t)
  <2>1. pc' \in [Thread -> PC]
    BY <1>0, <1>5, GotoEffect DEF AbortEnd, PC
  <2>2. ref' \in Nat
    BY <1>5, InsideHasRef DEF AbortEnd, Inside
  <2> QED BY <1>0, <1>5, <2>1, <2>2 DEF AbortEnd, TypeOK, Disk
<1>6. CASE AbortLast(t)
  <2>1. pc' \in [Thread -> PC] /\ frame' \in [Thread -> Frame]
    <3>1. frame[t].op \in {"none", "prepare", "commit", "recover", "stop", "revert"}
      BY <1>0 DEF TypeOK, Frame
    <3>2. "failed" \in State
      BY DEF State
    <3>3. frame' = frame => frame' \in [Thread -> Frame]
      BY <1>0 DEF TypeOK
    <3> QED BY <1>0, <1>6, <3>1, <3>2, <3>3, GotoEffect, BeginEffect, Zenon DEF AbortLast
  <2> QED BY <1>0, <1>6, <2>1 DEF AbortLast, TypeOK, Disk
<1>7. CASE Unref(t)
  <2>1. pc' \in [Thread -> PC]
    BY <1>0, <1>7, GotoEffect DEF Unref
  <2>2. ref' \in Nat
    BY <1>7, InsideHasRef DEF Unref, Inside
  <2> QED BY <1>0, <1>7, <2>1, <2>2 DEF Unref, TypeOK, Disk
<1> QED BY <1>1, <1>2, <1>3, <1>4, <1>5, <1>6, <1>7 DEF Leave

LEMMA StepTypes ==
    ASSUME RefsCounted, NEW t \in Thread, Step(t) \/ Stop(t)
    PROVE  TypeOK'
<1> USE DEF status, abort, setup, stack, outside
<1>0. TypeOK
  BY DEF RefsCounted
<1>1. CASE Register(t)
  <2>1. pc' \in [Thread -> PC]
    BY <1>0, <1>1, GotoEffect DEF Register, PC, ChainPC
  <2> QED BY <1>0, <1>1, <2>1 DEF Register, TypeOK, Disk
<1>2. CASE Enqueue(t)
  <2>1. pc' \in [Thread -> PC] /\ frame' \in [Thread -> Frame]
    BY <1>0, <1>2, ReturnEffect DEF Enqueue
  <2>2. aborting' \in BOOLEAN /\ forceAbort' \in BOOLEAN
    <3>1. UNCHANGED abort => aborting' \in BOOLEAN /\ forceAbort' \in BOOLEAN
      BY <1>0 DEF TypeOK
    <3> QED BY <1>0, <1>2, <3>1, StopSelfType, Zenon DEF Enqueue
  <2>3. managed' \in BOOLEAN /\ pool' \in {"none", "commit", "unqueued", "recover"}
    BY <1>0, <1>2, Zenon DEF Enqueue, TypeOK
  <2> QED BY <1>0, <1>2, <2>1, <2>2, <2>3, Zenon DEF Enqueue, TypeOK, Disk
<1>3. CASE StopCheck(t)
  <2>1. pc' \in [Thread -> PC]
    BY <1>0, <1>3, GotoEffect DEF StopCheck, PC
  <2> QED BY <1>0, <1>3, <2>1 DEF StopCheck, TypeOK, Disk
<1>4. CASE StopSet(t)
  <2>1. pc' \in [Thread -> PC]
    BY <1>0, <1>4, GotoEffect DEF StopSet, PC
  <2>2. /\ aborting' = TRUE /\ forceAbort' = FALSE
        /\ UNCHANGED <<state, raborted, owned, ref, policy, stored, stack, outside, frame>>
    BY <1>4, Zenon DEF StopSet
  <2> QED BY <1>0, <2>1, <2>2, SmallStep, Zenon DEF TypeOK
<1>5. CASE Stop(t)
  <2>1. pc' \in [Thread -> PC]
    BY <1>0, <1>5, GotoEffect DEF Stop, PC
  <2>2. [NoFrame EXCEPT !.op = "stop"] \in Frame
    BY Constants DEF Frame
  <2>3. frame' \in [Thread -> Frame]
    BY <1>0, <1>5, <2>2 DEF Stop, TypeOK
  <2> QED BY <1>0, <1>5, <2>1, <2>3 DEF Stop, TypeOK, Disk
<1> QED BY <1>1, <1>2, <1>3, <1>4, <1>5, UpdateTypes, JobTypes, RecoveryTypes, LeaveTypes DEF Step

LEMMA FunctionTypes ==
    ASSUME RefsCounted, Prepare \/ Function
    PROVE  TypeOK'
<1> USE DEF status, abort, setup, stack, outside
<1>0. TypeOK /\ "client" \in Thread
  BY Constants, Zenon DEF RefsCounted
<1>1. CASE Prepare
  <2>1. pc' \in [Thread -> PC] /\ frame' \in [Thread -> Frame]
    BY <1>0, <1>1, BeginEffect, Zenon DEF Prepare, State
  <2> QED BY <1>0, <1>1, <2>1 DEF Prepare, TypeOK, Disk
<1>2. CASE AcquireResources
  BY <1>0, <1>2 DEF AcquireResources, TypeOK, Disk
<1>3. CASE ScheduleJob
  <2>1. disk' \in Disk
    <3>1. [state |-> state, recoveries |-> recoveries, policy |-> policy] \in Disk
      BY <1>0 DEF TypeOK, Disk
    <3>2. disk \in Disk
      BY <1>0 DEF TypeOK
    <3> QED BY <1>0, <1>3, <3>1, <3>2, AbsentDisk DEF ScheduleJob
  <2>2. stored' \in BOOLEAN /\ policy' \in {"none", "auto"}
    BY <1>0, <1>3, Zenon DEF ScheduleJob, TypeOK
  <2>3. pc' \in [Thread -> PC]
    <3>1. UNCHANGED pc => pc' \in [Thread -> PC]
      BY <1>0 DEF TypeOK
    <3>2. "funcfails" \in PC
      BY DEF PC
    <3> QED BY <1>0, <1>3, <3>1, <3>2, GotoEffect DEF ScheduleJob
  <2> QED BY <1>0, <1>3, <2>1, <2>2, <2>3, Zenon DEF ScheduleJob, TypeOK, Disk
<1>4. CASE FuncReturns
  <2>1. pc' \in [Thread -> PC]
    BY <1>0, <1>4, GotoEffect DEF FuncReturns, PC
  <2> QED BY <1>0, <1>4, <2>1 DEF FuncReturns, TypeOK, Disk
<1>5. CASE FuncRaises
  <2>1. pc' \in [Thread -> PC]
    BY <1>0, <1>5, GotoEffect DEF FuncRaises, PC
  <2>2. aborting' \in BOOLEAN /\ forceAbort' \in BOOLEAN
    BY <1>0, <1>5, StopSelfType, Zenon DEF FuncRaises
  <2> QED BY <1>0, <1>5, <2>1, <2>2 DEF FuncRaises, TypeOK, Disk
<1>6. CASE Prepared
  <2>1. pc' \in [Thread -> PC] /\ frame' \in [Thread -> Frame]
    <3>1. "acquiring" \in State /\ "finished" \in State /\ "decref" \in PC
      BY DEF State, PC
    <3>2. frame' = frame => frame' \in [Thread -> Frame]
      BY <1>0 DEF TypeOK
    <3> QED BY <1>0, <1>6, <3>1, <3>2, GotoEffect, BeginEffect, Zenon DEF Prepared
  <2> QED BY <1>0, <1>6, <2>1 DEF Prepared, TypeOK, Disk
<1> QED BY <1>1, <1>2, <1>3, <1>4, <1>5, <1>6 DEF Function

LEMMA WorkerTypes ==
    ASSUME RefsCounted, Take \/ Commit \/ Recover \/ RecoverState
    PROVE  TypeOK'
<1> USE DEF status, abort, setup, stack, outside
<1>0. TypeOK /\ "worker" \in Thread
  BY Constants DEF RefsCounted
<1>1. CASE Take
  <2>1. pc' \in [Thread -> PC]
    BY <1>0, <1>1, GotoEffect DEF Take, PC
  <2> QED BY <1>0, <1>1, <2>1 DEF Take, TypeOK, Disk
<1>2. CASE Commit
  <2>1. CASE Aborting
    <3>1. pc' \in [Thread -> PC]
      BY <1>0, <1>2, <2>1, GotoEffect DEF Commit, PC
    <3>2. [frame["worker"] EXCEPT !.op = "commit"] \in Frame
      BY <1>0 DEF TypeOK, Frame
    <3>3. frame' \in [Thread -> Frame]
      BY <1>0, <1>2, <2>1, <3>2 DEF Commit, TypeOK
    <3> QED BY <1>0, <1>2, <2>1, <3>1, <3>3 DEF Commit, TypeOK, Disk
  <2>2. CASE ~Aborting
    <3>1. pc' \in [Thread -> PC] /\ frame' \in [Thread -> Frame]
      BY <1>0, <1>2, <2>2, BeginEffect, Zenon DEF Commit, State
    <3>2. /\ ref' = ref + 1
          /\ UNCHANGED <<state, raborted, aborting, forceAbort, owned, policy, stored, stack, outside>>
      BY <1>2, <2>2, Zenon DEF Commit
    <3>3. ref' \in Nat
      BY <1>0, <3>2 DEF TypeOK
    <3> QED BY <1>0, <3>1, <3>2, <3>3, SmallStep, Zenon DEF TypeOK
  <2> QED BY <2>1, <2>2
<1>3. CASE Recover
  <2>1. pc' \in [Thread -> PC]
    BY <1>0, <1>3, GotoEffect DEF Recover, PC
  <2>2. [NoFrame EXCEPT !.op = "recover"] \in Frame
    BY Constants DEF Frame
  <2>3. frame' \in [Thread -> Frame]
    BY <1>0, <1>3, <2>2, Zenon DEF Recover, TypeOK
  <2> QED BY <1>0, <1>3, <2>1, <2>3 DEF Recover, TypeOK, Disk
<1>4. CASE RecoverState
  <2>1. pc' \in [Thread -> PC] /\ frame' \in [Thread -> Frame]
    <3>1. "racquiring" \in State /\ "decref" \in PC
      BY DEF State, PC
    <3>2. frame' = frame => frame' \in [Thread -> Frame]
      BY <1>0 DEF TypeOK
    <3> QED BY <1>0, <1>4, <3>1, <3>2, GotoEffect, BeginEffect, Zenon DEF RecoverState
  <2>2. aborting' \in BOOLEAN /\ forceAbort' \in BOOLEAN
    <3>1. UNCHANGED abort => aborting' \in BOOLEAN /\ forceAbort' \in BOOLEAN
      BY <1>0 DEF TypeOK
    <3> QED BY <1>0, <1>4, <3>1, StopSelfType, Zenon DEF RecoverState
  <2> QED BY <1>0, <1>4, <2>1, <2>2 DEF RecoverState, TypeOK, Disk
<1> QED BY <1>1, <1>2, <1>3, <1>4

LEMMA OtherTypes ==
    ASSUME RefsCounted, QueueRecovery \/ Revert \/ Clear \/ Crash
    PROVE  TypeOK'
<1> USE DEF status, abort, setup, stack, outside
<1>0. TypeOK /\ "reverter" \in Thread /\ kind.MaxRecoveries \in Nat /\ kind.MaxCrashes \in Nat
  BY Constants, KindNat DEF RefsCounted
<1>1. CASE QueueRecovery
  BY <1>0, <1>1 DEF QueueRecovery, TypeOK, Disk
<1>2. CASE Revert
  <2>1. pc' \in [Thread -> PC] /\ frame' \in [Thread -> Frame]
    BY <1>0, <1>2, BeginEffect, Zenon DEF Revert, State
  <2>2. /\ ref' = ref + 1
        /\ UNCHANGED <<state, raborted, aborting, forceAbort, owned, policy, stored, stack, outside>>
    BY <1>2, Zenon DEF Revert
  <2>3. ref' \in Nat
    BY <1>0, <2>2 DEF TypeOK
  <2> QED BY <1>0, <2>1, <2>2, <2>3, SmallStep, Zenon DEF TypeOK
<1>3. CASE Clear
  <2>1. disk' \in Disk
    BY <1>0, <1>3, AbsentDisk DEF Clear
  <2> QED BY <1>0, <1>3, <2>1, Zenon DEF Clear, TypeOK, Disk
<1>4. CASE Crash
  <2>1. pc' \in [Thread -> PC] /\ frame' \in [Thread -> Frame]
    BY <1>4, RestIn, Constants DEF Crash, PC
  <2>2. /\ state' \in State /\ recoveries' \in 0..kind.MaxRecoveries
        /\ policy' \in {"none", "auto"} /\ stored' \in BOOLEAN
        /\ pool' \in {"none", "commit", "unqueued", "recover"}
    <3>1. disk.recoveries \in 0..kind.MaxRecoveries /\ disk.policy \in {"none", "auto"}
      BY <1>0 DEF TypeOK, Disk
    <3>2. 0 \in 0..kind.MaxRecoveries /\ "unknown" \in State
      BY <1>0 DEF State
    <3> QED BY <1>4, <3>1, <3>2, Zenon DEF Crash, OnDisk
  <2>3. crashes' \in 0..kind.MaxCrashes
    BY <1>0, <1>4 DEF Crash, TypeOK
  <2> QED BY <1>0, <1>4, <2>1, <2>2, <2>3, Zenon DEF Crash, TypeOK, Disk
<1> QED BY <1>1, <1>2, <1>3, <1>4

LEMMA TypesKept == ASSUME RefsCounted, [Next]_vars PROVE TypeOK'
<1>1. CASE Next
  BY <1>1, StepTypes, FunctionTypes, WorkerTypes, OtherTypes DEF Next
<1>2. CASE UNCHANGED vars
  BY <1>2 DEF RefsCounted, vars, status, abort, setup, stack, outside, TypeOK, Disk
<1> QED BY <1>1, <1>2

-----------------------------------------------------------------------------
(* One step of one thread. *)

(* The thread t takes part in the task: no thread does before the client   *)
(* has queued it, but the client.                                          *)
LEMMA Known ==
    ASSUME IInv, NEW t \in Thread,
           t = "client" \/ pc[t] # "idle" \/ managed \/ pool # "none"
    PROVE  t = "client" \/ ~Early
BY DEF IInv, EarlyInv

(* A thread comes in, or goes out, or neither. *)
Counting(t) ==
    \/ ref' = ref /\ (Inside(t)' <=> Inside(t))
    \/ ref' = ref + 1 /\ ~Inside(t) /\ Inside(t)'
    \/ ref' = ref - 1 /\ Inside(t) /\ ~Inside(t)'

LEMMA CountKept ==
    ASSUME RefsCounted, NEW t \in Thread, TypeOK', Local(t), Counting(t)
    PROVE  RefsCounted'
<1> DEFINE S == {u \in Thread : Inside(u)}
           T == {u \in Thread : Inside(u)'}
<1>1. \A u \in Thread \ {t} : Inside(u)' <=> Inside(u)
  BY DEF Local, Inside
<1>2. IsFiniteSet(S) /\ IsFiniteSet(T)
  BY ThreadFinite, FS_Subset
<1>3. ref = Cardinality(S)
  BY DEF RefsCounted
<1>4. SUFFICES ref' = Cardinality(T)
  BY DEF RefsCounted
<1>5. Cardinality(S) \in Nat
  BY <1>2, FS_CardinalityType
<1>6. CASE ref' = ref /\ (Inside(t)' <=> Inside(t))
  <2>1. T = S
    BY <1>1, <1>6
  <2> QED BY <1>3, <1>6, <2>1
<1>7. CASE ref' = ref + 1 /\ ~Inside(t) /\ Inside(t)'
  <2>1. T = S \cup {t} /\ t \notin S
    BY <1>1, <1>7
  <2>2. Cardinality(T) = Cardinality(S) + 1
    BY <1>2, <2>1, FS_AddElement
  <2> QED BY <1>3, <1>7, <2>2
<1>8. CASE ref' = ref - 1 /\ Inside(t) /\ ~Inside(t)'
  <2>1. T = S \ {t} /\ t \in S
    BY <1>1, <1>8
  <2>2. Cardinality(T) = Cardinality(S) - 1
    BY <1>2, <2>1, FS_RemoveElement
  <2> QED BY <1>3, <1>8, <2>2
<1> QED BY <1>6, <1>7, <1>8, Zenon DEF Counting

(* What a step of thread t has to do for the invariant to hold after it. *)
StepOK(t) ==
    /\ Local(t) /\ Counting(t) /\ ThreadInv(t)'
    /\ t = "client" \/ ~Early
    /\ state \in Late => state' \in Late
    /\ state' = state \/ state' # "init"
    /\ JobZone' => JobZone \/ state \notin Late
    /\ disk'.state # "init"
    /\ t = "client" /\ Early' => Early /\ pool' = pool /\ managed' = managed
    /\ t = "client" /\ state' = "init" =>
           pc'[t] \in {"choose", "reset", "move"} /\ frame'[t].cont = "func"

LEMMA StepKeeps ==
    ASSUME IInv, NEW t \in Thread, TypeOK', StepOK(t)
    PROVE  IInv'
<1>1. RefsCounted'
  BY CountKept DEF IInv, StepOK
<1>2. EarlyInv'
  <2>1. CASE t = "client"
    BY <2>1 DEF IInv, EarlyInv, Local, StepOK
  <2>2. CASE t # "client"
    <3>1. "client" \in Thread \ {t} /\ ~Early
      BY <2>2, Constants, Zenon DEF StepOK
    <3>2. ~Early'
      BY <3>1 DEF Early, Local, StepOK
    <3>3. state # "init"
      BY <3>1, Zenon DEF IInv, EarlyInv, Early, ChainPC
    <3> QED BY <3>2, <3>3 DEF EarlyInv, StepOK
  <2> QED BY <2>1, <2>2
<1>3. ASSUME NEW u \in Thread, u # t PROVE ThreadInv(u)'
  <2>1. pc'[u] = pc[u] /\ frame'[u] = frame[u]
    BY <1>3 DEF Local, StepOK
  <2>2. ThreadInv(u)
    BY DEF IInv
  <2>3. u = "client" => ~Early
    BY <1>3, Zenon DEF StepOK
  <2>4. pc[u] \in ChainPC => frame[u].cont # "func"
    BY <2>2, <2>3, Zenon DEF ThreadInv, Early
  <2>5. RecoveryMode(u)' => state' \in Late /\ ~JobZone'
    <3>1. RecoveryMode(u) => state \in Late /\ ~JobZone
      BY <2>2 DEF ThreadInv
    <3>2. RecoveryMode(u)' <=> RecoveryMode(u)
      BY <2>1 DEF RecoveryMode
    <3> QED BY <3>1, <3>2 DEF StepOK
  <2>6. state \in Late => state' \in Late
    BY DEF StepOK
  <2> QED BY <2>1, <2>2, <2>4, <2>5, <2>6, Zenon DEF ThreadInv
<1>4. ThreadInv(t)'
  BY DEF StepOK
<1> QED BY <1>1, <1>2, <1>3, <1>4, Zenon DEF IInv

(* A step that does not move the task to another state. *)
QuietOK(t) ==
    /\ Local(t) /\ Counting(t) /\ ThreadInv(t)'
    /\ pc[t] \notin {"idle", "choose", "reset", "move"}
    /\ state' = state
    /\ disk' = disk \/ disk'.state # "init"
    /\ t = "worker" /\ JobZone' => JobZone
    /\ t = "client" /\ Early' => Early /\ pool' = pool /\ managed' = managed

LEMMA QuietKeeps ==
    ASSUME IInv, NEW t \in Thread, TypeOK', QuietOK(t)
    PROVE  IInv'
<1>1. t = "client" \/ ~Early
  BY Known DEF QuietOK
<1>2. JobZone' => JobZone
  <2>1. CASE t = "worker"
    BY <2>1 DEF QuietOK
  <2>2. CASE t # "worker"
    BY <2>2, Constants DEF JobZone, Local, QuietOK
  <2> QED BY <2>1, <2>2
<1>3. disk'.state # "init"
  BY DEF IInv, EarlyInv, QuietOK
<1>4. t = "client" => state # "init"
  BY DEF IInv, EarlyInv, QuietOK
<1>5. StepOK(t)
  BY <1>1, <1>2, <1>3, <1>4, Zenon DEF StepOK, QuietOK
<1> QED BY <1>5, StepKeeps

(* The chain of _updateState() calls ends, by itself or by an exception,   *)
(* and the thread is where it was called from.                             *)
ChainOK(t) ==
    /\ pc[t] \in ChainPC \ {"choose", "reset", "move"}
    /\ ref' = ref /\ state' = state
    /\ disk' = disk \/ disk'.state # "init"
    /\ frame[t].cont = "func" => pool' = pool /\ managed' = managed

EndOK(t) ==
    /\ ChainOK(t) /\ Local(t)
    /\ \/ pc'[t] = "recoverdone" /\ frame[t].inner # "none"
       \/ pc'[t] = Rest(t) /\ frame[t].cont = "end"
       \/ pc'[t] = frame[t].cont /\ frame[t].cont # "end"
       \/ pc'[t] = "decref" /\ frame[t].cont = "func"
    /\ frame'[t].req = frame[t].req /\ frame'[t].cont = frame[t].cont

LEMMA EndKeeps ==
    ASSUME IInv, NEW t \in Thread, TypeOK', EndOK(t)
    PROVE  IInv'
<1>1. ThreadInv(t) /\ frame[t].cont \in {"func", "decref", "abortend", "unref", "end"}
  BY Zenon DEF IInv, RefsCounted, TypeOK, Frame
<1>2. pc[t] \in {"persist", "entered", "register", "enqueue", "runjobs", "job", "jobfails",
                 "recovering", "undo", "recoverdone"}
  BY Zenon DEF EndOK, ChainOK, ChainPC
<1>3. frame[t].cont = "func" => t = "client" /\ frame[t].inner = "none"
  BY <1>1, Zenon DEF ThreadInv, EndOK, ChainOK
<1>4. frame[t].cont \in {"abortend", "end"} => state \in Late
  BY <1>1, Zenon DEF ThreadInv, EndOK, ChainOK
<1>5. pc'[t] \in {"recoverdone", "idle", "gone", "func", "decref", "abortend", "unref"}
  BY <1>1, RestIn, Zenon DEF EndOK
<1>6. pc'[t] = "recoverdone" => frame[t].cont # "func" /\ pc[t] \in ChainPC
  BY <1>1, <1>3, RestIn, Zenon DEF EndOK, ChainOK
<1>7. pc'[t] = "abortend" => state \in Late
  BY <1>1, <1>4, RestIn, Zenon DEF EndOK
<1>8. pc'[t] = "func" => t = "client" /\ frame[t].cont = "func"
  BY <1>1, <1>3, RestIn, Zenon DEF EndOK
<1>0. /\ state' = state /\ ref' = ref /\ frame'[t].req = frame[t].req
      /\ frame'[t].cont = frame[t].cont /\ Local(t)
  BY Zenon DEF EndOK, ChainOK
<1>9. ThreadInv(t)'
  BY <1>0, <1>1, <1>3, <1>4, <1>5, <1>6, <1>7, <1>8, Zenon
     DEF ThreadInv, RecoveryMode, Updating, ChainPC
<1>10. Inside(t)' <=> Inside(t)
  <2>1. CASE frame[t].cont = "end"
    <3>1. pc'[t] \in {"recoverdone", "idle", "gone"}
      BY <1>1, <2>1, RestIn, Zenon DEF EndOK
    <3> QED BY <1>0, <1>2, <2>1, <3>1, Zenon DEF Inside, ChainPC
  <2>2. CASE frame[t].cont # "end"
    <3>1. pc'[t] \in {"recoverdone", "func", "decref", "abortend", "unref"}
      BY <1>1, <2>2 DEF EndOK
    <3> QED BY <1>0, <1>2, <2>2, <3>1, Zenon DEF Inside, ChainPC
  <2> QED BY <2>1, <2>2, Zenon
<1>11. t = "worker" => ~JobZone'
  BY <1>5, Zenon DEF JobZone
<1>12. t = "client" /\ Early' => Early /\ frame[t].cont = "func"
  <2>1. t = "client" => pc'[t] # "idle"
    BY <1>1 DEF Rest, EndOK
  <2>2. frame[t].cont # "func" => pc'[t] # "func"
    BY <1>8, Zenon
  <2>3. frame[t].cont = "func" /\ t = "client" => Early
    BY Zenon DEF EndOK, ChainOK, Early
  <2> QED BY <1>0, <1>5, <2>1, <2>2, <2>3, Zenon DEF Early
<1>13. QuietOK(t)
  <2>1. Counting(t)
    BY <1>0, <1>10 DEF Counting
  <2> QED BY <1>0, <1>2, <1>9, <1>11, <1>12, <2>1, Zenon DEF QuietOK, EndOK, ChainOK
<1> QED BY <1>13, QuietKeeps

LEMMA ReturnKeeps ==
    ASSUME IInv, NEW t \in Thread, TypeOK', Return(t), ChainOK(t)
    PROVE  IInv'
<1>1. TypeOK
  BY Zenon DEF IInv, RefsCounted
<1>2. EndOK(t)
  BY <1>1, ReturnEffect, Zenon DEF EndOK
<1> QED BY <1>2, EndKeeps

LEMMA RaiseKeeps ==
    ASSUME IInv, NEW t \in Thread, TypeOK', Raise(t), ChainOK(t)
    PROVE  IInv'
<1>1. TypeOK
  BY DEF IInv, RefsCounted
<1>2. EndOK(t)
  BY <1>1, RaiseEffect DEF EndOK
<1> QED BY <1>2, EndKeeps

(* A handler calls _updateState() again.  A recovery begins only if the    *)
(* job does not run.                                                       *)
CallOK(t, s, inner) ==
    /\ Call(t, s, inner)
    /\ s \in State \ {"running", "aborting"} /\ inner \in {"none", "failing", "ending"}
    /\ s \in {"racquiring", "recovering"} => state \in Late /\ (JobZone => t = "worker")
    /\ pc[t] \in ChainPC \ {"choose", "reset", "move"} /\ frame[t].cont # "func"
    /\ ref' = ref /\ state' = state /\ disk' = disk /\ pool' = pool /\ managed' = managed

LEMMA CallKeeps ==
    ASSUME IInv, NEW t \in Thread, TypeOK', NEW s, NEW inner, CallOK(t, s, inner)
    PROVE  IInv'
<1>1. TypeOK /\ ThreadInv(t)
  BY Zenon DEF IInv, RefsCounted
<1>2. /\ Local(t) /\ pc'[t] = "choose" /\ frame'[t].req = s
      /\ frame'[t].cont = frame[t].cont /\ ~frame'[t].force
  BY <1>1, CallEffect DEF CallOK
<1>3. t = "worker" => ~JobZone'
  BY <1>2, Zenon DEF JobZone
<1>4. t # "worker" => (JobZone' <=> JobZone)
  BY <1>2, Constants, Zenon DEF JobZone, Local
<1>5. frame[t].cont \in {"abortend", "end"} => state \in Late
  BY <1>1, Zenon DEF ThreadInv, CallOK
<1>6. /\ state' = state /\ frame[t].cont # "func" /\ s \notin {"running", "aborting"}
      /\ s \in {"racquiring", "recovering"} => state \in Late /\ (JobZone => t = "worker")
  BY Zenon DEF CallOK
<1>7. ThreadInv(t)'
  <2>1. RecoveryMode(t)' => state' \in Late /\ ~JobZone'
    BY <1>2, <1>3, <1>4, <1>6, Zenon DEF RecoveryMode, Updating
  <2> QED BY <1>1, <1>2, <1>5, <1>6, <2>1, Zenon DEF ThreadInv, Updating, ChainPC
<1>8. Counting(t)
  <2>1. Inside(t)' <=> Inside(t)
    BY <1>2 DEF Inside, CallOK, ChainPC
  <2> QED BY <2>1, Zenon DEF Counting, CallOK
<1>9. t = "client" => ~Early'
  BY <1>2, <1>6, Zenon DEF Early
<1>10. QuietOK(t)
  BY <1>2, <1>3, <1>7, <1>8, <1>9 DEF QuietOK, CallOK, ChainPC
<1> QED BY <1>10, QuietKeeps

LEMMA LateClosed ==
    ASSUME NEW s \in State, state \in Late, state \in MoveTo[s]
    PROVE  s \in Late
BY DEF MoveTo, Late, State

LEMMA UpdateKeeps ==
    ASSUME IInv, NEW t \in Thread, UpdateState(t), TypeOK'
    PROVE  IInv'
<1> USE DEF status, abort, setup, stack, outside
<1>0. TypeOK /\ ThreadInv(t) /\ EarlyInv /\ state \in State /\ frame[t].req \in State
  BY DEF IInv, RefsCounted, TypeOK, Frame
<1>w. "worker" \in Thread
  BY Constants
<1>1. CASE Choose(t)
  <2> DEFINE s == IF aborting /\ canAbort THEN "aborting"
                  ELSE IF aborting /\ canAbortRecovery /\ frame[t].req # "recovered"
                       THEN "raborting"
                  ELSE frame[t].req
  <2>1. frame' = [frame EXCEPT ![t].req = s] /\ Goto(t, "reset")
    BY <1>1 DEF Choose
  <2>2. s = frame[t].req \/ (s = "aborting" /\ canAbort) \/ (s = "raborting" /\ canAbortRecovery)
    OBVIOUS
  <2> HIDE DEF s
  <2>3. /\ pc'[t] = "reset" /\ frame'[t].req = s /\ frame'[t].cont = frame[t].cont
        /\ frame'[t].inner = frame[t].inner /\ frame'[t].force = frame[t].force
    <3>1. frame[t] \in Frame /\ frame'[t] = [frame[t] EXCEPT !.req = s]
      BY <1>0, <2>1, Zenon DEF TypeOK
    <3> QED BY <1>0, <2>1, <3>1, GotoEffect DEF Frame, PC, ChainPC
  <2>4. Local(t)
    BY <1>0, <2>1, GotoEffect DEF Local, TypeOK, PC, ChainPC
  <2>5. pc[t] = "choose" /\ state' = state /\ disk' = disk /\ ref' = ref
        /\ pool' = pool /\ managed' = managed
    BY <1>1 DEF Choose
  <2>6. canAbort => state \notin Late /\ state # "init"
    BY DEF canAbort, MoveTo, State, Late
  <2>7. canAbortRecovery => state \in Late /\ state # "init"
    BY DEF canAbortRecovery, MoveTo, State, Late
  <2>8. JobZone' => JobZone
    BY <2>3, <2>4, <1>w, Zenon DEF JobZone, Local
  <2>9. ThreadInv(t)'
    BY <1>0, <2>2, <2>3, <2>5, <2>6, <2>7, <2>8, Zenon
       DEF ThreadInv, RecoveryMode, Updating, ChainPC
  <2>10. Inside(t)' <=> Inside(t)
    BY <2>3, <2>5 DEF Inside, ChainPC
  <2>11. t = "client" \/ ~Early
    BY <2>5, Known
  <2>12. t = "client" /\ Early' => Early
    BY <2>3, <2>5 DEF Early, ChainPC
  <2>13. t = "client" /\ state' = "init" =>
             pc'[t] \in {"choose", "reset", "move"} /\ frame'[t].cont = "func"
    BY <1>0, <2>3, <2>5, Zenon DEF EarlyInv
  <2>14. StepOK(t)
    BY <1>0, <2>4, <2>5, <2>8, <2>9, <2>10, <2>11, <2>12, <2>13, Zenon
       DEF StepOK, EarlyInv, Counting
  <2> QED BY <2>14, StepKeeps
<1>2. CASE Reset(t)
  <2>1. pc'[t] = "move" /\ Local(t) /\ frame' = frame
    <3>1. frame' = frame /\ Goto(t, "move")
      BY <1>2 DEF Reset
    <3> QED BY <1>0, <3>1, GotoEffect DEF Local, PC, ChainPC
  <2>2. pc[t] = "reset" /\ state' = state /\ disk' = disk /\ ref' = ref
        /\ pool' = pool /\ managed' = managed
    BY <1>2 DEF Reset
  <2>3. JobZone' => JobZone
    BY <2>1, <1>w, Zenon DEF JobZone, Local
  <2>4. ThreadInv(t)'
    BY <1>0, <2>1, <2>2, <2>3, Zenon DEF ThreadInv, RecoveryMode, Updating, ChainPC
  <2>5. Inside(t)' <=> Inside(t)
    BY <2>1, <2>2 DEF Inside, ChainPC
  <2>6. t = "client" \/ ~Early
    BY <2>2, Known
  <2>7. t = "client" /\ Early' => Early
    BY <2>1, <2>2, Zenon DEF Early, ChainPC
  <2>8. t = "client" /\ state' = "init" =>
            pc'[t] \in {"choose", "reset", "move"} /\ frame'[t].cont = "func"
    BY <1>0, <2>1, <2>2, Zenon DEF EarlyInv
  <2>9. StepOK(t)
    BY <1>0, <2>1, <2>2, <2>3, <2>4, <2>5, <2>6, <2>7, <2>8, Zenon DEF StepOK, EarlyInv, Counting
  <2> QED BY <2>9, StepKeeps
<1>3. CASE Move(t)
  <2>1. pc[t] = "move" /\ disk' = disk /\ ref' = ref /\ pool' = pool /\ managed' = managed
    BY <1>3, Zenon DEF Move
  <2>2. t = "client" \/ ~Early
    BY <2>1, Known, Zenon
  <2>3. state = "init" => t = "client" /\ frame[t].cont = "func"
    BY <1>0, <2>1, <2>2, Zenon DEF EarlyInv, Early, ChainPC
  <2>4. CASE frame[t].force \/ state \in MoveTo[frame[t].req]
    <3>1. pc'[t] \in {"persist", "entered"} /\ Local(t) /\ frame' = frame
      <4>1. frame' = frame /\ \E p \in {"persist", "entered"} : Goto(t, p)
        BY <1>3, <2>4, Zenon DEF Move
      <4> QED BY <1>0, <4>1, GotoEffect, Zenon DEF Local, PC, ChainPC
    <3>2. state' = frame[t].req
      BY <1>3, <2>4, Zenon DEF Move
    <3>3. frame[t].force => state' \in Late /\ state' # "running"
      BY <1>0, <2>1, <3>2 DEF ThreadInv, Late, State
    <3>4. state \in Late => state' \in Late
      BY <1>0, <2>4, <3>2, <3>3, LateClosed, Zenon
    <3>5. state' # "init"
      <4>1. state \in MoveTo[frame[t].req] => frame[t].req # "init"
        BY <1>0 DEF MoveTo, State
      <4> QED BY <2>4, <3>2, <3>3, <4>1 DEF Late
    <3>6. state' = "running" => state = "queued"
      BY <1>0, <2>4, <3>2, <3>3 DEF MoveTo, State
    <3>7. JobZone' => JobZone \/ state \notin Late
      BY <1>w, <2>1, <3>1, <3>2, <3>6 DEF JobZone, Local, Late
    <3>8. state' \in {"racquiring", "recovering", "aborting"} => state' \in Late
      BY DEF Late, State
    <3>9. RecoveryMode(t)' => state' \in Late /\ ~JobZone'
      <4>1. SUFFICES ASSUME RecoveryMode(t)' PROVE ~JobZone'
        BY <2>1, <3>1, <3>2, <3>8, Zenon DEF RecoveryMode
      <4>2. RecoveryMode(t) /\ frame[t].req # "running"
        BY <2>1, <3>1, <4>1, Zenon DEF RecoveryMode, Updating
      <4>3. ~JobZone /\ state \in Late
        BY <1>0, <4>2, Zenon DEF ThreadInv
      <4> QED BY <3>7, <4>3
    <3>10. frame[t].cont \in {"abortend", "end"} => state' \in Late
      BY <1>0, <2>1, <3>2, <3>4, <3>8, Zenon DEF ThreadInv, ChainPC
    <3>11. ThreadInv(t)'
      BY <1>0, <2>1, <3>1, <3>2, <3>8, <3>9, <3>10, Zenon DEF ThreadInv, Updating, ChainPC
    <3>12. Inside(t)' <=> Inside(t)
      BY <2>1, <3>1 DEF Inside, ChainPC
    <3>13. t = "client" /\ Early' => Early
      BY <2>1, <3>1, Zenon DEF Early, ChainPC
    <3>14. StepOK(t)
      BY <1>0, <2>1, <2>2, <3>1, <3>4, <3>5, <3>7, <3>11, <3>12, <3>13, Zenon
         DEF StepOK, EarlyInv, Counting
    <3> QED BY <3>14, StepKeeps
  <2>5. CASE ~(frame[t].force \/ state \in MoveTo[frame[t].req])
    <3>1. Raise(t) /\ state' = state
      BY <1>3, <2>5, Zenon DEF Move
    <3>2. /\ Local(t)
          /\ pc'[t] = IF frame[t].inner # "none" THEN "recoverdone"
                      ELSE IF frame[t].cont = "end" THEN Rest(t)
                      ELSE IF frame[t].cont = "func" THEN "decref" ELSE frame[t].cont
          /\ frame'[t].req = frame[t].req /\ frame'[t].cont = frame[t].cont
          /\ frame'[t].inner = "none" /\ frame'[t].force = frame[t].force
      BY <1>0, <3>1, RaiseEffect
    <3>3. frame[t].cont # "func" /\ state # "init"
      <4>1. frame[t].cont = "func" => state \in MoveTo[frame[t].req]
        BY <1>0, <2>1 DEF ThreadInv, ChainPC, MoveTo, State
      <4> QED BY <2>3, <2>5, <4>1
    <3>4. frame[t].cont = "abortend" => state \in Late
      BY <1>0, <2>1, <2>5, <3>3, Zenon DEF ThreadInv, MoveTo, State, Late
    <3>5. frame[t].cont \in {"decref", "abortend", "unref", "end"}
      BY <1>0, <3>3, Zenon DEF TypeOK, Frame
    <3>6. pc'[t] \in {"recoverdone", "idle", "gone", "decref", "abortend", "unref"}
      BY <3>2, <3>5, RestIn, Zenon
    <3>7. JobZone' => JobZone
      BY <1>w, <3>2, <3>6, Zenon DEF JobZone, Local
    <3>8. pc'[t] = "recoverdone" /\ frame[t].req = "running" => t = "worker" /\ frame[t].cont = "decref"
      BY <1>0, <2>1, Zenon DEF ThreadInv, ChainPC
    <3>9. pc'[t] = "abortend" => state \in Late
      BY <3>2, <3>4, <3>6, RestIn, Zenon
    <3>10. frame[t].cont = "end" => state \in Late
      BY <1>0, <2>1, Zenon DEF ThreadInv, ChainPC
    <3>11. ThreadInv(t)'
      BY <1>0, <3>1, <3>2, <3>3, <3>4, <3>6, <3>8, <3>9, <3>10, Zenon
         DEF ThreadInv, RecoveryMode, Updating, ChainPC
    <3>12. Inside(t)' <=> Inside(t)
      <4>1. CASE frame[t].inner # "none"
        BY <2>1, <3>2, <4>1, Zenon DEF Inside, ChainPC
      <4>2. CASE frame[t].inner = "none"
        BY <2>1, <3>2, <3>5, <4>2, RestIn, Zenon DEF Inside, ChainPC
      <4> QED BY <4>1, <4>2, Zenon
    <3>13. t = "client" => ~Early'
      <4>1. t = "client" => pc'[t] # "idle"
        BY <3>2, <3>5, Zenon DEF Rest
      <4> QED BY <3>2, <3>3, <3>6, <4>1, Zenon DEF Early
    <3>14. StepOK(t)
      BY <1>0, <2>1, <2>2, <3>1, <3>2, <3>3, <3>7, <3>11, <3>12, <3>13, Zenon
         DEF StepOK, EarlyInv, Counting
    <3> QED BY <3>14, StepKeeps
  <2> QED BY <2>4, <2>5, Zenon
<1>4. CASE Persist(t)
  <2>1. pc'[t] = "entered" /\ Local(t) /\ frame' = frame
    <3>1. frame' = frame /\ Goto(t, "entered")
      BY <1>4 DEF Persist
    <3> QED BY <1>0, <3>1, GotoEffect DEF Local, PC, ChainPC
  <2>2. pc[t] = "persist" /\ state' = state /\ ref' = ref /\ pool' = pool /\ managed' = managed
    BY <1>4 DEF Persist
  <2>3. disk' = disk \/ disk'.state # "init"
    <3>1. t = "client" \/ ~Early
      BY <2>2, Known, Zenon
    <3>2. state # "init"
      BY <1>0, <2>2, <3>1, Zenon DEF EarlyInv, Early, ChainPC
    <3>3. disk'.state = state \/ disk' = disk
      BY <1>0, <1>4, SavedType, Zenon DEF Persist, TypeOK
    <3> QED BY <3>2, <3>3
  <2>4. t = "worker" /\ JobZone' => JobZone
    BY <2>1, <2>2, Zenon DEF JobZone
  <2>5. JobZone' => JobZone
    BY <1>w, <2>1, <2>4, Zenon DEF JobZone, Local
  <2>6. ThreadInv(t)'
    BY <1>0, <2>1, <2>2, <2>5, Zenon DEF ThreadInv, RecoveryMode, Updating, ChainPC
  <2>7. Inside(t)' <=> Inside(t)
    BY <2>1, <2>2 DEF Inside, ChainPC
  <2>8. t = "client" /\ Early' => Early
    BY <2>1, <2>2 DEF Early, ChainPC
  <2>9. QuietOK(t)
    BY <2>1, <2>2, <2>3, <2>4, <2>6, <2>7, <2>8 DEF QuietOK, Counting
  <2> QED BY <2>9, QuietKeeps
<1>5. CASE EnterNext(t)
  <2>1. /\ pc[t] = "entered" /\ pc[t] \in ChainPC \ {"choose", "reset", "move"}
        /\ state' = state /\ disk' = disk /\ ref' = ref
        /\ pool' = pool /\ managed' = managed
    BY <1>5, Zenon DEF EnterNext, ChainPC
  <2>2. frame[t].req # "preparing" => frame[t].cont # "func"
    BY <1>0, <2>1 DEF ThreadInv
  <2>3. CASE frame[t].req = "preparing"
    <3>1. Return(t) /\ ChainOK(t)
      BY <1>5, <2>1, <2>3 DEF ChainOK, EnterNext
    <3> QED BY <3>1, ReturnKeeps
  <2>4. CASE frame[t].req = "acquiring"
    <3>1. Call(t, "queued", "none")
      BY <1>5, <2>4, Zenon DEF EnterNext
    <3>2. CallOK(t, "queued", "none")
      BY <2>1, <2>2, <2>4, <3>1 DEF CallOK, State
    <3> QED BY <3>2, CallKeeps
  <2>5. CASE frame[t].req = "racquiring"
    <3>1. Call(t, "recovering", "none")
      BY <1>5, <2>5, Zenon DEF EnterNext
    <3>2. state \in Late /\ ~JobZone
      BY <1>0, <2>1, <2>5, Zenon DEF ThreadInv, RecoveryMode, Updating
    <3>3. CallOK(t, "recovering", "none")
      BY <2>1, <2>2, <2>5, <3>1, <3>2, Zenon DEF CallOK, State
    <3> QED BY <3>3, CallKeeps
  <2>6. CASE frame[t].req = "recovering" /\ state # "recovering"
    <3>1. Raise(t) /\ ChainOK(t)
      BY <1>5, <2>1, <2>6 DEF ChainOK, EnterNext
    <3> QED BY <3>1, RaiseKeeps
  <2>7. ASSUME NEW p \in {"register", "runjobs", "recovering"}, Goto(t, p), frame' = frame,
               p = "register" => frame[t].req = "queued",
               p = "runjobs" => frame[t].req = "running",
               p = "recovering" => frame[t].req = "recovering"
        PROVE  IInv'
    <3>1. pc'[t] = p /\ Local(t) /\ frame' = frame
      BY <1>0, <2>7, GotoEffect, Zenon DEF Local, PC, ChainPC
    <3>2. t = "worker" /\ JobZone' => JobZone
      BY <2>1, <2>7, <3>1, Zenon DEF JobZone
    <3>3. JobZone' => JobZone
      BY <1>w, <3>1, <3>2, Zenon DEF JobZone, Local
    <3>4. frame[t].cont # "func"
      BY <2>2, <2>7, Zenon
    <3>5. p = "recovering" => state \in Late /\ ~JobZone
      BY <1>0, <2>1, <2>7, Zenon DEF ThreadInv, RecoveryMode, Updating
    <3>6. ThreadInv(t)'
      BY <1>0, <2>1, <2>7, <3>1, <3>3, <3>4, <3>5, Zenon
         DEF ThreadInv, RecoveryMode, Updating, ChainPC
    <3>7. Inside(t)' <=> Inside(t)
      BY <2>1, <3>1, Zenon DEF Inside, ChainPC
    <3>8. t = "client" => ~Early'
      BY <3>1, <3>4, Zenon DEF Early
    <3>9. QuietOK(t)
      BY <2>1, <3>1, <3>2, <3>6, <3>7, <3>8, Zenon DEF QuietOK, Counting
    <3> QED BY <3>9, QuietKeeps, Zenon
  <2>8. CASE \/ frame[t].req \in {"queued", "running"}
             \/ frame[t].req = "recovering" /\ state = "recovering"
    BY <1>5, <2>7, <2>8, Zenon DEF EnterNext
  <2> QED BY <1>5, <2>3, <2>4, <2>5, <2>6, <2>8 DEF EnterNext
<1>6. CASE EnterAbort(t)
  <2>1. /\ pc[t] = "entered" /\ pc[t] \in ChainPC \ {"choose", "reset", "move"}
        /\ state' = state /\ disk' = disk /\ ref' = ref
        /\ pool' = pool /\ managed' = managed
    BY <1>6, Zenon DEF EnterAbort, ChainPC
  <2>2. frame[t].req \in {"aborting", "raborting"}
    BY <1>6, Zenon DEF EnterAbort
  <2>3. frame[t].cont # "func"
    BY <1>0, <2>1, <2>2, Zenon DEF ThreadInv
  <2>4. frame[t].inner \in {"none", "failing", "ending"}
    BY <1>0, Zenon DEF TypeOK, Frame
  <2>5. CASE Return(t)
    <3>1. Return(t) /\ ChainOK(t)
      BY <2>1, <2>3, <2>5 DEF ChainOK
    <3> QED BY <3>1, ReturnKeeps
  <2>6. CASE frame[t].req = "raborting" /\ ~Return(t)
    <3>1. Call(t, "failed", frame[t].inner)
      BY <1>6, <2>6, Zenon DEF EnterAbort
    <3>2. CallOK(t, "failed", frame[t].inner)
      BY <2>1, <2>3, <2>4, <3>1 DEF CallOK, State
    <3> QED BY <3>2, CallKeeps, Zenon
  <2>7. CASE frame[t].req = "aborting" /\ ~Return(t)
    <3>1. ~(ref > 1)
      BY <1>6, <2>7, Zenon DEF EnterAbort
    <3>2. Inside(t)
      BY <1>0, <2>1, <2>7 DEF ThreadInv, Updating, Inside
    <3>3. JobZone => t = "worker"
      <4>1. ThreadInv("worker")
        BY <1>w, Zenon DEF IInv
      <4>2. JobZone => Inside("worker")
        BY <4>1, Zenon DEF ThreadInv, JobZone, Inside, ChainPC
      <4> QED BY <1>w, <3>1, <3>2, <4>2, TwoInside DEF IInv
    <3>4. state \in Late
      BY <1>0, <2>1, <2>7, Zenon DEF ThreadInv
    <3>5. PICK s \in {"racquiring", "failed"} : Call(t, s, "none")
      BY <1>6, <2>7 DEF EnterAbort
    <3>6. s \in State /\ s \notin {"running", "aborting"}
      BY DEF State
    <3>7. CallOK(t, s, "none")
      BY <2>1, <2>3, <3>3, <3>4, <3>5, <3>6, Zenon DEF CallOK
    <3> QED BY <3>7, CallKeeps, Zenon
  <2> QED BY <2>2, <2>5, <2>6, <2>7, Zenon
<1>7. CASE EnterDone(t)
  <2>1. /\ pc[t] \in ChainPC \ {"choose", "reset", "move"}
        /\ state' = state /\ disk' = disk /\ ref' = ref
        /\ pool' = pool /\ managed' = managed
    BY <1>7, Zenon DEF EnterDone, ChainPC
  <2>2. Return(t) /\ ChainOK(t)
    BY <1>7, <2>1, Zenon DEF ChainOK, EnterDone
  <2> QED BY <2>2, ReturnKeeps
<1> QED BY <1>1, <1>2, <1>3, <1>4, <1>5, <1>6, <1>7, Zenon DEF UpdateState

LEMMA NotInit ==
    ASSUME IInv, NEW t \in Thread, pc[t] \notin {"idle", "choose", "reset", "move"}
    PROVE  state # "init"
<1>1. t = "client" \/ ~Early
  BY Known, Zenon
<1> QED BY <1>1 DEF IInv, EarlyInv, Early, ChainPC

LEMMA JobKeeps ==
    ASSUME IInv, NEW t \in Thread, Job(t), TypeOK'
    PROVE  IInv'
<1> USE DEF status, abort, setup, stack, outside
<1>0. TypeOK /\ ThreadInv(t)
  BY Zenon DEF IInv, RefsCounted
<1>1. /\ pc[t] \in {"runjobs", "job", "jobfails"}
      /\ pc[t] \in ChainPC \ {"choose", "reset", "move"}
      /\ pc[t] \notin {"idle", "choose", "reset", "move"}
  BY Zenon DEF Job, RunJobs, PushRecovery, ReplaceRecoveries, ClearRecoveries, Change, JobReturns,
         JobRaises, ChainPC
<1>2. t = "worker" /\ frame[t].req = "running" /\ frame[t].cont = "decref" /\ JobZone
  BY <1>0, <1>1 DEF ThreadInv, JobZone
<1>3. state # "init"
  BY <1>1, NotInit, Zenon
<1>4. ASSUME pc'[t] \in {"job", "jobfails"}, Local(t), frame' = frame, state' = state, ref' = ref,
             disk' = disk \/ disk'.state # "init"
      PROVE  IInv'
  <2>1. ThreadInv(t)'
    BY <1>0, <1>2, <1>4, Zenon DEF ThreadInv, RecoveryMode, Updating, ChainPC
  <2>2. Inside(t)' <=> Inside(t)
    BY <1>1, <1>4, Zenon DEF Inside, ChainPC
  <2>3. QuietOK(t)
    BY <1>1, <1>2, <1>4, <2>1, <2>2, Zenon DEF QuietOK, Counting
  <2> QED BY <2>3, QuietKeeps
<1>5. ASSUME frame' = frame, state' = state, ref' = ref, pc[t] = "job",
             recoveries' \in 0..kind.MaxRecoveries,
             IF stored
             THEN disk' \in Saved(state, recoveries', policy)
                  /\ \E p \in {"job", "jobfails"} : Goto(t, p)
             ELSE UNCHANGED <<disk, pc>>
      PROVE  IInv'
  <2>1. disk' = disk \/ disk'.state # "init"
    BY <1>0, <1>3, <1>5, SavedType, Zenon DEF TypeOK
  <2>2. pc'[t] \in {"job", "jobfails"} /\ Local(t)
    BY <1>0, <1>5, GotoEffect, Zenon DEF Local, PC, ChainPC
  <2> QED BY <1>4, <1>5, <2>1, <2>2, Zenon
<1>6. recoveries' \in 0..kind'.MaxRecoveries
  BY DEF TypeOK
<1>7. CASE RunJobs(t)
  <2>1. state' = state /\ disk' = disk /\ ref' = ref
    BY <1>7, Zenon DEF RunJobs
  <2>2. CASE Return(t)
    <3>1. Return(t) /\ ChainOK(t)
      BY <1>1, <1>2, <2>1, <2>2, Zenon DEF ChainOK
    <3> QED BY <3>1, ReturnKeeps
  <2>3. CASE Raise(t)
    <3>1. Raise(t) /\ ChainOK(t)
      BY <1>1, <1>2, <2>1, <2>3, Zenon DEF ChainOK
    <3> QED BY <3>1, RaiseKeeps
  <2>4. CASE Goto(t, "job") /\ frame' = frame
    <3>1. pc'[t] = "job" /\ Local(t)
      BY <1>0, <2>4, GotoEffect DEF Local, PC, ChainPC
    <3> QED BY <1>4, <2>1, <2>4, <3>1, Zenon
  <2> QED BY <1>7, <2>2, <2>3, <2>4, Zenon DEF RunJobs
<1>8. CASE PushRecovery(t)
  BY <1>5, <1>6, <1>8 DEF PushRecovery
<1>9. CASE ReplaceRecoveries(t)
  BY <1>5, <1>6, <1>9, Zenon DEF ReplaceRecoveries
<1>10. CASE ClearRecoveries(t)
  BY <1>5, <1>6, <1>10, Zenon DEF ClearRecoveries
<1>11. CASE Change(t)
  BY <1>4, <1>11, Zenon DEF Change, Local
<1>12. CASE JobReturns(t)
  <2>1. state' = state /\ disk' = disk /\ ref' = ref /\ pool' = pool /\ managed' = managed
    BY <1>12, Zenon DEF JobReturns
  <2>2. CASE Return(t)
    <3>1. Return(t) /\ ChainOK(t)
      BY <1>1, <1>2, <2>1, <2>2 DEF ChainOK
    <3> QED BY <3>1, ReturnKeeps
  <2>3. CASE Call(t, "finished", "none")
    <3>1. CallOK(t, "finished", "none")
      BY <1>1, <1>2, <2>1, <2>3, Zenon DEF CallOK, State
    <3> QED BY <3>1, CallKeeps
  <2> QED BY <1>12, <2>2, <2>3, Zenon DEF JobReturns
<1>13. CASE JobRaises(t)
  <2>1. state' = state /\ disk' = disk /\ ref' = ref
    BY <1>13, Zenon DEF JobRaises
  <2>2. CASE Return(t)
    <3>1. Return(t) /\ ChainOK(t)
      BY <1>1, <1>2, <2>1, <2>2 DEF ChainOK
    <3> QED BY <3>1, ReturnKeeps
  <2>3. CASE Raise(t)
    <3>1. Raise(t) /\ ChainOK(t)
      BY <1>1, <1>2, <2>1, <2>3 DEF ChainOK
    <3> QED BY <3>1, RaiseKeeps
  <2> QED BY <1>13, <2>2, <2>3, Zenon DEF JobRaises
<1> QED BY <1>7, <1>8, <1>9, <1>10, <1>11, <1>12, <1>13 DEF Job

LEMMA RecoveryKeeps ==
    ASSUME IInv, NEW t \in Thread, Recovery(t), TypeOK'
    PROVE  IInv'
<1> USE DEF status, abort, setup, stack, outside
<1>0. TypeOK /\ ThreadInv(t)
  BY DEF IInv, RefsCounted
<1>1. /\ pc[t] \in {"recovering", "undo", "recoverdone"}
      /\ pc[t] \in ChainPC \ {"choose", "reset", "move"}
      /\ pc[t] \notin {"idle", "choose", "reset", "move"}
      /\ state' = state /\ disk' = disk /\ ref' = ref /\ pool' = pool /\ managed' = managed
  BY Zenon DEF Recovery, PopRecovery, Undo, UndoRaises, RecoverDone, ChainPC
<1>2. frame[t].cont # "func"
  BY <1>0, <1>1 DEF ThreadInv, Updating
<1>3. pc[t] \in {"recovering", "undo"} => state \in Late /\ ~JobZone
  BY <1>0 DEF ThreadInv, RecoveryMode
<1>4. ASSUME NEW p \in {"recovering", "undo", "recoverdone"}, Goto(t, p), frame' = frame,
             pc[t] \in {"recovering", "undo"}
      PROVE  IInv'
  <2>1. pc'[t] = p /\ Local(t)
    BY <1>0, <1>4, GotoEffect, Zenon DEF Local, PC, ChainPC
  <2>2. JobZone' => JobZone
    BY <2>1, Constants, Zenon DEF JobZone, Local
  <2>3. ThreadInv(t)'
    BY <1>0, <1>1, <1>2, <1>3, <1>4, <2>1, <2>2, Zenon
       DEF ThreadInv, RecoveryMode, Updating, ChainPC
  <2>4. Inside(t)' <=> Inside(t)
    BY <1>1, <1>4, <2>1, Zenon DEF Inside, ChainPC
  <2>5. t = "client" => ~Early'
    BY <1>2, <1>4, <2>1, Zenon DEF Early
  <2>6. QuietOK(t)
    BY <1>1, <1>4, <2>1, <2>2, <2>3, <2>4, <2>5, Zenon DEF QuietOK, Counting
  <2> QED BY <2>6, QuietKeeps, Zenon
<1>5. CASE PopRecovery(t)
  BY <1>4, <1>5 DEF PopRecovery
<1>6. CASE Undo(t)
  BY <1>4, <1>6 DEF Undo
<1>7. CASE UndoRaises(t)
  <2>1. CASE state = "recovering"
    <3>1. Call(t, "raborting", "failing")
      BY <1>7, <2>1, Zenon DEF UndoRaises
    <3>2. CallOK(t, "raborting", "failing")
      BY <1>1, <1>2, <3>1, Zenon DEF CallOK, State
    <3> QED BY <3>2, CallKeeps
  <2>2. CASE state # "recovering"
    BY <1>4, <1>7, <2>2 DEF UndoRaises
  <2> QED BY <2>1, <2>2
<1>8. CASE RecoverDone(t)
  <2>1. CASE Call(t, "recovered", "ending")
    <3>1. CallOK(t, "recovered", "ending")
      BY <1>1, <1>2, <2>1 DEF CallOK, State
    <3> QED BY <3>1, CallKeeps, Zenon
  <2>2. CASE Call(t, "failed", "ending")
    <3>1. CallOK(t, "failed", "ending")
      BY <1>1, <1>2, <2>2, Zenon DEF CallOK, State
    <3> QED BY <3>1, CallKeeps, Zenon
  <2>3. CASE Return(t)
    <3>1. Return(t) /\ ChainOK(t)
      BY <1>1, <1>2, <2>3, Zenon DEF ChainOK
    <3> QED BY <3>1, ReturnKeeps
  <2> QED BY <1>8, <2>1, <2>2, <2>3, Zenon DEF RecoverDone
<1> QED BY <1>5, <1>6, <1>7, <1>8 DEF Recovery

-----------------------------------------------------------------------------
(* Where a thread can be when it is not in a chain of _updateState() calls *)
(* and not in the function.                                                *)
Out == {"idle", "gone", "commit", "recover", "recoverstate", "decref", "zero", "doabort",
        "abortcheck", "abortend", "abortlast", "stopcheck", "stopset", "unref"}

OutOK(t) ==
    /\ Local(t) /\ Counting(t)
    /\ pc'[t] \in Out
    /\ t = "client" => pc'[t] # "idle"
    /\ pc[t] \notin {"idle", "choose", "reset", "move"}
    /\ frame'[t].cont \in {frame[t].cont, "end"}
    /\ pc'[t] \in {"abortend", "abortlast"} => state \in Late
    /\ state' = state /\ disk' = disk

LEMMA OutKeeps ==
    ASSUME IInv, NEW t \in Thread, TypeOK', OutOK(t)
    PROVE  IInv'
<1>1. ThreadInv(t)
  BY Zenon DEF IInv
<1>2. pc'[t] \notin ChainPC /\ pc'[t] \notin {"func", "funcfails", "prepared"}
  BY Zenon DEF OutOK, Out, ChainPC
<1>3. t # "client" => frame'[t].cont # "func"
  BY <1>1 DEF ThreadInv, OutOK
<1>4. ~RecoveryMode(t)'
  BY <1>2 DEF RecoveryMode, Updating, ChainPC
<1>5. pc'[t] \in {"abortend", "abortlast"} => state' \in Late
  BY Zenon DEF OutOK
<1>6. ThreadInv(t)'
  BY <1>2, <1>3, <1>4, <1>5, Zenon DEF ThreadInv, Updating, ChainPC
<1>7. t = "worker" => ~JobZone'
  BY <1>2 DEF JobZone, ChainPC
<1>8. t = "client" => ~Early'
  BY <1>2, Zenon DEF Early, OutOK
<1>9. QuietOK(t)
  BY <1>6, <1>7, <1>8, Zenon DEF QuietOK, OutOK
<1> QED BY <1>9, QuietKeeps

(* An operation's first call of _updateState(). *)
BeginOK(t) ==
    /\ Local(t) /\ Counting(t)
    /\ pc[t] \notin {"idle"} \cup ChainPC
    /\ pc'[t] = "choose"
    /\ frame'[t].cont # "func"
    /\ frame'[t].req = "running" => t = "worker" /\ frame'[t].cont = "decref"
    /\ frame'[t].force => frame'[t].req = "racquiring"
    /\ frame'[t].cont = "abortend" => frame'[t].req = "aborting" \/ state \in Late
    /\ frame'[t].cont = "end" => frame'[t].req # "aborting" /\ state \in Late
    /\ frame'[t].req \in {"racquiring", "recovering"} =>
           state \in Late /\ (JobZone => t = "worker")
    /\ state' = state /\ disk' = disk

LEMMA BeginKeeps ==
    ASSUME IInv, NEW t \in Thread, TypeOK', BeginOK(t)
    PROVE  IInv'
<1>1. t = "worker" => ~JobZone'
  BY Zenon DEF JobZone, BeginOK
<1>2. t # "worker" => (JobZone' <=> JobZone)
  BY Constants, Zenon DEF JobZone, Local, BeginOK
<1>3. RecoveryMode(t)' => state' \in Late /\ ~JobZone'
  BY <1>1, <1>2, Zenon DEF RecoveryMode, Updating, BeginOK
<1>4. ThreadInv(t)'
  BY <1>3 DEF ThreadInv, Updating, ChainPC, BeginOK
<1>5. t = "client" => ~Early'
  BY Zenon DEF Early, BeginOK
<1>6. QuietOK(t)
  BY <1>1, <1>4, <1>5 DEF QuietOK, BeginOK, ChainPC
<1> QED BY <1>6, QuietKeeps

LEMMA LeaveKeeps ==
    ASSUME IInv, NEW t \in Thread, Leave(t) \/ StopCheck(t) \/ StopSet(t), TypeOK'
    PROVE  IInv'
<1> USE DEF status, abort, setup, stack, outside
<1>0. TypeOK /\ ThreadInv(t) /\ ref \in Nat
  BY DEF IInv, RefsCounted, TypeOK
<1>1. Rest(t) \in Out /\ Rest(t) \in PC /\ (t = "client" => Rest(t) # "idle")
  BY DEF Rest, Out, PC
<1>2. ~(Rest(t) \in ChainPC) /\ Rest(t) \notin {"abortend", "abortlast"}
      /\ Rest(t) \notin {"func", "funcfails", "prepared", "recoverstate", "decref",
                         "abortcheck", "abortend", "stopcheck", "stopset", "unref"}
  BY DEF Rest, ChainPC
<1>3. ASSUME NEW p \in PC, p \in Out, t = "client" => p # "idle", Goto(t, p), frame' = frame,
             p \in {"abortend", "abortlast"} => state \in Late,
             pc[t] \in {"decref", "zero", "doabort", "abortcheck", "abortend", "abortlast",
                        "unref", "stopcheck", "stopset"},
             \/ /\ ref' = ref
                /\ p \in {"decref", "abortcheck", "abortend", "stopcheck", "stopset"}
                   <=> pc[t] \in {"decref", "abortcheck", "abortend", "unref", "stopcheck",
                                  "stopset"}
             \/ ref' = ref + 1 /\ pc[t] = "doabort" /\ p = "abortcheck"
             \/ /\ ref' = ref - 1 /\ pc[t] \in {"decref", "abortend", "unref"}
                /\ p \in {"idle", "gone", "zero", "abortlast"},
             p # "unref", p # "recoverstate",
             state' = state, disk' = disk
      PROVE  IInv'
  <2>1. pc'[t] = p /\ Local(t)
    BY <1>0, <1>3, GotoEffect, Zenon DEF Local
  <2>2. Inside(t) <=> pc[t] \in {"decref", "abortcheck", "abortend", "unref", "stopcheck", "stopset"}
    BY <1>3, Zenon DEF Inside, ChainPC
  <2>3. Inside(t)' <=> p \in {"decref", "abortcheck", "abortend", "stopcheck", "stopset"}
    BY <1>3, <2>1, Zenon DEF Inside, ChainPC, Out
  <2>4. \/ ref' = ref /\ (Inside(t)' <=> Inside(t))
        \/ ref' = ref + 1 /\ ~Inside(t) /\ Inside(t)'
        \/ ref' = ref - 1 /\ Inside(t) /\ ~Inside(t)'
    BY <1>3, <2>2, <2>3, Zenon
  <2>5. OutOK(t)
    BY <1>3, <2>1, <2>4, Zenon DEF OutOK, Counting
  <2> QED BY <2>5, OutKeeps, Zenon
<1>4. CASE Decref(t)
  BY <1>0, <1>1, <1>3, <1>4, RestIn, Zenon DEF Decref, Out, PC
<1>5. CASE Zero(t)
  BY <1>1, <1>3, <1>5, RestIn, Zenon DEF Zero, Out, PC
<1>6. CASE DoAbort(t)
  BY <1>0, <1>1, <1>3, <1>6, RestIn, Zenon DEF DoAbort, Out, PC
<1>7. CASE AbortCheck(t)
  <2>1. pc[t] = "abortcheck" /\ state' = state /\ disk' = disk /\ ref' = ref
    BY <1>7, Zenon DEF AbortCheck
  <2>2. state \in State /\ state # "init"
    BY <1>0, <2>1, NotInit DEF TypeOK
  <2>3. ~canAbort => state \in Late
    BY <2>2, Zenon DEF canAbort, MoveTo, Late, State
  <2>4. CASE ~canAbort /\ frame[t].op = "recover" /\ ~canAbortRecovery
    BY <1>3, <1>7, <2>1, <2>3, <2>4, Zenon DEF AbortCheck, Out, PC
  <2>5. CASE ~(~canAbort /\ frame[t].op = "recover" /\ ~canAbortRecovery)
    <3>1. PICK s \in {"aborting", "raborting"} :
            /\ s = IF canAbort THEN "aborting" ELSE "raborting"
            /\ Begin(t, frame[t].op, s, "abortend", FALSE)
      BY <1>7, <2>5, Zenon DEF AbortCheck
    <3>2. s \in State /\ frame[t].op \in {"none", "prepare", "commit", "recover", "stop", "revert"}
      BY <1>0 DEF State, TypeOK, Frame
    <3>3. /\ Local(t) /\ pc'[t] = "choose" /\ frame'[t].req = s /\ frame'[t].cont = "abortend"
          /\ ~frame'[t].force
      <4>1. Begin(t, frame[t].op, s, "abortend", FALSE)
        BY <3>1, Zenon
      <4>2. Begun(t, s, "abortend") /\ ~frame'[t].force
        BY <1>0, <4>1, BeginStarts, BeginUnforced, Zenon
      <4> QED BY <4>2, Zenon DEF Begun
    <3>4. Inside(t)' <=> Inside(t)
      BY <2>1, <3>3, Zenon DEF Inside, ChainPC
    <3>5. pc[t] \notin {"idle"} \cup ChainPC
      BY <2>1, Zenon DEF ChainPC
    <3>6. BeginOK(t)
      BY <2>1, <2>3, <3>1, <3>3, <3>4, <3>5, Zenon DEF BeginOK, Counting
    <3> QED BY <3>6, BeginKeeps, Zenon
  <2> QED BY <2>4, <2>5, Zenon
<1>8. CASE AbortEnd(t)
  <2>1. state \in Late
    BY <1>0, <1>8, Zenon DEF AbortEnd, ThreadInv
  <2> QED BY <1>3, <1>8, <2>1, Zenon DEF AbortEnd, Out, PC
<1>9. CASE AbortLast(t)
  <2>1. pc[t] = "abortlast" /\ state' = state /\ disk' = disk /\ ref' = ref /\ state \in Late
    BY <1>0, <1>9, Zenon DEF AbortLast, ThreadInv
  <2>2. CASE isDone
    BY <1>1, <1>2, <1>3, <1>9, <2>1, <2>2, Zenon DEF AbortLast
  <2>3. CASE ~isDone
    <3>1. Begin(t, frame[t].op, "failed", "end", FALSE)
      BY <1>9, <2>3, Zenon DEF AbortLast
    <3>2. frame[t].op \in {"none", "prepare", "commit", "recover", "stop", "revert"}
      BY <1>0 DEF TypeOK, Frame
    <3>3. /\ Local(t) /\ pc'[t] = "choose" /\ frame'[t].req = "failed" /\ frame'[t].cont = "end"
          /\ ~frame'[t].force
      <4>1. Begun(t, "failed", "end") /\ ~frame'[t].force
        BY <1>0, <3>1, BeginStarts, BeginUnforced, Zenon
      <4> QED BY <4>1, Zenon DEF Begun
    <3>4. Inside(t)' <=> Inside(t)
      BY <2>1, <3>3, Zenon DEF Inside, ChainPC
    <3>5. pc[t] \notin {"idle"} \cup ChainPC
      BY <2>1 DEF ChainPC
    <3>6. BeginOK(t)
      BY <2>1, <3>3, <3>4, <3>5, Zenon DEF BeginOK, Counting
    <3> QED BY <3>6, BeginKeeps, Zenon
  <2> QED BY <2>2, <2>3, Zenon
<1>10. CASE Unref(t)
  BY <1>1, <1>3, <1>10, RestIn, Zenon DEF Unref
<1>11. CASE StopCheck(t)
  BY <1>3, <1>11, Zenon DEF StopCheck, Out, PC
<1>12. CASE StopSet(t)
  BY <1>3, <1>12, Zenon DEF StopSet, Out, PC
<1> QED BY <1>4, <1>5, <1>6, <1>7, <1>8, <1>9, <1>10, <1>11, <1>12, Zenon DEF Leave

LEMMA QueueKeeps ==
    ASSUME IInv, NEW t \in Thread, Register(t) \/ Enqueue(t), TypeOK'
    PROVE  IInv'
<1> USE DEF status, abort, setup, stack, outside
<1>0. TypeOK /\ ThreadInv(t)
  BY Zenon DEF IInv, RefsCounted
<1>1. /\ pc[t] \in {"register", "enqueue"} /\ pc[t] \in ChainPC \ {"choose", "reset", "move"}
      /\ ref' = ref /\ state' = state /\ disk' = disk
  BY Zenon DEF Register, Enqueue, ChainPC
<1>2. frame[t].cont # "func"
  BY <1>0, <1>1, Zenon DEF ThreadInv, Updating
<1>3. CASE Register(t)
  <2>1. pc'[t] = "enqueue" /\ Local(t) /\ frame' = frame
    <3>1. Goto(t, "enqueue") /\ frame' = frame
      BY <1>3, Zenon DEF Register
    <3> QED BY <1>0, <3>1, GotoEffect, Zenon DEF Local, PC, ChainPC
  <2>2. ThreadInv(t)'
    BY <1>0, <1>1, <1>2, <2>1, Zenon DEF ThreadInv, RecoveryMode, Updating, ChainPC
  <2>3. Inside(t)' <=> Inside(t)
    BY <1>1, <2>1, Zenon DEF Inside, ChainPC
  <2>4. t = "worker" => ~JobZone'
    BY <2>1, Zenon DEF JobZone
  <2>5. t = "client" => ~Early'
    BY <1>2, <2>1, Zenon DEF Early
  <2>6. QuietOK(t)
    BY <1>1, <2>1, <2>2, <2>3, <2>4, <2>5, Zenon DEF QuietOK, Counting
  <2> QED BY <2>6, QuietKeeps, Zenon
<1>4. CASE Enqueue(t)
  <2>1. Return(t)
    BY <1>4, Zenon DEF Enqueue
  <2>2. Return(t) /\ ChainOK(t)
    BY <1>1, <1>2, <2>1, Zenon DEF ChainOK
  <2> QED BY <2>2, ReturnKeeps, Zenon
<1> QED BY <1>3, <1>4

LEMMA StopKeeps ==
    ASSUME IInv, NEW t \in Thread, Stop(t), TypeOK'
    PROVE  IInv'
<1> USE DEF status, abort, setup, stack, outside
<1>0. TypeOK /\ EarlyInv
  BY DEF IInv, RefsCounted
<1>1. /\ pc[t] = "idle" /\ t # "client" /\ t # "worker" /\ managed /\ ref' = ref + 1
      /\ state' = state /\ disk' = disk /\ pool' = pool /\ managed' = managed
  BY StopperAssumption DEF Stop
<1>2. pc'[t] = "stopcheck" /\ Local(t)
  <2>1. Goto(t, "stopcheck") /\ frame' = [frame EXCEPT ![t] = [NoFrame EXCEPT !.op = "stop"]]
    BY DEF Stop
  <2> QED BY <1>0, <2>1, GotoEffect DEF Local, TypeOK, PC
<1>3. frame'[t].cont = "end"
  <2>1. frame'[t] = [NoFrame EXCEPT !.op = "stop"]
    BY <1>0, Zenon DEF Stop, TypeOK
  <2> QED BY <2>1 DEF NoFrame
<1>4. ThreadInv(t)'
  BY <1>2, <1>3, Zenon DEF ThreadInv, RecoveryMode, Updating, ChainPC
<1>5. ~Inside(t) /\ Inside(t)'
  BY <1>1, <1>2, Zenon DEF Inside, ChainPC
<1>6. JobZone' => JobZone
  BY <1>1, <1>2, Constants DEF JobZone, Local
<1>7. t = "client" \/ ~Early
  BY <1>1, Known, Zenon
<1>8. StepOK(t)
  BY <1>0, <1>1, <1>2, <1>4, <1>5, <1>6, <1>7, Zenon DEF StepOK, EarlyInv, Counting
<1> QED BY <1>8, StepKeeps

LEMMA PrepareKeeps ==
    ASSUME IInv, Prepare, TypeOK'
    PROVE  IInv'
<1> USE DEF status, abort, setup, stack, outside
<1>0. TypeOK /\ EarlyInv /\ "client" \in Thread
  BY Constants DEF IInv, RefsCounted
<1>1. /\ pc["client"] = "idle" /\ ref' = ref + 1 /\ state = "init"
      /\ state' = state /\ disk' = disk /\ pool' = pool /\ managed' = managed
  BY DEF Prepare
<1>2. /\ Local("client") /\ pc'["client"] = "choose" /\ frame'["client"].req = "preparing"
      /\ frame'["client"].cont = "func" /\ frame'["client"].inner = "none"
      /\ ~frame'["client"].force
  <2>1. Begin("client", "prepare", "preparing", "func", FALSE)
    BY Zenon DEF Prepare
  <2>2. Begun("client", "preparing", "func") /\ ~frame'["client"].force
    BY <1>0, <2>1, BeginStarts, BeginUnforced, Zenon
  <2> QED BY <2>2, Zenon DEF Begun
<1>3. ThreadInv("client")'
  BY <1>1, <1>2 DEF ThreadInv, RecoveryMode, Updating, ChainPC
<1>4. ~Inside("client") /\ Inside("client")'
  BY <1>1, <1>2, Zenon DEF Inside, ChainPC
<1>5. JobZone' => JobZone
  BY <1>2, Constants, Zenon DEF JobZone, Local
<1>6. Early
  BY <1>1, Zenon DEF Early
<1>7. StepOK("client")
  BY <1>0, <1>1, <1>2, <1>3, <1>4, <1>5, <1>6, Zenon DEF StepOK, EarlyInv, Counting
<1> QED BY <1>7, Constants, StepKeeps, Zenon

LEMMA FunctionKeeps ==
    ASSUME IInv, Function, TypeOK'
    PROVE  IInv'
<1> USE DEF status, abort, setup, stack, outside
<1>0. TypeOK /\ EarlyInv /\ ThreadInv("client") /\ "client" \in Thread
  BY Constants, Zenon DEF IInv, RefsCounted
<1>1. /\ pc["client"] \in {"func", "funcfails", "prepared"}
      /\ pc["client"] \notin {"idle", "choose", "reset", "move"}
      /\ ref' = ref /\ state' = state /\ pool' = pool /\ managed' = managed
  BY Zenon DEF Function, AcquireResources, ScheduleJob, FuncReturns, FuncRaises, Prepared
<1>2. state # "init"
  BY <1>0, <1>1, NotInit
<1>3. Early /\ Inside("client")
  BY <1>1 DEF Early, Inside
<1>4. ASSUME pc'["client"] \in {"func", "funcfails", "prepared"}, Local("client"),
             frame' = frame, disk' = disk \/ disk'.state # "init"
      PROVE  IInv'
  <2>1. ThreadInv("client")'
    BY <1>0, <1>4, Zenon DEF ThreadInv, RecoveryMode, Updating, ChainPC
  <2>2. Inside("client")'
    BY <1>4, Zenon DEF Inside
  <2>3. QuietOK("client")
    BY <1>0, <1>1, <1>3, <1>4, <2>1, <2>2, Zenon DEF QuietOK, Counting
  <2> QED BY <2>3, Constants, QuietKeeps, Zenon
<1>5. CASE AcquireResources
  BY <1>1, <1>4, <1>5, Zenon DEF AcquireResources, Local
<1>6. CASE ScheduleJob
  <2>1. pc'["client"] \in {"func", "funcfails"} /\ Local("client") /\ frame' = frame
    <3>1. frame' = frame /\ pc["client"] = "func"
          /\ (UNCHANGED pc \/ Goto("client", "funcfails"))
      BY <1>6 DEF ScheduleJob
    <3> QED BY <1>0, <3>1, GotoEffect, Zenon DEF Local, PC
  <2>2. disk' = disk \/ disk'.state # "init"
    BY <1>2, <1>6 DEF ScheduleJob, Absent, Empty
  <2> QED BY <1>4, <2>1, <2>2, Zenon
<1>7. CASE FuncReturns \/ FuncRaises
  <2>1. Goto("client", "prepared") /\ frame' = frame /\ disk' = disk
    BY <1>7, Zenon DEF FuncReturns, FuncRaises
  <2>2. pc'["client"] = "prepared" /\ Local("client")
    BY <1>0, <2>1, GotoEffect DEF Local, PC
  <2> QED BY <1>4, <2>1, <2>2, Zenon
<1>8. CASE Prepared
  <2>1. disk' = disk
    BY <1>8, Zenon DEF Prepared
  <2>2. CASE Aborting
    <3>1. Goto("client", "decref") /\ frame' = frame
      BY <1>8, <2>2, Zenon DEF Prepared
    <3>2. pc'["client"] = "decref" /\ Local("client")
      BY <1>0, <3>1, GotoEffect, Zenon DEF Local, PC
    <3>3. Inside("client")' /\ "decref" \in Out
      BY <3>2, Zenon DEF Inside, Out
    <3>4. OutOK("client")
      BY <1>0, <1>1, <1>3, <2>1, <3>1, <3>2, <3>3, Zenon DEF OutOK, Counting
    <3> QED BY <3>4, Constants, OutKeeps, Zenon
  <2>3. CASE ~Aborting
    <3>1. PICK s \in {"acquiring", "finished"} : Begin("client", "prepare", s, "decref", FALSE)
      BY <1>8, <2>3, Zenon DEF Prepared
    <3>2. /\ Local("client") /\ pc'["client"] = "choose" /\ frame'["client"].req = s
          /\ frame'["client"].cont = "decref" /\ ~frame'["client"].force
      <4>1. Begin("client", "prepare", s, "decref", FALSE)
        BY <3>1, Zenon
      <4>2. Begun("client", s, "decref") /\ ~frame'["client"].force
        BY <1>0, <4>1, BeginStarts, BeginUnforced, Zenon
      <4> QED BY <4>2, Zenon DEF Begun
    <3>3. Inside("client")' /\ pc["client"] \notin {"idle"} \cup ChainPC
      BY <1>1, <3>2 DEF Inside, ChainPC
    <3>4. BeginOK("client")
      BY <1>0, <1>1, <1>3, <2>1, <3>2, <3>3 DEF BeginOK, Counting
    <3> QED BY <3>4, Constants, BeginKeeps, Zenon
  <2> QED BY <2>2, <2>3, Zenon
<1> QED BY <1>5, <1>6, <1>7, <1>8, Zenon DEF Function

LEMMA WorkerKeeps ==
    ASSUME IInv, Take \/ Commit \/ Recover \/ RecoverState, TypeOK'
    PROVE  IInv'
<1> USE DEF status, abort, setup, stack, outside
<1>0. TypeOK /\ EarlyInv /\ ThreadInv("worker") /\ "worker" \in Thread
  BY Constants DEF IInv, RefsCounted
<1>1. CASE Take
  <2>1. /\ pc["worker"] = "idle" /\ pool # "none" /\ ref' = ref
        /\ state' = state /\ disk' = disk /\ managed' = managed /\ frame' = frame
    BY <1>1 DEF Take
  <2>2. pc'["worker"] \in {"commit", "recover"} /\ Local("worker")
    <3>1. \E p \in {"commit", "recover"} : Goto("worker", p)
      BY <1>1 DEF Take
    <3> QED BY <1>0, <2>1, <3>1, GotoEffect DEF Local, PC
  <2>3. ThreadInv("worker")'
    BY <1>0, <2>1, <2>2, Zenon DEF ThreadInv, RecoveryMode, Updating, ChainPC
  <2>4. ~Inside("worker") /\ ~Inside("worker")'
    BY <2>1, <2>2 DEF Inside, ChainPC
  <2>5. ~JobZone'
    BY <2>2 DEF JobZone
  <2>6. ~Early
    BY <1>0, <2>1, Known, Zenon
  <2>7. StepOK("worker")
    BY <1>0, <2>1, <2>2, <2>3, <2>4, <2>5, <2>6, Zenon DEF StepOK, EarlyInv, Counting
  <2> QED BY <2>7, Constants, StepKeeps, Zenon
<1>2. CASE Commit
  <2>1. pc["worker"] = "commit" /\ state' = state /\ disk' = disk
    BY <1>2 DEF Commit
  <2>2. ~Inside("worker") /\ pc["worker"] \notin {"idle"} \cup ChainPC
    BY <2>1, Zenon DEF Inside, ChainPC
  <2>3. CASE Aborting
    <3>1. Goto("worker", "doabort") /\ frame' = [frame EXCEPT !["worker"].op = "commit"]
          /\ ref' = ref
      BY <1>2, <2>3 DEF Commit
    <3>2. pc'["worker"] = "doabort" /\ Local("worker")
      BY <1>0, <3>1, GotoEffect DEF Local, TypeOK, PC
    <3>3. frame'["worker"].cont = frame["worker"].cont
      <4>1. frame["worker"] \in Frame
            /\ frame'["worker"] = [frame["worker"] EXCEPT !.op = "commit"]
        BY <1>0, <3>1, Zenon DEF TypeOK
      <4> QED BY <4>1 DEF Frame
    <3>4. ~Inside("worker")' /\ "doabort" \in Out
      BY <3>2 DEF Inside, ChainPC, Out
    <3>5. OutOK("worker")
      BY <1>0, <2>1, <2>2, <3>1, <3>2, <3>3, <3>4, Zenon DEF OutOK, Counting
    <3> QED BY <3>5, Constants, OutKeeps, Zenon
  <2>4. CASE ~Aborting
    <3>1. Begin("worker", "commit", "running", "decref", FALSE) /\ ref' = ref + 1
      BY <1>2, <2>4, Zenon DEF Commit
    <3>2. /\ Local("worker") /\ pc'["worker"] = "choose" /\ frame'["worker"].req = "running"
          /\ frame'["worker"].cont = "decref" /\ ~frame'["worker"].force
      <4>1. Begun("worker", "running", "decref") /\ ~frame'["worker"].force
        BY <1>0, <3>1, BeginStarts, BeginUnforced, Zenon
      <4> QED BY <4>1, Zenon DEF Begun
    <3>3. Inside("worker")'
      BY <3>2 DEF Inside, ChainPC
    <3>4. BeginOK("worker")
      BY <1>0, <2>1, <2>2, <3>1, <3>2, <3>3, Zenon DEF BeginOK, Counting
    <3> QED BY <3>4, Constants, BeginKeeps, Zenon
  <2> QED BY <2>3, <2>4
<1>3. CASE Recover
  <2>1. /\ pc["worker"] = "recover" /\ state' = state /\ disk' = disk
        /\ frame' = [frame EXCEPT !["worker"] = [NoFrame EXCEPT !.op = "recover"]]
    BY <1>3 DEF Recover
  <2>2. PICK p \in {"doabort", "recoverstate"} :
          /\ Goto("worker", p)
          /\ ref' = IF p = "doabort" THEN ref ELSE ref + 1
    BY <1>3 DEF Recover
  <2>3. pc'["worker"] = p /\ Local("worker")
    BY <1>0, <2>1, <2>2, GotoEffect DEF Local, TypeOK, PC
  <2>4. frame'["worker"].cont = "end"
    <3>1. frame'["worker"] = [NoFrame EXCEPT !.op = "recover"]
      BY <1>0, <2>1 DEF TypeOK
    <3> QED BY <3>1 DEF NoFrame
  <2>5. ~Inside("worker") /\ (Inside("worker")' <=> p = "recoverstate") /\ p \in Out
    BY <2>1, <2>2, <2>3 DEF Inside, ChainPC, Out
  <2>6. OutOK("worker")
    BY <1>0, <2>1, <2>2, <2>3, <2>4, <2>5, Zenon DEF OutOK, Counting
  <2> QED BY <2>6, Constants, OutKeeps, Zenon
<1>4. CASE RecoverState
  <2>1. pc["worker"] = "recoverstate" /\ state' = state /\ disk' = disk /\ ref' = ref
    BY <1>4 DEF RecoverState
  <2>2. Inside("worker") /\ pc["worker"] \notin {"idle"} \cup ChainPC
    BY <2>1 DEF Inside, ChainPC
  <2>3. CASE Goto("worker", "decref") /\ frame' = frame
    <3>1. pc'["worker"] = "decref" /\ Local("worker")
      BY <1>0, <2>3, GotoEffect, Zenon DEF Local, PC
    <3>2. Inside("worker")' /\ "decref" \in Out
      BY <3>1, Zenon DEF Inside, Out
    <3>3. OutOK("worker")
      BY <1>0, <2>1, <2>2, <2>3, <3>1, <3>2, Zenon DEF OutOK, Counting
    <3> QED BY <3>3, Constants, OutKeeps, Zenon
  <2>4. CASE isRecovering /\ Begin("worker", "recover", "racquiring", "decref", TRUE)
    <3>1. /\ Local("worker") /\ pc'["worker"] = "choose"
          /\ frame'["worker"].req = "racquiring" /\ frame'["worker"].cont = "decref"
      <4>1. Begun("worker", "racquiring", "decref")
        BY <1>0, <2>4, BeginStarts, Zenon
      <4> QED BY <4>1, Zenon DEF Begun
    <3>2. Inside("worker")'
      BY <3>1 DEF Inside, ChainPC
    <3>3. state \in Late
      BY <2>4 DEF isRecovering, Late, State
    <3>4. BeginOK("worker")
      BY <1>0, <2>1, <2>2, <3>1, <3>2, <3>3, Zenon DEF BeginOK, Counting
    <3> QED BY <3>4, Constants, BeginKeeps, Zenon
  <2> QED BY <1>4, <2>3, <2>4, Zenon DEF RecoverState
<1> QED BY <1>1, <1>2, <1>3, <1>4

LEMMA OtherKeeps ==
    ASSUME IInv, QueueRecovery \/ Revert \/ Clear \/ Crash, TypeOK'
    PROVE  IInv'
<1> USE DEF status, abort, setup, stack, outside
<1>0. /\ TypeOK /\ EarlyInv /\ ThreadInv("worker")
      /\ "worker" \in Thread /\ "reverter" \in Thread
  BY Constants DEF IInv, RefsCounted
<1>1. CASE QueueRecovery \/ Clear
  <2>1. /\ pc' = pc /\ frame' = frame /\ state' = state /\ ref' = ref
        /\ (managed \/ pool # "none") /\ disk'.state # "init"
    BY <1>0, <1>1 DEF QueueRecovery, Clear, Absent, EarlyInv
  <2>2. ThreadInv("worker")' /\ JobZone' = JobZone /\ Local("worker")
        /\ (Inside("worker")' <=> Inside("worker"))
    BY <1>0, <2>1, Zenon DEF ThreadInv, RecoveryMode, JobZone, Local, Inside
  <2>3. ~Early
    BY <1>0, <2>1, Known, Zenon
  <2>4. StepOK("worker")
    BY <1>0, <2>1, <2>2, <2>3, Zenon DEF StepOK, Counting
  <2> QED BY <2>4, Constants, StepKeeps, Zenon
<1>2. CASE Revert
  <2>1. /\ pc["reverter"] = "idle" /\ managed /\ isDone /\ ref = 0 /\ ref' = ref + 1
        /\ state' = state /\ disk' = disk
    BY <1>2 DEF Revert
  <2>2. /\ Local("reverter") /\ pc'["reverter"] = "choose"
        /\ frame'["reverter"].req = "racquiring" /\ frame'["reverter"].cont = "unref"
        /\ ~frame'["reverter"].force
    <3>1. Begin("reverter", "revert", "racquiring", "unref", FALSE)
      BY <1>2, Zenon DEF Revert
    <3>2. Begun("reverter", "racquiring", "unref") /\ ~frame'["reverter"].force
      BY <1>0, <3>1, BeginStarts, BeginUnforced, Zenon
    <3> QED BY <3>2, Zenon DEF Begun
  <2>3. state \in Late
    BY <2>1 DEF isDone, Late, State
  <2>4. ~JobZone
    <3>1. JobZone => Inside("worker")
      BY <1>0 DEF ThreadInv, JobZone, Inside, ChainPC
    <3>2. RefsCounted
      BY Zenon DEF IInv
    <3> QED BY <1>0, <2>1, <3>1, <3>2, InsideHasRef
  <2>5. ~JobZone'
    BY <1>0, <2>2, <2>4, Zenon DEF JobZone, Local
  <2>6. ThreadInv("reverter")'
    BY <2>1, <2>2, <2>3, <2>5, Zenon DEF ThreadInv, RecoveryMode, Updating, ChainPC
  <2>7. ~Inside("reverter") /\ Inside("reverter")'
    BY <2>1, <2>2 DEF Inside, ChainPC
  <2>8. ~Early
    BY <1>0, <2>1, Known, Zenon
  <2>9. StepOK("reverter")
    BY <1>0, <2>1, <2>2, <2>5, <2>6, <2>7, <2>8, Zenon DEF StepOK, EarlyInv, Counting
  <2> QED BY <2>9, Constants, StepKeeps, Zenon
<1>3. CASE Crash
  <2>1. \A t \in Thread : /\ pc'[t] = Rest(t) /\ pc'[t] \in {"idle", "gone"}
                          /\ (t = "client" => pc'[t] = "gone") /\ frame'[t].cont = "end"
    BY <1>3, RestIn, Constants, Zenon DEF Crash, Rest
  <2>2. ref' = 0 /\ disk' = disk /\ state' # "init"
    BY <1>0, <1>3, Zenon DEF Crash, EarlyInv
  <2>3. RefsCounted'
    <3>1. \A t \in Thread : ~Inside(t)'
      BY <2>1 DEF Inside, ChainPC
    <3>2. {t \in Thread : Inside(t)'} = {}
      BY <3>1
    <3>3. Cardinality({t \in Thread : Inside(t)'}) = 0
      BY <3>2, FS_EmptySet, Zenon
    <3> QED BY <2>2, <3>3, Zenon DEF RefsCounted
  <2>4. EarlyInv'
    <3>1. ~Early'
      BY <2>1, Constants, Zenon DEF Early, ChainPC
    <3> QED BY <1>0, <2>2, <3>1, Zenon DEF EarlyInv
  <2>5. \A t \in Thread : ThreadInv(t)'
    BY <2>1 DEF ThreadInv, RecoveryMode, Updating, ChainPC
  <2> QED BY <2>3, <2>4, <2>5, Zenon DEF IInv
<1> QED BY <1>1, <1>2, <1>3, Zenon

-----------------------------------------------------------------------------
LEMMA InitInv == Init => IInv
<1> SUFFICES ASSUME Init PROVE IInv
  OBVIOUS
<1>1. kind.MaxRecoveries \in Nat /\ kind.MaxCrashes \in Nat
  BY KindAssumption, Zenon DEF Init, Kind
<1>2. TypeOK
  <2>1. Absent \in Disk
    BY <1>1 DEF Absent, Disk
  <2>2. "idle" \in PC /\ "init" \in State
    BY DEF PC, State
  <2>3. 0 \in 0..kind.MaxRecoveries /\ 0 \in 0..kind.MaxCrashes
    BY <1>1
  <2> QED BY <2>1, <2>2, <2>3, Constants, Zenon DEF Init, TypeOK
<1>3. \A t \in Thread : pc[t] = "idle" /\ frame[t].cont = "end"
  BY Constants DEF Init
<1>4. RefsCounted
  <2>1. {t \in Thread : Inside(t)} = {}
    BY <1>3 DEF Inside, ChainPC
  <2>2. Cardinality({t \in Thread : Inside(t)}) = 0
    BY <2>1, FS_EmptySet, Zenon
  <2> QED BY <1>2, <2>2, Zenon DEF RefsCounted, Init
<1>5. EarlyInv
  BY <1>3, Constants, Zenon DEF EarlyInv, Init, Absent
<1>6. \A t \in Thread : ThreadInv(t)
  BY <1>3 DEF ThreadInv, RecoveryMode, Updating, ChainPC
<1> QED BY <1>4, <1>5, <1>6 DEF IInv

LEMMA NextInv == IInv /\ [Next]_vars => IInv'
<1> SUFFICES ASSUME IInv, [Next]_vars PROVE IInv'
  OBVIOUS
<1>1. TypeOK'
  BY TypesKept DEF IInv
<1>2. CASE Next
  <2>1. CASE \E t \in Thread : Step(t) \/ Stop(t)
    <3>1. PICK t \in Thread : Step(t) \/ Stop(t)
      BY <2>1, Zenon
    <3>2. CASE UpdateState(t)
      BY <1>1, <3>2, UpdateKeeps, Zenon
    <3>3. CASE Register(t) \/ Enqueue(t)
      BY <1>1, <3>3, QueueKeeps, Zenon
    <3>4. CASE Job(t)
      BY <1>1, <3>4, JobKeeps, Zenon
    <3>5. CASE Recovery(t)
      BY <1>1, <3>5, RecoveryKeeps, Zenon
    <3>6. CASE Leave(t) \/ StopCheck(t) \/ StopSet(t)
      BY <1>1, <3>6, LeaveKeeps, Zenon
    <3>7. CASE Stop(t)
      BY <1>1, <3>7, StopKeeps, Zenon
    <3> QED BY <3>1, <3>2, <3>3, <3>4, <3>5, <3>6, <3>7, Zenon DEF Step
  <2> QED BY <1>1, <1>2, <2>1, PrepareKeeps, FunctionKeeps, WorkerKeeps, OtherKeeps, Zenon
             DEF Next
<1>3. CASE UNCHANGED vars
  <2>1. UNCHANGED <<state, ref, disk, pool, managed, pc, frame>>
    BY <1>3, Zenon DEF vars, status, outside
  <2>2. RefsCounted'
    BY <1>1, <2>1, Zenon DEF IInv, RefsCounted, Inside
  <2>3. EarlyInv'
    BY <2>1, Zenon DEF IInv, EarlyInv, Early
  <2>4. ASSUME NEW t \in Thread
        PROVE  ThreadInv(t)'
    <3>1. ThreadInv(t)
      BY Zenon DEF IInv
    <3>2. (RecoveryMode(t)' <=> RecoveryMode(t)) /\ (JobZone' <=> JobZone)
      BY <2>1, Zenon DEF RecoveryMode, JobZone
    <3> QED BY <2>1, <3>1, <3>2, Zenon DEF ThreadInv
  <2> QED BY <2>2, <2>3, <2>4, Zenon DEF IInv
<1> QED BY <1>2, <1>3

LEMMA Invariance == Spec => []IInv
BY InitInv, NextInv, PTL DEF Spec

(* The reference count is exact: whatever prepare(), commit(), recover(),  *)
(* stop(), rollback() and a restart do, and in whatever order, Task.ref is *)
(* the number of threads between _incref() and _decref().                  *)
THEOREM RefCountExact == Spec => []RefsCounted
<1>1. IInv => RefsCounted
  BY DEF IInv
<1> QED BY <1>1, Invariance, PTL

(* The recoveries of a task never run while its function or its job does:  *)
(* __state_aborting() lets only the last thread with a reference recover,  *)
(* rollback() waits until there is none, and a task that is being          *)
(* recovered never becomes queued or running again.                        *)
THEOREM RecoveryAlone == Spec => []RecoveryExclusive
<1>1. IInv => RecoveryExclusive
  <2> SUFFICES ASSUME IInv, NEW t \in Thread, pc[t] \in {"recovering", "undo"},
                      NEW u \in Thread,
                      pc[u] \in {"func", "funcfails", "prepared", "job", "jobfails"}
               PROVE  FALSE
    BY DEF RecoveryExclusive
  <2>1. ThreadInv(t) /\ ThreadInv(u) /\ EarlyInv
    BY DEF IInv
  <2>2. ~JobZone
    BY <2>1, Zenon DEF ThreadInv, RecoveryMode
  <2>3. pc[u] \in {"job", "jobfails"} => u = "worker"
    BY <2>1, Zenon DEF ThreadInv, ChainPC
  <2>4. u = "client" /\ pc[u] \in {"func", "funcfails", "prepared"}
    BY <2>1, <2>2, <2>3, Zenon DEF ThreadInv, JobZone
  <2>5. t = "client" \/ ~Early
    BY Known
  <2> QED BY <2>4, <2>5 DEF Early
<1> QED BY <1>1, Invariance, PTL
=============================================================================
