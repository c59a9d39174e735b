-------------------------- MODULE TaskStoreProofs --------------------------
(***************************************************************************)
(* Proofs about TaskStore, for any number of versions, restarts and        *)
(* failing calls.                                                          *)
(***************************************************************************)
EXTENDS TaskStore, TLAPS

(* Where _save() needs <id> to be there, and has temp written, and has     *)
(* renamed it.                                                             *)
OrigThere == {"cleantemp", "mkdir", "write", "droptemp", "cleanbackup",
              "renameorig", "dropbackup", "fsync"}
TempWritten == {"cleanbackup", "renameorig", "renametemp"}
Renamed == {"dropbackup", "fsync"}

(* What holds of the directories until clearTask() comes. *)
DirsOK ==
    /\ pc \in OrigThere => orig # None
    /\ pc = "renametemp" => orig = None
    /\ orig = None => temp \in Version
    /\ pc \in TempWritten => temp = version
    /\ pc \in Renamed => orig = version
    /\ pc \in OrigThere \cup {"renametemp"} => version \in Version

(* What holds of the versions until clearTask() comes. *)
VersionsOK ==
    /\ pc \notin {"down", "skipped"} => saved <= version
    /\ restoring => orig = Partial /\ (booting \/ pc \in {"down", "skipped"})
    /\ pc = "idle" => ~booting
    /\ saved > 0 /\ ~restoring => Chosen \in saved..version

IInv == TypeOK /\ (clear = "no" => DirsOK /\ VersionsOK)

USE DEF None, Partial, Version

(* TypeOK in two parts: no prover does both arithmetic and Booleans. *)
FlagsOK == done \in BOOLEAN /\ booting \in BOOLEAN /\ restoring \in BOOLEAN
DataOK ==
    /\ orig \in Content /\ temp \in Content /\ backup \in Content
    /\ version \in 0..MaxVersion
    /\ saved \in 0..MaxVersion
    /\ pc \in PC
    /\ clear \in {"no", "cleaning", "broken", "cleared"}
    /\ crashes \in 0..MaxCrashes /\ faults \in 0..MaxFaults

(* Every step keeps the flags Boolean. *)
LEMMA FlagsStep == FlagsOK /\ [Next]_vars => FlagsOK'
<1> SUFFICES ASSUME FlagsOK, [Next]_vars PROVE FlagsOK'
  OBVIOUS
<1> USE DEF FlagsOK
<1>1. CASE Persist
  BY <1>1, Zenon DEF Persist, dirs
<1>2. CASE CleanTemp
  BY <1>2, Zenon DEF CleanTemp, dirs, Works, Fails, Removed
<1>3. CASE MakeTemp
  BY <1>3, Zenon DEF MakeTemp, dirs, Works, Fails, SaveRaises
<1>4. CASE WriteTemp
  BY <1>4, Zenon DEF WriteTemp, dirs, Works, Fails
<1>5. CASE DropTemp
  BY <1>5, Zenon DEF DropTemp, dirs, Works, Fails, Removed, SaveRaises
<1>6. CASE CleanBackup
  BY <1>6, Zenon DEF CleanBackup, dirs, Works, Fails, Removed
<1>7. CASE RenameOrig
  BY <1>7, Zenon DEF RenameOrig, dirs, Works, Fails, SaveRaises
<1>8. CASE RenameTemp
  BY <1>8, Zenon DEF RenameTemp, dirs, Works, Fails, SaveRaises
<1>9. CASE DropBackup
  BY <1>9, Zenon DEF DropBackup, dirs, Works, Fails, Removed
<1>10. CASE Fsync
  BY <1>10, Zenon DEF Fsync, dirs, Works, Fails, SaveRaises
<1>11. CASE ClearStart
  BY <1>11, Zenon DEF ClearStart, dirs
<1>12. CASE ClearStep
  BY <1>12, Zenon DEF ClearStep, dirs, Works, Fails, Removed
<1>13. CASE Crash
  BY <1>13, Zenon DEF Crash, dirs
<1>14. CASE Load
  BY <1>14, Zenon DEF Load, dirs, Works, Fails, Chosen
<1>15. CASE UNCHANGED vars
  BY <1>15, Zenon DEF vars, dirs
<1> QED
  BY <1>1, <1>2, <1>3, <1>4, <1>5, <1>6, <1>7, <1>8, <1>9, <1>10, <1>11,
     <1>12, <1>13, <1>14, <1>15 DEF Next, Save

(* Every step keeps the directories, the versions and the counters in      *)
(* their ranges.                                                           *)
LEMMA DataStep == DataOK /\ [Next]_vars => DataOK'
<1> SUFFICES ASSUME DataOK, [Next]_vars PROVE DataOK'
  OBVIOUS
<1> USE BoundAssumption DEF DataOK, Content, PC
<1>1. CASE Persist
  BY <1>1 DEF Persist, dirs
<1>2. CASE CleanTemp
  BY <1>2 DEF CleanTemp, dirs, Works, Fails, Removed
<1>3. CASE MakeTemp
  BY <1>3 DEF MakeTemp, dirs, Works, Fails, SaveRaises
<1>4. CASE WriteTemp
  BY <1>4 DEF WriteTemp, dirs, Works, Fails
<1>5. CASE DropTemp
  BY <1>5 DEF DropTemp, dirs, Works, Fails, Removed, SaveRaises
<1>6. CASE CleanBackup
  BY <1>6 DEF CleanBackup, dirs, Works, Fails, Removed
<1>7. CASE RenameOrig
  BY <1>7 DEF RenameOrig, dirs, Works, Fails, SaveRaises
<1>8. CASE RenameTemp
  BY <1>8 DEF RenameTemp, dirs, Works, Fails, SaveRaises
<1>9. CASE DropBackup
  BY <1>9 DEF DropBackup, dirs, Works, Fails, Removed
<1>10. CASE Fsync
  BY <1>10 DEF Fsync, dirs, Works, Fails, SaveRaises
<1>11. CASE ClearStart
  BY <1>11 DEF ClearStart, dirs
<1>12. CASE ClearStep
  BY <1>12 DEF ClearStep, dirs, Works, Fails, Removed
<1>13. CASE Crash
  BY <1>13 DEF Crash, dirs
<1>14. CASE Load
  BY <1>14 DEF Load, dirs, Works, Fails, Chosen
<1>15. CASE UNCHANGED vars
  BY <1>15 DEF vars, dirs
<1> QED
  BY <1>1, <1>2, <1>3, <1>4, <1>5, <1>6, <1>7, <1>8, <1>9, <1>10, <1>11,
     <1>12, <1>13, <1>14, <1>15 DEF Next, Save

(* Every step keeps the types of the variables. *)
LEMMA TypeStep == TypeOK /\ [Next]_vars => TypeOK'
<1>1. TypeOK <=> FlagsOK /\ DataOK
  BY DEF TypeOK, FlagsOK, DataOK
<1>2. TypeOK' <=> FlagsOK' /\ DataOK'
  BY DEF TypeOK, FlagsOK, DataOK
<1> QED
  BY <1>1, <1>2, FlagsStep, DataStep

(* Until clearTask() comes, every step keeps what the directories hold. *)
LEMMA DirsStep ==
    TypeOK /\ [Next]_vars /\ clear' = "no" /\ DirsOK /\ VersionsOK => DirsOK'
<1> SUFFICES ASSUME TypeOK /\ [Next]_vars /\ clear' = "no" /\ DirsOK /\ VersionsOK
             PROVE  DirsOK'
  OBVIOUS
<1> USE BoundAssumption DEF TypeOK, Content, PC, DirsOK, OrigThere,
        TempWritten, Renamed, VersionsOK, Chosen
<1>1. CASE Persist
  BY <1>1 DEF Persist, dirs
<1>2. CASE CleanTemp
  BY <1>2 DEF CleanTemp, dirs, Works, Fails, Removed
<1>3. CASE MakeTemp
  BY <1>3 DEF MakeTemp, dirs, Works, Fails, SaveRaises
<1>4. CASE WriteTemp
  BY <1>4 DEF WriteTemp, dirs, Works, Fails
<1>5. CASE DropTemp
  BY <1>5 DEF DropTemp, dirs, Works, Fails, Removed, SaveRaises
<1>6. CASE CleanBackup
  BY <1>6 DEF CleanBackup, dirs, Works, Fails, Removed
<1>7. CASE RenameOrig
  BY <1>7 DEF RenameOrig, dirs, Works, Fails, SaveRaises
<1>8. CASE RenameTemp
  BY <1>8 DEF RenameTemp, dirs, Works, Fails, SaveRaises
<1>9. CASE DropBackup
  BY <1>9 DEF DropBackup, dirs, Works, Fails, Removed
<1>10. CASE Fsync
  BY <1>10 DEF Fsync, dirs, Works, Fails, SaveRaises
<1>11. CASE ClearStart
  BY <1>11 DEF ClearStart, dirs
<1>12. CASE ClearStep
  BY <1>12 DEF ClearStep, dirs, Works, Fails, Removed
<1>13. CASE Crash
  BY <1>13 DEF Crash, dirs
<1>14. CASE Load
  BY <1>14 DEF Load, dirs, Works, Fails
<1>15. CASE UNCHANGED vars
  BY <1>15 DEF vars, dirs
<1> QED
  BY <1>1, <1>2, <1>3, <1>4, <1>5, <1>6, <1>7, <1>8, <1>9, <1>10, <1>11,
     <1>12, <1>13, <1>14, <1>15 DEF Next, Save

(* Until clearTask() comes, every step keeps the saved version loadable. *)
LEMMA VersionsStep ==
    TypeOK /\ [Next]_vars /\ clear' = "no" /\ DirsOK /\ VersionsOK => VersionsOK'
<1> SUFFICES ASSUME TypeOK /\ [Next]_vars /\ clear' = "no" /\ DirsOK /\ VersionsOK
             PROVE  VersionsOK'
  OBVIOUS
<1> USE BoundAssumption DEF TypeOK, Content, PC, DirsOK, OrigThere,
        TempWritten, Renamed, VersionsOK, Chosen
<1>1. CASE Persist
  BY <1>1 DEF Persist, dirs
<1>2. CASE CleanTemp
  BY <1>2 DEF CleanTemp, dirs, Works, Fails, Removed
<1>3. CASE MakeTemp
  BY <1>3 DEF MakeTemp, dirs, Works, Fails, SaveRaises
<1>4. CASE WriteTemp
  BY <1>4 DEF WriteTemp, dirs, Works, Fails
<1>5. CASE DropTemp
  BY <1>5 DEF DropTemp, dirs, Works, Fails, Removed, SaveRaises
<1>6. CASE CleanBackup
  BY <1>6 DEF CleanBackup, dirs, Works, Fails, Removed
<1>7. CASE RenameOrig
  BY <1>7 DEF RenameOrig, dirs, Works, Fails, SaveRaises
<1>8. CASE RenameTemp
  BY <1>8 DEF RenameTemp, dirs, Works, Fails, SaveRaises
<1>9. CASE DropBackup
  BY <1>9 DEF DropBackup, dirs, Works, Fails, Removed
<1>10. CASE Fsync
  BY <1>10 DEF Fsync, dirs, Works, Fails, SaveRaises
<1>11. CASE ClearStart
  BY <1>11 DEF ClearStart, dirs
<1>12. CASE ClearStep
  BY <1>12 DEF ClearStep, dirs, Works, Fails, Removed
<1>13. CASE Crash
  BY <1>13 DEF Crash, dirs
<1>14. CASE Load
  <2>1. CASE pc' = "skipped"
    BY <1>14, <2>1 DEF Load, Works, Fails
  <2>2. CASE pc' = "cleantemp"
    <3>1. /\ pc = "down" /\ Chosen \in Version /\ version' = Chosen
          /\ orig' = (IF orig = None THEN Partial ELSE orig)
          /\ booting' /\ clear = "no"
          /\ UNCHANGED <<temp, backup, saved>>
          /\ restoring' <=> restoring \/ orig = None
      BY <1>14, <2>2, Zenon DEF Load
    <3>2. ~restoring
      BY <3>1
    <3>3. saved' <= version'
      BY <3>1, <3>2
    <3>4. CASE orig = None
      BY <3>1, <3>3, <3>4, <2>2
    <3>5. CASE orig # None
      BY <3>1, <3>2, <3>3, <3>5, <2>2
    <3> QED
      BY <3>4, <3>5
  <2> QED
    BY <1>14, <2>1, <2>2 DEF Load
<1>15. CASE UNCHANGED vars
  BY <1>15 DEF vars, dirs
<1> QED
  BY <1>1, <1>2, <1>3, <1>4, <1>5, <1>6, <1>7, <1>8, <1>9, <1>10, <1>11,
     <1>12, <1>13, <1>14, <1>15 DEF Next, Save

(* clearTask() never becomes undone. *)
LEMMA ClearStays == [Next]_vars /\ clear' = "no" => clear = "no"
  BY Zenon DEF Next, Save, vars, dirs, Persist, CleanTemp, MakeTemp, WriteTemp, DropTemp,
         CleanBackup, RenameOrig, RenameTemp, DropBackup, Fsync, ClearStart, ClearStep,
         Crash, Load

(* The inductive invariant holds in every reachable state. *)
THEOREM Invariance == Spec => []IInv
<1>1. Init => IInv
  <2> SUFFICES ASSUME Init PROVE IInv
    OBVIOUS
  <2>1. FlagsOK
    BY Zenon DEF Init, FlagsOK
  <2>2. DataOK
    BY BoundAssumption DEF Init, DataOK, Content, PC
  <2>3. DirsOK /\ VersionsOK
    BY DEF Init, DirsOK, VersionsOK, OrigThere, TempWritten, Renamed, Chosen
  <2> QED
    BY <2>1, <2>2, <2>3 DEF IInv, TypeOK, FlagsOK, DataOK
<1>2. IInv /\ [Next]_vars => IInv'
  BY TypeStep, DirsStep, VersionsStep, ClearStays DEF IInv
<1> QED
  BY <1>1, <1>2, PTL DEF Spec

(* The variables keep their types. *)
THEOREM TypeCorrect == Spec => []TypeOK
  BY Invariance, PTL DEF IInv

(* Wherever _save() fails or vdsm dies, loadTask() finds the last version  *)
(* that was saved, or a newer one.                                         *)
THEOREM SavedTasksLoad == Spec => []SavedIsLoadable
<1>1. IInv => SavedIsLoadable
  BY DEF IInv, SavedIsLoadable, VersionsOK
<1> QED
  BY <1>1, Invariance, PTL

(* No step of _save() shows loadTask() anything but the old and the new    *)
(* version of the task.                                                    *)
THEOREM SavesAreAtomic == Spec => SaveIsAtomic
<1> DEFINE Atomic == clear = "no" /\ ~restoring /\ ~restoring'
                     => Chosen' \in {Chosen, version}
<1>1. IInv /\ [Next]_vars => [Atomic]_vars
  <2> SUFFICES ASSUME IInv, [Next]_vars, clear = "no", ~restoring, ~restoring'
               PROVE  Chosen' \in {Chosen, version}
    BY DEF vars
  <2> USE DEF IInv, TypeOK, Content, DirsOK, OrigThere, TempWritten, Renamed
  <2>1. CASE Persist
    BY <2>1 DEF Persist, dirs, Chosen
  <2>2. CASE CleanTemp
    BY <2>2 DEF CleanTemp, dirs, Works, Fails, Removed, Chosen
  <2>3. CASE MakeTemp
    BY <2>3 DEF MakeTemp, dirs, Works, Fails, SaveRaises, Chosen
  <2>4. CASE WriteTemp
    BY <2>4 DEF WriteTemp, dirs, Works, Fails, Chosen
  <2>5. CASE DropTemp
    BY <2>5 DEF DropTemp, dirs, Works, Fails, Removed, SaveRaises, Chosen
  <2>6. CASE CleanBackup
    BY <2>6 DEF CleanBackup, dirs, Works, Fails, Removed, Chosen
  <2>7. CASE RenameOrig
    BY <2>7 DEF RenameOrig, dirs, Works, Fails, SaveRaises, Chosen
  <2>8. CASE RenameTemp
    BY <2>8 DEF RenameTemp, dirs, Works, Fails, SaveRaises, Chosen
  <2>9. CASE DropBackup
    BY <2>9 DEF DropBackup, dirs, Works, Fails, Removed, Chosen
  <2>10. CASE Fsync
    BY <2>10 DEF Fsync, dirs, Works, Fails, SaveRaises, Chosen
  <2>11. CASE ClearStart
    BY <2>11 DEF ClearStart, dirs, Chosen
  <2>12. CASE ClearStep
    BY <2>12 DEF ClearStep, dirs, Works, Fails, Removed, Chosen
  <2>13. CASE Crash
    BY <2>13 DEF Crash, dirs, Chosen
  <2>14. CASE Load
    BY <2>14, Zenon DEF Load, dirs, Works, Fails, Chosen
  <2>15. CASE UNCHANGED vars
    BY <2>15 DEF vars, dirs, Chosen
  <2> QED
    BY <2>1, <2>2, <2>3, <2>4, <2>5, <2>6, <2>7, <2>8, <2>9, <2>10, <2>11,
       <2>12, <2>13, <2>14, <2>15 DEF Next, Save
<1> QED
  BY <1>1, Invariance, PTL DEF Spec, SaveIsAtomic
=============================================================================
