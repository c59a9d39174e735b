----------------------------- MODULE TaskStore -----------------------------
(***************************************************************************)
(* How a task is saved in its directory and loaded from it: _save(),       *)
(* _clean() and loadTask() of lib/vdsm/storage/task.py, with the           *)
(* setPersistence() of a first save and of a restart.                      *)
(*                                                                         *)
(* _save() writes the task to <id>.temp, renames <id> to <id>.backup and   *)
(* <id>.temp to <id>, and removes the backup.  A call to the file system   *)
(* is a step: it may fail, vdsm may die before the next one, and           *)
(* clearTask() may run at the same time, since a task is done in memory    *)
(* before it is saved as done.  vdsm dies; the host, with the pages that   *)
(* are not yet on disk, does not.                                          *)
(*                                                                         *)
(* What a directory holds is the number of the version of the task that    *)
(* was written to it.                                                      *)
(***************************************************************************)
EXTENDS Integers

CONSTANTS MaxVersion,   \* bound on the number of versions
          MaxCrashes,   \* bound on the number of restarts
          MaxFaults     \* bound on the number of calls that fail

ASSUME BoundAssumption ==
    MaxVersion \in Nat /\ MaxCrashes \in Nat /\ MaxFaults \in Nat

VARIABLES orig, temp, backup,   \* the directories <id>, <id>.temp, <id>.backup
          version,    \* the version of the task in memory
          done,       \* that version is in a final state
          saved,      \* the last version whose save returned
          pc,         \* where the thread that saves the task is
          booting,    \* that thread is loading the task after a restart
          clear,      \* where clearTask() is
          restoring,  \* the directory that was missing at a restart is not
                      \* whole again
          crashes, faults

dirs == <<orig, temp, backup>>
vars == <<dirs, version, done, saved, pc, booting, clear, restoring, crashes,
          faults>>

Version == 1..MaxVersion
(* No directory is there, or one with files missing or cut. *)
None == -1
Partial == 0
Content == {None, Partial} \cup Version

PC == {"idle", "cleantemp", "mkdir", "write", "droptemp", "cleanbackup",
       "renameorig", "renametemp", "dropbackup", "fsync", "down", "skipped"}

TypeOK ==
    /\ orig \in Content /\ temp \in Content /\ backup \in Content
    /\ version \in 0..MaxVersion
    /\ saved \in 0..MaxVersion
    /\ done \in BOOLEAN /\ booting \in BOOLEAN /\ restoring \in BOOLEAN
    /\ pc \in PC
    /\ clear \in {"no", "cleaning", "broken", "cleared"}
    /\ crashes \in 0..MaxCrashes /\ faults \in 0..MaxFaults

(* The first setPersistence() of the task has created its directory. *)
Init ==
    /\ orig = Partial /\ temp = None /\ backup = None
    /\ version = 0 /\ saved = 0
    /\ done = FALSE /\ booting = FALSE /\ restoring = FALSE
    /\ pc = "idle"
    /\ clear = "no"
    /\ crashes = 0 /\ faults = 0

(* The directory that loadTask() takes the task from. *)
Chosen ==
    IF orig # None THEN orig
    ELSE IF temp # None THEN temp
    ELSE backup

-----------------------------------------------------------------------------
(* A call to the file system works, or it fails. *)
Works == UNCHANGED faults
Fails == faults < MaxFaults /\ faults' = faults + 1

(* cleanupdir() unlinks the files, then removes the directory. *)
Removed(d) == IF d \in Version THEN Partial ELSE None

(* _save() raises: the caller goes on, but loadDumpedTasks() skips a task  *)
(* that it cannot save again.                                              *)
SaveRaises == pc' = (IF booting THEN "skipped" ELSE "idle") /\ booting' = FALSE

(* Mutant: a directory that is missing is created, not an error. *)
PersistCreating ==
    /\ pc = "idle" /\ ~done
    /\ version < MaxVersion
    /\ version' = version + 1
    /\ done' \in (IF version = 0 THEN {FALSE} ELSE BOOLEAN)
    /\ orig' = IF orig = None THEN Partial ELSE orig
    /\ pc' = "cleantemp"
    /\ UNCHANGED <<temp, backup, saved, booting, clear, restoring,
                   crashes, faults>>

(* The task changes, and is done or not, and persist() is called. *)
Persist ==
    /\ pc = "idle" /\ ~done
    /\ version < MaxVersion
    /\ version' = version + 1
    /\ done' \in (IF version = 0 THEN {FALSE} ELSE BOOLEAN)
    /\ pc' = IF orig = None THEN "idle" ELSE "cleantemp"
    /\ UNCHANGED <<dirs, saved, booting, clear, restoring,
                   crashes, faults>>

(* cleanupdir() of the old temp directory ignores errors. *)
CleanTemp ==
    /\ pc = "cleantemp"
    /\ \/ /\ Works
          /\ temp' = Removed(temp)
          /\ pc' = IF temp' = None THEN "mkdir" ELSE pc
       \/ /\ Fails
          /\ temp # None
          /\ pc' = "mkdir"
          /\ UNCHANGED temp
    /\ UNCHANGED <<orig, backup, version, done, saved, booting, clear, restoring,
                   crashes>>

MakeTemp ==
    /\ pc = "mkdir"
    /\ \/ /\ Works
          /\ temp = None
          /\ temp' = Partial
          /\ pc' = "write"
          /\ UNCHANGED booting
       \/ /\ Fails \/ (temp # None /\ UNCHANGED faults)
          /\ SaveRaises
          /\ UNCHANGED temp
    /\ UNCHANGED <<orig, backup, version, done, saved, clear, restoring, crashes>>

(* The files of the task, its result, its jobs and its recoveries. *)
WriteTemp ==
    /\ pc = "write"
    /\ \/ /\ Works
          /\ temp' = version
          /\ pc' = "cleanbackup"
       \/ /\ Fails
          /\ pc' = "droptemp"
          /\ UNCHANGED temp
    /\ UNCHANGED <<orig, backup, version, done, saved, booting, clear, restoring,
                   crashes>>

DropTemp ==
    /\ pc = "droptemp"
    /\ \/ Works /\ temp' = Removed(temp)
       \/ Fails /\ UNCHANGED temp
    /\ SaveRaises
    /\ UNCHANGED <<orig, backup, version, done, saved, clear, restoring, crashes>>

CleanBackup ==
    /\ pc = "cleanbackup"
    /\ \/ /\ Works
          /\ backup' = Removed(backup)
          /\ pc' = IF backup' = None THEN "renameorig" ELSE pc
       \/ /\ Fails
          /\ backup # None
          /\ pc' = "renameorig"
          /\ UNCHANGED backup
    /\ UNCHANGED <<orig, temp, version, done, saved, booting, clear, restoring,
                   crashes>>

(* Mutant: the old directory is removed, not renamed. *)
RenameOrigRemoving ==
    /\ pc = "renameorig"
    /\ orig' = Removed(orig)
    /\ pc' = IF orig' = None THEN "renametemp" ELSE pc
    /\ UNCHANGED <<temp, backup, version, done, saved, booting, clear, restoring,
                   crashes, faults>>

(* rename() replaces a directory only if it is empty. *)
RenameOrig ==
    /\ pc = "renameorig"
    /\ \/ /\ Works
          /\ orig # None /\ backup \in {None, Partial}
          /\ backup' = orig
          /\ orig' = None
          /\ restoring' = FALSE
          /\ pc' = "renametemp"
          /\ UNCHANGED booting
       \/ /\ Fails \/ ((orig = None \/ backup # None) /\ UNCHANGED faults)
          /\ SaveRaises
          /\ UNCHANGED <<orig, backup, restoring>>
    /\ UNCHANGED <<temp, version, done, saved, clear, crashes>>

RenameTemp ==
    /\ pc = "renametemp"
    /\ \/ /\ Works
          /\ orig' = temp
          /\ temp' = None
          /\ pc' = "dropbackup"
          /\ UNCHANGED booting
       \/ /\ Fails
          /\ SaveRaises
          /\ UNCHANGED <<orig, temp>>
    /\ UNCHANGED <<backup, version, done, saved, clear, restoring, crashes>>

DropBackup ==
    /\ pc = "dropbackup"
    /\ \/ /\ Works
          /\ backup' = Removed(backup)
          /\ pc' = IF backup' = None THEN "fsync" ELSE pc
       \/ /\ Fails
          /\ pc' = "fsync"
          /\ UNCHANGED backup
    /\ UNCHANGED <<orig, temp, version, done, saved, booting, clear, restoring,
                   crashes>>

Fsync ==
    /\ pc = "fsync"
    /\ \/ /\ Works
          /\ saved' = version
          /\ pc' = "idle"
          /\ booting' = FALSE
       \/ /\ Fails
          /\ SaveRaises
          /\ UNCHANGED saved
    /\ UNCHANGED <<dirs, version, done, clear, restoring, crashes>>

-----------------------------------------------------------------------------
(* clearTask() of a task that is done: cleanupdir() of its directory.  One *)
(* that a crash broke off may be called again.                             *)
ClearStart ==
    /\ pc \notin {"down", "skipped"} /\ ~booting
    /\ done /\ clear \in {"no", "broken"}
    /\ clear' = "cleaning"
    /\ UNCHANGED <<dirs, version, done, saved, pc, booting, restoring,
                   crashes, faults>>

ClearStep ==
    /\ clear = "cleaning"
    /\ \/ /\ Works
          /\ orig' = Removed(orig)
          /\ clear' = IF orig' = None THEN "cleared" ELSE clear
       \/ /\ Fails
          /\ orig # None
          /\ clear' = "cleared"
          /\ UNCHANGED orig
    /\ UNCHANGED <<temp, backup, version, done, saved, pc, booting, restoring,
                   crashes>>

(* vdsm dies, with the thread that saves and the one that clears. *)
Crash ==
    /\ crashes < MaxCrashes /\ pc # "down"
    /\ crashes' = crashes + 1
    /\ pc' = "down"
    /\ booting' = FALSE
    /\ clear' = IF clear = "cleaning" THEN "broken" ELSE clear
    /\ UNCHANGED <<dirs, version, done, saved, restoring, faults>>

(* loadDumpedTasks(): loadTask(), then setPersistence() creates the        *)
(* directory if it is missing and saves the task again.                    *)
Load ==
    /\ pc = "down"
    /\ \/ /\ Works
          /\ Chosen \in Version
          /\ version' = Chosen
          /\ done' = (done /\ Chosen = version)
          /\ orig' = IF orig = None THEN Partial ELSE orig
          /\ restoring' = (restoring \/ orig = None)
          /\ pc' = "cleantemp"
          /\ booting' = TRUE
       \/ /\ Fails \/ (Chosen \notin Version /\ UNCHANGED faults)
          /\ pc' = "skipped"
          /\ UNCHANGED <<orig, version, done, restoring, booting>>
    /\ UNCHANGED <<temp, backup, saved, clear, crashes>>

Save ==
    \/ CleanTemp \/ MakeTemp \/ WriteTemp \/ DropTemp \/ CleanBackup
    \/ RenameOrig \/ RenameTemp \/ DropBackup \/ Fsync

Next == Persist \/ Save \/ ClearStart \/ ClearStep \/ Crash \/ Load

Spec == Init /\ [][Next]_vars

-----------------------------------------------------------------------------
(* What has been saved can be loaded, or something newer: wherever _save() *)
(* is broken off, loadTask() finds a whole directory, and not an older     *)
(* one than the last save that returned.  The exception is a restart that  *)
(* found no <id> and created it: until that is renamed, the only whole     *)
(* copy is one loadTask() does not look at.                                *)
SavedIsLoadable ==
    saved > 0 /\ clear = "no" /\ ~restoring => Chosen \in saved..version

(* A save is atomic to whoever loads the task: no step of _save() changes  *)
(* what loadTask() would find, but one that puts the new version there.    *)
SaveIsAtomic ==
    [][clear = "no" /\ ~restoring /\ ~restoring'
       => Chosen' \in {Chosen, version}]_vars

(* "Discard information about a finished Task": what clearTask() removed   *)
(* does not come back at the next restart.  The code does not do this: see *)
(* the README, section 4.                                                  *)
ClearedIsForgotten ==
    clear = "cleared" /\ pc = "idle" /\ faults = 0 => Chosen = None
=============================================================================
