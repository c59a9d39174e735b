--------------------------- MODULE SharedExclusive ---------------------------
(***************************************************************************)
(* What every shared/exclusive lock of vdsm's storage code promises to its *)
(* clients: at any time either one client has the lock exclusively, or any *)
(* number of clients share it.  RWLock (storage/rwlock.py) and every       *)
(* resource of ResourceManager (storage/resourceManager.py) implement this *)
(* specification.                                                          *)
(***************************************************************************)
CONSTANT Client

VARIABLE mode       \* the lock mode each client has

Mode == {"none", "shared", "exclusive"}

Init == mode = [c \in Client |-> "none"]

(* A client may join the ones that share the lock. *)
Share(c) ==
    /\ mode[c] = "none"
    /\ \A d \in Client : mode[d] # "exclusive"
    /\ mode' = [mode EXCEPT ![c] = "shared"]

(* A client may take the lock for itself only when nobody has it. *)
Exclude(c) ==
    /\ \A d \in Client : mode[d] = "none"
    /\ mode' = [mode EXCEPT ![c] = "exclusive"]

(* A mode is never changed in place: promotion and demotion do not exist. *)
Release(c) ==
    /\ mode[c] # "none"
    /\ mode' = [mode EXCEPT ![c] = "none"]

Next == \E c \in Client : Share(c) \/ Exclude(c) \/ Release(c)

Spec == Init /\ [][Next]_mode
==============================================================================
