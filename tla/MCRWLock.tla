------------------------------ MODULE MCRWLock ------------------------------
(* Threads for checking RWLock: a reader that holds the lock, a writer     *)
(* behind it, a reader behind the writer and one that arrives meanwhile.   *)
EXTENDS RWLock
=============================================================================
