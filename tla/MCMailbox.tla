----------------------------- MODULE MCMailbox -----------------------------
(* Three requests: two for the same volume, of which the second asks for   *)
(* more; and one for another volume.                                       *)
EXTENDS Mailbox, TLC
MCRequests == {"r1", "r2", "r3"}
MCVol == [r1 |-> "v1", r2 |-> "v1", r3 |-> "v2"]
MCSize == [r1 |-> 1, r2 |-> 2, r3 |-> 1]
=============================================================================
