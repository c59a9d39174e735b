--------------------------- MODULE MCStorageVerbs ---------------------------
(* Two calls at a time, on a pool with two domains. *)
EXTENDS StorageVerbs, TLC

Symmetry == Permutations(Actors)
=============================================================================
