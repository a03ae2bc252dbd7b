-------------------------- MODULE MCStorageTasks --------------------------
(* One request at a time from the empty server.  Four requests let a content *)
(* be shared, overwritten, released and stored again.                        *)
EXTENDS StorageTasks, TLC

Symmetry == Permutations(Items) \cup Permutations(Ids) \cup Permutations(Hashes)
=============================================================================
