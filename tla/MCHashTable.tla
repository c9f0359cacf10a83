---------------------------- MODULE MCHashTable ----------------------------
(***************************************************************************)
(* Three keys that collide or not, in tables of one, three and six slots,  *)
(* the probes of the second wrapping around.                               *)
(***************************************************************************)
EXTENDS HashTable, TLC

SmallHashes == [Keys -> {0, 2}]

Names == Permutations(Keys)
=============================================================================
