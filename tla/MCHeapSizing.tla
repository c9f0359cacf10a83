---------------------------- MODULE MCHeapSizing ----------------------------
(***************************************************************************)
(* A small heap for TLC: 12-word semispaces, 4-word pages, requests that   *)
(* include a zero-sized block, sizes on both sides of a word boundary and  *)
(* one larger than the initial heap.                                       *)
(***************************************************************************)
EXTENDS HeapSizing

SomeRequests == {0, 8, 17, 24, 40, 100}
=============================================================================
