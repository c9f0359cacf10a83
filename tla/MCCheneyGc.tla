----------------------------- MODULE MCCheneyGc -----------------------------
(***************************************************************************)
(* Small heaps for TLC.  A one-field structure takes four words, a block   *)
(* with two fields five.  An unboxed field holds the bits of the address   *)
(* of the first block.                                                     *)
(***************************************************************************)
EXTENDS CheneyGc, TLC

Cell == [tag |-> "struct", refs |-> <<TRUE>>]
Mixed == [tag |-> "struct", refs |-> <<FALSE, TRUE>>]
BoxedArray == [tag |-> "boxedArray", refs |-> <<FALSE>>]
UnboxedArray == [tag |-> "unboxedArray", refs |-> <<FALSE>>]

Cells == {Cell}
MixedOnly == {Mixed}
Several == {BoxedArray}
String == {UnboxedArray}

FirstBlock == <<0, 0>>

Names == Permutations(Ids)
=============================================================================
