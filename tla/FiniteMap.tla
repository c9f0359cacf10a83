----------------------------- MODULE FiniteMap -----------------------------
(***************************************************************************)
(* What a program expects of a Dict (lib/Dict.enc), and of a Set           *)
(* (lib/Set.enc) as a map to one value.                                    *)
(***************************************************************************)
EXTENDS Functions

CONSTANTS Keys, Values

VARIABLES
  map,    \* from the keys present to their values
  call    \* the last call that changes it

vars == <<map, call>>

Init ==
  /\ map = [k \in {} |-> k]
  /\ call = <<"new">>

Insert(k, v) ==
  /\ call' = <<"insert", k, v>>
  /\ map' = [j \in DOMAIN map \cup {k} |-> IF j = k THEN v ELSE map[j]]

Remove(k) ==
  /\ call' = <<"remove", k>>
  /\ k \in DOMAIN map
  /\ map' = Restrict(map, DOMAIN map \ {k})

Next == \E k \in Keys : Remove(k) \/ \E v \in Values : Insert(k, v)

Spec == Init /\ [][Next]_vars
=============================================================================
