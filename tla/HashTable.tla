----------------------------- MODULE HashTable -----------------------------
(***************************************************************************)
(* The hash tables of the library: Dict (lib/Dict.enc) and Set             *)
(* (lib/Set.enc), which is the same table without values, and with         *)
(* deletion.  Open addressing with linear probing; nothing marks a slot    *)
(* something was deleted from.  An iterator reads the table as it is when  *)
(* it is asked for the next entry, whatever was done to it since.          *)
(*                                                                         *)
(* A table is [contents, size, capacity], as in the code; a slot holds     *)
(* None or an entry <<key, value>>.                                        *)
(***************************************************************************)
EXTENDS Integers, FiniteSets, Sequences

CONSTANTS
  Keys,
  Values,       \* of a Dict
  Hashes,       \* the hash functions considered
  MaxCapacity   \* bound: no call that would grow the table further is made

ASSUME HashTableAssumption ==
  /\ Hashes \subseteq [Keys -> Nat]
  /\ MaxCapacity \in Nat

VARIABLES
  kind,      \* "Dict" or "Set"
  hash,      \* the keys' hash()
  table,
  status,    \* "ok", or how the program has ended
  call,      \* history: the last call that changes the table
  taken,     \* history: something was deleted or popped
  iterator,  \* of the iteration under way or ended: the position, done
  yielded,   \* history: the keys it has returned
  present,   \* history: the keys in the table when it began
  rehashed   \* history: the table was resized since it began

iteration == <<iterator, yielded, present, rehashed>>
Idle == [current |-> 0, done |-> TRUE]
vars == <<kind, hash, table, status, call, taken, iteration>>

-----------------------------------------------------------------------------
None == <<>>
Member == <<"member">>   \* what a Set maps its members to

NewTable(capacity) ==
  [contents |-> [i \in 0 .. capacity - 1 |-> None], size |-> 0, capacity |-> capacity]

Occupied(t) == {i \in DOMAIN t.contents : t.contents[i] # None}

\* The slots of the linear probe for k, by their distance from the first.
Slot(t, k, distance) == (hash[k] + distance) % t.capacity

\* The distances at which the probe would stop: at the key or a free slot.
Stops(t, k) ==
  {d \in 0 .. t.capacity - 1 :
     LET entry == t.contents[Slot(t, k, d)] IN entry = None \/ entry[1] = k}

Stop(t, k) == Slot(t, k, CHOOSE d \in Stops(t, k) : \A e \in Stops(t, k) : d <= e)

\* Mutant of Place: only a new key is counted.  Mutant of resize, below: an
\* entry keeps its index.
PlaceUncounted(t, k, v) == [t EXCEPT !.contents[Stop(t, k)] = <<k, v>>]

\* insert, once there is room.  A key that is there counts again.
Place(t, k, v) == [t EXCEPT !.contents[Stop(t, k)] = <<k, v>>, !.size = @ + 1]

ResizeInPlace(t, capacity) ==
  [contents |-> [i \in 0 .. capacity - 1 |->
                   IF i \in DOMAIN t.contents THEN t.contents[i] ELSE None],
   size |-> Cardinality(Occupied(t)), capacity |-> capacity]

\* The new table after the entries of the first i slots were inserted again.
\* The calls of insert never resize it: they fill a third at most.
Reinserted(t, capacity) ==
  LET Upto[i \in 0 .. t.capacity] ==
        IF i = 0 THEN NewTable(capacity)
        ELSE LET entry == t.contents[i - 1]
             IN  IF entry = None THEN Upto[i - 1] ELSE Place(Upto[i - 1], entry[1], entry[2])
  IN  Upto

resize(t, capacity) == Reinserted(t, capacity)[t.capacity]

\* Mutant of IsFull: the table is allowed to fill up.
IsFullLate(t) == t.capacity = 0 \/ t.size > t.capacity

IsFull(t) == 3 * t.size >= 2 * t.capacity

WithRoom(t) ==
  IF IsFull(t) THEN resize(t, IF t.size = 0 THEN 1 ELSE 3 * t.size) ELSE t

insert(t, k, v) == Place(WithRoom(t), k, v)

\* get of a Dict: an entry, or None.
get(t, k) == IF Stops(t, k) = {} THEN None ELSE t.contents[Stop(t, k)]

contains(t, k) == get(t, k) # None

-----------------------------------------------------------------------------
(***************************************************************************)
(* Calls.                                                                  *)
(***************************************************************************)
Insert(k, v) ==
  /\ status = "ok"
  /\ WithRoom(table).capacity <= MaxCapacity
  /\ Stops(WithRoom(table), k) # {}
  /\ table' = insert(table, k, v)
  /\ call' = <<"insert", k, v>>
  /\ rehashed' = (rehashed \/ IsFull(table))
  /\ UNCHANGED <<kind, hash, status, taken, iterator, yielded, present>>

Ends(how) ==
  /\ status' = how
  /\ UNCHANGED <<kind, hash, table, call, taken, iteration>>

\* Bound: no iteration goes on over a deletion, or begins after one.
GiveUpIteration == iterator' = Idle /\ yielded' = <<>> /\ present' = {} /\ rehashed' = FALSE

\* Set::delete.  size stays.
delete(k) ==
  /\ kind = "Set" /\ status = "ok"
  /\ contains(table, k)
  /\ table' = [table EXCEPT !.contents[Stop(table, k)] = None]
  /\ taken' = TRUE
  /\ call' = <<"remove", k>>
  /\ GiveUpIteration
  /\ UNCHANGED <<kind, hash, status>>

\* panic "Set::delete: key not found"
DeletePanics(k) ==
  /\ kind = "Set" /\ status = "ok"
  /\ Stops(table, k) # {} /\ ~contains(table, k)
  /\ Ends("key not found")

\* No slot stops the probe, which has no other end.
DeleteHangs(k) ==
  /\ kind = "Set" /\ status = "ok"
  /\ table.capacity > 0 /\ Stops(table, k) = {}
  /\ Ends("hangs")

\* key.hash() % 0
DeleteDivides(k) ==
  /\ kind = "Set" /\ status = "ok"
  /\ table.capacity = 0
  /\ Ends("divides by zero")

First(S) == CHOOSE i \in S : \A j \in S : i <= j

pop ==
  /\ kind = "Set" /\ status = "ok"
  /\ table.size > 0
  /\ Occupied(table) # {}
  /\ LET i == First(Occupied(table))
     IN  /\ table' = [table EXCEPT !.contents[i] = None, !.size = @ - 1]
         /\ call' = <<"remove", table.contents[i][1]>>
  /\ taken' = TRUE
  /\ GiveUpIteration
  /\ UNCHANGED <<kind, hash, status>>

\* assert self.size > 0, or panic "Unreachable"
PopPanics ==
  /\ kind = "Set" /\ status = "ok"
  /\ \/ table.size = 0 /\ Ends("assertion")
     \/ table.size > 0 /\ Occupied(table) = {} /\ Ends("Unreachable")

-----------------------------------------------------------------------------
(***************************************************************************)
(* Iteration: ItemIterator, KeyIterator, ValueIterator, SetIterator.       *)
(***************************************************************************)
KeysOf(t) == {t.contents[i][1] : i \in Occupied(t)}

iter ==
  /\ status = "ok" /\ ~taken
  /\ iterator' = [current |-> 0, done |-> FALSE]
  /\ yielded' = <<>>
  /\ present' = KeysOf(table)
  /\ rehashed' = FALSE
  /\ UNCHANGED <<kind, hash, table, status, call, taken>>

\* Mutant of After: the position is not advanced past the entry returned.
AfterNothing(i) == i

After(i) == i + 1

next ==
  /\ status = "ok"
  /\ ~iterator.done
  /\ LET ahead == {i \in Occupied(table) : i >= iterator.current}
     IN  IF ahead = {}
           THEN /\ iterator' = [iterator EXCEPT !.done = TRUE]
                /\ UNCHANGED yielded
           ELSE /\ iterator' = [iterator EXCEPT !.current = After(First(ahead))]
                /\ yielded' = Append(yielded, table.contents[First(ahead)][1])
  /\ UNCHANGED <<kind, hash, table, status, call, taken, present, rehashed>>

-----------------------------------------------------------------------------
Init ==
  /\ kind \in {"Dict", "Set"}
  /\ hash \in Hashes
  /\ table = NewTable(0)
  /\ status = "ok"
  /\ call = <<"new">>
  /\ taken = FALSE
  /\ iterator = Idle
  /\ yielded = <<>>
  /\ present = {}
  /\ rehashed = FALSE

ValuesOf(k) == IF kind = "Dict" THEN Values ELSE {Member}

Next ==
  \/ \E k \in Keys :
       \/ \E v \in ValuesOf(k) : Insert(k, v)
       \/ delete(k) \/ DeletePanics(k) \/ DeleteHangs(k) \/ DeleteDivides(k)
  \/ pop \/ PopPanics
  \/ iter \/ next

Spec == Init /\ [][Next]_vars

-----------------------------------------------------------------------------
(***************************************************************************)
(* Properties.                                                             *)
(***************************************************************************)
\* size may count a key several times, and what was deleted, but never too few.
TypeOK ==
  /\ table.capacity \in Nat /\ DOMAIN table.contents = 0 .. table.capacity - 1
  /\ \A i \in Occupied(table) : table.contents[i] \in Keys \X (Values \cup {Member})
  /\ table.size \in Nat /\ table.size >= Cardinality(Occupied(table))
  /\ iterator.current \in 0 .. table.capacity

(***************************************************************************)
(* Until something is deleted, a table is the map a program takes it for:  *)
(* get and contains, asked for any key, answer as the map does, however    *)
(* keys collide and whenever the table was resized.                        *)
(***************************************************************************)
Map == INSTANCE FiniteMap WITH
  Values <- Values \cup {Member},
  map    <- [k \in {j \in Keys : contains(table, j)} |-> get(table, k)[2]]

ActsAsMap == Map!Init /\ [][taken' \/ Map!Next]_<<Map!vars, taken>>

(***************************************************************************)
(* Every probe that insert begins ends, at the key or at a free slot,      *)
(* also after deletions, which leave size too high but never too low.      *)
(***************************************************************************)
ProbesEnd == \A k \in Keys : Stops(WithRoom(table), k) # {}

(***************************************************************************)
(* An iteration during which nothing is deleted and the table is not       *)
(* resized returns every key that was present when it began, none twice,   *)
(* and no key that is not there, whatever is inserted meanwhile.           *)
(***************************************************************************)
IterationExact ==
  (~rehashed /\ ~taken) =>
    /\ iterator.done => present \subseteq {yielded[i] : i \in DOMAIN yielded}
    /\ \A i \in DOMAIN yielded : contains(table, yielded[i])
    /\ \A i, j \in DOMAIN yielded : yielded[i] = yielded[j] => i = j

(***************************************************************************)
(* Set::delete panics with "key not found" (Set.enc:51) only for a key     *)
(* that is in no slot.                                                     *)
(***************************************************************************)
DeletePanicsOnlyIfAbsent ==
  [][\A k \in Keys : DeletePanics(k) => k \notin KeysOf(table)]_vars
=============================================================================
