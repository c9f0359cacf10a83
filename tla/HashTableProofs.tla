-------------------------- MODULE HashTableProofs --------------------------
(***************************************************************************)
(* Probing and resizing, for every set of keys, every hash function and    *)
(* tables of any size: a table never fills up, so every probe ends, and    *)
(* the insertions that resize makes never resize the table again.          *)
(***************************************************************************)
EXTENDS HashTable, CommonLemmas

(***************************************************************************)
(* Numbers.                                                                *)
(***************************************************************************)

\* A remainder is the only one.
LEMMA ModUnique ==
  ASSUME NEW a \in Int, NEW c \in Nat \ {0}, NEW q \in Int, NEW j \in 0 .. c - 1,
         a = c * q + j
  PROVE  a % c = j
<1> DEFINE p == a \div c
           r == a % c
<1>1. p \in Int /\ r \in 0 .. c - 1 /\ a = c * p + r
  OBVIOUS
<1> HIDE DEF p, r
<1>2. c * (p - q) = j - r
  BY <1>1
<1>3. CASE p - q >= 1
  <2>1. c * (p - q) >= c BY <1>1, <1>3
  <2> QED BY <2>1, <1>1, <1>2
<1>4. CASE p - q <= -1
  <2>1. c * (p - q) <= -c BY <1>1, <1>4
  <2> QED BY <2>1, <1>1, <1>2
<1>5. CASE p - q = 0
  BY <1>1, <1>2, <1>5 DEF r
<1> QED BY <1>1, <1>3, <1>4, <1>5

\* A linear probe comes to every slot, each at one distance.
LEMMA ProbeReaches ==
  ASSUME NEW h \in Nat, NEW c \in Nat \ {0}, NEW j \in 0 .. c - 1
  PROVE  \E d \in 0 .. c - 1 : (h + d) % c = j
<1> DEFINE q == h \div c
           r == h % c
<1>1. q \in Int /\ r \in 0 .. c - 1 /\ h = c * q + r
  OBVIOUS
<1> HIDE DEF q, r
<1>2. CASE j >= r
  <2>1. h + (j - r) = c * q + j BY <1>1
  <2>2. (h + (j - r)) % c = j BY <2>1, <1>1, ModUnique
  <2>3. j - r \in 0 .. c - 1 BY <1>1, <1>2
  <2> QED BY <2>2, <2>3, Zenon
<1>3. CASE j < r
  <2>1. h + (j - r + c) = c * (q + 1) + j BY <1>1
  <2>2. (h + (j - r + c)) % c = j BY <2>1, <1>1, ModUnique
  <2>3. j - r + c \in 0 .. c - 1 BY <1>1, <1>3
  <2> QED BY <2>2, <2>3, Zenon
<1> QED BY <1>1, <1>2, <1>3

\* Different distances lead to different slots.
LEMMA ProbeInjective ==
  ASSUME NEW h \in Nat, NEW c \in Nat \ {0}, NEW d \in 0 .. c - 1, NEW e \in 0 .. c - 1,
         (h + d) % c = (h + e) % c
  PROVE  d = e
<1> DEFINE p == (h + d) \div c
           q == (h + e) \div c
           r == (h + d) % c
<1>1. p \in Int /\ q \in Int /\ r \in Int /\ h + d = c * p + r /\ h + e = c * q + r
  OBVIOUS
<1> HIDE DEF p, q, r
<1>2. c * (p - q) = d - e
  BY <1>1
<1>3. CASE p - q >= 1
  <2>1. c * (p - q) >= c BY <1>1, <1>3
  <2> QED BY <2>1, <1>2
<1>4. CASE p - q <= -1
  <2>1. c * (p - q) <= -c BY <1>1, <1>4
  <2> QED BY <2>1, <1>2
<1>5. CASE p - q = 0
  BY <1>1, <1>2, <1>5
<1> QED BY <1>1, <1>3, <1>4, <1>5

(***************************************************************************)
(* Tables.                                                                 *)
(***************************************************************************)

\* Inserting the entries of a table into a new one satisfies its recursion.
LEMMA ReinsertedDef ==
  ASSUME NEW t, t.capacity \in Nat, NEW c
  PROVE  Reinserted(t, c) =
           [i \in 0 .. t.capacity |->
              IF i = 0 THEN NewTable(c)
              ELSE LET entry == t.contents[i - 1]
                   IN  IF entry = None THEN Reinserted(t, c)[i - 1]
                       ELSE Place(Reinserted(t, c)[i - 1], entry[1], entry[2])]
<1> DEFINE Step(u, n) == IF t.contents[n] = None THEN u
                         ELSE Place(u, t.contents[n][1], t.contents[n][2])
           Upto(f, m) == f = [i \in 0 .. m |-> IF i = 0 THEN NewTable(c) ELSE Step(f[i - 1], i - 1)]
           Bad == {n \in 0 .. t.capacity : ~ \E f : Upto(f, n)}
<1>1. Bad = {}
  <2> SUFFICES ASSUME Bad # {} PROVE FALSE OBVIOUS
  <2>1. PICK m \in Bad : \A n \in Bad : m <= n
    <3>1. Bad \in SUBSET Nat OBVIOUS
    <3> HIDE DEF Bad
    <3> QED BY <3>1, Least
  <2> HIDE DEF Step
  <2>2. CASE m = 0
    <3>1. Upto([i \in 0 .. 0 |-> NewTable(c)], 0) OBVIOUS
    <3> QED BY <3>1, <2>1, <2>2
  <2>3. CASE m # 0
    <3>1. PICK f : Upto(f, m - 1)
      <4> HIDE DEF Upto
      <4>1. m - 1 \in 0 .. t.capacity /\ ~(m <= m - 1) BY <2>1, <2>3
      <4>2. m - 1 \notin Bad BY <2>1, <4>1
      <4> QED BY <4>1, <4>2
    <3> DEFINE g == [i \in 0 .. m |-> IF i = m THEN Step(f[m - 1], m - 1) ELSE f[i]]
    <3>2. ASSUME NEW i \in 0 .. m PROVE g[i] = IF i = 0 THEN NewTable(c) ELSE Step(g[i - 1], i - 1)
      BY <3>1, <2>1, <2>3
    <3>3. Upto(g, m) BY <3>2
    <3> QED BY <3>3, <2>1
  <2> QED BY <2>2, <2>3
<1>2. \E f : Upto(f, t.capacity)
  <2> HIDE DEF Upto
  <2>1. t.capacity \in 0 .. t.capacity OBVIOUS
  <2> QED BY <1>1, <2>1
<1>3. Reinserted(t, c) = CHOOSE f : Upto(f, t.capacity)
  BY DEF Reinserted
<1> QED BY <1>2, <1>3

\* The type of a table.
IsTable(t) ==
  /\ t = [contents |-> t.contents, size |-> t.size, capacity |-> t.capacity]
  /\ t.capacity \in Nat
  /\ t.contents \in [0 .. t.capacity - 1 -> {None} \cup (Keys \X (Values \cup {Member}))]
  /\ t.size \in Nat

\* The count of entries is not too low.
Counted(t) == Cardinality(Occupied(t)) <= t.size

\* The occupied slots of a table are finitely many and hold entries.
LEMMA OccupiedFacts ==
  ASSUME NEW t, IsTable(t)
  PROVE  /\ Occupied(t) \subseteq 0 .. t.capacity - 1
         /\ IsFiniteSet(Occupied(t))
         /\ Cardinality(Occupied(t)) \in Nat
         /\ \A i \in Occupied(t) : t.contents[i] \in Keys \X (Values \cup {Member})
<1>1. /\ Occupied(t) \subseteq 0 .. t.capacity - 1
      /\ \A i \in Occupied(t) : t.contents[i] \in Keys \X (Values \cup {Member})
  BY DEF IsTable, Occupied
<1>2. IsFiniteSet(0 .. t.capacity - 1)
  <2>1. t.capacity - 1 \in Int BY DEF IsTable
  <2> QED BY <2>1, FS_Interval
<1>3. IsFiniteSet(Occupied(t))
  BY <1>1, <1>2, FS_Subset
<1> QED BY <1>1, <1>3, FS_CardinalityType

\* A probe ends as long as a slot is free.
LEMMA ProbeStops ==
  ASSUME NEW t, IsTable(t), NEW k, hash[k] \in Nat,
         Cardinality(Occupied(t)) < t.capacity
  PROVE  Stops(t, k) # {}
<1>1. PICK j \in 0 .. t.capacity - 1 : t.contents[j] = None
  <2> SUFFICES ASSUME \A j \in 0 .. t.capacity - 1 : t.contents[j] # None PROVE FALSE
    OBVIOUS
  <2>1. Occupied(t) = 0 .. t.capacity - 1 BY DEF Occupied, IsTable
  <2>2. Cardinality(0 .. t.capacity - 1) = t.capacity
    <3>1. t.capacity \in Nat /\ t.capacity - 1 \in Int BY DEF IsTable
    <3> DEFINE b == t.capacity - 1
    <3>2. b \in Int /\ t.capacity = b + 1 /\ ~(0 > b + 1) BY <3>1
    <3> HIDE DEF b
    <3>3. Cardinality(0 .. b) = IF 0 > b THEN 0 ELSE b - 0 + 1 BY <3>2, FS_Interval
    <3>4. Cardinality(0 .. b) = b + 1 BY <3>2, <3>3
    <3> QED BY <3>2, <3>4 DEF b
  <2> QED BY <2>1, <2>2 DEF IsTable
<1>2. t.capacity \in Nat \ {0} BY <1>1 DEF IsTable
<1>3. PICK d \in 0 .. t.capacity - 1 : (hash[k] + d) % t.capacity = j
  BY <1>2, ProbeReaches
<1>4. t.contents[Slot(t, k, d)] = None BY <1>1, <1>3 DEF Slot
<1> QED BY <1>3, <1>4 DEF Stops

\* Where a probe stops: at its least distance.
LEMMA StopFacts ==
  ASSUME NEW t, IsTable(t), NEW k, Stops(t, k) # {}
  PROVE  \E d \in Stops(t, k) : Stop(t, k) = Slot(t, k, d) /\ \A e \in Stops(t, k) : d <= e
<1>1. Stops(t, k) \in SUBSET Nat BY DEF Stops, IsTable
<1>2. \E d \in Stops(t, k) : \A e \in Stops(t, k) : d <= e
  BY <1>1, Least
<1> QED BY <1>2 DEF Stop

\* What placing an entry changes.
LEMMA PlaceContents ==
  ASSUME NEW t, IsTable(t), NEW k, NEW v
  PROVE  LET u == Place(t, k, v)
         IN  /\ u.contents = [t.contents EXCEPT ![Stop(t, k)] = <<k, v>>]
             /\ u.capacity = t.capacity /\ u.size = t.size + 1
             /\ u = [contents |-> u.contents, size |-> u.size, capacity |-> u.capacity]
<1> DEFINE u == Place(t, k, v)
           f == t.contents
           n == t.size
           c == t.capacity
<1>1. t = [contents |-> f, size |-> n, capacity |-> c] BY DEF IsTable
<1> HIDE DEF f, n, c
<1>2. u = [[contents |-> f, size |-> n, capacity |-> c] EXCEPT
             !.contents[Stop(t, k)] = <<k, v>>, !.size = @ + 1]
  BY <1>1, Zenon DEF Place
<1>3. u = [contents |-> [f EXCEPT ![Stop(t, k)] = <<k, v>>], size |-> n + 1, capacity |-> c]
  BY <1>2
<1> HIDE DEF u
<1>4. /\ u.contents = [t.contents EXCEPT ![Stop(t, k)] = <<k, v>>]
      /\ u.capacity = t.capacity /\ u.size = t.size + 1
      /\ u = [contents |-> u.contents, size |-> u.size, capacity |-> u.capacity]
  BY <1>3 DEF f, n, c
<1> QED BY <1>4 DEF u

\* A table with an entry more is a table, and its count is not too low.
LEMMA PlaceTable ==
  ASSUME NEW t, IsTable(t), NEW k \in Keys, NEW v \in Values \cup {Member}
  PROVE  /\ IsTable(Place(t, k, v))
         /\ Place(t, k, v).capacity = t.capacity
         /\ Place(t, k, v).size = t.size + 1
         /\ Counted(t) => Counted(Place(t, k, v))
<1> DEFINE u == Place(t, k, v)
<1>1. /\ u.contents = [t.contents EXCEPT ![Stop(t, k)] = <<k, v>>]
      /\ u.capacity = t.capacity /\ u.size = t.size + 1
      /\ u = [contents |-> u.contents, size |-> u.size, capacity |-> u.capacity]
  BY PlaceContents
<1> HIDE DEF u
<1>2. IsTable(u)
  <2>1. <<k, v>> \in Keys \X (Values \cup {Member}) OBVIOUS
  <2> DEFINE Content == {None} \cup (Keys \X (Values \cup {Member}))
  <2>2. t.contents \in [0 .. t.capacity - 1 -> Content] /\ <<k, v>> \in Content
    BY <2>1 DEF IsTable
  <2> HIDE DEF Content
  <2>3. u.contents \in [0 .. u.capacity - 1 -> Content] BY <1>1, <2>2
  <2> QED BY <1>1, <2>3 DEF IsTable, Content
<1>3. Occupied(u) \subseteq Occupied(t) \cup {Stop(t, k)}
  BY <1>1 DEF Occupied, IsTable
<1>4. Cardinality(Occupied(u)) <= Cardinality(Occupied(t)) + 1
  <2>1. /\ IsFiniteSet(Occupied(t) \cup {Stop(t, k)})
        /\ Cardinality(Occupied(t) \cup {Stop(t, k)}) <= Cardinality(Occupied(t)) + 1
        /\ Cardinality(Occupied(t) \cup {Stop(t, k)}) \in Nat
    BY OccupiedFacts, FS_AddElement, FS_CardinalityType
  <2>2. Cardinality(Occupied(u)) <= Cardinality(Occupied(t) \cup {Stop(t, k)})
    BY <2>1, <1>3, FS_Subset
  <2> QED BY <2>1, <2>2, <1>2, OccupiedFacts
<1>5. Counted(t) => Counted(u)
  <2>1. Cardinality(Occupied(t)) \in Nat /\ Cardinality(Occupied(u)) \in Nat /\ t.size \in Nat
    BY <1>2, OccupiedFacts DEF IsTable
  <2> QED BY <1>1, <1>4, <2>1 DEF Counted
<1> QED BY <1>1, <1>2, <1>5 DEF u

\* A new table is empty.
LEMMA NewTableFacts ==
  ASSUME NEW c \in Nat
  PROVE  /\ IsTable(NewTable(c)) /\ Counted(NewTable(c))
         /\ NewTable(c).capacity = c /\ NewTable(c).size = 0
         /\ Occupied(NewTable(c)) = {}
<1>1. IsTable(NewTable(c)) /\ NewTable(c).capacity = c /\ NewTable(c).size = 0
  BY DEF IsTable, NewTable
<1>2. Occupied(NewTable(c)) = {}
  BY DEF Occupied, NewTable
<1> QED BY <1>1, <1>2, FS_EmptySet DEF Counted

-----------------------------------------------------------------------------
\* The occupied slots before the i-th.
Before(t, i) == {j \in Occupied(t) : j < i}

\* Their number grows by one with each occupied slot.
LEMMA BeforeFacts ==
  ASSUME NEW t, IsTable(t), NEW i \in 0 .. t.capacity
  PROVE  /\ Cardinality(Before(t, i)) \in Nat
         /\ Cardinality(Before(t, i)) <= Cardinality(Occupied(t))
         /\ i < t.capacity =>
              Cardinality(Before(t, i + 1)) =
                Cardinality(Before(t, i)) + (IF t.contents[i] = None THEN 0 ELSE 1)
<1>1. /\ IsFiniteSet(Before(t, i)) /\ Cardinality(Before(t, i)) \in Nat
      /\ Cardinality(Before(t, i)) <= Cardinality(Occupied(t))
  BY OccupiedFacts, FS_Subset, FS_CardinalityType DEF Before
<1>2. ASSUME i < t.capacity, t.contents[i] = None PROVE Before(t, i + 1) = Before(t, i)
  BY <1>2, OccupiedFacts DEF Before, Occupied, IsTable
<1>3. ASSUME i < t.capacity, t.contents[i] # None
      PROVE  Before(t, i + 1) = Before(t, i) \cup {i} /\ i \notin Before(t, i)
  BY <1>3, OccupiedFacts DEF Before, Occupied, IsTable
<1>4. ASSUME i < t.capacity, t.contents[i] # None
      PROVE  Cardinality(Before(t, i + 1)) = Cardinality(Before(t, i)) + 1
  BY <1>1, <1>3, <1>4, FS_AddElement
<1> QED BY <1>1, <1>2, <1>4

\* After i slots each entry met was counted once.
ReinsertedInv(t, c, i) ==
  LET u == Reinserted(t, c)[i]
  IN  /\ IsTable(u) /\ Counted(u)
      /\ u.capacity = c
      /\ u.size = Cardinality(Before(t, i))

\* By induction on i.
LEMMA ReinsertedTables ==
  ASSUME NEW t, IsTable(t), NEW c \in Nat
  PROVE  \A i \in 0 .. t.capacity : ReinsertedInv(t, c, i)
<1> DEFINE Bad == {i \in 0 .. t.capacity : ~ReinsertedInv(t, c, i)}
<1> SUFFICES ASSUME Bad # {} PROVE FALSE OBVIOUS
<1>1. PICK m \in Bad : \A n \in Bad : m <= n
  <2>1. Bad \in SUBSET Nat OBVIOUS
  <2> HIDE DEF Bad
  <2> QED BY <2>1, Least
<1>2. m \in 0 .. t.capacity /\ ~ReinsertedInv(t, c, m) /\ t.capacity \in Nat
  BY DEF IsTable
<1>3. CASE m = 0
  <2>1. Reinserted(t, c)[0] = NewTable(c) BY <1>2, ReinsertedDef
  <2>2. Before(t, 0) = {} BY OccupiedFacts DEF Before
  <2> QED BY <1>2, <1>3, <2>1, <2>2, NewTableFacts, FS_EmptySet DEF ReinsertedInv
<1>4. CASE m # 0
  <2> DEFINE i == m - 1
             u == Reinserted(t, c)[i]
  <2>1. i \in 0 .. t.capacity - 1 /\ m = i + 1 /\ i \in 0 .. t.capacity /\ ~(m <= i)
    BY <1>2, <1>4
  <2>2. ReinsertedInv(t, c, i)
    <3>1. i \notin Bad BY <1>1, <2>1
    <3> QED BY <3>1, <2>1
  <2>3. Reinserted(t, c)[m] = IF t.contents[i] = None THEN u
                              ELSE Place(u, t.contents[i][1], t.contents[i][2])
    BY <1>2, <1>4, ReinsertedDef
  <2>4. Cardinality(Before(t, m)) =
          Cardinality(Before(t, i)) + (IF t.contents[i] = None THEN 0 ELSE 1)
    <3> HIDE DEF i
    <3>1. m = i + 1 /\ i < t.capacity BY <2>1, <1>2
    <3> QED BY <2>1, <3>1, BeforeFacts
  <2>5. IsTable(u) /\ Counted(u) /\ u.capacity = c /\ u.size = Cardinality(Before(t, i))
    BY <2>2 DEF ReinsertedInv
  <2>6. Cardinality(Before(t, i)) \in Nat BY <2>1, BeforeFacts
  <2>7. CASE t.contents[i] = None
    BY <2>3, <2>4, <2>5, <2>6, <2>7, <1>2 DEF ReinsertedInv
  <2>8. CASE t.contents[i] # None
    <3>1. t.contents[i][1] \in Keys /\ t.contents[i][2] \in Values \cup {Member}
      BY <2>1, <2>8 DEF IsTable
    <3> HIDE DEF u, i
    <3> DEFINE w == Place(u, t.contents[i][1], t.contents[i][2])
    <3>2. IsTable(w) /\ Counted(w) /\ w.capacity = u.capacity /\ w.size = u.size + 1
      BY <2>5, <3>1, PlaceTable
    <3>3. Reinserted(t, c)[m] = w BY <2>3, <2>8
    <3> HIDE DEF w
    <3> QED BY <3>2, <3>3, <2>4, <2>5, <2>8, <1>2 DEF ReinsertedInv
  <2> QED BY <2>7, <2>8
<1> QED BY <1>3, <1>4

\* A resized table has the capacity asked for and counts what it holds.
LEMMA ResizeTable ==
  ASSUME NEW t, IsTable(t), NEW c \in Nat
  PROVE  /\ IsTable(resize(t, c)) /\ Counted(resize(t, c))
         /\ resize(t, c).capacity = c
         /\ resize(t, c).size = Cardinality(Occupied(t))
<1>1. t.capacity \in Nat /\ t.capacity \in 0 .. t.capacity BY DEF IsTable
<1>2. ReinsertedInv(t, c, t.capacity) BY <1>1, ReinsertedTables
<1>3. Before(t, t.capacity) = Occupied(t) BY <1>1, OccupiedFacts DEF Before
<1> QED BY <1>2, <1>3 DEF ReinsertedInv, resize

\* After the load test a slot is free, and no slot was lost.
LEMMA WithRoomTable ==
  ASSUME NEW t, IsTable(t), Counted(t)
  PROVE  LET u == WithRoom(t)
         IN  /\ IsTable(u) /\ Counted(u)
             /\ t.capacity <= u.capacity
             /\ Cardinality(Occupied(u)) < u.capacity
<1>1. /\ t.size \in Nat /\ t.capacity \in Nat
      /\ Cardinality(Occupied(t)) \in Nat /\ Cardinality(Occupied(t)) <= t.size
  BY OccupiedFacts DEF IsTable, Counted
<1>2. CASE ~IsFull(t)
  BY <1>1, <1>2 DEF WithRoom, IsFull
<1>3. CASE IsFull(t)
  <2> DEFINE c == IF t.size = 0 THEN 1 ELSE 3 * t.size
  <2>1. c \in Nat /\ t.capacity <= c /\ t.size < c BY <1>1, <1>3 DEF IsFull
  <2>2. WithRoom(t) = resize(t, c) BY <1>3 DEF WithRoom
  <2> HIDE DEF c
  <2>3. /\ IsTable(resize(t, c)) /\ Counted(resize(t, c))
        /\ resize(t, c).capacity = c /\ resize(t, c).size = Cardinality(Occupied(t))
    BY <2>1, ResizeTable
  <2>4. Cardinality(Occupied(resize(t, c))) \in Nat BY <2>3, OccupiedFacts
  <2>5. Cardinality(Occupied(resize(t, c))) < c BY <1>1, <2>1, <2>3, <2>4 DEF Counted
  <2> QED BY <2>1, <2>2, <2>3, <2>5
<1> QED BY <1>2, <1>3

-----------------------------------------------------------------------------
(***************************************************************************)
(* The inductive invariant: the table is one, size is not too low, and an  *)
(* iterator is not past the end.                                           *)
(***************************************************************************)
IInv ==
  /\ hash \in Hashes
  /\ IsTable(table) /\ Counted(table)
  /\ iterator \in [current : Nat, done : BOOLEAN]
  /\ iterator.current <= table.capacity

\* It holds of an empty table.
LEMMA InitInv == Init => IInv
BY NewTableFacts DEF Init, IInv, Idle

\* Insertion, with or without resizing, keeps it.
LEMMA InsertStep ==
  ASSUME IInv, NEW k \in Keys, NEW v \in Values \cup {Member}, Insert(k, v)
  PROVE  IInv'
<1> DEFINE u == WithRoom(table)
<1>1. IsTable(u) /\ Counted(u) /\ table.capacity <= u.capacity
  BY WithRoomTable DEF IInv
<1>2. table' = Place(u, k, v) /\ UNCHANGED <<hash, iterator>>
  BY DEF Insert, insert
<1> HIDE DEF u
<1>3. IsTable(table') /\ Counted(table') /\ table'.capacity = u.capacity
  BY <1>1, <1>2, PlaceTable
<1>4. iterator.current <= table'.capacity
  BY <1>1, <1>3 DEF IInv, IsTable
<1> QED BY <1>2, <1>3, <1>4 DEF IInv

\* A table with one slot emptied is a table.
LEMMA EmptiedTable ==
  ASSUME NEW t, IsTable(t), NEW i \in Occupied(t), NEW n \in Nat,
         NEW u, u = [contents |-> [t.contents EXCEPT ![i] = None], size |-> n,
                     capacity |-> t.capacity],
         Counted(t), n = t.size \/ n = t.size - 1
  PROVE  IsTable(u) /\ Counted(u) /\ u.capacity = t.capacity
<1>1. IsTable(u)
  BY DEF IsTable
<1>2. Occupied(u) = Occupied(t) \ {i}
  BY DEF Occupied, IsTable
<1>3. Cardinality(Occupied(u)) = Cardinality(Occupied(t)) - 1
  BY <1>2, OccupiedFacts, FS_RemoveElement
<1>4. Counted(u)
  BY <1>3, OccupiedFacts DEF Counted, IsTable
<1> QED BY <1>1, <1>4

\* The probe for a key that contains finds ends at it.
LEMMA ContainsFacts ==
  ASSUME NEW t, IsTable(t), NEW k, hash[k] \in Nat, contains(t, k)
  PROVE  /\ Stop(t, k) \in Occupied(t) /\ get(t, k) = t.contents[Stop(t, k)]
         /\ t.contents[Stop(t, k)][1] = k
<1>1. Stops(t, k) # {} BY DEF contains, get
<1>2. PICK d \in Stops(t, k) : Stop(t, k) = Slot(t, k, d) BY <1>1, StopFacts
<1>3. get(t, k) = t.contents[Stop(t, k)] /\ get(t, k) # None BY <1>1 DEF contains, get
<1>4. t.contents[Stop(t, k)][1] = k BY <1>2, <1>3 DEF Stops
<1>5. Stop(t, k) \in 0 .. t.capacity - 1
  <2>1. d \in 0 .. t.capacity - 1 /\ t.capacity \in Nat \ {0} BY <1>2 DEF Stops, IsTable
  <2>2. hash[k] + d \in Nat BY <2>1
  <2>3. (hash[k] + d) % t.capacity \in 0 .. t.capacity - 1 BY <2>1, <2>2
  <2> QED BY <1>2, <2>3 DEF Slot
<1> QED BY <1>3, <1>4, <1>5 DEF Occupied, IsTable

\* Hashes are natural numbers.
LEMMA HashesNat == ASSUME IInv, NEW k \in Keys PROVE hash[k] \in Nat
BY HashTableAssumption DEF IInv

\* Deletion leaves size too high.
LEMMA DeleteStep ==
  ASSUME IInv, NEW k \in Keys, delete(k)
  PROVE  IInv'
<1> DEFINE i == Stop(table, k)
<1>1. i \in Occupied(table)
  BY HashesNat, ContainsFacts DEF IInv, delete
<1>2. table' = [contents |-> [table.contents EXCEPT ![i] = None], size |-> table.size,
                capacity |-> table.capacity]
  BY DEF delete, IInv, IsTable
<1> HIDE DEF i
<1>3. IsTable(table') /\ Counted(table') /\ table'.capacity = table.capacity
  <2>1. table.size \in Nat BY DEF IInv, IsTable
  <2> QED BY <1>1, <1>2, <2>1, EmptiedTable DEF IInv
<1>4. hash' = hash /\ iterator' = Idle
  BY DEF delete, GiveUpIteration
<1> QED BY <1>3, <1>4 DEF IInv, Idle, IsTable

\* First is the least element.
LEMMA FirstFacts ==
  ASSUME NEW S \in SUBSET Nat, S # {}
  PROVE  First(S) \in S /\ \A j \in S : First(S) <= j
BY Least DEF First

\* pop empties one slot and counts one entry less.
LEMMA PopStep ==
  ASSUME IInv, pop
  PROVE  IInv'
<1> DEFINE i == First(Occupied(table))
<1>1. i \in Occupied(table)
  <2>1. Occupied(table) \in SUBSET Nat BY OccupiedFacts DEF IInv, IsTable
  <2> QED BY <2>1, FirstFacts DEF pop
<1>2. table' = [contents |-> [table.contents EXCEPT ![i] = None], size |-> table.size - 1,
                capacity |-> table.capacity]
  BY DEF pop, IInv, IsTable
<1> HIDE DEF i
<1>3. IsTable(table') /\ Counted(table') /\ table'.capacity = table.capacity
  <2>1. table.size - 1 \in Nat BY DEF IInv, IsTable, pop
  <2> QED BY <1>1, <1>2, <2>1, EmptiedTable DEF IInv
<1>4. hash' = hash /\ iterator' = Idle
  BY DEF pop, GiveUpIteration
<1> QED BY <1>3, <1>4 DEF IInv, Idle, IsTable

\* An iterator stops before the end of the table.
LEMMA NextStep ==
  ASSUME IInv, next
  PROVE  IInv'
<1> DEFINE ahead == {i \in Occupied(table) : i >= iterator.current}
<1>1. UNCHANGED <<hash, table>>
  BY DEF next
<1>2. CASE ahead = {}
  BY <1>1, <1>2 DEF next, IInv, IsTable, Counted, Occupied
<1>3. CASE ahead # {}
  <2>1. First(ahead) \in 0 .. table.capacity - 1
    <3>1. ahead \in SUBSET Nat /\ ahead \subseteq 0 .. table.capacity - 1
      BY OccupiedFacts DEF IInv, IsTable
    <3> HIDE DEF ahead
    <3> QED BY <3>1, <1>3, FirstFacts
  <2>2. iterator' = [iterator EXCEPT !.current = First(ahead) + 1]
    BY <1>3 DEF next, After
  <2> HIDE DEF ahead
  <2>3. iterator' \in [current : Nat, done : BOOLEAN] /\ iterator'.current <= table.capacity
    BY <2>1, <2>2 DEF IInv, IsTable
  <2> QED BY <1>1, <2>3 DEF IInv, IsTable, Counted, Occupied
<1> QED BY <1>2, <1>3

\* Every step keeps the invariant.
LEMMA StepInv == IInv /\ [Next]_vars => IInv'
<1> SUFFICES ASSUME IInv, [Next]_vars PROVE IInv'
  OBVIOUS
<1>1. ASSUME UNCHANGED <<hash, table, iterator>> PROVE IInv'
  BY <1>1 DEF IInv, IsTable, Counted, Occupied
<1>2. ASSUME NEW k \in Keys, NEW v \in ValuesOf(k), Insert(k, v) PROVE IInv'
  BY <1>2, InsertStep DEF ValuesOf
<1>3. ASSUME NEW k \in Keys, delete(k) PROVE IInv'
  BY <1>3, DeleteStep
<1>4. ASSUME NEW k \in Keys, DeletePanics(k) \/ DeleteHangs(k) \/ DeleteDivides(k) PROVE IInv'
  BY <1>1, <1>4 DEF DeletePanics, DeleteHangs, DeleteDivides, Ends, iteration
<1>5. CASE pop
  BY <1>5, PopStep
<1>6. CASE PopPanics
  BY <1>1, <1>6 DEF PopPanics, Ends, iteration
<1>7. CASE iter
  BY <1>7 DEF iter, IInv, IsTable, Counted, Occupied
<1>8. CASE next
  BY <1>8, NextStep
<1>9. CASE UNCHANGED vars
  BY <1>1, <1>9 DEF vars, iteration
<1> QED BY <1>2, <1>3, <1>4, <1>5, <1>6, <1>7, <1>8, <1>9 DEF Next

\* The table's invariant holds in every reachable state.
THEOREM Invariance == Spec => []IInv
BY InitInv, StepInv, PTL DEF Spec

\* Slots hold entries or nothing, and size (Dict.enc:35, Set.enc:36) is never
\* less than the number of entries.
THEOREM TypeCorrect == Spec => []TypeOK
<1>1. IInv => TypeOK
  BY OccupiedFacts DEF IInv, TypeOK, IsTable, Counted
<1> QED BY <1>1, Invariance, PTL

\* The probe of any insertion ends, whatever was deleted before: the load test
\* (Dict.enc:12, Set.enc:15) always leaves a free slot.
THEOREM ProbesAlwaysEnd == Spec => []ProbesEnd
<1>1. IInv => ProbesEnd
  <2> SUFFICES ASSUME IInv, NEW k \in Keys PROVE Stops(WithRoom(table), k) # {}
    BY DEF ProbesEnd
  <2> QED BY HashesNat, WithRoomTable, ProbeStops DEF IInv
<1> QED BY <1>1, Invariance, PTL

\* None of the insertions that resize makes (Dict.enc:81, Set.enc:101) finds the
\* new table full.
ResizeKeepsRoom ==
  IsFull(table) =>
    \A i \in Occupied(table) :
      ~IsFull(Reinserted(table, IF table.size = 0 THEN 1 ELSE 3 * table.size)[i])

\* resize never calls itself through insert.
THEOREM ResizeNeverNests == Spec => []ResizeKeepsRoom
<1>1. IInv => ResizeKeepsRoom
  <2> DEFINE c == IF table.size = 0 THEN 1 ELSE 3 * table.size
  <2> SUFFICES ASSUME IInv, NEW i \in Occupied(table) PROVE ~IsFull(Reinserted(table, c)[i])
    BY DEF ResizeKeepsRoom
  <2>1. /\ IsTable(table) /\ table.size \in Nat /\ c \in Nat
        /\ Cardinality(Occupied(table)) \in Nat /\ Cardinality(Occupied(table)) <= table.size
    BY OccupiedFacts DEF IInv, Counted, IsTable
  <2>2. i \in 0 .. table.capacity /\ i + 1 \in 0 .. table.capacity /\ i < table.capacity
        /\ table.contents[i] # None
    BY <2>1, OccupiedFacts DEF IsTable, Occupied
  <2>3. /\ Cardinality(Before(table, i)) \in Nat
        /\ Cardinality(Before(table, i + 1)) = Cardinality(Before(table, i)) + 1
        /\ Cardinality(Before(table, i + 1)) <= Cardinality(Occupied(table))
    BY <2>1, <2>2, BeforeFacts
  <2>4. c = 3 * table.size /\ Cardinality(Before(table, i)) < table.size
    BY <2>1, <2>3
  <2> HIDE DEF c
  <2>5. ReinsertedInv(table, c, i)
    BY <2>1, <2>2, ReinsertedTables
  <2> QED BY <2>1, <2>3, <2>4, <2>5 DEF ReinsertedInv, IsFull
<1> QED BY <1>1, Invariance, PTL

-----------------------------------------------------------------------------
(***************************************************************************)
(* A table as a map: until something is deleted every entry lies where the *)
(* probe for its key ends, so lookups and iterations find it.              *)
(***************************************************************************)
\* Every entry is where the probe for its key ends.
Home(t) ==
  \A i \in Occupied(t) :
    Stops(t, t.contents[i][1]) # {} /\ Stop(t, t.contents[i][1]) = i

\* A probe stops at the least distance there is.
LEMMA StopIs ==
  ASSUME NEW t, IsTable(t), NEW k, NEW d \in Stops(t, k), \A e \in Stops(t, k) : d <= e
  PROVE  Stop(t, k) = Slot(t, k, d)
<1>1. Stops(t, k) \in SUBSET Nat BY DEF Stops, IsTable
<1>2. ASSUME NEW c \in Stops(t, k), \A e \in Stops(t, k) : c <= e PROVE c = d
  BY <1>1, <1>2
<1>3. d = CHOOSE c \in Stops(t, k) : \A e \in Stops(t, k) : c <= e
  BY <1>2
<1> QED BY <1>3 DEF Stop

\* The slots of a probe are slots of the table, all different.
LEMMA SlotFacts ==
  ASSUME NEW t, IsTable(t), NEW k, hash[k] \in Nat, NEW d \in 0 .. t.capacity - 1
  PROVE  /\ Slot(t, k, d) \in 0 .. t.capacity - 1
         /\ \A e \in 0 .. t.capacity - 1 : Slot(t, k, e) = Slot(t, k, d) => e = d
<1>1. t.capacity \in Nat \ {0} BY DEF IsTable
<1>2. Slot(t, k, d) \in 0 .. t.capacity - 1
  <2>1. hash[k] + d \in Nat BY <1>1
  <2>2. (hash[k] + d) % t.capacity \in 0 .. t.capacity - 1 BY <2>1, <1>1
  <2> QED BY <2>2 DEF Slot
<1> QED BY <1>1, <1>2, ProbeInjective DEF Slot

\* A lookup finds an entry if and only if there is one.
LEMMA GetFacts ==
  ASSUME NEW t, IsTable(t), Home(t), NEW k, hash[k] \in Nat
  PROVE  /\ \A i \in Occupied(t) : t.contents[i][1] = k => get(t, k) = t.contents[i]
         /\ get(t, k) # None =>
              \E i \in Occupied(t) : t.contents[i][1] = k /\ get(t, k) = t.contents[i]
<1>1. ASSUME NEW i \in Occupied(t), t.contents[i][1] = k PROVE get(t, k) = t.contents[i]
  BY <1>1 DEF Home, get
<1> QED BY <1>1, ContainsFacts DEF contains

\* Placing an entry moves no other, and changes no other lookup.
LEMMA PlaceHome ==
  ASSUME NEW t, IsTable(t), Home(t), NEW k \in Keys, NEW v \in Values \cup {Member},
         \A j \in Keys : hash[j] \in Nat, Stops(t, k) # {}
  PROVE  LET u == Place(t, k, v)
         IN  /\ Home(u)
             /\ Occupied(t) \subseteq Occupied(u)
             /\ \A i \in Occupied(t) : u.contents[i][1] = t.contents[i][1]
             /\ \A i \in Occupied(u) : 
                   \/ u.contents[i] = <<k, v>>
                   \/ i \in Occupied(t) /\ u.contents[i] = t.contents[i]
             /\ get(u, k) = <<k, v>>
             /\ \A j \in Keys \ {k} : get(u, j) = get(t, j)
<1> DEFINE u == Place(t, k, v)
           s == Stop(t, k)
<1>1. IsTable(u) /\ u.capacity = t.capacity
  BY PlaceTable
<1>2. PICK d \in Stops(t, k) : s = Slot(t, k, d) /\ \A e \in Stops(t, k) : d <= e
  BY StopFacts
<1>3. d \in 0 .. t.capacity - 1 /\ (t.contents[s] = None \/ t.contents[s][1] = k)
  BY <1>2 DEF Stops
<1>4. s \in 0 .. t.capacity - 1
  BY <1>2, <1>3, SlotFacts
<1>5. u.contents = [t.contents EXCEPT ![s] = <<k, v>>]
  BY PlaceContents
<1>6. /\ u.contents[s] = <<k, v>>
      /\ \A i \in 0 .. t.capacity - 1 : i # s => u.contents[i] = t.contents[i]
  BY <1>4, <1>5 DEF IsTable
<1>7. <<k, v>> # None /\ <<k, v>>[1] = k
  BY DEF None
<1> HIDE DEF u, s
<1>8. Occupied(u) = Occupied(t) \cup {s}
  BY <1>1, <1>4, <1>6, <1>7 DEF Occupied, IsTable
<1>9. \A j, e : Slot(u, j, e) = Slot(t, j, e)
  BY <1>1 DEF Slot
<1>10. Stops(u, k) # {} /\ Stop(u, k) = s
  <2>1. d \in Stops(u, k)
    BY <1>1, <1>2, <1>3, <1>6, <1>7, <1>9 DEF Stops
  <2>2. ASSUME NEW e \in Stops(u, k), ~(d <= e) PROVE FALSE
    <3>1. e \in 0 .. t.capacity - 1 /\ e # d BY <2>2, <1>1, <1>3 DEF Stops
    <3>2. Slot(t, k, e) # s /\ Slot(t, k, e) \in 0 .. t.capacity - 1
      BY <3>1, <1>2, <1>3, SlotFacts
    <3>3. u.contents[Slot(u, k, e)] = t.contents[Slot(t, k, e)] BY <3>2, <1>6, <1>9
    <3>4. e \in Stops(t, k) BY <2>2, <3>1, <3>3 DEF Stops
    <3> QED BY <3>4, <2>2, <1>2
  <2>3. Stop(u, k) = Slot(u, k, d)
    BY <2>1, <2>2, <1>1, StopIs
  <2> QED BY <2>1, <2>3, <1>2, <1>9
<1>11. ASSUME NEW i \in Occupied(t), i # s
       PROVE  /\ t.contents[i][1] # k
              /\ Stops(u, t.contents[i][1]) # {} /\ Stop(u, t.contents[i][1]) = i
  <2> DEFINE j == t.contents[i][1]
  <2>1. j \in Keys /\ i \in 0 .. t.capacity - 1 /\ t.contents[i] # None
    <3>1. i \in 0 .. t.capacity - 1 /\ t.contents[i] \in Keys \X (Values \cup {Member})
      BY OccupiedFacts
    <3> QED BY <3>1 DEF Occupied
  <2>2. Stops(t, j) # {} /\ Stop(t, j) = i BY DEF Home
  <2>3. j # k BY <2>2, <1>11 DEF s
  <2>4. PICK c \in Stops(t, j) : i = Slot(t, j, c) /\ \A e \in Stops(t, j) : c <= e
    BY <2>2, StopFacts
  <2>5. u.contents[i] = t.contents[i] BY <2>1, <1>6, <1>11
  <2>6. c \in Stops(u, j)
    BY <2>4, <2>5, <1>1, <1>9 DEF Stops
  <2> HIDE DEF j
  <2>7. ASSUME NEW e \in Stops(u, j), ~(c <= e) PROVE FALSE
    <3>1. e \in 0 .. t.capacity - 1 BY <1>1 DEF Stops
    <3>2. Slot(t, j, e) \in 0 .. t.capacity - 1 BY <3>1, <2>1, SlotFacts
    <3>3. Slot(t, j, e) # s
      BY <1>6, <1>7, <1>9, <2>3 DEF Stops
    <3>4. u.contents[Slot(u, j, e)] = t.contents[Slot(t, j, e)] BY <3>2, <3>3, <1>6, <1>9
    <3>5. e \in Stops(t, j) BY <3>1, <3>4 DEF Stops
    <3> QED BY <3>5, <2>4, <2>7
  <2>8. Stop(u, j) = i
    BY <2>4, <2>6, <2>7, <1>1, <1>9, StopIs
  <2> QED BY <2>3, <2>6, <2>8 DEF j
<1>12. Home(u)
  <2> SUFFICES ASSUME NEW i \in Occupied(u)
               PROVE  Stops(u, u.contents[i][1]) # {} /\ Stop(u, u.contents[i][1]) = i
    BY DEF Home
  <2>1. CASE i = s BY <2>1, <1>6, <1>7, <1>10
  <2>2. CASE i # s
    <3>1. i \in Occupied(t) /\ u.contents[i] = t.contents[i]
      BY <2>2, <1>6, <1>8, OccupiedFacts
    <3> QED BY <3>1, <2>2, <1>11
  <2> QED BY <2>1, <2>2
<1>13. \A i \in Occupied(t) : u.contents[i][1] = t.contents[i][1]
  BY <1>3, <1>6, <1>7, OccupiedFacts DEF Occupied
<1>14. ASSUME NEW i \in Occupied(u)
       PROVE  \/ u.contents[i] = <<k, v>>
              \/ i \in Occupied(t) /\ u.contents[i] = t.contents[i]
  <2>1. CASE i = s BY <2>1, <1>6
  <2>2. CASE i # s
    <3>1. i \in Occupied(t) BY <2>2, <1>8
    <3>2. i \in 0 .. t.capacity - 1 BY <3>1, OccupiedFacts
    <3> QED BY <3>1, <3>2, <2>2, <1>6
  <2> QED BY <2>1, <2>2
<1>15. get(u, k) = <<k, v>>
  BY <1>6, <1>10 DEF get
<1>16. ASSUME NEW j \in Keys \ {k} PROVE get(u, j) = get(t, j)
  <2>1. CASE \E i \in Occupied(t) : t.contents[i][1] = j
    <3>1. PICK i \in Occupied(t) : t.contents[i][1] = j BY <2>1
    <3>2. i # s BY <3>1, <1>3, <1>16 DEF Occupied
    <3>3. i \in Occupied(u) /\ u.contents[i] = t.contents[i] BY <3>2, <1>6, <1>8, OccupiedFacts
    <3> QED BY <3>1, <3>3, <1>1, <1>12, GetFacts
  <2>2. CASE ~ \E i \in Occupied(t) : t.contents[i][1] = j
    <3>1. get(t, j) = None BY <2>2, GetFacts
    <3>2. ~ \E i \in Occupied(u) : u.contents[i][1] = j
      BY <2>2, <1>7, <1>14, <1>16
    <3>3. get(u, j) = None BY <3>2, <1>1, <1>12, GetFacts
    <3> QED BY <3>1, <3>3
  <2> QED BY <2>1, <2>2
<1> QED BY <1>8, <1>12, <1>13, <1>14, <1>15, <1>16 DEF u

\* One of the first i slots holds the key j.
Present(t, i, j) == \E m \in Before(t, i) : t.contents[m][1] = j

\* After i slots the new table answers as the old one for the keys in them.
ReinsertedMap(t, c, i) ==
  LET u == Reinserted(t, c)[i]
  IN  Home(u) /\ \A j \in Keys : get(u, j) = IF Present(t, i, j) THEN get(t, j) ELSE None

\* By induction on i.
LEMMA ReinsertedMaps ==
  ASSUME NEW t, IsTable(t), Home(t), NEW c \in Nat, Cardinality(Occupied(t)) < c,
         \A j \in Keys : hash[j] \in Nat
  PROVE  \A i \in 0 .. t.capacity : ReinsertedMap(t, c, i)
<1> DEFINE Bad == {i \in 0 .. t.capacity : ~ReinsertedMap(t, c, i)}
<1> SUFFICES ASSUME Bad # {} PROVE FALSE OBVIOUS
<1>1. PICK m \in Bad : \A n \in Bad : m <= n
  <2>1. Bad \in SUBSET Nat OBVIOUS
  <2> HIDE DEF Bad
  <2> QED BY <2>1, Least
<1>2. m \in 0 .. t.capacity /\ ~ReinsertedMap(t, c, m) /\ t.capacity \in Nat
  BY DEF IsTable
<1>3. CASE m = 0
  <2>1. Reinserted(t, c)[0] = NewTable(c) BY <1>2, ReinsertedDef
  <2>2. Before(t, 0) = {} BY OccupiedFacts DEF Before
  <2>3. IsTable(NewTable(c)) /\ Occupied(NewTable(c)) = {} BY NewTableFacts
  <2>4. Home(NewTable(c)) BY <2>3 DEF Home
  <2>5. \A j \in Keys : get(NewTable(c), j) = None BY <2>3, <2>4, GetFacts
  <2> QED BY <1>2, <1>3, <2>1, <2>2, <2>4, <2>5 DEF ReinsertedMap, Present
<1>4. CASE m # 0
  <2> DEFINE i == m - 1
             u == Reinserted(t, c)[i]
  <2>1. i \in 0 .. t.capacity - 1 /\ m = i + 1 /\ i \in 0 .. t.capacity /\ ~(m <= i)
    BY <1>2, <1>4
  <2>2. ReinsertedMap(t, c, i)
    <3>1. i \notin Bad BY <1>1, <2>1
    <3> QED BY <3>1, <2>1
  <2>3. Reinserted(t, c)[m] = IF t.contents[i] = None THEN u
                              ELSE Place(u, t.contents[i][1], t.contents[i][2])
    BY <1>2, <1>4, ReinsertedDef
  <2>4. Home(u) /\ \A j \in Keys : get(u, j) = IF Present(t, i, j) THEN get(t, j) ELSE None
    BY <2>2 DEF ReinsertedMap
  <2>5. IsTable(u) /\ u.capacity = c /\ Counted(u) /\ u.size = Cardinality(Before(t, i))
    BY <2>1, ReinsertedTables DEF ReinsertedInv
  <2> HIDE DEF u, i
  <2>6. \A j : Present(t, m, j) <=> (Present(t, i, j) \/ (t.contents[i] # None /\ t.contents[i][1] = j))
    BY <2>1, OccupiedFacts DEF Present, Before, Occupied, IsTable
  <2>7. CASE t.contents[i] = None
    <3>1. Reinserted(t, c)[m] = u BY <2>3, <2>7
    <3>2. \A j : Present(t, m, j) <=> Present(t, i, j) BY <2>6, <2>7
    <3> QED BY <3>1, <3>2, <2>4, <1>2 DEF ReinsertedMap
  <2>8. CASE t.contents[i] # None
    <3> DEFINE k == t.contents[i][1]
               v == t.contents[i][2]
               w == Place(u, k, v)
    <3>1. k \in Keys /\ v \in Values \cup {Member} /\ t.contents[i] = <<k, v>> /\ i \in Occupied(t)
      BY <2>1, <2>8 DEF IsTable, Occupied
    <3>2. Stops(u, k) # {}
      <4>1. Cardinality(Before(t, i)) <= Cardinality(Occupied(t)) BY <2>1, BeforeFacts
      <4>2. Cardinality(Occupied(u)) < u.capacity
        BY <4>1, <2>1, <2>5, OccupiedFacts, BeforeFacts DEF Counted
      <4> QED BY <4>2, <3>1, <2>5, ProbeStops
    <3> HIDE DEF w
    <3>3. Home(w) /\ get(w, k) = <<k, v>> /\ \A j \in Keys \ {k} : get(w, j) = get(u, j)
      BY <3>1, <3>2, <2>4, <2>5, PlaceHome DEF w
    <3>4. Reinserted(t, c)[m] = w BY <2>3, <2>8 DEF w
    <3>5. get(t, k) = <<k, v>>
      <4>1. t.contents[i][1] = k /\ hash[k] \in Nat BY <3>1
      <4> HIDE DEF k, v
      <4>2. \A j \in Keys : \A n \in Occupied(t) :
              t.contents[n][1] = j => get(t, j) = t.contents[n]
        BY GetFacts
      <4> QED BY <3>1, <4>1, <4>2
    <3> HIDE DEF k, v
    <3>6. \A j : Present(t, m, j) <=> (Present(t, i, j) \/ j = k) BY <2>6, <2>8 DEF k
    <3>7. ASSUME NEW j \in Keys PROVE get(w, j) = IF Present(t, m, j) THEN get(t, j) ELSE None
      BY <3>3, <3>5, <3>6, <2>4
    <3> QED BY <3>3, <3>4, <3>7, <1>2 DEF ReinsertedMap
  <2> QED BY <2>7, <2>8
<1> QED BY <1>3, <1>4

\* Resizing changes no lookup.
LEMMA WithRoomMap ==
  ASSUME NEW t, IsTable(t), Counted(t), Home(t), \A j \in Keys : hash[j] \in Nat
  PROVE  Home(WithRoom(t)) /\ \A j \in Keys : get(WithRoom(t), j) = get(t, j)
<1>1. /\ t.size \in Nat /\ t.capacity \in Nat
      /\ Cardinality(Occupied(t)) \in Nat /\ Cardinality(Occupied(t)) <= t.size
  BY OccupiedFacts DEF IsTable, Counted
<1>2. CASE ~IsFull(t)
  BY <1>2 DEF WithRoom
<1>3. CASE IsFull(t)
  <2> DEFINE c == IF t.size = 0 THEN 1 ELSE 3 * t.size
  <2>1. c \in Nat /\ Cardinality(Occupied(t)) < c BY <1>1
  <2>2. WithRoom(t) = Reinserted(t, c)[t.capacity] BY <1>3 DEF WithRoom, resize
  <2> HIDE DEF c
  <2>3. ReinsertedMap(t, c, t.capacity)
    <3>1. t.capacity \in 0 .. t.capacity BY <1>1
    <3> QED BY <3>1, <2>1, ReinsertedMaps
  <2>4. \A j : Present(t, t.capacity, j) <=> \E m \in Occupied(t) : t.contents[m][1] = j
    BY <1>1, OccupiedFacts DEF Present, Before
  <2>5. ASSUME NEW j \in Keys, ~Present(t, t.capacity, j) PROVE get(t, j) = None
    BY <2>4, <2>5, GetFacts
  <2> QED BY <2>2, <2>3, <2>5 DEF ReinsertedMap
<1> QED BY <1>2, <1>3

-----------------------------------------------------------------------------
\* Deletion breaks this: it empties the slot an entry further on was displaced from.
HomeInv == ~taken => Home(table)

\* The hash function does not change.
LEMMA SameHash ==
  ASSUME UNCHANGED hash, NEW t
  PROVE  /\ \A k : Stops(t, k)' = Stops(t, k) /\ Stop(t, k)' = Stop(t, k) /\ get(t, k)' = get(t, k)
         /\ Home(t)' <=> Home(t)
<1>1. ASSUME NEW k PROVE Stops(t, k)' = Stops(t, k)
  BY DEF Stops, Slot
<1>2. ASSUME NEW k PROVE Stop(t, k)' = Stop(t, k)
  <2> DEFINE S == Stops(t, k)
  <2>1. S' = S BY <1>1
  <2> HIDE DEF S
  <2>2. (CHOOSE d \in S : \A e \in S : d <= e)' = CHOOSE d \in S : \A e \in S : d <= e
    BY <2>1, Zenon
  <2> QED BY <2>2 DEF S, Stop, Slot
<1>3. ASSUME NEW k PROVE get(t, k)' = get(t, k)
  BY <1>1, <1>2 DEF get
<1> QED BY <1>1, <1>2, <1>3 DEF Home, Occupied

\* HashesNat, for all keys at once.
LEMMA Hashed == ASSUME IInv PROVE \A j \in Keys : hash[j] \in Nat
BY HashesNat

\* Insertion changes the lookup of its key only.
LEMMA InsertMap ==
  ASSUME IInv, Home(table), NEW k \in Keys, NEW v \in Values \cup {Member}, Insert(k, v)
  PROVE  /\ Home(table)'
         /\ get(table, k)' = <<k, v>>
         /\ \A j \in Keys \ {k} : get(table, j)' = get(table, j)
<1> DEFINE u == WithRoom(table)
<1>1. /\ IsTable(u) /\ Home(u) /\ Stops(u, k) # {}
      /\ \A j \in Keys : get(u, j) = get(table, j)
  BY Hashed, WithRoomTable, WithRoomMap DEF IInv, Insert
<1>2. table' = Place(u, k, v) /\ UNCHANGED hash
  BY DEF Insert, insert
<1> HIDE DEF u
<1>3. /\ Home(Place(u, k, v)) /\ get(Place(u, k, v), k) = <<k, v>>
      /\ \A j \in Keys \ {k} : get(Place(u, k, v), j) = get(u, j)
  BY <1>1, Hashed, PlaceHome
<1>4. Home(table') /\ get(table', k) = <<k, v>>
      /\ \A j \in Keys \ {k} : get(table', j) = get(table, j)
  BY <1>1, <1>2, <1>3
<1> QED BY <1>2, <1>4, SameHash

\* Apart from deletions only insertions change a table.
LEMMA TakenStep ==
  ASSUME [Next]_vars
  PROVE  \/ taken'
         \/ \E k \in Keys : \E v \in Values \cup {Member} : Insert(k, v)
         \/ UNCHANGED <<table, hash, call, taken>>
BY Zenon DEF Next, ValuesOf, delete, pop, DeletePanics, DeleteHangs, DeleteDivides, PopPanics, Ends,
   iter, next, vars

\* Every step keeps entries where their probes end.
LEMMA HomeStep == IInv /\ HomeInv /\ [Next]_vars => HomeInv'
<1> SUFFICES ASSUME IInv, HomeInv, [Next]_vars, ~taken' PROVE Home(table)'
  BY DEF HomeInv
<1>1. ASSUME NEW k \in Keys, NEW v \in Values \cup {Member}, Insert(k, v) PROVE Home(table)'
  <2>1. Home(table) BY <1>1 DEF HomeInv, Insert
  <2> QED BY <1>1, <2>1, InsertMap
<1>2. ASSUME UNCHANGED <<table, hash, taken>> PROVE Home(table)'
  <2>1. Home(table') BY <1>2 DEF HomeInv
  <2> QED BY <1>2, <2>1, SameHash
<1> QED BY <1>1, <1>2, TakenStep

\* There is no entry to begin with.
LEMMA InitHome == Init => HomeInv
BY NewTableFacts DEF Init, HomeInv, Home

\* Until something is deleted (Set.enc:48), the probe of insert, get and contains
\* ends at an entry for every entry of the table.
THEOREM EntriesAtHome == Spec => [](IInv /\ HomeInv)
BY InitInv, InitHome, StepInv, HomeStep, PTL DEF Spec

-----------------------------------------------------------------------------
\* The refinement: until something is deleted, each call is the call of the same
\* name of a map, seen through get and contains, or leaves the map as it is.
THEOREM ImplementsMap == Spec => ActsAsMap
<1> DEFINE map == [k \in {j \in Keys : contains(table, j)} |-> get(table, k)[2]]
<1>1. Init => Map!Init
  <2> SUFFICES ASSUME Init PROVE Map!Init OBVIOUS
  <2>1. /\ IsTable(table) /\ Occupied(table) = {} /\ Home(table) /\ call = <<"new">>
    BY NewTableFacts DEF Init, Home
  <2>2. \A j \in Keys : hash[j] \in Nat BY HashTableAssumption DEF Init
  <2>3. \A j \in Keys : ~contains(table, j) BY <2>1, <2>2, GetFacts DEF contains
  <2> QED BY <2>1, <2>3 DEF Map!Init
<1>2. ASSUME IInv, HomeInv, [Next]_vars PROVE [taken' \/ Map!Next]_<<Map!vars, taken>>
  <2>1. ASSUME NEW k \in Keys, NEW v \in Values \cup {Member}, Insert(k, v), ~taken'
        PROVE Map!Next
    <3>1. Home(table) BY <1>2, <2>1 DEF HomeInv, Insert
    <3>2. /\ get(table, k)' = <<k, v>>
          /\ \A j \in Keys \ {k} : get(table, j)' = get(table, j)
      BY <1>2, <2>1, <3>1, InsertMap
    <3>3. \A j \in Keys : contains(table, j)' <=> (contains(table, j) \/ j = k)
      BY <3>2 DEF contains, None
    <3>4. map' = [j \in DOMAIN map \cup {k} |-> IF j = k THEN v ELSE map[j]]
      BY <3>2, <3>3
    <3>5. call' = <<"insert", k, v>> BY <2>1 DEF Insert
    <3> QED BY <2>1, <3>4, <3>5 DEF Map!Next, Map!Insert
  <2>2. ASSUME UNCHANGED <<table, hash, call, taken>> PROVE UNCHANGED <<Map!vars, taken>>
    <3>1. \A k : get(table, k)' = get(table, k) BY <2>2, SameHash
    <3> QED BY <2>2, <3>1 DEF Map!vars, contains
  <2> QED BY <1>2, <2>1, <2>2, TakenStep
<1> QED BY <1>1, <1>2, EntriesAtHome, PTL DEF Spec, ActsAsMap

-----------------------------------------------------------------------------
(***************************************************************************)
(* Iteration.                                                              *)
(***************************************************************************)

\* The key is in a slot the iterator has passed.
InPassed(k) ==
  \E i \in Occupied(table) : i < iterator.current /\ table.contents[i][1] = k

Yielded == {yielded[n] : n \in DOMAIN yielded}

\* An iteration has been through the slots before its position.
Progress ==
  /\ \A n \in DOMAIN yielded : InPassed(yielded[n])
  /\ \A m, n \in DOMAIN yielded : yielded[m] = yielded[n] => m = n
  /\ iterator.done => present \subseteq Yielded
  /\ \A k \in present : \E i \in Occupied(table) :
       table.contents[i][1] = k /\ (i < iterator.current => k \in Yielded)

\* The invariant of an iteration that sees no deletion and no resizing.
IterInv ==
  /\ yielded \in Seq(Keys)
  /\ ~rehashed /\ ~taken => Progress

\* An insertion that does not resize leaves every key in its slot.
LEMMA InsertIter ==
  ASSUME IInv, Home(table), Progress, ~rehashed',
         NEW k \in Keys, NEW v \in Values \cup {Member}, Insert(k, v)
  PROVE  Progress'
<1> DEFINE u == Place(table, k, v)
<1>1. table' = u /\ Stops(table, k) # {}
  BY DEF Insert, insert, WithRoom
<1>2. /\ Occupied(table) \subseteq Occupied(u)
      /\ \A i \in Occupied(table) : u.contents[i][1] = table.contents[i][1]
  BY <1>1, Hashed, PlaceHome DEF IInv
<1> HIDE DEF u
<1>3. UNCHANGED <<iterator, yielded, present>>
  BY DEF Insert
<1>4. \A i \in Occupied(table) : i \in Occupied(table)' /\ table'.contents[i][1] = table.contents[i][1]
  BY <1>1, <1>2 DEF Occupied
<1> QED BY <1>3, <1>4 DEF Progress, InPassed, Yielded

\* The next entry is in no slot passed before.
LEMMA NextIter ==
  ASSUME IInv, Home(table), yielded \in Seq(Keys), Progress, next
  PROVE  Progress'
<1> DEFINE ahead == {i \in Occupied(table) : i >= iterator.current}
<1>1. UNCHANGED <<table, present>> /\ ~iterator.done
  BY DEF next
<1>2. \A i \in Occupied(table) : i \in Nat /\ (i < iterator.current \/ i \in ahead)
  BY OccupiedFacts DEF IInv, IsTable
<1>3. CASE ahead = {}
  <2>1. iterator' = [iterator EXCEPT !.done = TRUE] /\ yielded' = yielded
    BY <1>3 DEF next
  <2>2. iterator'.current = iterator.current BY <2>1 DEF IInv
  <2>3. present \subseteq Yielded BY <1>2, <1>3 DEF Progress
  <2> HIDE DEF ahead
  <2> QED BY <1>1, <2>1, <2>2, <2>3 DEF Progress, InPassed, Yielded, Occupied
<1>4. CASE ahead # {}
  <2> DEFINE f == First(ahead)
             key == table.contents[f][1]
  <2>1. f \in ahead /\ \A i \in ahead : f <= i
    <3>1. ahead \in SUBSET Nat BY <1>2
    <3> HIDE DEF ahead
    <3> QED BY <3>1, <1>4, FirstFacts
  <2>2. f \in Occupied(table) /\ f \in Nat /\ iterator.current <= f
    BY <1>2, <2>1 DEF IInv
  <2>3. iterator' = [iterator EXCEPT !.current = f + 1] /\ yielded' = Append(yielded, key)
    BY <1>4 DEF next, After
  <2> HIDE DEF ahead, f
  <2>4. iterator'.current = f + 1 /\ iterator'.done = FALSE /\ iterator.current \in Nat
    BY <1>1, <2>3 DEF IInv
  <2>5. key \in Keys BY <2>2, OccupiedFacts DEF IInv
  <2> HIDE DEF key
  <2>6. /\ DOMAIN yielded' = DOMAIN yielded \cup {Len(yielded) + 1}
        /\ Len(yielded) + 1 \notin DOMAIN yielded
        /\ \A n \in DOMAIN yielded : yielded'[n] = yielded[n]
        /\ yielded'[Len(yielded) + 1] = key
    BY <2>3, <2>5
  <2>7. Yielded' = Yielded \cup {key}
    BY <2>6 DEF Yielded
  <2>8. ASSUME NEW n \in DOMAIN yielded' PROVE InPassed(yielded[n])'
    <3>1. CASE n \in DOMAIN yielded
      <4>1. PICK i \in Occupied(table) : i < iterator.current /\ table.contents[i][1] = yielded[n]
        BY <3>1 DEF Progress, InPassed
      <4>2. i < f + 1 BY <4>1, <1>2, <2>2, <2>4
      <4> QED BY <4>1, <4>2, <3>1, <1>1, <2>4, <2>6 DEF InPassed, Occupied
    <3>2. CASE n = Len(yielded) + 1
      <4>1. f < f + 1 BY <2>2
      <4> QED BY <4>1, <3>2, <1>1, <2>2, <2>4, <2>6 DEF InPassed, Occupied, key
    <3> QED BY <3>1, <3>2, <2>6
  <2>9. ASSUME NEW n \in DOMAIN yielded PROVE yielded[n] # key
    <3> SUFFICES ASSUME yielded[n] = key PROVE FALSE OBVIOUS
    <3>1. PICK i \in Occupied(table) : i < iterator.current /\ table.contents[i][1] = key
      BY DEF Progress, InPassed
    <3>2. i = f BY <3>1, <2>2 DEF Home, key
    <3> QED BY <3>1, <3>2, <2>2, <2>4
  <2>10. \A m, n \in DOMAIN yielded' : yielded'[m] = yielded'[n] => m = n
    BY <2>6, <2>9 DEF Progress
  <2>11. ASSUME NEW k \in present
         PROVE  \E i \in Occupied(table) :
                  table.contents[i][1] = k /\ (i < f + 1 => k \in Yielded')
    <3>1. PICK i \in Occupied(table) :
             table.contents[i][1] = k /\ (i < iterator.current => k \in Yielded)
      BY DEF Progress
    <3>2. CASE i < iterator.current BY <3>1, <3>2, <2>7
    <3>3. CASE i \in ahead
      <4>1. i = f \/ ~(i < f + 1) BY <3>3, <2>1, <2>2, <1>2
      <4>2. i = f => k = key BY <3>1 DEF key
      <4> QED BY <3>1, <4>1, <4>2, <2>7
    <3> QED BY <3>2, <3>3, <1>2
  <2> QED BY <1>1, <2>4, <2>8, <2>10, <2>11 DEF Progress, Occupied
<1> QED BY <1>3, <1>4

\* Only keys are returned.
LEMMA SequenceStep == IInv /\ IterInv /\ [Next]_vars => (yielded \in Seq(Keys))'
<1> SUFFICES ASSUME IInv, IterInv, [Next]_vars PROVE yielded' \in Seq(Keys)
  OBVIOUS
<1>1. yielded \in Seq(Keys) BY DEF IterInv
<1>2. CASE next
  <2> DEFINE ahead == {i \in Occupied(table) : i >= iterator.current}
  <2>1. CASE ahead = {} BY <1>1, <1>2, <2>1 DEF next
  <2>2. CASE ahead # {}
    <3>1. First(ahead) \in Occupied(table)
      <4>1. ahead \in SUBSET Nat BY OccupiedFacts DEF IInv, IsTable
      <4>2. First(ahead) \in ahead
        <5> HIDE DEF ahead
        <5> QED BY <4>1, <2>2, FirstFacts
      <4> QED BY <4>2
    <3> DEFINE key == table.contents[First(ahead)][1]
    <3>2. key \in Keys BY <3>1, OccupiedFacts DEF IInv
    <3>3. yielded' = Append(yielded, key) BY <1>2, <2>2 DEF next
    <3> HIDE DEF key
    <3> QED BY <1>1, <3>2, <3>3
  <2> QED BY <2>1, <2>2
<1>3. CASE ~next
  <2>1. yielded' = yielded \/ yielded' = <<>>
    BY <1>3, Zenon DEF Next, Insert, delete, pop, DeletePanics, DeleteHangs, DeleteDivides,
      PopPanics, Ends, GiveUpIteration, iter, iteration, vars
  <2>2. <<>> \in Seq(Keys) OBVIOUS
  <2> QED BY <1>1, <2>1, <2>2, Zenon
<1> QED BY <1>2, <1>3

\* Every step keeps the invariant of iterations.
LEMMA IterStep == IInv /\ HomeInv /\ IterInv /\ [Next]_vars => IterInv'
<1> SUFFICES ASSUME IInv, HomeInv, IterInv, [Next]_vars, ~rehashed', ~taken' PROVE Progress'
  BY SequenceStep DEF IterInv
<1>1. ASSUME NEW k \in Keys, NEW v \in ValuesOf(k), Insert(k, v) PROVE Progress'
  <2>1. ~taken /\ ~rehashed BY <1>1 DEF Insert
  <2> QED BY <1>1, <2>1, InsertIter DEF HomeInv, IterInv, ValuesOf
<1>2. ASSUME NEW k \in Keys, delete(k) PROVE FALSE
  BY <1>2 DEF delete
<1>3. CASE pop
  BY <1>3 DEF pop
<1>4. CASE iter
  <2>1. /\ iterator'.current = 0 /\ iterator'.done = FALSE /\ yielded' = <<>>
        /\ present' = KeysOf(table) /\ table' = table
    BY <1>4 DEF iter
  <2>2. \A i \in Occupied(table) : ~(i < 0) BY OccupiedFacts DEF IInv, IsTable
  <2> QED BY <2>1, <2>2 DEF Progress, InPassed, Yielded, KeysOf, Occupied
<1>5. CASE next
  <2>1. ~taken /\ ~rehashed BY <1>5 DEF next
  <2> QED BY <1>5, <2>1, NextIter DEF HomeInv, IterInv
<1>6. ASSUME UNCHANGED <<table, taken, iteration>> PROVE Progress'
  <2>1. Progress BY <1>6 DEF iteration, IterInv
  <2> QED BY <1>6, <2>1 DEF iteration, Progress, InPassed, Yielded, Occupied
<1>7. ASSUME NEW k \in Keys, DeletePanics(k) \/ DeleteHangs(k) \/ DeleteDivides(k) PROVE Progress'
  BY <1>6, <1>7 DEF DeletePanics, DeleteHangs, DeleteDivides, Ends
<1>8. CASE PopPanics
  BY <1>6, <1>8 DEF PopPanics, Ends
<1>9. CASE UNCHANGED vars
  BY <1>6, <1>9 DEF vars
<1> QED BY <1>1, <1>2, <1>3, <1>4, <1>5, <1>7, <1>8, <1>9 DEF Next

\* No iteration is under way to begin with.
LEMMA InitIter == Init => IterInv
BY DEF Init, IterInv, Progress, Idle, Yielded

\* An iterator (Dict.enc:103, Set.enc:123) returns each key that was there when it
\* began exactly once, if nothing is deleted and the table is not resized meanwhile.
THEOREM IterationsExact == Spec => []IterationExact
<1>1. IInv /\ HomeInv /\ IterInv => IterationExact
  <2> SUFFICES ASSUME IInv, HomeInv, IterInv, ~rehashed, ~taken PROVE
        /\ iterator.done => present \subseteq {yielded[i] : i \in DOMAIN yielded}
        /\ \A i \in DOMAIN yielded : contains(table, yielded[i])
        /\ \A i, j \in DOMAIN yielded : yielded[i] = yielded[j] => i = j
    BY DEF IterationExact
  <2>1. Progress BY DEF IterInv
  <2>2. ASSUME NEW n \in DOMAIN yielded PROVE contains(table, yielded[n])
    <3>1. PICK i \in Occupied(table) : table.contents[i][1] = yielded[n]
      BY <2>1 DEF Progress, InPassed
    <3>2. yielded[n] \in Keys BY <3>1, OccupiedFacts DEF IInv
    <3>3. get(table, yielded[n]) = table.contents[i]
      BY <3>1, <3>2, Hashed, GetFacts DEF IInv, HomeInv
    <3> QED BY <3>1, <3>3 DEF contains, Occupied
  <2> QED BY <2>1, <2>2 DEF Progress, Yielded
<1> QED BY <1>1, InitInv, InitHome, InitIter, StepInv, HomeStep, IterStep, PTL DEF Spec
=============================================================================
