------------------------ MODULE CheneyGcStoreProofs ------------------------
(***************************************************************************)
(* Collections are invisible: the collector, with the program that uses    *)
(* it, implements an object store that has no collector at all, and what a *)
(* collection keeps is exactly what the program can reach.  The second     *)
(* half is about sizes: the collector implements the sizing policy too.    *)
(***************************************************************************)
EXTENDS CheneyGcProofs

-----------------------------------------------------------------------------
(***************************************************************************)
(* The invariant.                                                          *)
(***************************************************************************)

\* The addresses of blocks, and the references a program can hold.
Blocks == {a \in {0, 1} \X Nat : a[2] \in DOMAIN mem[a[1]]}
AllRefs == {Null, Static} \cup Blocks

IdOf(a) == BlockAt(a).id

KnownIds == \A s \in {0, 1} : \A o \in DOMAIN mem[s] : mem[s][o].id \in Ids

\* Names are free to recur among the blocks that nothing reaches any more.
UniqueIds == \A a, b \in ReachableBlocks : IdOf(a) = IdOf(b) => a = b

\* A copy has the name of the block it was made from, and the program reaches it.
Copies ==
  /\ \A o \in DOMAIN mem[cur] :
       IsForwarded(mem[cur][o]) => mem[ToSpace][mem[cur][o].header[2]].id = mem[cur][o].id
  /\ \A o \in DOMAIN mem[ToSpace] : <<ToSpace, o>> \in ReachableBlocks

StoreInv ==
  /\ KnownIds
  /\ UniqueIds
  /\ Collecting => Copies
  /\ ~Collecting => \A o \in DOMAIN mem[cur] : o < heapPointer
  /\ pc \in {"resize", "retry", "last"} => \A o \in DOMAIN mem[cur] : <<cur, o>> \in ReachableBlocks
  /\ Allocating =>
       /\ request.dest \in Slots => request.init \in {"null"} \cup frame.live
       /\ request.dest \in CVars => request.init \in {"null"} \cup clive

-----------------------------------------------------------------------------
(***************************************************************************)
(* References and the blocks they name.                                    *)
(***************************************************************************)

\* The address of a block.
LEMMA BlockFacts ==
  ASSUME IInv, NEW a \in Blocks
  PROVE  /\ a = <<a[1], a[2]>> /\ a[1] \in {0, 1} /\ a[1] \in {cur, ToSpace}
         /\ a[2] \in DOMAIN mem[a[1]] /\ a[2] \in Nat
         /\ IsAddress(a) /\ HasBlock(a) /\ a \notin {Null, Static}
         /\ BlockAt(a) = mem[a[1]][a[2]]
         /\ IsBlock(BlockAt(a)) /\ BlockAt(a).shape \in AllShapes
         /\ DOMAIN BlockAt(a).fields = DOMAIN BlockAt(a).shape.refs
         /\ ScannedFields(BlockAt(a).shape) \subseteq DOMAIN BlockAt(a).fields
         /\ ~Collecting => a[1] = cur
<1>1. IsMemory(mem) /\ cur \in {0, 1} BY DEF IInv, TypeInv
<1>2. a = <<a[1], a[2]>> /\ a[1] \in {0, 1} /\ a[2] \in DOMAIN mem[a[1]] /\ a[2] \in Nat
  BY DEF Blocks
<1>3. a[1] \in {cur, ToSpace} BY <1>1, <1>2, Spaces
<1>4. IsAddress(a) /\ HasBlock(a) /\ a \notin {Null, Static}
  BY <1>2, AddressFacts DEF HasBlock
<1>5. BlockAt(a) = mem[a[1]][a[2]] BY DEF BlockAt
<1>6. IsBlock(BlockAt(a)) BY <1>1, <1>2, <1>5 DEF IsMemory
<1>7. BlockAt(a).shape \in AllShapes /\ DOMAIN BlockAt(a).fields = DOMAIN BlockAt(a).shape.refs
  BY <1>6 DEF IsBlock
<1>8. ScannedFields(BlockAt(a).shape) \subseteq DOMAIN BlockAt(a).fields
  BY <1>7, ShapeFacts
<1>9. ~Collecting => a[1] = cur
  BY <1>2, <1>3 DEF IInv, Settled
<1> QED BY <1>2, <1>3, <1>4, <1>5, <1>6, <1>7, <1>8, <1>9

\* Blocks and references, semispace by semispace.
LEMMA RefsAreAll ==
  ASSUME IInv
  PROVE  /\ \A s \in {0, 1} : \A o \in DOMAIN mem[s] : <<s, o>> \in Blocks
         /\ \A s \in {0, 1} : Refs(mem, s) \subseteq AllRefs
         /\ ~Collecting => AllRefs = Refs(mem, cur)
<1>1. IsMemory(mem) /\ cur \in {0, 1} BY DEF IInv, TypeInv
<1>2. ASSUME NEW s \in {0, 1}, NEW o \in DOMAIN mem[s] PROVE <<s, o>> \in Blocks
  BY <1>1 DEF IsMemory, Blocks
<1>3. ASSUME NEW s \in {0, 1} PROVE Refs(mem, s) \subseteq AllRefs
  BY <1>2 DEF Refs, AllRefs
<1>4. ASSUME ~Collecting, NEW a \in Blocks PROVE a \in Refs(mem, cur)
  <2>1. a = <<cur, a[2]>> /\ a[2] \in DOMAIN mem[cur] BY <1>4, BlockFacts
  <2> QED BY <2>1 DEF Refs
<1>5. ~Collecting => AllRefs \subseteq Refs(mem, cur)
  BY <1>4 DEF AllRefs, Refs
<1> QED BY <1>1, <1>2, <1>3, <1>5

\* What the program reads, and what the fields of any block hold.
LEMMA Readable ==
  ASSUME IInv
  PROVE  /\ LiveValues \subseteq AllRefs
         /\ \A a \in Blocks : References(a) \subseteq AllRefs
<1> DEFINE R == Refs(mem, cur) \cup Refs(mem, ToSpace)
<1>1. /\ IsMemory(mem) /\ cur \in {0, 1} /\ globals \in [Globals -> AnyRef]
      /\ ToSpace \in {0, 1}
  BY Spaces DEF IInv, TypeInv
<1>2. R \subseteq AllRefs BY <1>1, RefsAreAll
<1>3. LiveIn(stack, globals, cvars, clive, R)
  <2>1. CASE Collecting
    <3>1. RootsInv BY <2>1 DEF IInv, Copying
    <3> HIDE DEF R
    <3>2. /\ \A i \in DOMAIN stack : \A n \in stack[i].live : stack[i].values[n] \in R
          /\ \A g \in Globals : globals[g] \in R
          /\ \A c \in clive : cvars[c] \in R
      BY <3>1 DEF RootsInv, RootInv, R
    <3> QED BY <3>2 DEF LiveIn, FramesIn
  <2>2. CASE ~Collecting
    <3>1. LiveIn(stack, globals, cvars, clive, Refs(mem, cur)) BY <2>2 DEF IInv, Settled
    <3> QED BY <3>1 DEF LiveIn, FramesIn
  <2> QED BY <2>1, <2>2
<1>4. ASSUME NEW a \in Blocks PROVE References(a) \subseteq R
  <2> DEFINE s == a[1]
             o == a[2]
             b == mem[s][o]
  <2>1. s \in {cur, ToSpace} /\ o \in DOMAIN mem[s] /\ BlockAt(a) = b /\ (~Collecting => s = cur)
    BY BlockFacts
  <2> HIDE DEF s, o, b
  <2>2. CASE ~Collecting
    <3>1. FieldsIn(mem[cur][o], Refs(mem, cur)) BY <2>1, <2>2 DEF IInv, Settled
    <3>2. b = mem[cur][o] BY <2>1, <2>2 DEF b
    <3> QED BY <2>1, <3>1, <3>2 DEF FieldsIn, References
  <2>3. CASE Collecting /\ s = cur
    <3>1. FieldsIn(mem[cur][o], Refs(mem, cur)) BY <2>1, <2>3 DEF IInv, Copying, FromInv
    <3>2. b = mem[cur][o] BY <2>3 DEF b
    <3> QED BY <2>1, <3>1, <3>2 DEF FieldsIn, References
  <2>4. CASE Collecting /\ s = ToSpace
    <3>1. \A i \in ScannedFields(mem[ToSpace][o].shape) : mem[ToSpace][o].fields[i] \in R
      BY <2>1, <2>4 DEF IInv, Copying, ToInv
    <3>2. b = mem[ToSpace][o] BY <2>4 DEF b
    <3> QED BY <2>1, <3>1, <3>2 DEF References
  <2> QED BY <2>1, <2>2, <2>3, <2>4
<1>5. LiveValues \subseteq R
  <2> HIDE DEF R
  <2>1. Range(globals) \subseteq R BY <1>1, <1>3 DEF LiveIn, Range
  <2> QED BY <1>3, <2>1 DEF LiveIn, FramesIn, LiveValues
<1> QED BY <1>2, <1>4, <1>5

\* Where a reference leads, a collection in progress or not.
LEMMA ResolveFacts ==
  ASSUME IInv, NEW w \in AllRefs
  PROVE  /\ w \in Blocks => Resolve(w) \in Blocks
         /\ w \notin Blocks => Resolve(w) = w /\ ~HasBlock(w) /\ w \in {Null, Static}
         /\ ~Collecting \/ w[1] # cur \/ w \notin Blocks => Resolve(w) = w
         /\ Collecting /\ w \in Blocks /\ w[1] = cur =>
              IF IsForwarded(BlockAt(w))
                THEN /\ Resolve(w) = BlockAt(w).header
                     /\ Resolve(w)[1] = ToSpace /\ Resolve(w)[2] \in DOMAIN mem[ToSpace]
                ELSE Resolve(w) = w
<1>1. cur \in {0, 1} BY DEF IInv, TypeInv
<1>2. ASSUME w \notin Blocks PROVE Resolve(w) = w /\ ~HasBlock(w) /\ w \in {Null, Static}
  BY <1>2, AddressFacts DEF AllRefs, Resolve, HasBlock, InHeap
<1>3. ASSUME ~Collecting \/ w[1] # cur PROVE Resolve(w) = w
  BY <1>3 DEF Resolve, InHeap
<1>4. ASSUME Collecting, w \in Blocks, w[1] = cur
      PROVE  IF IsForwarded(BlockAt(w))
               THEN /\ Resolve(w) = BlockAt(w).header
                    /\ Resolve(w)[1] = ToSpace /\ Resolve(w)[2] \in DOMAIN mem[ToSpace]
                    /\ Resolve(w) \in Blocks
               ELSE Resolve(w) = w
  <2>1. IsAddress(w) /\ HasBlock(w) /\ w[2] \in DOMAIN mem[cur] /\ BlockAt(w) = mem[cur][w[2]]
    BY <1>4, BlockFacts
  <2>2. CASE ~IsForwarded(BlockAt(w)) BY <2>2 DEF Resolve
  <2>3. CASE IsForwarded(BlockAt(w))
    <3>1. Resolve(w) = BlockAt(w).header BY <1>4, <2>1, <2>3 DEF Resolve, InHeap
    <3>2. ~HasSize(mem[cur][w[2]]) BY <2>1, <2>3, SizeHeader
    <3>3. BlockAt(w).header \in {<<ToSpace, p>> : p \in DOMAIN mem[ToSpace]}
      BY <1>4, <2>1, <3>2 DEF IInv, Copying, FromInv
    <3>4. PICK p \in DOMAIN mem[ToSpace] : BlockAt(w).header = <<ToSpace, p>>
      BY <3>3
    <3>5. <<ToSpace, p>> \in Blocks BY <1>1, RefsAreAll, Spaces
    <3> QED BY <2>3, <3>1, <3>4, <3>5
  <2> QED BY <2>2, <2>3
<1> QED BY <1>2, <1>3, <1>4

\* The blocks that references lead to.
LEMMA BlocksAtFacts ==
  ASSUME IInv, NEW values \in SUBSET AllRefs
  PROVE  BlocksAt(values) = {Resolve(w) : w \in values \cap Blocks}
<1>1. ASSUME NEW w \in values
      PROVE  HasBlock(Resolve(w)) <=> w \in Blocks
  BY ResolveFacts, BlockFacts
<1> QED BY <1>1 DEF BlocksAt

-----------------------------------------------------------------------------
(***************************************************************************)
(* What is reachable.                                                      *)
(***************************************************************************)

\* A set that holds what the variables refer to and is closed under references.
Closed(S) ==
  /\ \A w \in LiveValues \cap Blocks : Resolve(w) \in S
  /\ \A a \in S : \A w \in References(a) \cap Blocks : Resolve(w) \in S

Smallest == \A S \in SUBSET Blocks : Closed(S) => ReachableBlocks \subseteq S

\* The reachable blocks are in every closed set.
LEMMA ReachableSmallest == IInv => Smallest
<1> SUFFICES ASSUME IInv, NEW S \in SUBSET Blocks, Closed(S) PROVE ReachableBlocks \subseteq S
  BY DEF Smallest
<1>1. BlocksAt(LiveValues) \subseteq S
  BY Readable, BlocksAtFacts DEF Closed
<1>2. ASSUME NEW u \in SUBSET S PROVE BlocksAt(UNION {References(a) : a \in u}) \subseteq S
  <2>1. UNION {References(a) : a \in u} \in SUBSET AllRefs BY Readable
  <2>2. \A w \in UNION {References(a) : a \in u} : w \in Blocks => Resolve(w) \in S
    BY DEF Closed
  <2> QED BY <2>1, <2>2, BlocksAtFacts
<1> QED BY <1>1, <1>2, ReachableIn

\* The reachable blocks are blocks.
LEMMA ReachableAreBlocks == IInv => ReachableBlocks \subseteq Blocks
<1> SUFFICES ASSUME IInv PROVE ReachableBlocks \subseteq Blocks OBVIOUS
<1>1. \A w \in Blocks : Resolve(w) \in Blocks
  BY ResolveFacts DEF AllRefs
<1> QED BY <1>1, ReachableSmallest DEF Smallest, Closed

\* The reachable blocks, no more than there are names for, are closed under
\* references.
LEMMA ReachableClosed == IInv /\ KnownIds /\ UniqueIds => Closed(ReachableBlocks)
<1> SUFFICES ASSUME IInv, KnownIds, UniqueIds PROVE Closed(ReachableBlocks) OBVIOUS
<1> DEFINE N == Cardinality(Ids)
           First == BlocksAt(LiveValues)
           Step(u) == u \cup BlocksAt(UNION {References(a) : a \in u})
<1>1. N \in Nat BY NamesAssumption, FS_CardinalityType
<1>2. PICK W :
        /\ W[0] = First
        /\ \A n \in 0 .. N - 1 : W[n + 1] = Step(W[n])
        /\ ReachableBlocks = W[N]
  BY ReachableChain
<1>3. IsFiniteSet(W[N]) /\ Cardinality(W[N]) <= N
  <2> DEFINE names == [a \in W[N] |-> IdOf(a)]
  <2>1. ASSUME NEW a \in W[N] PROVE IdOf(a) \in Ids
    <3>1. a \in Blocks BY <1>2, ReachableAreBlocks
    <3> QED BY <3>1, BlockFacts DEF KnownIds, IdOf
  <2>2. \A a, b \in W[N] : names[a] = names[b] => a = b
    BY <1>2 DEF UniqueIds
  <2>3. names \in Injection(W[N], Ids)
    <3>1. names \in [W[N] -> Ids] BY <2>1
    <3> HIDE DEF names
    <3> QED BY <2>2, <3>1 DEF Injection, IsInjective
  <2> HIDE DEF names
  <2> QED BY <2>3, FS_Injection, NamesAssumption
<1>4. ASSUME NEW u, Step(u) \subseteq u, u = W[N], First \subseteq u PROVE Closed(W[N])
  <2>1. u \in SUBSET Blocks BY <1>2, <1>4, ReachableAreBlocks
  <2>2. \A w \in LiveValues \cap Blocks : Resolve(w) \in u
    BY <1>4, Readable, BlocksAtFacts
  <2> DEFINE V == UNION {References(a) : a \in u}
  <2>3. V \in SUBSET AllRefs BY <2>1, Readable
  <2>4. \A a \in u : \A w \in References(a) \cap Blocks : Resolve(w) \in u
    <3>1. BlocksAt(V) \subseteq u BY <1>4
    <3>2. \A a \in u : References(a) \subseteq V OBVIOUS
    <3> HIDE DEF V
    <3>3. \A w \in V \cap Blocks : Resolve(w) \in u BY <2>3, <3>1, BlocksAtFacts
    <3> QED BY <3>2, <3>3
  <2> QED BY <1>4, <2>2, <2>4 DEF Closed
<1>5. Step({}) = {} BY Readable, BlocksAtFacts
<1>6. \A u : u \subseteq Step(u) OBVIOUS
<1> HIDE DEF N, First, Step
<1>7. First \subseteq W[N]
  <2> DEFINE Lost == {n \in 0 .. N : ~(First \subseteq W[n])}
  <2>1. Lost = {}
    <3> SUFFICES ASSUME Lost # {} PROVE FALSE OBVIOUS
    <3>1. PICK k \in Lost : \A n \in Lost : k <= n
      <4>1. Lost \in SUBSET Nat OBVIOUS
      <4> HIDE DEF Lost
      <4> QED BY <4>1, Least
    <3>2. k \in 0 .. N /\ k # 0 /\ ~(First \subseteq W[k]) BY <1>2, <3>1
    <3>3. k - 1 \in 0 .. N /\ k - 1 \in 0 .. N - 1 /\ (k - 1) + 1 = k /\ ~(k <= k - 1)
      BY <1>1, <3>2
    <3>4. First \subseteq W[k - 1] BY <3>1, <3>3
    <3>5. W[k] = Step(W[k - 1]) BY <1>2, <3>3
    <3> QED BY <1>6, <3>2, <3>4, <3>5
  <2>2. N \in 0 .. N BY <1>1
  <2> QED BY <2>1, <2>2
<1>8. W[N] = {} \/ \E m \in 0 .. N - 1 : W[m + 1] = W[m] /\ W[N] = W[m]
  <2>1. \A n \in 0 .. N - 1 : W[n] \subseteq W[n + 1]
    BY <1>2, <1>6
  <2>2. ASSUME NEW n \in 0 .. N - 2, W[n + 1] = W[n] PROVE W[n + 2] = W[n + 1]
    <3>1. n \in 0 .. N - 1 /\ n + 1 \in 0 .. N - 1 /\ (n + 1) + 1 = n + 2 BY <1>1
    <3>2. W[n + 1] = Step(W[n]) /\ W[n + 2] = Step(W[n + 1]) BY <1>2, <3>1
    <3> QED BY <2>2, <3>2
  <2>3. N > 0 /\ W[0] = {} => W[1] = {}
    <3>1. N > 0 => 0 \in 0 .. N - 1 /\ 0 + 1 = 1 BY <1>1
    <3>2. N > 0 => W[1] = Step(W[0]) BY <1>2, <3>1
    <3> QED BY <1>5, <3>2
  <2>4. GrowsUntil(W, N) BY <2>1, <2>2, <2>3, Zenon DEF GrowsUntil
  <2> QED BY <1>1, <1>3, <2>4, ChainStops
<1>9. CASE W[N] = {}
  <2>1. Step(W[N]) \subseteq W[N] BY <1>5, <1>9
  <2> QED BY <1>2, <1>4, <1>7, <2>1
<1>10. ASSUME NEW m \in 0 .. N - 1, W[m + 1] = W[m], W[N] = W[m] PROVE Closed(W[N])
  <2>1. W[m + 1] = Step(W[m]) BY <1>2
  <2>2. Step(W[N]) \subseteq W[N] BY <1>10, <2>1
  <2> QED BY <1>4, <1>7, <2>2
<1> QED BY <1>2, <1>8, <1>9, <1>10

-----------------------------------------------------------------------------
(***************************************************************************)
(* What is reachable in the store without a collector.                     *)
(***************************************************************************)

StoreClosed(heap, values, S) ==
  /\ values \cap DOMAIN heap \subseteq S
  /\ \A id \in S : Store0!Children(heap, id) \cap DOMAIN heap \subseteq S

\* Reachable objects are those of the smallest set that holds what the values name
\* and is closed under references.
LEMMA StoreReachable ==
  ASSUME NEW heap, DOMAIN heap \subseteq Ids, NEW values
  PROVE  \E S : /\ Store0!Reachable(heap, values) = Restrict(heap, S)
                /\ S \subseteq DOMAIN heap
                /\ StoreClosed(heap, values, S)
                /\ \A T : StoreClosed(heap, values, T) => S \subseteq T
<1> DEFINE N == Cardinality(Ids)
           First == values \cap DOMAIN heap
           Step(u) == u \cup ((UNION {Store0!Children(heap, id) : id \in u}) \cap DOMAIN heap)
           Upto(f, m) == f = [n \in 0 .. m |-> IF n = 0 THEN First ELSE Step(f[n - 1])]
           NotUpto == {m \in 0 .. N : ~ \E f : Upto(f, m)}
<1>1. N \in Nat BY NamesAssumption, FS_CardinalityType
<1> HIDE DEF N
<1>2. NotUpto = {}
  <2> SUFFICES ASSUME NotUpto # {} PROVE FALSE OBVIOUS
  <2>1. PICK m \in NotUpto : \A n \in NotUpto : m <= n
    <3> HIDE DEF Upto
    <3>1. NotUpto \in SUBSET Nat OBVIOUS
    <3> HIDE DEF NotUpto
    <3> QED BY <3>1, Least
  <2> HIDE DEF Step, First
  <2>2. CASE m = 0
    <3>1. Upto([n \in 0 .. 0 |-> First], 0) OBVIOUS
    <3> QED BY <3>1, <2>1, <2>2
  <2>3. CASE m # 0
    <3>1. PICK f : Upto(f, m - 1)
      <4> HIDE DEF Upto
      <4>1. m - 1 \in 0 .. N /\ ~(m <= m - 1) BY <1>1, <2>1, <2>3
      <4>2. m - 1 \notin NotUpto BY <2>1, <4>1
      <4> QED BY <4>1, <4>2
    <3> DEFINE g == [n \in 0 .. m |-> IF n = m THEN Step(f[m - 1]) ELSE f[n]]
    <3>2. ASSUME NEW n \in 0 .. m PROVE g[n] = IF n = 0 THEN First ELSE Step(g[n - 1])
      BY <3>1, <2>1, <2>3
    <3>3. Upto(g, m) BY <3>2
    <3> QED BY <3>3, <2>1
  <2> QED BY <2>2, <2>3
<1>3. \E f : Upto(f, N)
  <2> HIDE DEF Upto
  <2>1. N \in 0 .. N BY <1>1
  <2> QED BY <1>2, <2>1
<1> DEFINE W == CHOOSE f : Upto(f, N)
<1>4. Upto(W, N) BY <1>3
<1>5. Store0!Reachable(heap, values) = Restrict(heap, W[N])
  <2>1. Cardinality(Ids) = Store0!Cardinality(Ids) BY DEF Cardinality, Store0!Cardinality
  <2>2. \A S : Restrict(heap, S) = Store0!Restrict(heap, S) BY DEF Restrict, Store0!Restrict
  <2> QED BY <2>1, <2>2, Zenon DEF Store0!Reachable, N
<1> HIDE DEF W
<1>6. W[0] = First
  <2> HIDE DEF First, Step
  <2> QED BY <1>1, <1>4
<1>7. ASSUME NEW n \in 0 .. N - 1 PROVE W[n + 1] = Step(W[n])
  <2> HIDE DEF First, Step
  <2>1. n + 1 \in 0 .. N /\ n + 1 # 0 /\ (n + 1) - 1 = n BY <1>1
  <2> QED BY <1>4, <2>1
<1> HIDE DEF Upto
<1>8. ASSUME NEW T, First \subseteq T, \A u \in SUBSET T : Step(u) \subseteq T
      PROVE  \A n \in 0 .. N : W[n] \subseteq T
  <2> HIDE DEF First, Step
  <2> DEFINE Outside == {n \in 0 .. N : ~(W[n] \subseteq T)}
  <2>1. Outside = {}
    <3> SUFFICES ASSUME Outside # {} PROVE FALSE OBVIOUS
    <3>1. PICK k \in Outside : \A n \in Outside : k <= n
      <4>1. Outside \in SUBSET Nat OBVIOUS
      <4> HIDE DEF Outside
      <4> QED BY <4>1, Least
    <3>2. k \in 0 .. N /\ k # 0 /\ ~(W[k] \subseteq T) BY <1>6, <1>8, <3>1
    <3>3. k - 1 \in 0 .. N /\ k - 1 \in 0 .. N - 1 /\ (k - 1) + 1 = k /\ ~(k <= k - 1)
      BY <1>1, <3>2
    <3>4. W[k - 1] \subseteq T BY <3>1, <3>3
    <3>5. W[k] = Step(W[k - 1]) BY <1>7, <3>3
    <3> QED BY <1>8, <3>2, <3>4, <3>5
  <2> QED BY <2>1
<1>9. N \in 0 .. N /\ 0 \in 0 .. N BY <1>1
<1>10. ASSUME NEW T, StoreClosed(heap, values, T) PROVE W[N] \subseteq T
  <2>1. First \subseteq T BY <1>10 DEF StoreClosed
  <2>2. ASSUME NEW u \in SUBSET T PROVE Step(u) \subseteq T
    BY <1>10 DEF StoreClosed
  <2> HIDE DEF First, Step
  <2> QED BY <1>8, <1>9, <2>1, <2>2
<1>11. W[N] \subseteq DOMAIN heap
  <2>1. StoreClosed(heap, values, DOMAIN heap) BY DEF StoreClosed
  <2> QED BY <1>10, <2>1
<1>12. IsFiniteSet(W[N]) /\ Cardinality(W[N]) <= N
  BY <1>11, FS_Subset, NamesAssumption DEF N
<1>13. First \subseteq W[N]
  <2> HIDE DEF First
  <2>1. \A u : u \subseteq Step(u) OBVIOUS
  <2> HIDE DEF Step
  <2> DEFINE Lost == {n \in 0 .. N : ~(First \subseteq W[n])}
  <2>2. Lost = {}
    <3> SUFFICES ASSUME Lost # {} PROVE FALSE OBVIOUS
    <3>1. PICK k \in Lost : \A n \in Lost : k <= n
      <4>1. Lost \in SUBSET Nat OBVIOUS
      <4> HIDE DEF Lost
      <4> QED BY <4>1, Least
    <3>2. k \in 0 .. N /\ k # 0 /\ ~(First \subseteq W[k]) BY <1>6, <3>1
    <3>3. k - 1 \in 0 .. N /\ k - 1 \in 0 .. N - 1 /\ (k - 1) + 1 = k /\ ~(k <= k - 1)
      BY <1>1, <3>2
    <3>4. First \subseteq W[k - 1] BY <3>1, <3>3
    <3>5. W[k] = Step(W[k - 1]) BY <1>7, <3>3
    <3> QED BY <2>1, <3>2, <3>4, <3>5
  <2> QED BY <1>9, <2>2
<1>14. W[N] = {} \/ \E m \in 0 .. N - 1 : W[m + 1] = W[m] /\ W[N] = W[m]
  <2>1. Step({}) = {} /\ \A u : u \subseteq Step(u) OBVIOUS
  <2> HIDE DEF First, Step
  <2>2. \A n \in 0 .. N - 1 : W[n] \subseteq W[n + 1]
    BY <1>7, <2>1
  <2>3. ASSUME NEW n \in 0 .. N - 2, W[n + 1] = W[n] PROVE W[n + 2] = W[n + 1]
    <3>1. n \in 0 .. N - 1 /\ n + 1 \in 0 .. N - 1 /\ (n + 1) + 1 = n + 2 BY <1>1
    <3>2. W[n + 1] = Step(W[n]) /\ W[n + 2] = Step(W[n + 1]) BY <1>7, <3>1
    <3> QED BY <2>3, <3>2
  <2>4. N > 0 /\ W[0] = {} => W[1] = {}
    <3>1. N > 0 => 0 \in 0 .. N - 1 /\ 0 + 1 = 1 BY <1>1
    <3>2. N > 0 => W[1] = Step(W[0]) BY <1>7, <3>1
    <3> QED BY <2>1, <3>2
  <2>5. GrowsUntil(W, N) BY <2>2, <2>3, <2>4, Zenon DEF GrowsUntil
  <2> QED BY <1>1, <1>12, <2>5, ChainStops
<1>15. Step(W[N]) \subseteq W[N]
  <2>1. Step({}) = {} OBVIOUS
  <2> HIDE DEF First, Step
  <2> QED BY <1>7, <1>14, <2>1
<1>16. StoreClosed(heap, values, W[N])
  BY <1>13, <1>15 DEF StoreClosed
<1> QED BY <1>5, <1>10, <1>11, <1>16

-----------------------------------------------------------------------------
(***************************************************************************)
(* The program's view.                                                     *)
(***************************************************************************)

\* The fields that hold references, as the collector and the store see them.
LEMMA SameFields ==
  ASSUME NEW shape \in AllShapes
  PROVE  Store0!RefFields(shape) = ScannedFields(shape)
<1>1. shape.tag \in {"struct", "boxedArray", "unboxedArray"} /\ shape.refs \in Seq(BOOLEAN)
  BY ShapesAssumption DEF AllShapes
<1> QED BY <1>1 DEF Store0!RefFields, ScannedFields

\* The name of a reference is that of the block it leads to.
LEMMA NameFacts ==
  ASSUME IInv, StoreInv, NEW w \in AllRefs
  PROVE  /\ w \in Blocks => Name(w) = IdOf(Resolve(w)) /\ Name(w) \in Ids
         /\ w \notin Blocks => Name(w) = w /\ Name(w) \notin Ids
<1>1. ASSUME w \notin Blocks PROVE Name(w) = w /\ Name(w) \notin Ids
  <2>1. w \in {Null, Static} BY <1>1 DEF AllRefs
  <2>2. Name(w) = w BY <2>1, AddressFacts DEF Name, HasBlock
  <2> QED BY <2>1, <2>2, NamesAssumption DEF Null, Static
<1>2. ASSUME w \in Blocks PROVE Name(w) = IdOf(Resolve(w)) /\ Name(w) \in Ids
  <2>1. /\ IsAddress(w) /\ HasBlock(w) /\ (Collecting \/ w[1] = cur)
        /\ w[1] \in {0, 1} /\ w[1] \in {cur, ToSpace} /\ w[2] \in DOMAIN mem[w[1]]
        /\ BlockAt(w) = mem[w[1]][w[2]]
    BY <1>2, BlockFacts
  <2>2. Name(w) = IdOf(w) BY <2>1 DEF Name, IdOf
  <2>3. IdOf(w) \in Ids BY <2>1 DEF StoreInv, KnownIds, IdOf
  <2>4. CASE Resolve(w) = w BY <2>2, <2>3, <2>4
  <2>5. CASE Resolve(w) # w
    <3>1. Collecting /\ w[1] = cur BY <2>5, ResolveFacts
    <3>2. IsForwarded(BlockAt(w)) /\ Resolve(w) = BlockAt(w).header /\ Resolve(w)[1] = ToSpace
      BY <1>2, <2>5, <3>1, ResolveFacts
    <3>3. IdOf(Resolve(w)) = mem[ToSpace][BlockAt(w).header[2]].id
      BY <3>2 DEF IdOf, BlockAt
    <3>4. mem[ToSpace][BlockAt(w).header[2]].id = IdOf(w)
      BY <2>1, <3>1, <3>2 DEF StoreInv, Copies, IdOf
    <3> QED BY <2>2, <2>3, <3>3, <3>4
  <2> QED BY <2>4, <2>5
<1> QED BY <1>1, <1>2

\* The objects of the view are the reachable blocks.
LEMMA ObjectsFacts ==
  ASSUME UniqueIds
  PROVE  /\ Objects = [id \in {IdOf(a) : a \in ReachableBlocks} |-> Objects[id]]
         /\ \A a \in ReachableBlocks : Objects[IdOf(a)] = Object(BlockAt(a))
<1> DEFINE Owner(id) == CHOOSE a \in ReachableBlocks : BlockAt(a).id = id
<1>1. Objects = [id \in {IdOf(a) : a \in ReachableBlocks} |-> Object(BlockAt(Owner(id)))]
  BY DEF Objects, IdOf
<1>2. ASSUME NEW a \in ReachableBlocks PROVE Owner(IdOf(a)) = a
  <2>1. Owner(IdOf(a)) \in ReachableBlocks /\ IdOf(Owner(IdOf(a))) = IdOf(a) BY DEF IdOf
  <2> HIDE DEF Owner
  <2> QED BY <2>1 DEF UniqueIds
<1> HIDE DEF Owner
<1> QED BY <1>1, <1>2

\* The values of the view's variables are the names of the program's values.
LEMMA RootValuesFacts ==
  ASSUME IInv
  PROVE  Store0!RootValues(FramesView, GlobalsView, CFrameView) = {Name(w) : w \in LiveValues}
<1> DEFINE FV == UNION {Store0!Range(FramesView[i]) : i \in DOMAIN FramesView}
           SV == UNION {{stack[i].values[s] : s \in stack[i].live} : i \in DOMAIN stack}
<1>1. FV = {Name(w) : w \in SV}
  <2>1. DOMAIN FramesView = DOMAIN stack BY DEF FramesView
  <2>2. ASSUME NEW i \in DOMAIN stack
        PROVE  Store0!Range(FramesView[i]) = {Name(stack[i].values[s]) : s \in stack[i].live}
    BY DEF FramesView, Store0!Range
  <2> QED BY <2>1, <2>2
<1>2. Store0!Range(GlobalsView) = {Name(w) : w \in Range(globals)}
  <2>1. globals \in [Globals -> AnyRef] BY DEF IInv, TypeInv
  <2> QED BY <2>1 DEF GlobalsView, Range, Store0!Range
<1>3. Store0!Range(CFrameView) = {Name(w) : w \in {cvars[c] : c \in clive}}
  BY DEF CFrameView, Store0!Range
<1>4. Store0!RootValues(FramesView, GlobalsView, CFrameView) =
        FV \cup Store0!Range(GlobalsView) \cup Store0!Range(CFrameView)
  BY DEF Store0!RootValues
<1>5. LiveValues = SV \cup Range(globals) \cup {cvars[c] : c \in clive}
  BY DEF LiveValues
<1> HIDE DEF FV, SV
<1> QED BY <1>1, <1>2, <1>3, <1>4, <1>5

\* What an object refers to is what its block refers to, by name.
LEMMA ObjectFacts ==
  ASSUME IInv, NEW a \in Blocks
  PROVE  /\ Object(BlockAt(a)).shape = BlockAt(a).shape
         /\ \A i \in ScannedFields(BlockAt(a).shape) :
              Object(BlockAt(a)).fields[i] = Name(BlockAt(a).fields[i])
         /\ {Object(BlockAt(a)).fields[i] : i \in Store0!RefFields(Object(BlockAt(a)).shape)}
              = {Name(w) : w \in References(a)}
<1>1. /\ BlockAt(a).shape \in AllShapes
      /\ ScannedFields(BlockAt(a).shape) \subseteq DOMAIN BlockAt(a).fields
  BY BlockFacts
<1>2. Object(BlockAt(a)).shape = BlockAt(a).shape BY DEF Object
<1>3. ASSUME NEW i \in ScannedFields(BlockAt(a).shape)
      PROVE  Object(BlockAt(a)).fields[i] = Name(BlockAt(a).fields[i])
  BY <1>1 DEF Object
<1> QED BY <1>1, <1>2, <1>3, SameFields DEF References

\* A heap of named objects that has the view's objects, whatever else it has,
\* shrinks to them when what the view's variables do not reach is dropped.
ObjectsReached ==
  \A heap :
    /\ DOMAIN heap \subseteq Ids
    /\ \A a \in ReachableBlocks : IdOf(a) \in DOMAIN heap /\ heap[IdOf(a)] = Object(BlockAt(a))
    => Store0!Reachable(heap, Store0!RootValues(FramesView, GlobalsView, CFrameView)) = Objects

\* That holds of every heap that has the reachable objects.
LEMMA ReachesObjects == IInv /\ StoreInv => ObjectsReached
<1> SUFFICES ASSUME IInv, StoreInv, NEW heap, DOMAIN heap \subseteq Ids,
                    \A a \in ReachableBlocks :
                      IdOf(a) \in DOMAIN heap /\ heap[IdOf(a)] = Object(BlockAt(a))
             PROVE  Store0!Reachable(heap, Store0!RootValues(FramesView, GlobalsView, CFrameView))
                      = Objects
  BY DEF ObjectsReached
<1> DEFINE values == {Name(w) : w \in LiveValues}
           T == {IdOf(a) : a \in ReachableBlocks}
<1>1. /\ ReachableBlocks \subseteq Blocks /\ LiveValues \subseteq AllRefs
      /\ \A a \in Blocks : References(a) \subseteq AllRefs
      /\ Closed(ReachableBlocks)
  BY ReachableAreBlocks, Readable, ReachableClosed DEF StoreInv
<1>2. PICK S : /\ Store0!Reachable(heap, values) = Restrict(heap, S)
               /\ S \subseteq DOMAIN heap
               /\ StoreClosed(heap, values, S)
               /\ \A U : StoreClosed(heap, values, U) => S \subseteq U
  BY StoreReachable
<1>3. ASSUME NEW a \in ReachableBlocks
      PROVE  Store0!Children(heap, IdOf(a)) = {Name(w) : w \in References(a)}
  <2>1. heap[IdOf(a)] = Object(BlockAt(a)) OBVIOUS
  <2>2. Store0!Children(heap, IdOf(a)) =
          {Object(BlockAt(a)).fields[i] : i \in Store0!RefFields(Object(BlockAt(a)).shape)}
    BY <2>1 DEF Store0!Children
  <2> QED BY <1>1, <2>2, ObjectFacts
<1>4. \A w \in AllRefs : Name(w) \in Ids => w \in Blocks /\ Name(w) = IdOf(Resolve(w))
  BY NameFacts
<1>5. StoreClosed(heap, values, T)
  <2>1. values \cap DOMAIN heap \subseteq T
    BY <1>1, <1>4 DEF Closed
  <2>2. ASSUME NEW a \in ReachableBlocks
        PROVE  {Name(w) : w \in References(a)} \cap DOMAIN heap \subseteq T
    BY <1>1, <1>4 DEF Closed
  <2>3. \A id \in T : Store0!Children(heap, id) \cap DOMAIN heap \subseteq T
    BY <1>3, <2>2
  <2> QED BY <2>1, <2>3 DEF StoreClosed
<1>6. T \subseteq S
  <2> DEFINE A == {a \in ReachableBlocks : IdOf(a) \in S}
  <2>1. ASSUME NEW w \in LiveValues \cap Blocks PROVE Resolve(w) \in A
    <3>1. Resolve(w) \in ReachableBlocks BY <1>1 DEF Closed
    <3>2. Name(w) = IdOf(Resolve(w)) BY <1>1, NameFacts
    <3>3. Name(w) \in values \cap DOMAIN heap BY <3>1, <3>2
    <3> QED BY <1>2, <3>1, <3>2, <3>3 DEF StoreClosed
  <2>2. ASSUME NEW a \in A, NEW w \in References(a) \cap Blocks PROVE Resolve(w) \in A
    <3>1. Resolve(w) \in ReachableBlocks BY <1>1 DEF Closed
    <3>2. Name(w) = IdOf(Resolve(w)) BY <1>1, NameFacts
    <3>3. Name(w) \in Store0!Children(heap, IdOf(a)) \cap DOMAIN heap BY <1>3, <3>1, <3>2
    <3>4. IdOf(a) \in S OBVIOUS
    <3> QED BY <1>2, <3>1, <3>2, <3>3, <3>4 DEF StoreClosed
  <2>3. A \in SUBSET Blocks BY <1>1
  <2>4. Closed(A)
    <3> HIDE DEF A
    <3> QED BY <2>1, <2>2 DEF Closed
  <2>5. ReachableBlocks \subseteq A
    <3> HIDE DEF A
    <3> QED BY <2>3, <2>4, ReachableSmallest DEF Smallest
  <2> QED BY <2>5
<1>7. S = T BY <1>2, <1>5, <1>6
<1>8. Restrict(heap, T) = Objects
  <2>1. Restrict(heap, T) = [id \in T |-> heap[id]] BY DEF Restrict
  <2>2. \A id \in T : heap[id] = Objects[id] BY ObjectsFacts DEF StoreInv
  <2>3. Objects = [id \in T |-> Objects[id]] BY ObjectsFacts DEF StoreInv
  <2> HIDE DEF T
  <2> QED BY <2>1, <2>2, <2>3
<1>9. Store0!RootValues(FramesView, GlobalsView, CFrameView) = values
  BY RootValuesFacts
<1> HIDE DEF T, values
<1> QED BY <1>2, <1>7, <1>8, <1>9

-----------------------------------------------------------------------------
(***************************************************************************)
(* Steps of a collection move blocks: f gives the new address of each      *)
(* reachable one.                                                          *)
(***************************************************************************)

\* What holds of the reachable blocks in every state, and so after any step.
ReachFacts ==
  /\ Smallest
  /\ ReachableBlocks \subseteq Blocks
  /\ \A w : w \in LiveValues <=>
       \/ \E i \in DOMAIN stack : \E n \in stack[i].live : w = stack[i].values[n]
       \/ \E g \in Globals : w = globals[g]
       \/ \E c \in clive : w = cvars[c]
  /\ LiveValues \subseteq AllRefs
  /\ \A a \in Blocks : References(a) \subseteq AllRefs /\ BlockAt(a).shape \in AllShapes
  /\ Blocks \cap {Null, Static} = {}
  /\ KnownIds /\ UniqueIds => Closed(ReachableBlocks)

\* Those facts about references hold under the invariant.
LEMMA ReachHolds == IInv => ReachFacts
<1> SUFFICES ASSUME IInv PROVE ReachFacts OBVIOUS
<1>1. ASSUME NEW w
      PROVE  w \in LiveValues <=>
               \/ \E i \in DOMAIN stack : \E n \in stack[i].live : w = stack[i].values[n]
               \/ \E g \in Globals : w = globals[g]
               \/ \E c \in clive : w = cvars[c]
  <2>1. globals \in [Globals -> AnyRef] BY DEF IInv, TypeInv
  <2>2. w \in Range(globals) <=> \E g \in Globals : w = globals[g] BY <2>1 DEF Range
  <2> QED BY <2>2 DEF LiveValues
<1>2. Blocks \cap {Null, Static} = {} BY BlockFacts
<1>3. \A a \in Blocks : BlockAt(a).shape \in AllShapes BY BlockFacts
<1> QED BY <1>1, <1>2, <1>3, ReachableSmallest, ReachableAreBlocks, Readable, ReachableClosed
        DEF ReachFacts

\* The block at an address, and where a reference leads, in a given memory.
BlockIn(m, a) == m[a[1]][a[2]]

ResolveIn(m, from, moving, w) ==
  IF moving /\ IsAddress(w) /\ w[1] = from /\ w[2] \in DOMAIN m[from] /\ IsForwarded(BlockIn(m, w))
    THEN BlockIn(m, w).header ELSE w

\* The reference w has become w2.
Follows(f, w, w2) ==
  IF w \in Blocks
    THEN w2 \in Blocks' /\ ResolveIn(mem', cur', Collecting', w2) = f[Resolve(w)]
    ELSE w2 = w

MovesBlocks(f) ==
  /\ \A a \in ReachableBlocks :
       /\ f[a] \in Blocks'
       /\ BlockIn(mem', f[a]).id = IdOf(a)
       /\ BlockIn(mem', f[a]).shape = BlockAt(a).shape
       /\ \A i \in ScannedFields(BlockAt(a).shape) :
            Follows(f, BlockAt(a).fields[i], BlockIn(mem', f[a]).fields[i])
       /\ \A i \in DOMAIN BlockAt(a).fields \ ScannedFields(BlockAt(a).shape) :
            BlockIn(mem', f[a]).fields[i] = BlockAt(a).fields[i]
       /\ DOMAIN BlockIn(mem', f[a]).fields = DOMAIN BlockAt(a).fields
  /\ \A a, b \in ReachableBlocks : f[a] = f[b] => a = b

MovesRoots(f) ==
  /\ clive' = clive
  /\ DOMAIN stack' = DOMAIN stack
  /\ \A i \in DOMAIN stack :
       /\ stack'[i].live = stack[i].live
       /\ \A n \in stack[i].live : Follows(f, stack[i].values[n], stack'[i].values[n])
  /\ \A g \in Globals : Follows(f, globals[g], globals'[g])
  /\ \A c \in clive : Follows(f, cvars[c], cvars'[c])

\* The blocks reachable after the step are the ones reachable before, moved.
LEMMA MovesReach ==
  ASSUME IInv, StoreInv, IInv', KnownIds', NEW f, MovesBlocks(f), MovesRoots(f)
  PROVE  ReachableBlocks' = {f[a] : a \in ReachableBlocks} /\ UniqueIds'
<1>1. ReachFacts /\ ReachFacts'
  <2>1. ReachFacts BY ReachHolds
  <2>2. (IInv => ReachFacts)' BY ReachHolds, PTL
  <2> QED BY <2>1, <2>2
<1>2. Closed(ReachableBlocks) BY <1>1 DEF ReachFacts, StoreInv
<1>3. PICK F : F = {f[a] : a \in ReachableBlocks} OBVIOUS
<1>4. \A w : Resolve(w)' = ResolveIn(mem', cur', Collecting', w)
  BY DEF Resolve, ResolveIn, InHeap, HasBlock, BlockAt, BlockIn
<1>5. F \subseteq Blocks' BY <1>3 DEF MovesBlocks
\* A live value is the successor of a live value.
<1>6. ASSUME NEW w2 \in LiveValues' PROVE \E w \in LiveValues : Follows(f, w, w2)
  BY <1>1 DEF ReachFacts, MovesRoots
<1>7. ASSUME NEW a \in ReachableBlocks, NEW a2, a2 = f[a], NEW w2 \in References(a2)'
      PROVE  \E w \in References(a) : Follows(f, w, w2)
  <2>1. BlockAt(a2)' = BlockIn(mem', a2) BY DEF BlockAt, BlockIn
  <2>2. PICK i \in ScannedFields(BlockIn(mem', a2).shape) : w2 = BlockIn(mem', a2).fields[i]
    BY <2>1 DEF References
  <2>3. /\ i \in ScannedFields(BlockAt(a).shape)
        /\ Follows(f, BlockAt(a).fields[i], w2)
    BY <1>7, <2>2 DEF MovesBlocks
  <2> QED BY <2>3 DEF References
<1>8. ASSUME NEW w \in AllRefs, NEW w2 \in Blocks', Follows(f, w, w2)
      PROVE  w \in Blocks /\ Resolve(w2)' = f[Resolve(w)]
  <2>1. w \in Blocks BY <1>1, <1>8 DEF Follows, AllRefs, ReachFacts
  <2> QED BY <1>4, <1>8, <2>1 DEF Follows
<1>9. Closed(F)'
  <2>1. ASSUME NEW w2 \in LiveValues' \cap Blocks' PROVE Resolve(w2)' \in F
    <3>1. PICK w \in LiveValues : Follows(f, w, w2) BY <1>6
    <3>2. w \in Blocks /\ Resolve(w2)' = f[Resolve(w)] BY <1>1, <1>8, <3>1 DEF ReachFacts
    <3>3. Resolve(w) \in ReachableBlocks BY <1>2, <3>2 DEF Closed
    <3> QED BY <1>3, <3>2, <3>3
  <2>2. ASSUME NEW a2 \in F, NEW w2 \in References(a2)' \cap Blocks' PROVE Resolve(w2)' \in F
    <3>1. PICK a \in ReachableBlocks : a2 = f[a] BY <1>3
    <3>2. PICK w \in References(a) : Follows(f, w, w2) BY <1>7, <3>1
    <3>3. w \in Blocks /\ Resolve(w2)' = f[Resolve(w)] BY <1>1, <1>8, <3>2 DEF ReachFacts
    <3>4. Resolve(w) \in ReachableBlocks BY <1>2, <3>2, <3>3 DEF Closed
    <3> QED BY <1>3, <3>3, <3>4
  <2> QED BY <2>1, <2>2 DEF Closed
<1>10. ReachableBlocks' \subseteq F BY <1>1, <1>5, <1>9 DEF ReachFacts, Smallest
<1>11. UniqueIds'
  <2>1. ASSUME NEW a2 \in ReachableBlocks', NEW b2 \in ReachableBlocks', IdOf(a2)' = IdOf(b2)'
        PROVE  a2 = b2
    <3>1. PICK a \in ReachableBlocks : a2 = f[a] BY <1>3, <1>10
    <3>2. PICK b \in ReachableBlocks : b2 = f[b] BY <1>3, <1>10
    <3>3. IdOf(a2)' = BlockIn(mem', a2).id /\ IdOf(b2)' = BlockIn(mem', b2).id
      BY DEF IdOf, BlockAt, BlockIn
    <3>4. IdOf(a) = IdOf(b) BY <2>1, <3>1, <3>2, <3>3 DEF MovesBlocks
    <3> QED BY <3>1, <3>2, <3>4 DEF StoreInv, UniqueIds
  <2> QED BY <2>1 DEF UniqueIds
<1>12. Closed(ReachableBlocks)' BY <1>1, <1>11 DEF ReachFacts
<1>13. PICK R2 : R2 = ReachableBlocks' OBVIOUS
<1>14. Closed(R2)' BY <1>12, <1>13 DEF Closed
<1> DEFINE A == {a \in ReachableBlocks : f[a] \in R2}
<1>15. ASSUME NEW w \in LiveValues \cap Blocks PROVE Resolve(w) \in A
  <2>1. PICK w2 \in LiveValues' : Follows(f, w, w2)
    BY <1>1 DEF ReachFacts, MovesRoots
  <2>2. w2 \in Blocks' /\ Resolve(w2)' = f[Resolve(w)] BY <1>4, <2>1 DEF Follows
  <2>3. Resolve(w2)' \in R2 BY <1>14, <2>1, <2>2 DEF Closed
  <2>4. Resolve(w) \in ReachableBlocks BY <1>2 DEF Closed
  <2> QED BY <2>2, <2>3, <2>4
<1>16. ASSUME NEW a \in A, NEW w \in References(a) \cap Blocks PROVE Resolve(w) \in A
  <2>1. PICK i \in ScannedFields(BlockAt(a).shape) : w = BlockAt(a).fields[i]
    BY DEF References
  <2>2. PICK a2 : a2 = f[a] OBVIOUS
  <2>3. PICK w2 : w2 = BlockIn(mem', a2).fields[i] OBVIOUS
  <2>4. Follows(f, w, w2) /\ i \in ScannedFields(BlockIn(mem', a2).shape)
    BY <2>1, <2>2, <2>3 DEF MovesBlocks
  <2>5. w2 \in References(a2)'
    BY <2>3, <2>4 DEF References, BlockAt, BlockIn
  <2>6. w2 \in Blocks' /\ Resolve(w2)' = f[Resolve(w)] BY <1>4, <2>4 DEF Follows
  <2>7. Resolve(w2)' \in R2 BY <1>14, <2>2, <2>5, <2>6 DEF Closed
  <2>8. Resolve(w) \in ReachableBlocks BY <1>2 DEF Closed
  <2> QED BY <2>6, <2>7, <2>8
<1>17. ReachableBlocks \subseteq A
  <2>1. A \in SUBSET Blocks BY <1>1 DEF ReachFacts
  <2>2. Closed(A)
    <3> HIDE DEF A
    <3> QED BY <1>15, <1>16 DEF Closed
  <2> HIDE DEF A
  <2> QED BY <1>1, <2>1, <2>2 DEF ReachFacts, Smallest
<1>18. F \subseteq ReachableBlocks' BY <1>3, <1>13, <1>17
<1> QED BY <1>3, <1>10, <1>11, <1>18

\* What holds of the view in every state.
ViewFacts ==
  /\ \A w \in AllRefs :
       /\ w \in Blocks => Name(w) = IdOf(Resolve(w)) /\ Name(w) \in Ids
       /\ w \notin Blocks => Name(w) = w /\ Name(w) \notin Ids
  /\ Objects = [id \in {IdOf(a) : a \in ReachableBlocks} |-> Objects[id]]
  /\ \A a \in ReachableBlocks : Objects[IdOf(a)] = Object(BlockAt(a))
  /\ ObjectsReached

\* And so do those about names.
LEMMA ViewHolds == IInv /\ StoreInv => ViewFacts
<1> SUFFICES ASSUME IInv, StoreInv PROVE ViewFacts OBVIOUS
<1>1. UniqueIds BY DEF StoreInv
<1>2. ASSUME NEW w \in AllRefs
      PROVE  /\ w \in Blocks => Name(w) = IdOf(Resolve(w)) /\ Name(w) \in Ids
             /\ w \notin Blocks => Name(w) = w /\ Name(w) \notin Ids
  BY NameFacts
<1> QED BY <1>1, <1>2, ObjectsFacts, ReachesObjects DEF ViewFacts

\* Every step of a collection, taken alone, leaves the program's view as it is.
LEMMA MovesView ==
  ASSUME IInv, StoreInv, IInv', StoreInv', NEW f, MovesBlocks(f), MovesRoots(f)
  PROVE  UNCHANGED Store0!vars
<1>1. ReachableBlocks' = {f[a] : a \in ReachableBlocks}
  BY MovesReach DEF StoreInv
<1>2. ReachFacts /\ ReachFacts' /\ ViewFacts /\ ViewFacts' /\ Closed(ReachableBlocks)
  <2>1. ReachFacts /\ ViewFacts BY ReachHolds, ViewHolds
  <2>2. (IInv => ReachFacts)' BY ReachHolds, PTL
  <2>3. (IInv /\ StoreInv => ViewFacts)' BY ViewHolds, PTL
  <2> QED BY <2>1, <2>2, <2>3 DEF ReachFacts, StoreInv
<1>3. \A w : Resolve(w)' = ResolveIn(mem', cur', Collecting', w)
  BY DEF Resolve, ResolveIn, InHeap, HasBlock, BlockAt, BlockIn
<1>4. ASSUME NEW w \in AllRefs, w \in Blocks => Resolve(w) \in ReachableBlocks,
             NEW w2, Follows(f, w, w2)
      PROVE  Name(w2)' = Name(w)
  <2>1. CASE w \in Blocks
    <3>1. w2 \in Blocks' /\ Resolve(w2)' = f[Resolve(w)] BY <1>3, <1>4, <2>1 DEF Follows
    <3>2. Name(w2)' = IdOf(Resolve(w2))' BY <1>2, <3>1 DEF ViewFacts, AllRefs
    <3>3. IdOf(Resolve(w2))' = BlockIn(mem', Resolve(w2)').id BY DEF IdOf, BlockAt, BlockIn
    <3>4. BlockIn(mem', f[Resolve(w)]).id = IdOf(Resolve(w)) BY <1>4, <2>1 DEF MovesBlocks
    <3>5. Name(w) = IdOf(Resolve(w)) BY <1>2, <2>1 DEF ViewFacts
    <3> QED BY <3>1, <3>2, <3>3, <3>4, <3>5
  <2>2. CASE w \notin Blocks
    <3>1. w2 = w /\ w \in {Null, Static} BY <1>4, <2>2 DEF Follows, AllRefs
    <3>2. w \in AllRefs' /\ w \notin Blocks' BY <1>2, <3>1 DEF AllRefs, ReachFacts
    <3>3. Name(w)' = w BY <1>2, <3>2 DEF ViewFacts
    <3>4. Name(w) = w BY <1>2, <2>2 DEF ViewFacts
    <3> QED BY <3>1, <3>3, <3>4
  <2> QED BY <2>1, <2>2
<1>5. ASSUME NEW w \in LiveValues, NEW w2, Follows(f, w, w2) PROVE Name(w2)' = Name(w)
  <2>1. w \in AllRefs /\ (w \in Blocks => Resolve(w) \in ReachableBlocks)
    BY <1>2 DEF ReachFacts, Closed
  <2> QED BY <1>4, <1>5, <2>1
<1>6. FramesView' = FramesView
  <2>1. ASSUME NEW i \in DOMAIN stack, NEW n \in stack[i].live
        PROVE  Name(stack[i].values[n])' = Name(stack[i].values[n])
    <3>1. PICK w, w2 : w = stack[i].values[n] /\ w2 = stack'[i].values[n] OBVIOUS
    <3>2. w \in LiveValues BY <1>2, <3>1 DEF ReachFacts
    <3>3. Follows(f, w, w2) BY <3>1 DEF MovesRoots
    <3>4. Name(w2)' = Name(w) BY <1>5, <3>2, <3>3
    <3> QED BY <3>1, <3>4
  <2>2. DOMAIN stack' = DOMAIN stack /\ \A i \in DOMAIN stack : stack'[i].live = stack[i].live
    BY DEF MovesRoots
  <2> QED BY <2>1, <2>2 DEF FramesView
<1>7. GlobalsView' = GlobalsView
  <2>1. ASSUME NEW g \in Globals PROVE Name(globals[g])' = Name(globals[g])
    <3>1. PICK w, w2 : w = globals[g] /\ w2 = globals'[g] OBVIOUS
    <3>2. w \in LiveValues BY <1>2, <3>1 DEF ReachFacts
    <3>3. Follows(f, w, w2) BY <3>1 DEF MovesRoots
    <3>4. Name(w2)' = Name(w) BY <1>5, <3>2, <3>3
    <3> QED BY <3>1, <3>4
  <2> QED BY <2>1 DEF GlobalsView
<1>8. CFrameView' = CFrameView
  <2>1. ASSUME NEW c \in clive PROVE Name(cvars[c])' = Name(cvars[c])
    <3>1. PICK w, w2 : w = cvars[c] /\ w2 = cvars'[c] OBVIOUS
    <3>2. w \in LiveValues BY <1>2, <3>1 DEF ReachFacts
    <3>3. Follows(f, w, w2) BY <3>1 DEF MovesRoots
    <3>4. Name(w2)' = Name(w) BY <1>5, <3>2, <3>3
    <3> QED BY <3>1, <3>4
  <2>2. clive' = clive BY DEF MovesRoots
  <2> QED BY <2>1, <2>2 DEF CFrameView
<1>9. ASSUME NEW a \in ReachableBlocks, NEW a2, a2 = f[a]
      PROVE  Object(BlockAt(a2))' = Object(BlockAt(a)) /\ IdOf(a2)' = IdOf(a)
  <2>1. PICK b2 : b2 = BlockIn(mem', a2) OBVIOUS
  <2>2. PICK b : b = BlockAt(a) OBVIOUS
  <2>3. /\ b2.shape = b.shape /\ DOMAIN b2.fields = DOMAIN b.fields
        /\ \A i \in ScannedFields(b.shape) : Follows(f, b.fields[i], b2.fields[i])
        /\ \A i \in DOMAIN b.fields \ ScannedFields(b.shape) : b2.fields[i] = b.fields[i]
        /\ b2.id = IdOf(a)
    BY <1>9, <2>1, <2>2 DEF MovesBlocks
  <2>4. ASSUME NEW i \in ScannedFields(b.shape) PROVE Name(b2.fields[i])' = Name(b.fields[i])
    <3>1. PICK w, w2 : w = b.fields[i] /\ w2 = b2.fields[i] OBVIOUS
    <3>2. w \in References(a) BY <2>2, <3>1 DEF References
    <3>3. w \in AllRefs /\ (w \in Blocks => Resolve(w) \in ReachableBlocks)
      BY <1>2, <3>2 DEF ReachFacts, Closed
    <3>4. Follows(f, w, w2) BY <2>3, <3>1
    <3>5. Name(w2)' = Name(w) BY <1>4, <3>3, <3>4
    <3> QED BY <3>1, <3>5
  <2>5. BlockAt(a2)' = b2 BY <2>1 DEF BlockAt, BlockIn
  <2>6. Object(b2)' = Object(b) BY <2>3, <2>4 DEF Object
  <2>7. Object(BlockAt(a2))' = Object(b2)' BY <2>5 DEF Object
  <2> QED BY <2>2, <2>3, <2>5, <2>6, <2>7 DEF IdOf
<1>10. Objects' = Objects
  <2>1. PICK O2 : O2 = Objects' OBVIOUS
  <2>2. O2 = [id \in {IdOf(a)' : a \in ReachableBlocks'} |-> O2[id]]
    BY <1>2, <2>1 DEF ViewFacts
  <2>3. {IdOf(a)' : a \in ReachableBlocks'} = {IdOf(a) : a \in ReachableBlocks}
    BY <1>1, <1>9
  <2>4. ASSUME NEW a \in ReachableBlocks PROVE O2[IdOf(a)] = Objects[IdOf(a)]
    <3>1. PICK a2 \in ReachableBlocks' : a2 = f[a] BY <1>1
    <3>2. Objects[IdOf(a)] = Object(BlockAt(a)) BY <1>2 DEF ViewFacts
    <3>3. O2[IdOf(a2)'] = Object(BlockAt(a2))' BY <1>2, <2>1, <3>1 DEF ViewFacts
    <3> QED BY <1>9, <3>1, <3>2, <3>3
  <2>5. Objects = [id \in {IdOf(a) : a \in ReachableBlocks} |-> Objects[id]]
    BY <1>2 DEF ViewFacts
  <2> QED BY <2>1, <2>2, <2>3, <2>4, <2>5
<1> QED BY <1>6, <1>7, <1>8, <1>10 DEF Store0!vars

-----------------------------------------------------------------------------
(***************************************************************************)
(* gcCopy moves at most the block it copies.                               *)
(***************************************************************************)
BlocksOf(m) == {a \in {0, 1} \X Nat : a[2] \in DOMAIN m[a[1]]}

MovedBy(v) ==
  [a \in ReachableBlocks |-> IF MustCopy(v) /\ a = v THEN <<ToSpace, allocPtr>> ELSE a]

KeptBlocks(f, m) ==
  /\ \A a \in ReachableBlocks :
       /\ f[a] \in BlocksOf(m)
       /\ BlockIn(m, f[a]).id = IdOf(a)
       /\ BlockIn(m, f[a]).shape = BlockAt(a).shape
       /\ BlockIn(m, f[a]).fields = BlockAt(a).fields
  /\ \A a, b \in ReachableBlocks : f[a] = f[b] => a = b

KeptReferences(f, m, v) ==
  /\ \A w \in Blocks :
       /\ w \in BlocksOf(m)
       /\ Resolve(w) \in ReachableBlocks => ResolveIn(m, cur, TRUE, w) = f[Resolve(w)]
  /\ v \in Blocks => Copied(v) \in BlocksOf(m) /\ ResolveIn(m, cur, TRUE, Copied(v)) = f[Resolve(v)]
  /\ v \notin Blocks => Copied(v) = v

NamedCopies(f, m) ==
  /\ \A s \in {0, 1} : \A o \in DOMAIN m[s] : m[s][o].id \in Ids
  /\ \A o \in DOMAIN m[cur] :
       IsForwarded(m[cur][o]) =>
         /\ m[cur][o].header[2] \in DOMAIN m[ToSpace]
         /\ m[ToSpace][m[cur][o].header[2]].id = m[cur][o].id
  /\ \A o \in DOMAIN m[ToSpace] : \E a \in ReachableBlocks : <<ToSpace, o>> = f[a]

CopyMoves(f, m, v) ==
  IsMemory(m) /\ KeptBlocks(f, m) /\ KeptReferences(f, m, v) /\ NamedCopies(f, m)

\* The reference leads to a block the program can reach.
Leads(v) == v \in AllRefs /\ (v \in Blocks => Resolve(v) \in ReachableBlocks)

\* A block that was moved already, or a reference out of the heap: nothing moves.
LEMMA CopyNothing ==
  ASSUME IInv, StoreInv, Collecting, NEW v, Leads(v), ~MustCopy(v)
  PROVE  CopyMoves(MovedBy(v), MemoryAfter(v), v)
<1> DEFINE f == MovedBy(v)
<1>1. MemoryAfter(v) = mem BY DEF MemoryAfter
<1>2. f = [a \in ReachableBlocks |-> a] BY DEF MovedBy
<1>3. BlocksOf(mem) = Blocks BY DEF BlocksOf, Blocks
<1>4. \A a : BlockIn(mem, a) = BlockAt(a) BY DEF BlockIn, BlockAt
<1>5. \A w : ResolveIn(mem, cur, TRUE, w) = Resolve(w)
  BY DEF ResolveIn, Resolve, InHeap, HasBlock, BlockIn, BlockAt
<1> HIDE DEF f
<1>6. KeptBlocks(f, mem)
  <2>1. ASSUME NEW a \in ReachableBlocks PROVE f[a] = a /\ f[a] \in BlocksOf(mem)
    BY <1>2, <1>3, ReachableAreBlocks
  <2> QED BY <1>4, <2>1 DEF KeptBlocks, IdOf
<1>7. Copied(v) = Resolve(v)
  <2>1. CASE InHeap(v)
    <3>1. IsForwarded(BlockAt(v)) /\ IsAddress(v) /\ v[1] = cur BY <2>1 DEF MustCopy, InHeap
    <3>2. v \in Blocks
      <4>1. v \in {Null, Static} \/ v \in Blocks BY DEF Leads, AllRefs
      <4> QED BY <3>1, <4>1, AddressFacts
    <3>3. HasBlock(v) BY <3>2, BlockFacts
    <3> QED BY <2>1, <3>1, <3>3 DEF Copied, Resolve
  <2>2. CASE ~InHeap(v) BY <2>2 DEF Copied, Resolve
  <2> QED BY <2>1, <2>2
<1>8. \A w \in Blocks : Resolve(w) \in Blocks /\ Resolve(Resolve(w)) = Resolve(w)
  <2> SUFFICES ASSUME NEW w \in Blocks PROVE Resolve(w) \in Blocks /\ Resolve(Resolve(w)) = Resolve(w)
    OBVIOUS
  <2>1. cur \in {0, 1} BY DEF IInv, TypeInv
  <2>2. Resolve(w) \in Blocks /\ w \in AllRefs BY ResolveFacts DEF AllRefs
  <2>3. CASE Resolve(w) = w BY <2>2, <2>3
  <2>4. CASE Resolve(w) # w
    <3>1. Resolve(w)[1] = ToSpace BY <2>2, <2>4, ResolveFacts
    <3>2. Resolve(w)[1] # cur /\ Resolve(w) \in AllRefs BY <2>1, <2>2, <3>1, Spaces DEF AllRefs
    <3> QED BY <2>2, <3>2, ResolveFacts
  <2> QED BY <2>3, <2>4
<1>9. v \notin Blocks => Resolve(v) = v BY ResolveFacts DEF Leads
<1>10. KeptReferences(f, mem, v)
  BY <1>2, <1>3, <1>5, <1>7, <1>8, <1>9 DEF KeptReferences, Leads
<1>11. NamedCopies(f, mem)
  <2>1. ASSUME NEW o \in DOMAIN mem[cur], IsForwarded(mem[cur][o])
        PROVE  mem[cur][o].header[2] \in DOMAIN mem[ToSpace]
    <3>1. cur \in {0, 1} BY DEF IInv, TypeInv
    <3>2. <<cur, o>> \in Blocks /\ BlockAt(<<cur, o>>) = mem[cur][o]
      BY <3>1, RefsAreAll DEF BlockAt
    <3>3. <<cur, o>> \in AllRefs BY <3>2 DEF AllRefs
    <3> QED BY <2>1, <3>2, <3>3, ResolveFacts
  <2> QED BY <1>2, <2>1 DEF NamedCopies, StoreInv, KnownIds, Copies
<1>12. IsMemory(mem) BY DEF IInv, TypeInv
<1> QED BY <1>1, <1>6, <1>10, <1>11, <1>12 DEF CopyMoves, f

\* A block that was not: it moves to the end of the copies.
LEMMA CopyOne ==
  ASSUME IInv, StoreInv, Collecting, NEW v, Leads(v), MustCopy(v)
  PROVE  CopyMoves(MovedBy(v), MemoryAfter(v), v)
<1> DEFINE f == MovedBy(v)
           m == MemoryAfter(v)
           new == <<ToSpace, allocPtr>>
<1>1. cur \in {0, 1} /\ TypeInv /\ HeapInv(mem, cur, ToSpace, allocPtr, scanPtr, scanField)
  BY CopyingHeap DEF IInv, TypeInv
<1>2. InHeap(v) /\ ~IsForwarded(BlockAt(v)) /\ IsAddress(v) /\ v[1] = cur BY DEF MustCopy, InHeap
<1>3. v \in Blocks
  <2>1. v \in {Null, Static} \/ v \in Blocks BY DEF Leads, AllRefs
  <2> QED BY <1>2, <2>1, AddressFacts
<1>4. v = <<cur, v[2]>> /\ v[2] \in DOMAIN mem[cur] /\ BlockAt(v) = mem[cur][v[2]]
  BY <1>2, <1>3, BlockFacts
<1>5. PICK o \in DOMAIN mem[cur] : v = <<cur, o>> /\ BlockAt(v) = mem[cur][o] /\ o = v[2]
  BY <1>4
<1>6. /\ HeapInv(m, cur, ToSpace, allocPtr + Words(BlockAt(v)), scanPtr, scanField)
      /\ DOMAIN m[cur] = DOMAIN mem[cur]
      /\ DOMAIN m[ToSpace] = DOMAIN mem[ToSpace] \cup {allocPtr}
      /\ \A p \in DOMAIN mem[ToSpace] : m[ToSpace][p] = mem[ToSpace][p]
      /\ allocPtr \notin DOMAIN mem[ToSpace] /\ m[ToSpace][allocPtr] = mem[cur][o]
      /\ \A p \in DOMAIN mem[cur] : p # o => m[cur][p] = mem[cur][p]
      /\ m[cur][o].header = new /\ m[cur][o].id = mem[cur][o].id
      /\ m[cur][o].shape = mem[cur][o].shape /\ m[cur][o].fields = mem[cur][o].fields
  <2> HIDE DEF m
  <2> QED BY <1>1, <1>5, CopyNew DEF m
<1>7. allocPtr \in Nat /\ IsMemory(m) BY <1>6, <1>1 DEF HeapInv
<1>8. ToSpace \in {0, 1} /\ ToSpace # cur /\ {0, 1} = {cur, ToSpace} BY <1>1, Spaces
<1>9. Resolve(v) = v /\ v \in ReachableBlocks
  <2>1. Resolve(v) = v BY <1>2, <1>3, ResolveFacts DEF Leads
  <2> QED BY <1>3, <2>1 DEF Leads
<1>10. f = [a \in ReachableBlocks |-> IF a = v THEN new ELSE a] BY DEF MovedBy
<1>11. Copied(v) = new BY <1>2 DEF Copied, MustCopy
<1> HIDE DEF f, m
<1>12. new = <<new[1], new[2]>> /\ new[1] = ToSpace /\ new[2] = allocPtr /\ IsAddress(new)
       /\ new \in {0, 1} \X Nat
  BY <1>7, <1>8, AddressFacts
<1> HIDE DEF new
<1>13. new \in BlocksOf(m) /\ BlockIn(m, new) = mem[cur][o] /\ new \notin Blocks
  BY <1>6, <1>12 DEF BlocksOf, BlockIn, Blocks
<1>14. ASSUME NEW a \in Blocks
       PROVE  /\ a \in BlocksOf(m)
              /\ BlockIn(m, a).id = IdOf(a)
              /\ BlockIn(m, a).shape = BlockAt(a).shape
              /\ BlockIn(m, a).fields = BlockAt(a).fields
              /\ a # v => BlockIn(m, a) = BlockAt(a)
  <2>1. a = <<a[1], a[2]>> /\ a[1] \in {cur, ToSpace} /\ a[2] \in DOMAIN mem[a[1]]
        /\ BlockAt(a) = mem[a[1]][a[2]] /\ a[1] \in {0, 1} /\ a[2] \in Nat
    BY BlockFacts
  <2>2. a \in BlocksOf(m) BY <1>6, <2>1 DEF BlocksOf, Blocks
  <2>3. CASE a = v
    <3>1. BlockIn(m, a) = m[cur][o] BY <1>2, <1>5, <2>3 DEF BlockIn
    <3> QED BY <1>5, <1>6, <2>2, <2>3, <3>1 DEF IdOf
  <2>4. CASE a # v
    <3>1. a[1] = cur => a[2] # o BY <1>5, <2>1, <2>4
    <3>2. m[a[1]][a[2]] = mem[a[1]][a[2]] BY <1>6, <2>1, <3>1
    <3> QED BY <2>1, <2>2, <3>2 DEF BlockIn, IdOf
  <2> QED BY <2>3, <2>4
<1>15. ReachableBlocks \subseteq Blocks BY ReachableAreBlocks
<1>16. KeptBlocks(f, m)
  <2>1. ASSUME NEW a \in ReachableBlocks
        PROVE  /\ f[a] \in BlocksOf(m)
               /\ BlockIn(m, f[a]).id = IdOf(a)
               /\ BlockIn(m, f[a]).shape = BlockAt(a).shape
               /\ BlockIn(m, f[a]).fields = BlockAt(a).fields
    <3>1. CASE a = v
      <4>1. f[a] = new BY <1>10, <3>1
      <4> QED BY <1>5, <1>13, <3>1, <4>1 DEF IdOf
    <3>2. CASE a # v
      <4>1. f[a] = a BY <1>10, <3>2
      <4> QED BY <1>14, <1>15, <4>1
    <3> QED BY <3>1, <3>2
  <2>2. \A a, b \in ReachableBlocks : f[a] = f[b] => a = b
    BY <1>10, <1>13, <1>15
  <2> QED BY <2>1, <2>2 DEF KeptBlocks
<1>17. KeptReferences(f, m, v)
  <2>1. ASSUME NEW w \in Blocks, Resolve(w) \in ReachableBlocks
        PROVE  ResolveIn(m, cur, TRUE, w) = f[Resolve(w)]
    <3>1. IsAddress(w) /\ w[1] \in {0, 1} /\ w[2] \in DOMAIN mem[w[1]] /\ w \in AllRefs /\ HasBlock(w)
      BY BlockFacts DEF AllRefs
    <3>2. CASE w = v
      <4>1. BlockIn(m, w).header = new /\ w[1] = cur /\ w[2] \in DOMAIN m[cur]
        BY <1>2, <1>5, <1>6, <3>2 DEF BlockIn
      <4>2. ResolveIn(m, cur, TRUE, w) = new
        BY <1>12, <3>1, <4>1 DEF ResolveIn, IsForwarded
      <4> QED BY <1>9, <1>10, <3>2, <4>2
    <3>3. CASE w # v
      <4>1. BlockIn(m, w) = BlockAt(w) BY <1>14, <3>3
      <4>2. ResolveIn(m, cur, TRUE, w) = Resolve(w)
        BY <1>6, <3>1, <4>1 DEF ResolveIn, Resolve, InHeap
      <4>3. Resolve(w) # v
        <5>1. CASE Resolve(w) = w BY <3>3, <5>1
        <5>2. CASE Resolve(w) # w
          <6>1. Resolve(w)[1] = ToSpace BY <3>1, <5>2, ResolveFacts
          <6> QED BY <1>2, <1>8, <6>1
        <5> QED BY <5>1, <5>2
      <4> QED BY <1>10, <2>1, <4>2, <4>3
    <3> QED BY <3>2, <3>3
  <2>2. ResolveIn(m, cur, TRUE, new) = new BY <1>8, <1>12 DEF ResolveIn
  <2>3. f[Resolve(v)] = new BY <1>9, <1>10
  <2> QED BY <1>3, <1>11, <1>13, <1>14, <2>1, <2>2, <2>3 DEF KeptReferences
<1>18. NamedCopies(f, m)
  <2>1. KnownIds /\ Copies BY DEF StoreInv
  <2>2. \A s \in {0, 1} : \A p \in DOMAIN m[s] : m[s][p].id \in Ids
    <3>1. \A p \in DOMAIN m[cur] : m[cur][p].id \in Ids
      BY <1>1, <1>6, <2>1 DEF KnownIds
    <3>2. \A p \in DOMAIN m[ToSpace] : m[ToSpace][p].id \in Ids
      BY <1>1, <1>6, <1>8, <2>1 DEF KnownIds
    <3> QED BY <1>8, <3>1, <3>2
  <2>3. ASSUME NEW p \in DOMAIN m[cur], IsForwarded(m[cur][p])
        PROVE  /\ m[cur][p].header[2] \in DOMAIN m[ToSpace]
               /\ m[ToSpace][m[cur][p].header[2]].id = m[cur][p].id
    <3>1. CASE p = o BY <1>6, <1>12, <3>1
    <3>2. CASE p # o
      <4>1. m[cur][p] = mem[cur][p] /\ p \in DOMAIN mem[cur] BY <1>6, <3>2
      <4>2. mem[ToSpace][mem[cur][p].header[2]].id = mem[cur][p].id
        BY <2>1, <2>3, <4>1 DEF Copies
      <4>3. mem[cur][p].header[2] \in DOMAIN mem[ToSpace]
        <5>1. <<cur, p>> \in Blocks /\ BlockAt(<<cur, p>>) = mem[cur][p]
          BY <1>1, <4>1, RefsAreAll DEF BlockAt
        <5>2. <<cur, p>> \in AllRefs BY <5>1 DEF AllRefs
        <5> QED BY <2>3, <4>1, <5>1, <5>2, ResolveFacts
      <4> QED BY <1>6, <4>1, <4>2, <4>3
    <3> QED BY <3>1, <3>2
  <2>4. ASSUME NEW p \in DOMAIN m[ToSpace] PROVE \E a \in ReachableBlocks : <<ToSpace, p>> = f[a]
    <3>1. CASE p = allocPtr
      <4>1. <<ToSpace, p>> = f[v] BY <1>9, <1>10, <3>1 DEF new
      <4> QED BY <1>9, <4>1
    <3>2. CASE p # allocPtr
      <4>1. <<ToSpace, p>> \in ReachableBlocks BY <1>6, <2>1, <3>2 DEF Copies
      <4>2. <<ToSpace, p>> # v BY <1>2, <1>8
      <4> QED BY <1>10, <4>1, <4>2
    <3> QED BY <3>1, <3>2
  <2> QED BY <2>2, <2>3, <2>4 DEF NamedCopies
<1> QED BY <1>7, <1>16, <1>17, <1>18 DEF CopyMoves, f, m

-----------------------------------------------------------------------------
(***************************************************************************)
(* The steps of a collection.                                              *)
(***************************************************************************)

\* References that lead to blocks the program can reach go on doing so.
LeadsOn == \A u : Leads(u) => Leads(u)'

\* They do in a step that changes none of them.
LEMMA LeadsStep ==
  ASSUME IInv, StoreInv, IInv', KnownIds', NEW f, MovesBlocks(f), MovesRoots(f),
         \A u : Leads(u) => Follows(f, u, u)
  PROVE  LeadsOn
<1>1. ReachableBlocks' = {f[a] : a \in ReachableBlocks} BY MovesReach
<1>2. ReachFacts'
  <2>1. (IInv => ReachFacts)' BY ReachHolds, PTL
  <2> QED BY <2>1
<1>3. \A w : Resolve(w)' = ResolveIn(mem', cur', Collecting', w)
  BY DEF Resolve, ResolveIn, InHeap, HasBlock, BlockAt, BlockIn
<1>4. ASSUME NEW u, Leads(u) PROVE Leads(u)'
  <2>1. Follows(f, u, u) BY <1>4
  <2>2. CASE u \in Blocks
    <3>1. u \in Blocks' /\ Resolve(u)' = f[Resolve(u)] BY <1>3, <2>1, <2>2 DEF Follows
    <3>2. Resolve(u) \in ReachableBlocks BY <1>4, <2>2 DEF Leads
    <3>3. Resolve(u)' \in ReachableBlocks' BY <1>1, <3>1, <3>2
    <3> QED BY <3>1, <3>3 DEF Leads, AllRefs
  <2>3. CASE u \notin Blocks
    <3>1. u \in {Null, Static} BY <1>4, <2>3 DEF Leads, AllRefs
    <3>2. u \notin Blocks' BY <1>2, <3>1 DEF ReachFacts
    <3> QED BY <3>1, <3>2 DEF Leads, AllRefs
  <2> QED BY <2>2, <2>3
<1> QED BY <1>4 DEF LeadsOn

\* The frames keep their live slots.
LEMMA SameLive ==
  ASSUME IInv, IInv', NEW f, MovesRoots(f)
  PROVE  frame'.live = frame.live /\ clive' = clive
<1>1. stack \in Seq(Frames) /\ stack # <<>> BY DEF IInv, TypeInv
<1>2. stack' \in Seq(Frames) BY DEF IInv, TypeInv, IsMemory, IsBlock
<1>3. DOMAIN stack' = DOMAIN stack /\ \A i \in DOMAIN stack : stack'[i].live = stack[i].live
  BY DEF MovesRoots
<1>4. Len(stack') = Len(stack) /\ Len(stack) \in DOMAIN stack
  BY <1>1, <1>2, <1>3
<1> QED BY <1>3, <1>4 DEF frame, top, MovesRoots

\* A step that copies keeps the invariant, and is invisible.
LEMMA CollectStep ==
  ASSUME IInv, StoreInv, IInv', Collecting, UNCHANGED <<cur, pc, request>>,
         NEW f, MovesBlocks(f), MovesRoots(f), NamedCopies(f, mem'),
         \A u : Leads(u) => Follows(f, u, u)
  PROVE  StoreInv' /\ UNCHANGED Store0!vars /\ LeadsOn
<1>1. KnownIds' BY DEF NamedCopies, KnownIds
<1>2. ReachableBlocks' = {f[a] : a \in ReachableBlocks} /\ UniqueIds'
  BY <1>1, MovesReach
<1>3. UNCHANGED <<Collecting, ToSpace, Allocating>> BY DEF Collecting, ToSpace, Allocating
<1>4. Copies'
  <2>1. PICK R : R = ReachableBlocks' OBVIOUS
  <2>2. \A o \in DOMAIN mem'[ToSpace] : <<ToSpace, o>> \in R
    BY <1>2, <2>1 DEF NamedCopies
  <2> QED BY <1>3, <2>1, <2>2 DEF NamedCopies, Copies
<1>5. pc' \notin {"resize", "retry", "last"} BY DEF Collecting
<1>6. frame'.live = frame.live /\ clive' = clive BY SameLive
<1>7. StoreInv'
  BY <1>1, <1>2, <1>3, <1>4, <1>5, <1>6 DEF StoreInv
<1>8. LeadsOn BY <1>1, LeadsStep
<1> QED BY <1>7, <1>8, MovesView

\* References that a copy does not change follow the blocks they lead to.
LEMMA StillLeads ==
  ASSUME IInv, StoreInv, Collecting, UNCHANGED <<cur, pc>>, NEW f, NEW v,
         KeptReferences(f, mem', v)
  PROVE  /\ \A w : Leads(w) => Follows(f, w, w)
         /\ Leads(v) => Follows(f, v, Copied(v))
<1>1. Collecting' = TRUE BY DEF Collecting
<1>2. BlocksOf(mem') = Blocks' BY DEF BlocksOf, Blocks
<1> QED BY <1>1, <1>2 DEF KeptReferences, Leads, Follows

\* What the program can read leads to blocks it can reach.
LEMMA LiveLeads ==
  ASSUME IInv, StoreInv
  PROVE  /\ \A w \in LiveValues : Leads(w)
         /\ \A a \in ReachableBlocks : a \in Blocks /\ \A w \in References(a) : Leads(w)
         /\ \A i \in DOMAIN stack : \A n \in stack[i].live : stack[i].values[n] \in LiveValues
         /\ \A g \in Globals : globals[g] \in LiveValues
         /\ \A c \in clive : cvars[c] \in LiveValues
<1>1. ReachFacts /\ Closed(ReachableBlocks) BY ReachHolds DEF ReachFacts, StoreInv
<1> QED BY <1>1 DEF ReachFacts, Closed, Leads

\* gcCopyRoots: copying what one root refers to leaves the program's view as it is.
LEMMA CopyRootMoves ==
  IInv /\ IInv' /\ StoreInv /\ CopyRoot => StoreInv' /\ UNCHANGED Store0!vars /\ LeadsOn
<1> SUFFICES ASSUME IInv, IInv', StoreInv, CopyRoot
             PROVE  StoreInv' /\ UNCHANGED Store0!vars /\ LeadsOn
  OBVIOUS
<1>1. PICK root, v, w : RootCopied(root, v, w) BY CopyRootEffect, Zenon
<1>2. /\ Collecting /\ UNCHANGED <<cur, pc, request, clive>> /\ mem' = MemoryAfter(v)
      /\ w = Copied(v) /\ v \in LiveValues
  BY <1>1 DEF RootCopied, CopyMade
<1>3. Leads(v) BY <1>2, LiveLeads
<1>4. PICK f : f = MovedBy(v) OBVIOUS
<1>5. CopyMoves(f, mem', v) BY <1>2, <1>3, <1>4, CopyNothing, CopyOne
<1>6. KeptBlocks(f, mem') /\ KeptReferences(f, mem', v) /\ NamedCopies(f, mem')
  BY <1>5 DEF CopyMoves
<1>7. /\ \A u : Leads(u) => Follows(f, u, u)
      /\ Follows(f, v, w)
  BY <1>2, <1>3, <1>6, StillLeads
<1>8. MovesBlocks(f)
  <2>1. BlocksOf(mem') = Blocks' BY DEF BlocksOf, Blocks
  <2>2. ASSUME NEW a \in ReachableBlocks
        PROVE  /\ f[a] \in Blocks'
               /\ BlockIn(mem', f[a]).id = IdOf(a)
               /\ BlockIn(mem', f[a]).shape = BlockAt(a).shape
               /\ \A i \in ScannedFields(BlockAt(a).shape) :
                    Follows(f, BlockAt(a).fields[i], BlockIn(mem', f[a]).fields[i])
               /\ \A i \in DOMAIN BlockAt(a).fields \ ScannedFields(BlockAt(a).shape) :
                    BlockIn(mem', f[a]).fields[i] = BlockAt(a).fields[i]
               /\ DOMAIN BlockIn(mem', f[a]).fields = DOMAIN BlockAt(a).fields
    <3>1. BlockIn(mem', f[a]).fields = BlockAt(a).fields BY <1>6 DEF KeptBlocks
    <3>2. ASSUME NEW i \in ScannedFields(BlockAt(a).shape) PROVE Leads(BlockAt(a).fields[i])
      <4>1. BlockAt(a).fields[i] \in References(a) BY DEF References
      <4> QED BY <4>1, LiveLeads
    <3> QED BY <1>6, <1>7, <2>1, <3>1, <3>2 DEF KeptBlocks
  <2> QED BY <1>6, <2>2 DEF KeptBlocks, MovesBlocks
<1>9. MovesRoots(f)
  <2>1. RootReplaced(root, v, w) BY <1>1 DEF RootCopied
  <2>2. ASSUME NEW i \in DOMAIN stack, NEW n \in stack[i].live
        PROVE  Follows(f, stack[i].values[n], stack'[i].values[n])
    <3>1. Leads(stack[i].values[n]) BY LiveLeads
    <3>2. CASE root.kind = "stack" /\ root.frame = i /\ root.name = n
      <4>1. stack'[i].values[n] = w /\ stack[i].values[n] = v BY <2>1, <3>2 DEF RootReplaced
      <4> QED BY <1>7, <4>1
    <3>3. CASE ~(root.kind = "stack" /\ root.frame = i /\ root.name = n)
      <4>1. stack'[i].values[n] = stack[i].values[n] BY <2>1, <3>3 DEF RootReplaced
      <4> QED BY <1>7, <3>1, <4>1
    <3> QED BY <3>2, <3>3
  <2>3. ASSUME NEW g \in Globals PROVE Follows(f, globals[g], globals'[g])
    <3>1. Leads(globals[g]) BY LiveLeads
    <3>2. CASE root.kind = "global" /\ root.name = g
      <4>1. globals'[g] = w /\ globals[g] = v BY <2>1, <3>2 DEF RootReplaced
      <4> QED BY <1>7, <4>1
    <3>3. CASE ~(root.kind = "global" /\ root.name = g)
      <4>1. globals'[g] = globals[g] BY <2>1, <3>3 DEF RootReplaced
      <4> QED BY <1>7, <3>1, <4>1
    <3> QED BY <3>2, <3>3
  <2>4. ASSUME NEW c \in clive PROVE Follows(f, cvars[c], cvars'[c])
    <3>1. Leads(cvars[c]) BY LiveLeads
    <3>4. c \in CVars BY DEF IInv, TypeInv
    <3>2. CASE root.kind = "c" /\ root.name = c
      <4>1. cvars'[c] = w /\ cvars[c] = v BY <2>1, <3>2, <3>4 DEF RootReplaced
      <4> QED BY <1>7, <4>1
    <3>3. CASE ~(root.kind = "c" /\ root.name = c)
      <4>1. cvars'[c] = cvars[c] BY <2>1, <3>3, <3>4 DEF RootReplaced
      <4> QED BY <1>7, <3>1, <4>1
    <3> QED BY <3>2, <3>3
  <2>5. /\ clive' = clive /\ DOMAIN stack' = DOMAIN stack
        /\ \A i \in DOMAIN stack : stack'[i].live = stack[i].live
    BY <1>2, <2>1 DEF RootReplaced
  <2> QED BY <2>2, <2>3, <2>4, <2>5 DEF MovesRoots
<1> QED BY <1>2, <1>6, <1>7, <1>8, <1>9, CollectStep

\* gcScan, for a field.
LEMMA ScanFieldMoves ==
  IInv /\ IInv' /\ StoreInv /\ ScanField => StoreInv' /\ UNCHANGED Store0!vars /\ LeadsOn
<1> SUFFICES ASSUME IInv, IInv', StoreInv, ScanField
             PROVE  StoreInv' /\ UNCHANGED Store0!vars /\ LeadsOn
  OBVIOUS
<1>1. /\ Collecting /\ scanPtr < allocPtr /\ UNCHANGED <<cur, program, pc, request>>
      /\ scanField \in DOMAIN Scanned.shape.refs
  BY DEF ScanField, Scanning
<1>2. /\ cur \in {0, 1} /\ IsMemory(mem) /\ scanPtr \in DOMAIN mem[ToSpace]
      /\ HeapInv(mem, cur, ToSpace, allocPtr, scanPtr, scanField)
  <2>1. TypeInv /\ Copying BY <1>1 DEF IInv
  <2> QED BY <1>1, <2>1, CopyingHeap DEF TypeInv, Copying
<1>3. UNCHANGED <<stack, globals, cvars, clive>> BY <1>1 DEF program
<1> DEFINE s == ToSpace
           at == <<s, scanPtr>>
<1>4. /\ s \in {0, 1} /\ s # cur /\ {0, 1} = {cur, s}
      /\ at[1] = s /\ at[2] = scanPtr /\ at \in Blocks /\ BlockAt(at) = Scanned
  BY <1>2, Spaces, RefsAreAll DEF BlockAt, Scanned
<1>5. at \in ReachableBlocks BY <1>1, <1>2 DEF StoreInv, Copies
<1> HIDE DEF at, s
<1>6. CASE scanField \notin ScannedFields(Scanned.shape)
  <2>1. mem' = mem BY <1>6 DEF ScanField
  <2>2. PICK v : v = Null OBVIOUS
  <2>3. Leads(v) /\ ~MustCopy(v) /\ MemoryAfter(v) = mem
    <3>1. v \in AllRefs /\ ~IsAddress(v) BY <2>2, AddressFacts DEF AllRefs
    <3>2. v \notin Blocks BY <2>2, BlockFacts
    <3> QED BY <3>1, <3>2 DEF Leads, MustCopy, InHeap, MemoryAfter
  <2>4. PICK f : f = MovedBy(v) OBVIOUS
  <2>5. CopyMoves(f, mem', v) BY <1>1, <2>1, <2>3, <2>4, CopyNothing
  <2>6. KeptBlocks(f, mem') /\ KeptReferences(f, mem', v) /\ NamedCopies(f, mem')
    BY <2>5 DEF CopyMoves
  <2>7. \A u : Leads(u) => Follows(f, u, u) BY <1>1, <2>6, StillLeads
  <2>8. MovesBlocks(f)
    <3>1. BlocksOf(mem') = Blocks' BY DEF BlocksOf, Blocks
    <3>2. ASSUME NEW a \in ReachableBlocks, NEW i \in ScannedFields(BlockAt(a).shape)
          PROVE  Leads(BlockAt(a).fields[i])
      <4>1. BlockAt(a).fields[i] \in References(a) BY DEF References
      <4> QED BY <4>1, LiveLeads
    <3> QED BY <2>6, <2>7, <3>1, <3>2 DEF KeptBlocks, MovesBlocks
  <2>9. MovesRoots(f)
    BY <1>3, <2>7, LiveLeads DEF MovesRoots
  <2> QED BY <1>1, <2>6, <2>7, <2>8, <2>9, CollectStep
<1>7. CASE scanField \in ScannedFields(Scanned.shape)
  <2>1. PICK v, w, m : /\ v = Scanned.fields[scanField] /\ w = Copied(v) /\ m = MemoryAfter(v)
                       /\ gcCopy(v) /\ mem' = WithField(m, s, scanPtr, scanField, w)
    BY <1>7 DEF ScanField, WithField, s
  <2>2. v \in References(at) BY <1>4, <1>7, <2>1 DEF References
  <2>3. Leads(v) BY <1>5, <2>2, LiveLeads
  <2>4. PICK f : f = MovedBy(v) OBVIOUS
  <2>5. CopyMoves(f, m, v) BY <1>1, <2>1, <2>3, <2>4, CopyNothing, CopyOne
  <2>6. IsMemory(m) /\ KeptBlocks(f, m) /\ KeptReferences(f, m, v) /\ NamedCopies(f, m)
    BY <2>5 DEF CopyMoves
  <2>7. f[at] = at
    <3>1. MustCopy(v) => v # at BY <1>4 DEF MustCopy, InHeap
    <3> QED BY <1>5, <2>4, <3>1 DEF MovedBy
  <2>8. /\ scanPtr \in DOMAIN m[s] /\ m[s][scanPtr].shape = Scanned.shape
        /\ m[s][scanPtr].id = IdOf(at) /\ m[s][scanPtr].fields = Scanned.fields
    BY <1>4, <1>5, <2>6, <2>7 DEF KeptBlocks, BlockIn, BlocksOf
  <2>9. FieldChanged(mem', m, s, scanPtr, scanField, w)
    BY <1>4, <1>7, <2>1, <2>6, <2>8, FieldFacts
  <2>10. /\ BlocksOf(mem') = BlocksOf(m) /\ BlocksOf(mem') = Blocks'
         /\ \A a \in BlocksOf(m) :
              /\ BlockIn(mem', a).header = BlockIn(m, a).header
              /\ BlockIn(mem', a).id = BlockIn(m, a).id
              /\ BlockIn(mem', a).shape = BlockIn(m, a).shape
              /\ a # at => BlockIn(mem', a) = BlockIn(m, a)
    <3>1. ASSUME NEW a \in BlocksOf(m)
          PROVE  /\ BlockIn(mem', a).header = BlockIn(m, a).header
                 /\ BlockIn(mem', a).id = BlockIn(m, a).id
                 /\ BlockIn(mem', a).shape = BlockIn(m, a).shape
                 /\ a # at => BlockIn(mem', a) = BlockIn(m, a)
      <4>1. a = <<a[1], a[2]>> /\ a[1] \in {0, 1} /\ a[2] \in DOMAIN m[a[1]] BY DEF BlocksOf
      <4>2. a # at => a[1] # s \/ a[2] # scanPtr BY <4>1 DEF at
      <4>3. a # at => mem'[a[1]][a[2]] = m[a[1]][a[2]] BY <2>9, <4>1, <4>2 DEF FieldChanged
      <4> QED BY <1>4, <2>9, <4>3 DEF FieldChanged, BlockIn
    <3>2. BlocksOf(mem') = BlocksOf(m) BY <2>9 DEF BlocksOf, FieldChanged
    <3> QED BY <3>1, <3>2 DEF BlocksOf, Blocks
  <2>11. \A u \in BlocksOf(m) : ResolveIn(mem', cur, TRUE, u) = ResolveIn(m, cur, TRUE, u)
    <3>1. \A u : cur \in {0, 1} => DOMAIN mem'[cur] = DOMAIN m[cur] BY <2>9 DEF FieldChanged
    <3> QED BY <1>2, <2>10, <3>1 DEF ResolveIn, IsForwarded
  <2>12. /\ KeptReferences(f, mem', v) /\ NamedCopies(f, mem')
    <3>1. KeptReferences(f, mem', v) BY <2>6, <2>10, <2>11 DEF KeptReferences
    <3>2. ASSUME NEW r \in {0, 1}
          PROVE  /\ DOMAIN mem'[r] = DOMAIN m[r]
                 /\ \A o \in DOMAIN m[r] : /\ mem'[r][o].header = m[r][o].header
                                           /\ mem'[r][o].id = m[r][o].id
      <4>1. DOMAIN mem'[r] = DOMAIN m[r] BY <2>9 DEF FieldChanged
      <4>2. ASSUME NEW o \in DOMAIN m[r]
            PROVE  mem'[r][o].header = m[r][o].header /\ mem'[r][o].id = m[r][o].id
        <5>1. <<r, o>> \in BlocksOf(m) BY <2>6 DEF IsMemory, BlocksOf
        <5> QED BY <2>10, <5>1 DEF BlockIn
      <4> QED BY <4>1, <4>2
    <3>3. NamedCopies(f, mem')
      <4> DEFINE t == ToSpace
      <4>1. t \in {0, 1} BY <1>4 DEF s
      <4> HIDE DEF t
      <4>2. /\ \A r \in {0, 1} : \A o \in DOMAIN m[r] : m[r][o].id \in Ids
            /\ \A o \in DOMAIN m[cur] :
                 IsForwarded(m[cur][o]) =>
                   /\ m[cur][o].header[2] \in DOMAIN m[t]
                   /\ m[t][m[cur][o].header[2]].id = m[cur][o].id
            /\ \A o \in DOMAIN m[t] : \E a \in ReachableBlocks : <<t, o>> = f[a]
        BY <2>6 DEF NamedCopies, t
      <4>3. /\ \A r \in {0, 1} : \A o \in DOMAIN mem'[r] : mem'[r][o].id \in Ids
            /\ \A o \in DOMAIN mem'[t] : \E a \in ReachableBlocks : <<t, o>> = f[a]
        BY <3>2, <4>1, <4>2
      <4>4. ASSUME NEW o \in DOMAIN mem'[cur], IsForwarded(mem'[cur][o])
            PROVE  /\ mem'[cur][o].header[2] \in DOMAIN mem'[t]
                   /\ mem'[t][mem'[cur][o].header[2]].id = mem'[cur][o].id
        <5>1. o \in DOMAIN m[cur] /\ mem'[cur][o].header = m[cur][o].header
              /\ mem'[cur][o].id = m[cur][o].id
          BY <1>2, <3>2
        <5>2. IsForwarded(m[cur][o]) BY <4>4, <5>1 DEF IsForwarded
        <5>3. m[cur][o].header[2] \in DOMAIN m[t] /\ m[t][m[cur][o].header[2]].id = m[cur][o].id
          BY <4>2, <5>1, <5>2
        <5> QED BY <3>2, <4>1, <5>1, <5>3
      <4> QED BY <4>3, <4>4 DEF NamedCopies, t
    <3> QED BY <3>1, <3>3
  <2>13. /\ \A u : Leads(u) => Follows(f, u, u)
         /\ Follows(f, v, w)
    BY <1>1, <2>1, <2>3, <2>12, StillLeads
  <2>14. MovesBlocks(f)
    <3>1. ASSUME NEW a \in ReachableBlocks
          PROVE  /\ f[a] \in Blocks'
                 /\ BlockIn(mem', f[a]).id = IdOf(a)
                 /\ BlockIn(mem', f[a]).shape = BlockAt(a).shape
                 /\ \A i \in ScannedFields(BlockAt(a).shape) :
                      Follows(f, BlockAt(a).fields[i], BlockIn(mem', f[a]).fields[i])
                 /\ \A i \in DOMAIN BlockAt(a).fields \ ScannedFields(BlockAt(a).shape) :
                      BlockIn(mem', f[a]).fields[i] = BlockAt(a).fields[i]
                 /\ DOMAIN BlockIn(mem', f[a]).fields = DOMAIN BlockAt(a).fields
      <4>1. /\ f[a] \in BlocksOf(m)
            /\ BlockIn(m, f[a]).id = IdOf(a)
            /\ BlockIn(m, f[a]).shape = BlockAt(a).shape
            /\ BlockIn(m, f[a]).fields = BlockAt(a).fields
        BY <2>6 DEF KeptBlocks
      <4>2. \A i \in ScannedFields(BlockAt(a).shape) : Follows(f, BlockAt(a).fields[i], BlockAt(a).fields[i])
        <5>1. \A i \in ScannedFields(BlockAt(a).shape) : BlockAt(a).fields[i] \in References(a)
          BY DEF References
        <5> QED BY <2>13, <5>1, LiveLeads
      <4>3. CASE a # at
        <5>1. f[a] # at BY <1>5, <2>6, <2>7, <4>3 DEF KeptBlocks
        <5>2. BlockIn(mem', f[a]) = BlockIn(m, f[a]) BY <2>10, <4>1, <5>1
        <5> QED BY <2>10, <4>1, <4>2, <5>2
      <4>4. CASE a = at
        <5>1. BlockIn(mem', f[a]) = mem'[s][scanPtr] /\ BlockAt(a) = Scanned
          BY <1>4, <2>7, <4>4 DEF BlockIn
        <5>2. /\ mem'[s][scanPtr].fields[scanField] = w
              /\ DOMAIN mem'[s][scanPtr].fields = DOMAIN Scanned.fields
              /\ \A j \in DOMAIN Scanned.fields : j # scanField =>
                   mem'[s][scanPtr].fields[j] = Scanned.fields[j]
          BY <2>8, <2>9 DEF FieldChanged
        <5>3. ScannedFields(Scanned.shape) \subseteq DOMAIN Scanned.fields
          BY <1>4, BlockFacts
        <5>4. \A i \in ScannedFields(Scanned.shape) :
                Follows(f, Scanned.fields[i], mem'[s][scanPtr].fields[i])
          BY <2>1, <2>13, <4>2, <5>1, <5>2, <5>3
        <5> QED BY <1>7, <2>10, <4>1, <5>1, <5>2, <5>4
      <4> QED BY <4>3, <4>4
    <3>2. \A a, b \in ReachableBlocks : f[a] = f[b] => a = b BY <2>6 DEF KeptBlocks
    <3> QED BY <3>1, <3>2 DEF MovesBlocks
  <2>15. MovesRoots(f) BY <1>3, <2>13, LiveLeads DEF MovesRoots
  <2> QED BY <1>1, <2>12, <2>13, <2>14, <2>15, CollectStep
<1> QED BY <1>6, <1>7

-----------------------------------------------------------------------------
(***************************************************************************)
(* Steps that move nothing.                                                *)
(***************************************************************************)
LEMMA StaysMoves ==
  ASSUME IInv, StoreInv, UNCHANGED <<stack, globals, cvars, clive>>,
         NEW f, f = [a \in ReachableBlocks |-> a],
         \A a \in ReachableBlocks : a \in Blocks' /\ BlockIn(mem', a) = BlockAt(a),
         \A w \in LiveValues : Follows(f, w, w),
         \A a \in ReachableBlocks : \A w \in References(a) : Follows(f, w, w)
  PROVE  MovesBlocks(f) /\ MovesRoots(f)
<1>1. ASSUME NEW a \in ReachableBlocks, NEW i \in ScannedFields(BlockAt(a).shape)
      PROVE  Follows(f, BlockAt(a).fields[i], BlockAt(a).fields[i])
  <2>1. BlockAt(a).fields[i] \in References(a) BY DEF References
  <2> QED BY <2>1
<1>2. MovesBlocks(f)
  <2>1. \A a \in ReachableBlocks : f[a] = a OBVIOUS
  <2> QED BY <1>1, <2>1 DEF MovesBlocks, IdOf
<1>3. MovesRoots(f) BY LiveLeads DEF MovesRoots
<1> QED BY <1>2, <1>3

\* A step that leaves memory and the program's variables alone.  When it starts a
\* collection no block is forwarded yet.
LEMMA QuietStep ==
  ASSUME IInv, StoreInv, IInv', UNCHANGED <<mem, cur, stack, globals, cvars, clive>>,
         Collecting => Collecting'
  PROVE  /\ KnownIds' /\ UniqueIds'
         /\ ReachableBlocks' = ReachableBlocks
         /\ LeadsOn
         /\ StoreInv' => UNCHANGED Store0!vars
<1>1. PICK f : f = [a \in ReachableBlocks |-> a] OBVIOUS
<1>2. ASSUME NEW w \in Blocks PROVE ResolveIn(mem', cur', Collecting', w) = Resolve(w)
  <2>1. CASE Collecting
    BY <2>1 DEF ResolveIn, Resolve, InHeap, HasBlock, BlockIn, BlockAt
  <2>2. CASE ~Collecting
    <3>1. w[2] \in DOMAIN mem[cur] /\ BlockAt(w) = mem[cur][w[2]] /\ w \in AllRefs
      BY <2>2, BlockFacts DEF AllRefs
    <3>2. HasSize(BlockAt(w)) BY <2>2, <3>1 DEF IInv, Settled
    <3>3. ~IsForwarded(BlockIn(mem', w)) BY <3>2, SizeHeader DEF BlockIn, BlockAt
    <3>4. Resolve(w) = w BY <2>2 DEF Resolve
    <3> QED BY <3>3, <3>4 DEF ResolveIn
  <2> QED BY <2>1, <2>2
<1>3. Blocks' = Blocks BY DEF Blocks
<1>4. \A w : Leads(w) => Follows(f, w, w)
  BY <1>1, <1>2, <1>3 DEF Leads, Follows
<1>5. \A a \in ReachableBlocks : a \in Blocks' /\ BlockIn(mem', a) = BlockAt(a)
  BY <1>3, ReachableAreBlocks DEF BlockIn, BlockAt
<1>6. MovesBlocks(f) /\ MovesRoots(f)
  BY <1>1, <1>4, <1>5, LiveLeads, StaysMoves
<1>7. KnownIds' BY DEF StoreInv, KnownIds
<1>8. ReachableBlocks' = {f[a] : a \in ReachableBlocks} /\ UniqueIds'
  BY <1>6, <1>7, MovesReach
<1>9. ReachableBlocks' = ReachableBlocks BY <1>1, <1>8
<1>10. StoreInv' => UNCHANGED Store0!vars BY <1>6, MovesView
<1>11. LeadsOn BY <1>4, <1>6, <1>7, LeadsStep
<1> QED BY <1>7, <1>8, <1>9, <1>10, <1>11

\* gcScan, from one copy to the next, and the steps that set sizes or give up.
LEMMA QuietMoves ==
  ASSUME IInv, StoreInv, IInv',
         ScanNext \/ Resize \/ LastTryFails \/ EqualizeAfter \/ MapFails \/ UNCHANGED vars
  PROVE  StoreInv' /\ UNCHANGED Store0!vars
<1>1. /\ UNCHANGED <<mem, cur, stack, globals, cvars, clive>>
      /\ Collecting' = Collecting
      /\ \/ UNCHANGED <<pc, request, heapPointer>>
         \/ pc = "resize" /\ pc' = "retry" /\ UNCHANGED <<request, heapPointer>>
         \/ ~Collecting /\ heapPointer' >= heapPointer /\ pc' \in {"run", "noResult", "exited"}
  <2>1. heapPointer \in Nat /\ pc \in HS!PCs BY DEF IInv, TypeInv
  <2>2. CASE ScanNext BY <2>2 DEF ScanNext, program, Collecting
  <2>3. CASE Resize BY <2>3 DEF Resize, program, Collecting
  <2>4. CASE LastTryFails
    <3>1. CallInv BY DEF IInv
    <3>2. request.bytes \in Nat BY <2>4, <3>1 DEF CallInv, Allocating, LastTryFails
    <3>3. HS!BlockWords(request.bytes) \in Nat BY <3>2, SizeFacts
    <3> QED BY <2>1, <2>4, <3>3 DEF LastTryFails, program, Collecting, HS!Overrun
  <2>5. CASE EqualizeAfter BY <2>1, <2>5 DEF EqualizeAfter, program, Collecting
  <2>6. CASE MapFails BY <2>1, <2>6 DEF MapFails, HS!MapFails, program, Collecting
  <2>7. CASE UNCHANGED vars BY <2>7 DEF vars, program, Collecting
  <2> QED BY <2>2, <2>3, <2>4, <2>5, <2>6, <2>7
<1>2. /\ KnownIds' /\ UniqueIds'
      /\ ReachableBlocks' = ReachableBlocks
      /\ StoreInv' => UNCHANGED Store0!vars
  BY <1>1, QuietStep
<1>3. StoreInv'
  <2>1. UNCHANGED <<ToSpace, frame, top>> BY <1>1 DEF ToSpace, frame, top
  <2>2. Collecting' => Copies' BY <1>1, <1>2, <2>1 DEF StoreInv, Copies
  <2>3. ~Collecting' => \A o \in DOMAIN mem'[cur'] : o < heapPointer'
    <3>1. heapPointer \in Nat /\ IsMemory(mem) /\ cur \in {0, 1} BY DEF IInv, TypeInv
    <3>2. DOMAIN mem[cur] \subseteq Nat BY <3>1 DEF IsMemory
    <3>3. heapPointer' \in Nat BY DEF IInv, TypeInv
    <3>4. ~Collecting => heapPointer' >= heapPointer BY <1>1, <3>1 DEF Collecting
    <3> QED BY <1>1, <3>1, <3>2, <3>3, <3>4 DEF StoreInv
  <2>4. pc' \in {"resize", "retry", "last"} =>
          \A o \in DOMAIN mem'[cur'] : <<cur', o>> \in ReachableBlocks'
    BY <1>1, <1>2 DEF StoreInv
  <2>5. Allocating' => Allocating /\ request' = request
    BY <1>1 DEF Allocating
  <2> QED BY <1>1, <1>2, <2>1, <2>2, <2>3, <2>4, <2>5 DEF StoreInv
<1> QED BY <1>2, <1>3

\* When nothing is left to scan every reachable block is a copy.
LEMMA MovedAll ==
  ASSUME IInv, Collecting, todo = <<>>, scanPtr = allocPtr
  PROVE  /\ \A w \in Refs(mem, ToSpace) : w \in Blocks => w[1] = ToSpace /\ Resolve(w) = w
         /\ LiveValues \subseteq Refs(mem, ToSpace)
         /\ \A a \in Blocks : a[1] = ToSpace => References(a) \subseteq Refs(mem, ToSpace)
         /\ \A a \in ReachableBlocks : a[1] = ToSpace
<1>1. cur \in {0, 1} /\ IsMemory(mem) BY DEF IInv, TypeInv
<1>2. ToSpace \in {0, 1} /\ ToSpace # cur BY <1>1, Spaces
<1>3. /\ LiveIn(stack, globals, cvars, clive, Refs(mem, ToSpace))
      /\ \A o \in DOMAIN mem[ToSpace] : FieldsIn(mem[ToSpace][o], Refs(mem, ToSpace))
  BY AllCopied
<1> DEFINE S == {a \in Blocks : a[1] = ToSpace}
<1>4. ASSUME NEW w \in Refs(mem, ToSpace), w \in Blocks PROVE w \in S /\ Resolve(w) = w
  <2>1. w \in AllRefs BY <1>2, RefsAreAll
  <2>2. w[1] = ToSpace BY <1>1, <1>2, <1>4, RefFacts, BlockFacts
  <2> QED BY <1>2, <1>4, <2>1, <2>2, ResolveFacts
<1>5. LiveValues \subseteq Refs(mem, ToSpace)
  <2>1. ReachFacts BY ReachHolds
  <2> QED BY <1>3, <2>1 DEF ReachFacts, LiveIn, FramesIn
<1>6. ASSUME NEW a \in S PROVE References(a) \subseteq Refs(mem, ToSpace)
  <2>1. a[2] \in DOMAIN mem[ToSpace] /\ BlockAt(a) = mem[ToSpace][a[2]] BY BlockFacts
  <2>2. FieldsIn(BlockAt(a), Refs(mem, ToSpace)) BY <1>3, <2>1
  <2> QED BY <2>1, <2>2 DEF FieldsIn, References
<1>7. S \in SUBSET Blocks OBVIOUS
<1>8. Closed(S)
  <2>1. \A w \in LiveValues \cap Blocks : Resolve(w) \in S BY <1>4, <1>5
  <2>2. \A a \in S : \A w \in References(a) \cap Blocks : Resolve(w) \in S BY <1>4, <1>6
  <2> HIDE DEF S
  <2> QED BY <2>1, <2>2 DEF Closed
<1>9. ReachableBlocks \subseteq S
  <2> HIDE DEF S
  <2> QED BY <1>7, <1>8, ReachableSmallest DEF Smallest
<1> QED BY <1>4, <1>5, <1>6, <1>9

\* The end of a collection: every reachable block is a copy, and the semispace it
\* is in stays.
LEMMA SwapMoves == IInv /\ IInv' /\ StoreInv /\ Swap => StoreInv' /\ UNCHANGED Store0!vars
<1> SUFFICES ASSUME IInv, IInv', StoreInv, Swap PROVE StoreInv' /\ UNCHANGED Store0!vars
  OBVIOUS
<1>1. /\ Collecting /\ todo = <<>> /\ scanPtr = allocPtr
      /\ cur' = ToSpace /\ heapPointer' = allocPtr
      /\ mem' = [mem EXCEPT ![cur] = EmptySpace]
      /\ pc' \in {"resize", "last"}
      /\ UNCHANGED <<program, request>>
  BY DEF Swap
<1>2. UNCHANGED <<stack, globals, cvars, clive>> BY <1>1 DEF program
<1>3. cur \in {0, 1} /\ IsMemory(mem) BY DEF IInv, TypeInv
<1>4. mem'[ToSpace] = mem[ToSpace] /\ DOMAIN mem'[cur] = {} BY <1>1, <1>3, WipeMemory
<1>5. ToSpace \in {0, 1} /\ ToSpace # cur /\ {0, 1} = {cur, ToSpace} BY <1>3, Spaces
<1>6. /\ LiveIn(stack, globals, cvars, clive, Refs(mem, ToSpace))
      /\ \A o \in DOMAIN mem[ToSpace] : FieldsIn(mem[ToSpace][o], Refs(mem, ToSpace))
      /\ \A o \in DOMAIN mem[ToSpace] : o < allocPtr
  BY <1>1, AllCopied
<1> DEFINE S == {a \in Blocks : a[1] = ToSpace}
<1>7. ASSUME NEW w \in Refs(mem, ToSpace)
      PROVE  w \in Blocks => w \in S /\ Resolve(w) = w
  BY <1>1, MovedAll
<1>8. LiveValues \subseteq Refs(mem, ToSpace) BY <1>1, MovedAll
<1>9. ASSUME NEW a \in S
      PROVE  /\ References(a) \subseteq Refs(mem, ToSpace)
             /\ a \in Blocks' /\ BlockIn(mem', a) = BlockAt(a)
  <2>1. a[2] \in DOMAIN mem[ToSpace] /\ BlockAt(a) = mem[ToSpace][a[2]]
    BY BlockFacts
  <2>2. References(a) \subseteq Refs(mem, ToSpace) BY <1>1, MovedAll
  <2>3. a \in Blocks' BY <1>4, <2>1 DEF Blocks
  <2> QED BY <1>4, <2>1, <2>2, <2>3 DEF BlockIn
<1>10. ReachableBlocks \subseteq S BY <1>1, MovedAll, ReachableAreBlocks
<1>11. PICK f : f = [a \in ReachableBlocks |-> a] OBVIOUS
<1>12. Collecting' = FALSE BY <1>1 DEF Collecting
<1>13. ASSUME NEW w \in Refs(mem, ToSpace), Leads(w) PROVE Follows(f, w, w)
  <2>1. w \in Blocks => w \in Blocks' /\ Resolve(w) = w /\ w \in ReachableBlocks
    BY <1>7, <1>9, <1>13 DEF Leads
  <2>2. ResolveIn(mem', cur', Collecting', w) = w BY <1>12 DEF ResolveIn
  <2> QED BY <1>11, <2>1, <2>2 DEF Follows
<1>14. MovesBlocks(f) /\ MovesRoots(f)
  <2>1. \A a \in ReachableBlocks : a \in Blocks' /\ BlockIn(mem', a) = BlockAt(a) BY <1>9, <1>10
  <2>2. \A w \in LiveValues : Follows(f, w, w) BY <1>8, <1>13, LiveLeads
  <2>3. \A a \in ReachableBlocks : \A w \in References(a) : Follows(f, w, w)
    BY <1>9, <1>10, <1>13, LiveLeads
  <2> QED BY <1>2, <1>11, <2>1, <2>2, <2>3, StaysMoves
<1>15. KnownIds'
  <2>1. ASSUME NEW s \in {0, 1}, NEW o \in DOMAIN mem'[s] PROVE mem'[s][o].id \in Ids
    <3>1. s = ToSpace BY <1>4, <1>5
    <3> QED BY <1>4, <3>1 DEF StoreInv, KnownIds
  <2> QED BY <2>1 DEF KnownIds
<1>16. ReachableBlocks' = ReachableBlocks /\ UniqueIds'
  <2>1. ReachableBlocks' = {f[a] : a \in ReachableBlocks} /\ UniqueIds'
    BY <1>14, <1>15, MovesReach
  <2> QED BY <1>11, <2>1
<1>17. StoreInv'
  <2>1. ~Collecting' BY <1>12
  <2>2. \A o \in DOMAIN mem'[cur'] : o < heapPointer' /\ <<cur', o>> \in ReachableBlocks'
    BY <1>1, <1>4, <1>6, <1>16 DEF StoreInv, Copies
  <2>3. UNCHANGED <<frame, top>> BY <1>2 DEF frame, top
  <2>4. Allocating BY <1>1 DEF Allocating, Collecting
  <2> QED BY <1>1, <1>2, <1>15, <1>16, <2>1, <2>2, <2>3, <2>4 DEF StoreInv
<1> QED BY <1>14, <1>17, MovesView

-----------------------------------------------------------------------------
(***************************************************************************)
(* Steps of the program that leave memory as it is.                        *)
(***************************************************************************)

\* Outside a collection references are what they seem.
LEMMA SettledFacts ==
  ASSUME IInv, ~Collecting
  PROVE  /\ \A w : Resolve(w) = w
         /\ AllRefs = Refs(mem, cur)
         /\ \A a \in Blocks : ~IsForwarded(BlockAt(a)) /\ a = <<cur, a[2]>>
         /\ DOMAIN mem[ToSpace] = {}
<1>1. \A w : Resolve(w) = w BY DEF Resolve
<1>2. Settled BY DEF IInv
<1>3. ASSUME NEW a \in Blocks PROVE ~IsForwarded(BlockAt(a)) /\ a = <<cur, a[2]>>
  <2>1. a = <<cur, a[2]>> /\ a[2] \in DOMAIN mem[cur] /\ BlockAt(a) = mem[cur][a[2]]
    BY BlockFacts
  <2>2. HasSize(BlockAt(a)) BY <1>2, <2>1 DEF Settled
  <2> QED BY <2>1, <2>2, SizeHeader
<1> QED BY <1>1, <1>2, <1>3, RefsAreAll DEF Settled

\* With nothing but the variables changed, to references that were reachable.
LEMMA SameMemory ==
  ASSUME IInv, StoreInv, IInv', ~Collecting, UNCHANGED <<mem, cur>>,
         \A w \in LiveValues' : w \in Blocks => w \in ReachableBlocks
  PROVE  /\ KnownIds' /\ UniqueIds' /\ ReachableBlocks' \subseteq ReachableBlocks
         /\ \A w \in AllRefs : Name(w)' = Name(w)
         /\ AllRefs' = AllRefs
         /\ Collecting' => Copies'
         /\ StoreInv' => Store0!Become(FramesView', GlobalsView', CFrameView', Objects)
<1>1. ReachFacts /\ ReachFacts' /\ ViewFacts /\ Closed(ReachableBlocks)
  <2>1. ReachFacts /\ ViewFacts BY ReachHolds, ViewHolds
  <2>2. (IInv => ReachFacts)' BY ReachHolds, PTL
  <2> QED BY <2>1, <2>2 DEF ReachFacts, StoreInv
<1>2. Blocks' = Blocks /\ AllRefs' = AllRefs BY DEF Blocks, AllRefs
<1>3. \A a : BlockAt(a)' = BlockAt(a) /\ References(a)' = References(a) BY DEF BlockAt, References
<1>4. /\ \A w : Resolve(w) = w
      /\ \A a \in Blocks : ~IsForwarded(BlockAt(a)) /\ a = <<cur, a[2]>>
      /\ DOMAIN mem[ToSpace] = {}
  BY SettledFacts
<1>5. \A w \in AllRefs : Resolve(w)' = w
  <2>1. ASSUME NEW w \in Blocks PROVE Resolve(w)' = w
    BY <1>3, <1>4 DEF Resolve
  <2>2. ASSUME NEW w \in {Null, Static} PROVE Resolve(w)' = w
    BY AddressFacts DEF Resolve, InHeap
  <2> QED BY <2>1, <2>2 DEF AllRefs
<1>6. ReachableBlocks' \subseteq ReachableBlocks
  <2>1. PICK S : S = ReachableBlocks OBVIOUS
  <2>2. S \in SUBSET Blocks' BY <1>1, <1>2, <2>1 DEF ReachFacts
  <2>3. Closed(S)'
    <3>1. \A w \in LiveValues' \cap Blocks' : Resolve(w)' \in S
      BY <1>2, <1>5, <2>1 DEF AllRefs
    <3>2. \A a \in S : \A w \in References(a)' \cap Blocks' : Resolve(w)' \in S
      BY <1>1, <1>2, <1>3, <1>4, <1>5, <2>1 DEF AllRefs, Closed
    <3> QED BY <3>1, <3>2 DEF Closed
  <2>4. Smallest' BY <1>1 DEF ReachFacts
  <2> QED BY <2>1, <2>2, <2>3, <2>4 DEF Smallest
<1>7. \A a : IdOf(a)' = IdOf(a) BY <1>3 DEF IdOf
<1>8. KnownIds' /\ UniqueIds'
  <2>1. KnownIds' BY DEF StoreInv, KnownIds
  <2>2. UniqueIds' BY <1>6, <1>7 DEF StoreInv, UniqueIds
  <2> QED BY <2>1, <2>2
<1>9. \A w \in AllRefs : Name(w)' = Name(w)
  <2>1. ASSUME NEW w \in Blocks PROVE Name(w)' = Name(w)
    <3>1. IsAddress(w) /\ HasBlock(w) /\ w[1] = cur BY BlockFacts
    <3>2. HasBlock(w)' BY <3>1 DEF HasBlock
    <3> QED BY <1>3, <3>1, <3>2 DEF Name
  <2>2. ASSUME NEW w \in {Null, Static} PROVE Name(w)' = Name(w)
    BY AddressFacts DEF Name
  <2> QED BY <2>1, <2>2 DEF AllRefs
<1>10. Copies'
  <2>1. ToSpace' = ToSpace BY DEF ToSpace
  <2>2. cur \in {0, 1} BY DEF IInv, TypeInv
  <2>3. ASSUME NEW o \in DOMAIN mem[cur] PROVE ~IsForwarded(mem[cur][o])
    <3>1. <<cur, o>> \in Blocks /\ BlockAt(<<cur, o>>) = mem[cur][o]
      BY <2>2, RefsAreAll DEF BlockAt
    <3> QED BY <1>4, <3>1
  <2> QED BY <1>4, <2>1, <2>3 DEF Copies
<1>11. ASSUME StoreInv'
       PROVE  Store0!Become(FramesView', GlobalsView', CFrameView', Objects)
  <2>1. ViewFacts'
    <3>1. (IInv /\ StoreInv => ViewFacts)' BY ViewHolds, PTL
    <3> QED BY <1>11, <3>1
  <2>2. DOMAIN Objects \subseteq Ids
    <3>1. DOMAIN Objects = {IdOf(a) : a \in ReachableBlocks} BY <1>1 DEF ViewFacts
    <3>2. \A a \in ReachableBlocks : IdOf(a) \in Ids
      BY <1>1, BlockFacts DEF StoreInv, KnownIds, IdOf, ReachFacts
    <3> QED BY <3>1, <3>2
  <2>3. ASSUME NEW a \in ReachableBlocks
        PROVE  IdOf(a)' \in DOMAIN Objects /\ Objects[IdOf(a)'] = Object(BlockAt(a))'
    <3>1. Objects[IdOf(a)] = Object(BlockAt(a)) /\ IdOf(a) \in DOMAIN Objects
      BY <1>1 DEF ViewFacts
    <3>2. PICK b : b = BlockAt(a) OBVIOUS
    <3>3. \A i \in ScannedFields(b.shape) : b.fields[i] \in AllRefs
      BY <1>1, <3>2 DEF References, ReachFacts
    <3>4. Object(b)' = Object(b) BY <1>9, <3>3 DEF Object
    <3>5. Object(BlockAt(a))' = Object(b)' BY <1>3, <3>2 DEF Object
    <3> QED BY <1>7, <3>1, <3>2, <3>4, <3>5
  <2>4. PICK heap : heap = Objects OBVIOUS
  <2>5. Objects' = Store0!Reachable(heap, Store0!RootValues(FramesView', GlobalsView', CFrameView'))
    BY <1>6, <2>1, <2>2, <2>3, <2>4 DEF ViewFacts, ObjectsReached
  <2> QED BY <2>4, <2>5 DEF Store0!Become
<1> QED BY <1>2, <1>6, <1>8, <1>9, <1>10, <1>11

-----------------------------------------------------------------------------
(***************************************************************************)
(* The view of stacks, globals and C variables: their live values, by name. *)
(***************************************************************************)
FrameView(f) == [s \in f.live |-> Name(f.values[s])]
StackView(fs) == [i \in DOMAIN fs |-> FrameView(fs[i])]
GlobalsNamed(gs) == [g \in Globals |-> Name(gs[g])]
CNamed(cs, live) == [c \in live |-> Name(cs[c])]

\* References to what the program can reach, and out of the heap.
Kept == {w \in AllRefs : Leads(w)}

\* The views of the present state.
LEMMA ViewNow ==
  ASSUME IInv
  PROVE  /\ FramesView = StackView(stack) /\ GlobalsView = GlobalsNamed(globals)
         /\ CFrameView = CNamed(cvars, clive)
         /\ Store0!top = top /\ DOMAIN FramesView = DOMAIN stack
         /\ top \in DOMAIN stack
         /\ FramesView[top] = FrameView(frame) /\ DOMAIN FramesView[top] = frame.live
         /\ \A s \in frame.live : FramesView[top][s] = Name(Value(s))
<1>1. /\ FramesView = StackView(stack) /\ GlobalsView = GlobalsNamed(globals)
      /\ CFrameView = CNamed(cvars, clive)
  BY DEF FramesView, StackView, FrameView, GlobalsView, GlobalsNamed, CFrameView, CNamed
<1>2. stack \in Seq(Frames) /\ stack # <<>> BY DEF IInv, TypeInv
<1>3. DOMAIN FramesView = DOMAIN stack BY DEF FramesView
<1>4. Len(stack) \in Nat /\ DOMAIN stack = 1 .. Len(stack) /\ Len(stack) \in DOMAIN stack
  BY <1>2
<1>5. Store0!top = top
  <2>1. FramesView = [i \in 1 .. Len(stack) |-> FramesView[i]] BY <1>4 DEF FramesView
  <2>2. Len(FramesView) = Len(stack) BY <1>4, <2>1
  <2> QED BY <2>2 DEF Store0!top, top
<1>6. FramesView[top] = FrameView(frame)
  BY <1>1, <1>4 DEF StackView, frame, top
<1>7. DOMAIN FramesView[top] = frame.live /\ \A s \in frame.live : FramesView[top][s] = Name(Value(s))
  BY <1>6 DEF FrameView, Value
<1> QED BY <1>1, <1>3, <1>4, <1>5, <1>6, <1>7 DEF top

\* What the program can read leads to blocks it can reach.
LEMMA KeptFacts ==
  ASSUME IInv, StoreInv, ~Collecting
  PROVE  /\ LiveIn(stack, globals, cvars, clive, Kept)
         /\ \A s \in frame.live : Value(s) \in Kept
         /\ Kept \subseteq AnyRef /\ Kept \subseteq AllRefs /\ Kept \subseteq Refs(mem, cur)
         /\ {Null, Static} \subseteq Kept
         /\ \A w \in Kept \cap Blocks : /\ w \in ReachableBlocks /\ Name(w) = IdOf(w)
                                        /\ Name(w) \in DOMAIN Objects
                                        /\ Objects[Name(w)] = Object(BlockAt(w))
         /\ \A a \in ReachableBlocks : \A i \in ScannedFields(BlockAt(a).shape) :
              BlockAt(a).fields[i] \in Kept
<1>1. ReachFacts /\ ViewFacts /\ Settled BY ReachHolds, ViewHolds DEF IInv
<1>2. LiveIn(stack, globals, cvars, clive, Kept)
  BY LiveLeads DEF LiveIn, FramesIn, Kept, Leads
<1>3. stack \in Seq(Frames) /\ stack # <<>> BY DEF IInv, TypeInv
<1>4. top \in DOMAIN stack BY <1>3 DEF top
<1>5. \A s \in frame.live : Value(s) \in Kept
  BY <1>2, <1>4 DEF LiveIn, FramesIn, frame, Value
<1>6. Kept \subseteq AllRefs BY DEF Kept
<1>7. AllRefs = Refs(mem, cur) /\ \A w : Resolve(w) = w BY SettledFacts
<1>8. Kept \subseteq AnyRef
  <2>1. cur \in {0, 1} /\ IsMemory(mem) BY DEF IInv, TypeInv
  <2> QED BY <1>6, <1>7, <2>1, RefFacts
<1>9. {Null, Static} \subseteq Kept
  BY <1>1 DEF ReachFacts, Kept, Leads, AllRefs
<1>10. ASSUME NEW w \in Kept \cap Blocks
       PROVE  /\ w \in ReachableBlocks /\ Name(w) = IdOf(w) /\ Name(w) \in DOMAIN Objects
              /\ Objects[Name(w)] = Object(BlockAt(w))
  <2>1. w \in ReachableBlocks BY <1>7 DEF Kept, Leads
  <2>2. Name(w) = IdOf(w) BY <1>1, <1>7 DEF ViewFacts, AllRefs
  <2> QED BY <1>1, <2>1, <2>2 DEF ViewFacts
<1>11. ASSUME NEW a \in ReachableBlocks, NEW i \in ScannedFields(BlockAt(a).shape)
       PROVE  BlockAt(a).fields[i] \in Kept
  <2>1. BlockAt(a).fields[i] \in References(a) BY DEF References
  <2> QED BY <2>1, LiveLeads DEF Kept, Leads
<1> QED BY <1>2, <1>5, <1>6, <1>7, <1>8, <1>9, <1>10, <1>11

\* What the live values are.
LiveAre ==
  \A S : LiveIn(stack, globals, cvars, clive, S) => LiveValues \subseteq S

\* They are what the variables hold.
LEMMA LiveHolds == IInv => LiveAre
<1> SUFFICES ASSUME IInv, NEW S, LiveIn(stack, globals, cvars, clive, S) PROVE LiveValues \subseteq S
  BY DEF LiveAre
<1>1. ReachFacts BY ReachHolds
<1> QED BY <1>1 DEF ReachFacts, LiveIn, FramesIn

\* The views after a step that changed only the variables.
LEMMA VariablesStep ==
  ASSUME IInv, StoreInv, IInv', ~Collecting, UNCHANGED <<mem, cur>>,
         LiveIn(stack', globals', cvars', clive', Kept)
  PROVE  /\ KnownIds' /\ UniqueIds' /\ (Collecting' => Copies')
         /\ StoreInv' => Store0!Become(StackView(stack'), GlobalsNamed(globals'),
                                       CNamed(cvars', clive'), Objects)
<1>1. LiveValues' \subseteq Kept
  <2>1. LiveAre'
    <3>1. (IInv => LiveAre)' BY LiveHolds, PTL
    <3> QED BY <3>1
  <2>2. PICK S : S = Kept OBVIOUS
  <2>3. LiveIn(stack', globals', cvars', clive', S) BY <2>2
  <2>4. LiveValues' \subseteq S BY <2>1, <2>3 DEF LiveAre
  <2> QED BY <2>2, <2>4
<1>2. \A w \in LiveValues' : w \in Blocks => w \in ReachableBlocks
  BY <1>1, SettledFacts DEF Kept, Leads
<1>3. /\ KnownIds' /\ UniqueIds' /\ (Collecting' => Copies')
      /\ \A w \in Kept : Name(w)' = Name(w)
      /\ StoreInv' => Store0!Become(FramesView', GlobalsView', CFrameView', Objects)
  BY <1>2, SameMemory DEF Kept
<1>4. FramesView' = StackView(stack')
  <2>1. ASSUME NEW i \in DOMAIN stack', NEW s \in stack'[i].live
        PROVE  Name(stack[i].values[s])' = Name(stack'[i].values[s])
    <3>1. PICK w : w = stack'[i].values[s] OBVIOUS
    <3>2. w \in Kept BY <3>1 DEF LiveIn, FramesIn
    <3>3. Name(w)' = Name(w) BY <1>3, <3>2
    <3> QED BY <3>1, <3>3
  <2> QED BY <2>1 DEF FramesView, StackView, FrameView
<1>5. GlobalsView' = GlobalsNamed(globals')
  <2>1. ASSUME NEW g \in Globals PROVE Name(globals[g])' = Name(globals'[g])
    <3>1. PICK w : w = globals'[g] OBVIOUS
    <3>2. w \in Kept BY <3>1 DEF LiveIn
    <3>3. Name(w)' = Name(w) BY <1>3, <3>2
    <3> QED BY <3>1, <3>3
  <2> QED BY <2>1 DEF GlobalsView, GlobalsNamed
<1>6. CFrameView' = CNamed(cvars', clive')
  <2>1. ASSUME NEW c \in clive' PROVE Name(cvars[c])' = Name(cvars'[c])
    <3>1. PICK w : w = cvars'[c] OBVIOUS
    <3>2. w \in Kept BY <3>1 DEF LiveIn
    <3>3. Name(w)' = Name(w) BY <1>3, <3>2
    <3> QED BY <3>1, <3>3
  <2> QED BY <2>1 DEF CFrameView, CNamed
<1> QED BY <1>3, <1>4, <1>5, <1>6

\* And what becomes of the program's view.
LEMMA ProgramStays ==
  ASSUME IInv, StoreInv, IInv', pc = "run", pc' = "run", UNCHANGED <<mem, cur, heapPointer>>,
         LiveIn(stack', globals', cvars', clive', Kept)
  PROVE  /\ StoreInv'
         /\ Store0!Become(StackView(stack'), GlobalsNamed(globals'), CNamed(cvars', clive'), Objects)
<1>1. ~Collecting /\ ~Collecting' /\ ~Allocating' BY DEF Collecting, Allocating
<1>2. /\ KnownIds' /\ UniqueIds'
      /\ StoreInv' => Store0!Become(StackView(stack'), GlobalsNamed(globals'),
                                    CNamed(cvars', clive'), Objects)
  BY <1>1, VariablesStep
<1>3. StoreInv' BY <1>1, <1>2 DEF StoreInv
<1> QED BY <1>2, <1>3

\* The frame that Assign makes.
LEMMA AssignFrame ==
  ASSUME NEW frames \in Seq(Frames), NEW i \in DOMAIN frames, NEW s \in Slots, NEW v \in AnyRef
  PROVE  \E new \in Frames :
           /\ Assign(frames, i, s, v) = WithFrame(frames, i, new)
           /\ new.live = frames[i].live \cup {s}
           /\ \A n \in new.live : new.values[n] = IF n = s THEN v ELSE frames[i].values[n]
<1> DEFINE f == frames[i]
           new == [values |-> [f.values EXCEPT ![s] = v], live |-> f.live \cup {s}]
<1>1. f \in Frames OBVIOUS
<1>2. Assign(frames, i, s, v) = [frames EXCEPT
                                ![i] = [f EXCEPT !.values[s] = v, !.live = @ \cup {s}]]
  BY DEF Assign
<1>3. [f EXCEPT !.values[s] = v, !.live = @ \cup {s}] = new
  <2> SUFFICES ASSUME NEW c, c = [f EXCEPT !.values[s] = v, !.live = @ \cup {s}]
               PROVE  c = new
    OBVIOUS
  <2> HIDE DEF f
  <2> QED BY <1>1 DEF Frames
<1>4. new \in Frames /\ \A n \in new.live : new.values[n] = IF n = s THEN v ELSE f.values[n]
  <2> HIDE DEF f
  <2> QED BY <1>1 DEF Frames
<1>5. new.live = f.live \cup {s} OBVIOUS
<1>6. Assign(frames, i, s, v) = WithFrame(frames, i, new)
  BY <1>2, <1>3, Zenon DEF WithFrame
<1> HIDE DEF new
<1> QED BY <1>4, <1>5, <1>6

\* And the one that Narrow makes.
LEMMA NarrowFrame ==
  ASSUME NEW frames \in Seq(Frames), NEW i \in DOMAIN frames, NEW live \in SUBSET frames[i].live
  PROVE  \E new \in Frames :
           /\ Narrow(frames, i, live) = WithFrame(frames, i, new)
           /\ new.live = live
           /\ new.values = frames[i].values
<1> DEFINE f == frames[i]
           new == [values |-> f.values, live |-> live]
<1>1. f \in Frames OBVIOUS
<1>2. Narrow(frames, i, live) = [frames EXCEPT ![i] = [f EXCEPT !.live = live]]
  BY DEF Narrow
<1>3. [f EXCEPT !.live = live] = new
  <2> HIDE DEF f
  <2> QED BY <1>1 DEF Frames
<1>4. new \in Frames
  <2>1. live \in SUBSET f.live OBVIOUS
  <2> HIDE DEF f
  <2> QED BY <1>1, <2>1 DEF Frames
<1>5. new.live = live /\ new.values = f.values OBVIOUS
<1>6. Narrow(frames, i, live) = WithFrame(frames, i, new)
  BY <1>2, <1>3, Zenon DEF WithFrame
<1> HIDE DEF new
<1> QED BY <1>4, <1>5, <1>6

\* A slot gets a value, as the store sees it.
LEMMA AssignView ==
  ASSUME NEW frames \in Seq(Frames), NEW i \in DOMAIN frames, NEW s \in Slots, NEW v \in AnyRef
  PROVE  StackView(Assign(frames, i, s, v)) =
           [StackView(frames) EXCEPT ![i] = Store0!Put(@, s, Name(v))]
<1>1. PICK new \in Frames :
        /\ Assign(frames, i, s, v) = WithFrame(frames, i, new)
        /\ new.live = frames[i].live \cup {s}
        /\ \A n \in new.live : new.values[n] = IF n = s THEN v ELSE frames[i].values[n]
  BY AssignFrame
<1>2. FrameView(new) = Store0!Put(FrameView(frames[i]), s, Name(v))
  <2>1. DOMAIN FrameView(frames[i]) = frames[i].live BY DEF FrameView
  <2>2. \A n \in frames[i].live : FrameView(frames[i])[n] = Name(frames[i].values[n])
    BY DEF FrameView
  <2> QED BY <1>1, <2>1, <2>2 DEF FrameView, Store0!Put
<1>3. /\ DOMAIN WithFrame(frames, i, new) = DOMAIN frames
      /\ WithFrame(frames, i, new)[i] = new
      /\ \A j \in DOMAIN frames : j # i => WithFrame(frames, i, new)[j] = frames[j]
  BY DEF WithFrame
<1> QED BY <1>1, <1>2, <1>3 DEF StackView

\* Slots are forgotten, as the store sees it.
LEMMA NarrowView ==
  ASSUME NEW frames \in Seq(Frames), NEW i \in DOMAIN frames, NEW live \in SUBSET frames[i].live
  PROVE  StackView(Narrow(frames, i, live)) =
           [StackView(frames) EXCEPT ![i] = Store0!Restrict(@, live)]
<1>1. PICK new \in Frames :
        /\ Narrow(frames, i, live) = WithFrame(frames, i, new)
        /\ new.live = live
        /\ new.values = frames[i].values
  BY NarrowFrame, Zenon
<1>2. FrameView(new) = Store0!Restrict(FrameView(frames[i]), live)
  BY <1>1 DEF FrameView, Store0!Restrict
<1>3. /\ DOMAIN WithFrame(frames, i, new) = DOMAIN frames
      /\ WithFrame(frames, i, new)[i] = new
      /\ \A j \in DOMAIN frames : j # i => WithFrame(frames, i, new)[j] = frames[j]
  BY DEF WithFrame
<1> QED BY <1>1, <1>2, <1>3 DEF StackView

\* The slot of the innermost frame is set.
LEMMA SetTopView ==
  ASSUME IInv, StoreInv, IInv', Running, NEW s \in Slots, NEW v \in Kept, SetTop(s, v),
         UNCHANGED <<globals, cvars, clive>>, UnchangedHeap
  PROVE  /\ StoreInv'
         /\ Store0!Become(Store0!PutTop(s, Name(v)), GlobalsView, CFrameView, Objects)
<1>1. pc = "run" /\ ~Collecting /\ pc' = "run" /\ UNCHANGED <<mem, cur, heapPointer>>
  BY DEF Running, Collecting, UnchangedHeap
<1>2. stack' = Assign(stack, top, s, v) BY DEF SetTop, Assign
<1>3. /\ stack \in Seq(Frames) /\ top \in DOMAIN stack BY <1>1, RunFacts
<1>4. v \in AnyRef /\ LiveIn(stack, globals, cvars, clive, Kept) BY <1>1, KeptFacts
<1>5. FramesIn(stack', Kept) BY <1>2, <1>3, <1>4, AssignFacts DEF LiveIn
<1>6. LiveIn(stack', globals', cvars', clive', Kept) BY <1>4, <1>5 DEF LiveIn
<1>7. StackView(stack') = Store0!PutTop(s, Name(v))
  BY <1>2, <1>3, <1>4, AssignView, ViewNow DEF Store0!PutTop
<1>8. GlobalsNamed(globals') = GlobalsView /\ CNamed(cvars', clive') = CFrameView
  BY ViewNow
<1> QED BY <1>1, <1>6, <1>7, <1>8, ProgramStays

\* What the program reads of an object is what the store gives it.
LEMMA ReadObject ==
  ASSUME IInv, StoreInv, ~Collecting, NEW p \in frame.live, InHeap(Value(p))
  PROVE  /\ p \in DOMAIN FramesView[Store0!top]
         /\ FramesView[Store0!top][p] = Name(Value(p))
         /\ Name(Value(p)) \in DOMAIN Objects
         /\ Value(p) \in ReachableBlocks
         /\ Name(Value(p)) = IdOf(Value(p))
         /\ Objects[Name(Value(p))] = Object(BlockAt(Value(p)))
         /\ Store0!RefFields(Objects[Name(Value(p))].shape) = ScannedFields(BlockAt(Value(p)).shape)
         /\ Store0!Children(Objects, Name(Value(p))) = {Name(w) : w \in References(Value(p))}
         /\ \A i \in ScannedFields(BlockAt(Value(p)).shape) : BlockAt(Value(p)).fields[i] \in Kept
<1>1. Value(p) \in Kept BY KeptFacts
<1>2. cur \in {0, 1} BY DEF IInv, TypeInv
<1>3. Value(p) = <<cur, Value(p)[2]>> /\ Value(p)[2] \in DOMAIN mem[cur] BY RunFacts
<1>4. Value(p) \in Blocks BY <1>2, <1>3, RefsAreAll
<1>5. PICK v : v = Value(p) OBVIOUS
<1>6. /\ v \in ReachableBlocks /\ Name(v) = IdOf(v) /\ Name(v) \in DOMAIN Objects
      /\ Objects[Name(v)] = Object(BlockAt(v))
  BY <1>1, <1>4, <1>5, KeptFacts
<1>7. /\ Object(BlockAt(v)).shape = BlockAt(v).shape
      /\ {Object(BlockAt(v)).fields[i] : i \in Store0!RefFields(Object(BlockAt(v)).shape)}
              = {Name(w) : w \in References(v)}
  BY <1>4, <1>5, ObjectFacts
<1>8. Store0!RefFields(Objects[Name(v)].shape) = ScannedFields(BlockAt(v).shape)
  BY <1>4, <1>5, <1>6, <1>7, BlockFacts, SameFields
<1>9. Store0!Children(Objects, Name(v)) = {Name(w) : w \in References(v)}
  BY <1>6, <1>7 DEF Store0!Children
<1>10. /\ p \in DOMAIN FramesView[Store0!top]
       /\ FramesView[Store0!top][p] = Name(Value(p))
  BY ViewNow
<1>11. \A i \in ScannedFields(BlockAt(v).shape) : BlockAt(v).fields[i] \in Kept
  BY <1>6, KeptFacts
<1> QED BY <1>5, <1>6, <1>8, <1>9, <1>10, <1>11

\* A load is the store's load.
LEMMA LoadView == IInv /\ IInv' /\ StoreInv /\ Load => StoreInv' /\ Store0!Load
<1> SUFFICES ASSUME IInv, IInv', StoreInv, Load PROVE StoreInv' /\ Store0!Load OBVIOUS
<1>1. PICK p \in frame.live, dest \in Slots :
             /\ InHeap(Value(p))
             /\ \E i \in ScannedFields(BlockAt(Value(p)).shape) :
                  SetTop(dest, BlockAt(Value(p)).fields[i])
  BY Zenon DEF Load
<1>2. PICK i \in ScannedFields(BlockAt(Value(p)).shape) :
        SetTop(dest, BlockAt(Value(p)).fields[i])
  BY <1>1
<1>3. /\ Running /\ ~Collecting /\ UnchangedHeap /\ UNCHANGED <<globals, cvars, clive>>
  BY DEF Load, Running, Collecting
<1>4. PICK v : v = BlockAt(Value(p)).fields[i] OBVIOUS
<1>5. /\ p \in DOMAIN FramesView[Store0!top]
      /\ FramesView[Store0!top][p] = Name(Value(p))
      /\ Name(Value(p)) \in DOMAIN Objects
      /\ Store0!Children(Objects, Name(Value(p))) = {Name(w) : w \in References(Value(p))}
      /\ v \in Kept
  BY <1>1, <1>3, <1>4, ReadObject
<1>6. v \in References(Value(p)) BY <1>4 DEF References
<1>7. SetTop(dest, v) BY <1>2, <1>4
<1>8. StoreInv' /\ Store0!Become(Store0!PutTop(dest, Name(v)), GlobalsView, CFrameView, Objects)
  BY <1>3, <1>5, <1>7, SetTopView
<1>9. PICK n : n = FramesView[Store0!top][p] OBVIOUS
<1>10. Name(v) \in Store0!Children(Objects, n) /\ n \in DOMAIN Objects BY <1>5, <1>6, <1>9
<1> QED BY <1>5, <1>8, <1>9, <1>10, Zenon DEF Store0!Load

\* A constant, and the globals.
LEMMA SetConstantView == IInv /\ IInv' /\ StoreInv /\ SetConstant => StoreInv' /\ Store0!SetConstant
<1> SUFFICES ASSUME IInv, IInv', StoreInv, SetConstant PROVE StoreInv' /\ Store0!SetConstant
  OBVIOUS
<1>1. PICK dest \in Slots, v \in {Null, Static} : SetTop(dest, v) BY DEF SetConstant
<1>2. Running /\ ~Collecting /\ UnchangedHeap /\ UNCHANGED <<globals, cvars, clive>>
  BY DEF SetConstant, Running, Collecting
<1>3. v \in Kept BY <1>2, KeptFacts
<1>4. Name(v) = v
  <2>1. ReachFacts /\ ViewFacts BY ReachHolds, ViewHolds
  <2>2. v \in AllRefs /\ v \notin Blocks BY <2>1 DEF AllRefs, ReachFacts
  <2> QED BY <2>1, <2>2 DEF ViewFacts
<1>5. StoreInv' /\ Store0!Become(Store0!PutTop(dest, v), GlobalsView, CFrameView, Objects)
  BY <1>1, <1>2, <1>3, <1>4, SetTopView
<1>6. v \in {Store0!Null, Store0!Static} BY DEF Store0!Null, Store0!Static, Null, Static
<1> QED BY <1>5, <1>6, Zenon DEF Store0!SetConstant

\* The program reads or writes a global.
LEMMA GlobalView == IInv /\ IInv' /\ StoreInv /\ GlobalAccess => StoreInv' /\ Store0!GlobalAccess
<1> SUFFICES ASSUME IInv, IInv', StoreInv, GlobalAccess PROVE StoreInv' /\ Store0!GlobalAccess
  OBVIOUS
<1>1. Running /\ pc = "run" /\ ~Collecting /\ UnchangedHeap /\ UNCHANGED <<cvars, clive>>
  BY DEF GlobalAccess, Running, Collecting
<1>2. PICK g \in Globals :
            \/ \E s \in frame.live : globals' = [globals EXCEPT ![g] = Value(s)] /\ UNCHANGED stack
            \/ \E s \in Slots : SetTop(s, globals[g]) /\ UNCHANGED globals
  BY Zenon DEF GlobalAccess
<1>3. LiveIn(stack, globals, cvars, clive, Kept) BY <1>1, KeptFacts
<1>4. ASSUME NEW s \in frame.live, globals' = [globals EXCEPT ![g] = Value(s)], UNCHANGED stack
      PROVE  StoreInv' /\ Store0!GlobalAccess
  <2>1. Value(s) \in Kept BY <1>1, KeptFacts
  <2>2. globals \in [Globals -> AnyRef] BY DEF IInv, TypeInv
  <2>3. LiveIn(stack', globals', cvars', clive', Kept)
    BY <1>1, <1>3, <1>4, <2>1, <2>2 DEF LiveIn
  <2>4. GlobalsNamed(globals') = [GlobalsView EXCEPT ![g] = Name(Value(s))]
    BY <1>4, <2>2 DEF GlobalsNamed, GlobalsView
  <2>5. s \in DOMAIN FramesView[Store0!top] /\ FramesView[Store0!top][s] = Name(Value(s))
    BY ViewNow
  <2>6. StackView(stack') = FramesView /\ CNamed(cvars', clive') = CFrameView
    BY <1>1, <1>4, ViewNow
  <2>7. pc' = "run" /\ UNCHANGED <<mem, cur, heapPointer>> BY <1>1 DEF UnchangedHeap
  <2>8. /\ StoreInv'
        /\ Store0!Become(FramesView, [GlobalsView EXCEPT ![g] = FramesView[Store0!top][s]],
                         CFrameView, Objects)
    BY <1>1, <2>3, <2>4, <2>5, <2>6, <2>7, ProgramStays
  <2> QED BY <2>5, <2>8, Zenon DEF Store0!GlobalAccess
<1>5. ASSUME NEW s \in Slots, SetTop(s, globals[g]), UNCHANGED globals
      PROVE  StoreInv' /\ Store0!GlobalAccess
  <2>1. globals[g] \in Kept BY <1>3 DEF LiveIn
  <2>2. GlobalsView[g] = Name(globals[g]) BY DEF GlobalsView
  <2>3. /\ StoreInv'
        /\ Store0!Become(Store0!PutTop(s, GlobalsView[g]), GlobalsView, CFrameView, Objects)
    BY <1>1, <1>5, <2>1, <2>2, SetTopView
  <2> QED BY <2>3, Zenon DEF Store0!GlobalAccess
<1> QED BY <1>2, <1>4, <1>5

\* A frame is entered, and left, as the store sees it.
LEMMA AppendView ==
  ASSUME NEW frames \in Seq(Frames), NEW f \in Frames
  PROVE  StackView(Append(frames, f)) = Append(StackView(frames), FrameView(f))
<1>1. /\ Append(frames, f) \in Seq(Frames) /\ Len(frames) \in Nat
      /\ DOMAIN Append(frames, f) = 1 .. Len(frames) + 1 /\ DOMAIN frames = 1 .. Len(frames)
      /\ Append(frames, f)[Len(frames) + 1] = f
      /\ \A j \in 1 .. Len(frames) : Append(frames, f)[j] = frames[j]
  OBVIOUS
<1>2. PICK n : n = Len(frames) /\ n \in Nat BY <1>1
<1>3. StackView(frames) = [i \in 1 .. n |-> FrameView(frames[i])] BY <1>1, <1>2 DEF StackView
<1> DEFINE V == {FrameView(g) : g \in Frames}
<1>4. StackView(frames) \in Seq(V) /\ Len(StackView(frames)) = n /\ FrameView(f) \in V
  <2>1. \A i \in 1 .. n : FrameView(frames[i]) \in V BY <1>1, <1>2
  <2>2. FrameView(f) \in V OBVIOUS
  <2> HIDE DEF V
  <2> QED BY <1>2, <1>3, <2>1, <2>2
<1> HIDE DEF V
<1>5. PICK A : A = Append(StackView(frames), FrameView(f)) OBVIOUS
<1>6. /\ A = [i \in 1 .. n + 1 |-> A[i]] /\ A[n + 1] = FrameView(f)
      /\ \A i \in 1 .. n : A[i] = StackView(frames)[i]
  <2>1. /\ A \in Seq(V) /\ Len(A) = n + 1 /\ A[n + 1] = FrameView(f)
        /\ \A i \in 1 .. n : A[i] = StackView(frames)[i]
    BY <1>2, <1>4, <1>5, AppendProperties
  <2>2. A = [i \in 1 .. n + 1 |-> A[i]] BY <2>1
  <2> QED BY <2>1, <2>2
<1>7. ASSUME NEW i \in 1 .. n + 1 PROVE A[i] = FrameView(Append(frames, f)[i])
  <2>1. i = n + 1 \/ i \in 1 .. n BY <1>2
  <2> QED BY <1>1, <1>2, <1>3, <1>6, <2>1
<1>8. StackView(Append(frames, f)) = [i \in 1 .. n + 1 |-> FrameView(Append(frames, f)[i])]
  BY <1>1, <1>2 DEF StackView
<1> QED BY <1>5, <1>6, <1>7, <1>8

\* The stack without its innermost frame, as the store sees it.
LEMMA FrontView ==
  ASSUME NEW frames \in Seq(Frames), frames # <<>>
  PROVE  /\ Front(frames) \in Seq(Frames)
         /\ DOMAIN Front(frames) = 1 .. Len(frames) - 1
         /\ \A i \in 1 .. Len(frames) - 1 : Front(frames)[i] = frames[i]
         /\ StackView(Front(frames)) = Store0!Front(StackView(frames))
<1>1. PICK n \in Nat : n = Len(frames) /\ n > 0 /\ DOMAIN frames = 1 .. n OBVIOUS
<1>2. n - 1 \in Nat /\ \A i \in 1 .. n - 1 : i \in 1 .. n BY <1>1
<1>3. /\ Front(frames) \in Seq(Frames) /\ DOMAIN Front(frames) = 1 .. n - 1
      /\ \A i \in 1 .. n - 1 : Front(frames)[i] = frames[i]
  <2>1. Front(frames) = SubSeq(frames, 1, n - 1) BY <1>1 DEF Front
  <2>2. \A i \in 1 .. n - 1 : frames[i] \in Frames BY <1>1, <1>2
  <2>3. /\ Front(frames) \in Seq(Frames) /\ Len(Front(frames)) = n - 1
        /\ \A i \in 1 .. n - 1 : Front(frames)[i] = frames[i]
    BY <1>1, <1>2, <2>1, <2>2, SubSeqProperties
  <2> QED BY <2>3
<1> DEFINE V == {FrameView(g) : g \in Frames}
<1>4. StackView(frames) = [i \in 1 .. n |-> FrameView(frames[i])] BY <1>1 DEF StackView
<1>5. StackView(frames) \in Seq(V) /\ Len(StackView(frames)) = n
  <2>1. \A i \in 1 .. n : FrameView(frames[i]) \in V BY <1>1
  <2> HIDE DEF V
  <2> QED BY <1>1, <1>4, <2>1
<1> HIDE DEF V
<1>6. PICK A : A = Store0!Front(StackView(frames)) OBVIOUS
<1>7. A = [i \in 1 .. n - 1 |-> FrameView(frames[i])]
  <2>1. A = SubSeq(StackView(frames), 1, n - 1) BY <1>5, <1>6 DEF Store0!Front
  <2>2. \A i \in 1 .. n - 1 : StackView(frames)[i] \in V BY <1>2, <1>5
  <2>3. /\ A \in Seq(V) /\ Len(A) = n - 1
        /\ \A i \in 1 .. n - 1 : A[i] = StackView(frames)[i]
    BY <1>1, <1>2, <1>5, <2>1, <2>2, SubSeqProperties
  <2>4. A = [i \in 1 .. n - 1 |-> A[i]] BY <2>3
  <2> QED BY <1>2, <1>4, <2>3, <2>4
<1>8. StackView(Front(frames)) = [i \in 1 .. n - 1 |-> FrameView(frames[i])]
  BY <1>3 DEF StackView
<1> QED BY <1>1, <1>3, <1>6, <1>7, <1>8

\* A call is the store's call.
LEMMA CallView == IInv /\ IInv' /\ StoreInv /\ Call => StoreInv' /\ Store0!Call
<1> SUFFICES ASSUME IInv, IInv', StoreInv, Call PROVE StoreInv' /\ Store0!Call OBVIOUS
<1>1. /\ pc = "run" /\ ~Collecting /\ pc' = "run"
      /\ UNCHANGED <<mem, cur, heapPointer, globals, cvars, clive>>
  BY DEF Call, Running, Collecting, UnchangedHeap
<1>2. PICK live \in SUBSET frame.live, s \in frame.live, param \in Slots :
             stack' = Append([stack EXCEPT ![top].live = live],
                             [values |-> [t \in Slots |-> IF t = param THEN Value(s) ELSE Null],
                              live   |-> {param}])
  BY Zenon DEF Call
<1> DEFINE caller == Narrow(stack, top, live)
           callee == [values |-> [t \in Slots |-> IF t = param THEN Value(s) ELSE Null],
                      live   |-> {param}]
<1>3. stack' = Append(caller, callee) BY <1>2 DEF Narrow
<1>4. /\ stack \in Seq(Frames) /\ top \in DOMAIN stack /\ live \in SUBSET stack[top].live
      /\ LiveIn(stack, globals, cvars, clive, Kept) /\ Kept \subseteq AnyRef
      /\ Value(s) \in Kept
  BY <1>1, RunFacts, KeptFacts DEF frame
<1>5. caller \in Seq(Frames) /\ FramesIn(caller, Kept)
  BY <1>4, NarrowFacts DEF LiveIn
<1>6. /\ callee \in Frames /\ callee.live = {param} /\ callee.values[param] = Value(s)
      /\ \A n \in callee.live : callee.values[n] \in Kept
  <2>1. Null \in AnyRef BY DEF AnyRef
  <2> QED BY <1>4, <2>1 DEF Frames
<1>7. StackView(caller) = [FramesView EXCEPT ![Store0!top] = Store0!Restrict(@, live)]
  BY <1>4, NarrowView, ViewNow
<1> HIDE DEF caller, callee
<1>8. FrameView(callee) = Store0!Only(param, FramesView[Store0!top][s])
  <2>1. FramesView[Store0!top][s] = Name(Value(s)) BY ViewNow
  <2> QED BY <1>6, <2>1 DEF FrameView, Store0!Only
<1>9. LiveIn(stack', globals', cvars', clive', Kept)
  <2>1. /\ DOMAIN stack' = 1 .. Len(caller) + 1 /\ Len(caller) \in Nat
        /\ DOMAIN caller = 1 .. Len(caller)
        /\ stack'[Len(caller) + 1] = callee
        /\ \A j \in DOMAIN caller : stack'[j] = caller[j]
    BY <1>3, <1>5, <1>6
  <2>2. \A j \in DOMAIN stack' : j \in DOMAIN caller \/ j = Len(caller) + 1 BY <2>1
  <2> QED BY <1>1, <1>4, <1>5, <1>6, <2>1, <2>2 DEF LiveIn, FramesIn
<1>10. StackView(stack') = Append(StackView(caller), FrameView(callee))
  BY <1>3, <1>5, <1>6, AppendView
<1>11. /\ StoreInv'
       /\ Store0!Become(Append([FramesView EXCEPT ![Store0!top] = Store0!Restrict(@, live)],
                               Store0!Only(param, FramesView[Store0!top][s])),
                        GlobalsView, CFrameView, Objects)
  BY <1>1, <1>7, <1>8, <1>9, <1>10, ViewNow, ProgramStays
<1>12. live \in SUBSET DOMAIN FramesView[Store0!top] /\ s \in DOMAIN FramesView[Store0!top]
  BY ViewNow
<1> QED BY <1>11, <1>12, Zenon DEF Store0!Call

\* A return is the store's.
LEMMA ReturnView == IInv /\ IInv' /\ StoreInv /\ Return => StoreInv' /\ Store0!Return
<1> SUFFICES ASSUME IInv, IInv', StoreInv, Return PROVE StoreInv' /\ Store0!Return OBVIOUS
<1>1. /\ pc = "run" /\ ~Collecting /\ pc' = "run" /\ top > 1
      /\ UNCHANGED <<mem, cur, heapPointer, globals, cvars, clive>>
  BY DEF Return, Running, Collecting, UnchangedHeap
<1>2. PICK s \in frame.live, dest \in Slots :
             stack' = Assign(Front(stack), top - 1, dest, Value(s))
  BY Zenon DEF Return, Assign
<1>3. /\ stack \in Seq(Frames) /\ stack # <<>> /\ top \in Nat /\ top = Len(stack)
      /\ DOMAIN stack = 1 .. top
      /\ LiveIn(stack, globals, cvars, clive, Kept) /\ Kept \subseteq AnyRef
      /\ Value(s) \in Kept /\ Value(s) \in AnyRef
  <2>1. stack \in Seq(Frames) /\ stack # <<>> BY <1>1, RunFacts
  <2> QED BY <1>1, <2>1, KeptFacts DEF top
<1> DEFINE front == Front(stack)
<1>4. /\ front \in Seq(Frames) /\ DOMAIN front = 1 .. top - 1
      /\ \A i \in 1 .. top - 1 : front[i] = stack[i]
      /\ StackView(front) = Store0!Front(FramesView)
  BY <1>3, FrontView, ViewNow
<1>5. FramesIn(front, Kept) BY <1>3, <1>4 DEF LiveIn, FramesIn
<1> HIDE DEF front
<1>6. top - 1 \in DOMAIN front BY <1>1, <1>3, <1>4
<1>7. stack' = Assign(front, top - 1, dest, Value(s)) BY <1>2 DEF front
<1>8. FramesIn(stack', Kept) BY <1>3, <1>4, <1>5, <1>6, <1>7, AssignFacts
<1>9. LiveIn(stack', globals', cvars', clive', Kept) BY <1>1, <1>3, <1>8 DEF LiveIn
<1>10. StackView(stack') = [Store0!Front(FramesView) EXCEPT
                              ![top - 1] = Store0!Put(@, dest, Name(Value(s)))]
  BY <1>3, <1>4, <1>6, <1>7, AssignView
<1>11. /\ s \in DOMAIN FramesView[Store0!top] /\ FramesView[Store0!top][s] = Name(Value(s))
       /\ Store0!top = top
  BY ViewNow
<1>12. /\ StoreInv'
       /\ Store0!Become([Store0!Front(FramesView) EXCEPT
                           ![Store0!top - 1] = Store0!Put(@, dest, FramesView[Store0!top][s])],
                        GlobalsView, CFrameView, Objects)
  BY <1>1, <1>9, <1>10, <1>11, ViewNow, ProgramStays
<1>13. Store0!top > 1 BY <1>1, <1>11
<1> QED BY <1>11, <1>12, <1>13, Zenon DEF Store0!Return

\* A call of a C function, and its return.
LEMMA CallCView == IInv /\ IInv' /\ StoreInv /\ CallC => StoreInv' /\ Store0!CallC
<1> SUFFICES ASSUME IInv, IInv', StoreInv, CallC PROVE StoreInv' /\ Store0!CallC OBVIOUS
<1>1. /\ pc = "run" /\ ~Collecting /\ pc' = "run"
      /\ UNCHANGED <<mem, cur, heapPointer, globals>>
  BY DEF CallC, Running, Collecting, UnchangedHeap
<1>2. PICK live \in SUBSET frame.live, s \in frame.live, c \in CVars :
             /\ stack' = Narrow(stack, top, live)
             /\ cvars' = [cvars EXCEPT ![c] = Value(s)]
             /\ clive' = {c}
  BY Zenon DEF CallC, Narrow
<1>3. /\ stack \in Seq(Frames) /\ top \in DOMAIN stack /\ live \in SUBSET stack[top].live
      /\ LiveIn(stack, globals, cvars, clive, Kept) /\ Value(s) \in Kept
  BY <1>1, RunFacts, KeptFacts DEF frame
<1>4. cvars'[c] = Value(s)
  <2>1. cvars \in [CVars -> AnyRef] BY DEF IInv, TypeInv
  <2> QED BY <1>2, <2>1
<1>5. FramesIn(stack', Kept) BY <1>2, <1>3, NarrowFacts DEF LiveIn
<1>6. LiveIn(stack', globals', cvars', clive', Kept)
  BY <1>1, <1>2, <1>3, <1>4, <1>5 DEF LiveIn
<1>7. /\ s \in DOMAIN FramesView[Store0!top] /\ FramesView[Store0!top][s] = Name(Value(s))
      /\ live \in SUBSET DOMAIN FramesView[Store0!top]
  BY ViewNow
<1>8. StackView(stack') = [FramesView EXCEPT ![Store0!top] = Store0!Restrict(@, live)]
  BY <1>2, <1>3, NarrowView, ViewNow
<1>9. CNamed(cvars', clive') = Store0!Only(c, FramesView[Store0!top][s])
  BY <1>2, <1>4, <1>7 DEF CNamed, Store0!Only
<1>10. /\ StoreInv'
       /\ Store0!Become([FramesView EXCEPT ![Store0!top] = Store0!Restrict(@, live)],
                        GlobalsView, Store0!Only(c, FramesView[Store0!top][s]), Objects)
  BY <1>1, <1>6, <1>8, <1>9, ViewNow, ProgramStays
<1> QED BY <1>7, <1>10, Zenon DEF Store0!CallC

\* A C function returns.
LEMMA ReturnFromCView == IInv /\ IInv' /\ StoreInv /\ ReturnFromC => StoreInv' /\ Store0!ReturnFromC
<1> SUFFICES ASSUME IInv, IInv', StoreInv, ReturnFromC PROVE StoreInv' /\ Store0!ReturnFromC
  OBVIOUS
<1>1. /\ pc = "run" /\ ~Collecting /\ pc' = "run" /\ clive' = {}
      /\ UNCHANGED <<mem, cur, heapPointer, globals>>
  BY DEF ReturnFromC, Collecting, UnchangedHeap
<1>2. PICK c \in clive, dest \in Slots : stack' = Assign(stack, top, dest, cvars[c])
  BY Zenon DEF ReturnFromC, SetTop, Assign
<1>3. /\ stack \in Seq(Frames) /\ top \in DOMAIN stack
      /\ LiveIn(stack, globals, cvars, clive, Kept) /\ Kept \subseteq AnyRef
  BY <1>1, RunFacts, KeptFacts
<1>4. cvars[c] \in Kept /\ cvars[c] \in AnyRef BY <1>3 DEF LiveIn
<1>5. FramesIn(stack', Kept) BY <1>2, <1>3, <1>4, AssignFacts DEF LiveIn
<1>6. LiveIn(stack', globals', cvars', clive', Kept)
  BY <1>1, <1>3, <1>5 DEF LiveIn
<1>7. c \in DOMAIN CFrameView /\ CFrameView[c] = Name(cvars[c]) BY DEF CFrameView
<1>8. StackView(stack') = Store0!PutTop(dest, CFrameView[c])
  <2>1. PICK v \in AnyRef : v = cvars[c] BY <1>4
  <2>2. StackView(stack') = [StackView(stack) EXCEPT ![top] = Store0!Put(@, dest, Name(v))]
    BY <1>2, <1>3, <2>1, AssignView
  <2>3. Name(v) = CFrameView[c] BY <1>7, <2>1
  <2> QED BY <2>2, <2>3, ViewNow DEF Store0!PutTop
<1>9. CNamed(cvars', clive') = [d \in {} |-> Store0!Null]
  BY <1>1 DEF CNamed
<1>10. /\ StoreInv'
       /\ Store0!Become(Store0!PutTop(dest, CFrameView[c]), GlobalsView,
                        [d \in {} |-> Store0!Null], Objects)
  BY <1>1, <1>6, <1>8, <1>9, ViewNow, ProgramStays
<1> QED BY <1>7, <1>10, Zenon DEF Store0!ReturnFromC

\* The list of roots is no part of what the program sees.
LEMMA RootListView ==
  IInv /\ IInv' /\ StoreInv /\ (addRoot \/ removeRoots) => StoreInv' /\ UNCHANGED Store0!vars
<1> SUFFICES ASSUME IInv, IInv', StoreInv, addRoot \/ removeRoots
             PROVE  StoreInv' /\ UNCHANGED Store0!vars
  OBVIOUS
<1>1. /\ pc = "run" /\ pc' = "run" /\ ~Collecting /\ ~Collecting' /\ ~Allocating'
      /\ UNCHANGED <<mem, cur, heapPointer, stack, globals, cvars, clive>>
  BY DEF addRoot, removeRoots, UnchangedHeap, Collecting, Allocating
<1>2. KnownIds' /\ UniqueIds' /\ (StoreInv' => UNCHANGED Store0!vars) BY <1>1, QuietStep
<1>3. StoreInv' BY <1>1, <1>2 DEF StoreInv
<1> QED BY <1>2, <1>3

-----------------------------------------------------------------------------
(***************************************************************************)
(* Steps of the program that change memory.                                *)
(***************************************************************************)

\* The views, when the function f names the references.
NamedStack(f, fs) == [i \in DOMAIN fs |-> [s \in fs[i].live |-> f[fs[i].values[s]]]]
NamedGlobals(f, gs) == [g \in Globals |-> f[gs[g]]]
NamedC(f, cs, live) == [c \in live |-> f[cs[c]]]

\* As they are now, and after a step.
LEMMA NamesNow ==
  ASSUME NEW S, NEW f, \A w \in S : f[w] = Name(w),
         NEW fs, NEW gs, NEW cs, NEW live, LiveIn(fs, gs, cs, live, S)
  PROVE  /\ NamedStack(f, fs) = StackView(fs)
         /\ NamedGlobals(f, gs) = GlobalsNamed(gs)
         /\ NamedC(f, cs, live) = CNamed(cs, live)
<1>1. NamedStack(f, fs) = StackView(fs)
  <2>1. \A i \in DOMAIN fs : \A s \in fs[i].live : f[fs[i].values[s]] = Name(fs[i].values[s])
    BY DEF LiveIn, FramesIn
  <2> QED BY <2>1 DEF NamedStack, StackView, FrameView
<1>2. NamedGlobals(f, gs) = GlobalsNamed(gs)
  <2>1. \A g \in Globals : f[gs[g]] = Name(gs[g]) BY DEF LiveIn
  <2> QED BY <2>1 DEF NamedGlobals, GlobalsNamed
<1>3. NamedC(f, cs, live) = CNamed(cs, live)
  <2>1. \A c \in live : f[cs[c]] = Name(cs[c]) BY DEF LiveIn
  <2> QED BY <2>1 DEF NamedC, CNamed
<1> QED BY <1>1, <1>2, <1>3

\* The views after a step, when f is what the references are then named.
LEMMA NamesAfter ==
  ASSUME NEW S, NEW f, \A w \in S : Name(w)' = f[w],
         LiveIn(stack', globals', cvars', clive', S)
  PROVE  /\ FramesView' = NamedStack(f, stack')
         /\ GlobalsView' = NamedGlobals(f, globals')
         /\ CFrameView' = NamedC(f, cvars', clive')
<1>1. FramesView' = NamedStack(f, stack')
  <2>1. ASSUME NEW i \in DOMAIN stack', NEW s \in stack'[i].live
        PROVE  Name(stack[i].values[s])' = f[stack'[i].values[s]]
    <3>1. PICK w : w = stack'[i].values[s] OBVIOUS
    <3>2. w \in S BY <3>1 DEF LiveIn, FramesIn
    <3>3. Name(w)' = f[w] BY <3>2
    <3> QED BY <3>1, <3>3
  <2> QED BY <2>1 DEF FramesView, NamedStack
<1>2. GlobalsView' = NamedGlobals(f, globals')
  <2>1. ASSUME NEW g \in Globals PROVE Name(globals[g])' = f[globals'[g]]
    <3>1. PICK w : w = globals'[g] OBVIOUS
    <3>2. w \in S BY <3>1 DEF LiveIn
    <3>3. Name(w)' = f[w] BY <3>2
    <3> QED BY <3>1, <3>3
  <2> QED BY <2>1 DEF GlobalsView, NamedGlobals
<1>3. CFrameView' = NamedC(f, cvars', clive')
  <2>1. ASSUME NEW c \in clive' PROVE Name(cvars[c])' = f[cvars'[c]]
    <3>1. PICK w : w = cvars'[c] OBVIOUS
    <3>2. w \in S BY <3>1 DEF LiveIn
    <3>3. Name(w)' = f[w] BY <3>2
    <3> QED BY <3>1, <3>3
  <2> QED BY <2>1 DEF CFrameView, NamedC
<1> QED BY <1>1, <1>2, <1>3

\* What is reachable afterwards is in a closed set of blocks with different names.
LEMMA HeapStep ==
  ASSUME IInv', NEW T, T \subseteq Blocks', Closed(T)',
         \A a, b \in T : IdOf(a)' = IdOf(b)' => a = b
  PROVE  UniqueIds' /\ ReachableBlocks' \subseteq T
<1>1. ReachFacts'
  <2>1. (IInv => ReachFacts)' BY ReachHolds, PTL
  <2> QED BY <2>1
<1>2. ReachableBlocks' \subseteq T BY <1>1 DEF ReachFacts, Smallest
<1>3. UniqueIds' BY <1>2 DEF UniqueIds
<1> QED BY <1>2, <1>3

\* The store has what is reachable of a heap that has at least that.
LEMMA HeapShrinks ==
  ASSUME IInv', StoreInv', NEW T, ReachableBlocks' \subseteq T,
         NEW heap, DOMAIN heap \subseteq Ids,
         \A a \in T : IdOf(a)' \in DOMAIN heap /\ heap[IdOf(a)'] = Object(BlockAt(a))'
  PROVE  Objects' = Store0!Reachable(heap,
                      Store0!RootValues(FramesView', GlobalsView', CFrameView'))
<1>1. ViewFacts'
  <2>1. (IInv /\ StoreInv => ViewFacts)' BY ViewHolds, PTL
  <2> QED BY <2>1
<1> QED BY <1>1 DEF ViewFacts, ObjectsReached

\* A store into an object is the store's.
LEMMA StoreView == IInv /\ IInv' /\ StoreInv /\ Store => StoreInv' /\ Store0!Store
<1> SUFFICES ASSUME IInv, IInv', StoreInv, Store PROVE StoreInv' /\ Store0!Store OBVIOUS
<1>1. /\ pc = "run" /\ ~Collecting /\ ~Collecting' /\ ~Allocating' /\ pc' = "run"
      /\ UNCHANGED <<cur, heapPointer, stack, globals, cvars, clive, ToSpace>>
  BY DEF Store, Running, Collecting, Allocating, ToSpace, program
<1>2. PICK p \in frame.live, q \in frame.live :
             /\ InHeap(Value(p))
             /\ \E i \in ScannedFields(BlockAt(Value(p)).shape) :
                  mem' = [mem EXCEPT ![cur][Value(p)[2]].fields[i] = Value(q)]
  BY Zenon DEF Store
<1>3. PICK i \in ScannedFields(BlockAt(Value(p)).shape) :
             mem' = [mem EXCEPT ![cur][Value(p)[2]].fields[i] = Value(q)]
  BY <1>2
<1>4. PICK v, o, w : v = Value(p) /\ o = Value(p)[2] /\ w = Value(q) OBVIOUS
<1>5. /\ v \in ReachableBlocks /\ v = <<cur, o>> /\ o \in DOMAIN mem[cur]
      /\ BlockAt(v) = mem[cur][o]
      /\ i \in ScannedFields(mem[cur][o].shape) /\ IsMemory(mem) /\ cur \in {0, 1}
      /\ w \in Kept
  BY <1>1, <1>2, <1>4, ReadObject, RunFacts, KeptFacts
<1>6. FieldChanged(mem', mem, cur, o, i, w)
  <2>1. mem' = WithField(mem, cur, o, i, w) BY <1>3, <1>4 DEF WithField
  <2> QED BY <1>5, <2>1, FieldFacts
<1>7. ReachFacts /\ ViewFacts /\ Closed(ReachableBlocks)
  BY ReachHolds, ViewHolds DEF ReachFacts, StoreInv
<1>8. Blocks' = Blocks /\ AllRefs' = AllRefs
  <2>1. Blocks' = Blocks BY <1>6 DEF FieldChanged, Blocks
  <2> QED BY <2>1 DEF AllRefs
<1>9. \A x : Resolve(x) = x /\ Resolve(x)' = x BY <1>1 DEF Resolve
<1>10. ASSUME NEW a \in Blocks
       PROVE  /\ IdOf(a)' = IdOf(a) /\ BlockAt(a)'.shape = BlockAt(a).shape
              /\ a # v => BlockAt(a)' = BlockAt(a)
  <2>1. a = <<a[1], a[2]>> /\ a[1] \in {0, 1} /\ a[2] \in DOMAIN mem[a[1]] /\ BlockAt(a) = mem[a[1]][a[2]]
    BY BlockFacts
  <2>2. BlockAt(a)' = mem'[a[1]][a[2]] BY DEF BlockAt
  <2>3. CASE a[1] # cur \/ a[2] # o
    <3>1. mem'[a[1]][a[2]] = mem[a[1]][a[2]] BY <1>6, <2>1, <2>3 DEF FieldChanged
    <3> QED BY <2>1, <2>2, <3>1 DEF IdOf
  <2>4. CASE a[1] = cur /\ a[2] = o
    <3>1. a = v BY <1>5, <2>1, <2>4
    <3>2. mem'[cur][o].id = mem[cur][o].id /\ mem'[cur][o].shape = mem[cur][o].shape
      BY <1>6 DEF FieldChanged
    <3> QED BY <2>1, <2>2, <2>4, <3>1, <3>2 DEF IdOf
  <2> QED BY <2>3, <2>4
<1>11. /\ BlockAt(v)' = mem'[cur][o]
       /\ mem'[cur][o].fields[i] = w
       /\ DOMAIN mem'[cur][o].fields = DOMAIN mem[cur][o].fields
       /\ mem'[cur][o].shape = mem[cur][o].shape
       /\ \A j \in DOMAIN mem[cur][o].fields : j # i => mem'[cur][o].fields[j] = mem[cur][o].fields[j]
  <2>1. v[1] = cur /\ v[2] = o BY <1>5
  <2>2. BlockAt(v)' = mem'[cur][o] BY <2>1 DEF BlockAt
  <2> QED BY <1>6, <2>2 DEF FieldChanged
<1>12. ASSUME NEW x \in AllRefs PROVE Name(x)' = Name(x)
  <2>1. ASSUME x \in Blocks PROVE Name(x)' = Name(x)
    <3>1. IsAddress(x) /\ HasBlock(x) /\ x[1] = cur BY <1>1, <2>1, BlockFacts
    <3>2. x[1] \in {0, 1} /\ DOMAIN mem'[x[1]] = DOMAIN mem[x[1]]
      BY <1>5, <1>6, <3>1 DEF FieldChanged
    <3>3. HasBlock(x)' BY <3>1, <3>2 DEF HasBlock
    <3>4. Name(x)' = IdOf(x)' BY <1>1, <3>1, <3>3 DEF Name, IdOf
    <3>5. Name(x) = IdOf(x) BY <3>1 DEF Name, IdOf
    <3> QED BY <1>10, <2>1, <3>4, <3>5
  <2>2. ASSUME x \notin Blocks PROVE Name(x)' = Name(x)
    <3>1. x \in {Null, Static} BY <2>2 DEF AllRefs
    <3> QED BY <3>1, AddressFacts DEF Name
  <2> QED BY <2>1, <2>2
<1>13. PICK T : T = ReachableBlocks OBVIOUS
<1>14. T \subseteq Blocks' BY <1>7, <1>8, <1>13 DEF ReachFacts
<1>15. \A x \in Kept : x \in Blocks => x \in T BY <1>9, <1>13 DEF Kept, Leads
<1>16. \A a \in T : References(a)' \subseteq References(a) \cup {w}
  <2>1. ASSUME NEW a \in T, NEW j \in ScannedFields(BlockAt(a)'.shape)
        PROVE  BlockAt(a)'.fields[j] \in References(a) \cup {w}
    <3>1. a \in Blocks BY <1>8, <1>14
    <3>2. j \in ScannedFields(BlockAt(a).shape) /\ j \in DOMAIN BlockAt(a).fields
      BY <1>10, <2>1, <3>1, BlockFacts
    <3>3. BlockAt(a).fields[j] \in References(a) BY <3>2 DEF References
    <3>4. BlockAt(a)'.fields[j] = BlockAt(a).fields[j] \/ BlockAt(a)'.fields[j] = w
      BY <1>5, <1>10, <1>11, <3>1, <3>2
    <3> QED BY <3>3, <3>4
  <2> QED BY <2>1 DEF References
<1>17. Closed(T)'
  <2>1. LiveValues' = LiveValues BY <1>1 DEF LiveValues
  <2>2. \A x \in LiveValues' \cap Blocks' : Resolve(x)' \in T
    BY <1>7, <1>8, <1>9, <1>13, <2>1 DEF Closed
  <2>3. \A a \in T : \A x \in References(a)' \cap Blocks' : Resolve(x)' \in T
    BY <1>5, <1>7, <1>8, <1>9, <1>13, <1>15, <1>16 DEF Closed
  <2> QED BY <2>2, <2>3 DEF Closed
<1>18. UniqueIds' /\ ReachableBlocks' \subseteq T
  <2>1. \A a, b \in T : IdOf(a)' = IdOf(b)' => a = b
    BY <1>8, <1>10, <1>13, <1>14 DEF StoreInv, UniqueIds
  <2> QED BY <1>14, <1>17, <2>1, HeapStep
<1>19. KnownIds'
  <2>1. ASSUME NEW s \in {0, 1}, NEW n \in DOMAIN mem'[s] PROVE mem'[s][n].id \in Ids
    <3>1. n \in DOMAIN mem[s] BY <1>6 DEF FieldChanged
    <3>2. mem'[s][n].id = mem[s][n].id BY <1>6, <3>1 DEF FieldChanged
    <3> QED BY <3>1, <3>2 DEF StoreInv, KnownIds
  <2> QED BY <2>1 DEF KnownIds
<1>20. StoreInv'
  <2>1. \A n \in DOMAIN mem'[cur] : n < heapPointer
    BY <1>1, <1>5, <1>6 DEF FieldChanged, StoreInv
  <2> QED BY <1>1, <1>18, <1>19, <2>1 DEF StoreInv
<1>21. LiveIn(stack, globals, cvars, clive, Kept) /\ Kept \subseteq AllRefs BY <1>1, KeptFacts
<1>22. UNCHANGED <<FramesView, GlobalsView, CFrameView>>
  <2>1. PICK f : f = [x \in Kept |-> Name(x)] OBVIOUS
  <2>2. \A x \in Kept : f[x] = Name(x) /\ Name(x)' = f[x] BY <1>12, <1>21, <2>1
  <2>3. PICK S : S = Kept OBVIOUS
  <2>4. LiveIn(stack', globals', cvars', clive', S) BY <1>1, <1>21, <2>3
  <2>5. /\ FramesView' = NamedStack(f, stack') /\ GlobalsView' = NamedGlobals(f, globals')
        /\ CFrameView' = NamedC(f, cvars', clive')
    BY <2>2, <2>3, <2>4, NamesAfter
  <2>6. /\ NamedStack(f, stack) = StackView(stack) /\ NamedGlobals(f, globals) = GlobalsNamed(globals)
        /\ NamedC(f, cvars, clive) = CNamed(cvars, clive)
    BY <1>21, <2>2, NamesNow
  <2> QED BY <1>1, <2>5, <2>6, ViewNow
<1>23. PICK id, name, heap : id = Name(v) /\ name = Name(w)
                             /\ heap = [Objects EXCEPT ![id].fields[i] = name]
  OBVIOUS
<1>24. id \in DOMAIN Objects /\ id = IdOf(v) /\ Objects[id] = Object(BlockAt(v))
  BY <1>1, <1>2, <1>4, <1>23, ReadObject
<1>25. ASSUME NEW a \in T PROVE IdOf(a)' \in DOMAIN heap /\ heap[IdOf(a)'] = Object(BlockAt(a))'
  <2>1. a \in Blocks /\ a \in ReachableBlocks /\ IdOf(a)' = IdOf(a) BY <1>8, <1>10, <1>13, <1>14
  <2>2. Objects[IdOf(a)] = Object(BlockAt(a)) /\ IdOf(a) \in DOMAIN Objects
    BY <1>7, <2>1 DEF ViewFacts
  <2>3. DOMAIN heap = DOMAIN Objects BY <1>23
  <2>4. PICK b, b2 : b = BlockAt(a) /\ b2 = BlockAt(a)' OBVIOUS
  <2>5. \A j \in ScannedFields(b.shape) : b.fields[j] \in AllRefs /\ b.fields[j] \in References(a)
    BY <1>7, <2>1, <2>4 DEF ReachFacts, References
  <2>6. Object(BlockAt(a))' = Object(b2)' BY <2>4 DEF Object
  <2>7. CASE a # v
    <3>1. IdOf(a) # id BY <1>5, <1>24, <2>1, <2>7 DEF StoreInv, UniqueIds
    <3>2. heap[IdOf(a)] = Objects[IdOf(a)] BY <1>23, <2>2, <3>1
    <3>3. b2 = b BY <1>10, <2>1, <2>4, <2>7
    <3>4. Object(b)' = Object(b)
      <4>1. \A j \in ScannedFields(b.shape) : Name(b.fields[j])' = Name(b.fields[j])
        BY <1>12, <2>5
      <4> QED BY <4>1 DEF Object
    <3> QED BY <2>1, <2>2, <2>3, <2>4, <2>6, <3>2, <3>3, <3>4
  <2>8. CASE a = v
    <3>1. b = mem[cur][o] /\ b2 = mem'[cur][o] BY <1>5, <1>11, <2>4, <2>8
    <3>2. /\ b2.fields[i] = w /\ DOMAIN b2.fields = DOMAIN b.fields /\ b2.shape = b.shape
          /\ \A j \in DOMAIN b.fields : j # i => b2.fields[j] = b.fields[j]
          /\ i \in ScannedFields(b.shape)
      BY <1>5, <1>11, <3>1
    <3>3. i \in DOMAIN b.fields BY <2>1, <2>4, <3>2, BlockFacts
    <3>4. ASSUME NEW j \in ScannedFields(b.shape)
          PROVE  Name(b2.fields[j])' = IF j = i THEN name ELSE Name(b.fields[j])
      <4>1. CASE j = i
        <5>1. Name(w)' = Name(w) BY <1>5, <1>12, <1>21
        <5>2. Name(b2.fields[j])' = Name(w)' BY <3>2, <4>1
        <5> QED BY <1>23, <4>1, <5>1, <5>2
      <4>2. CASE j # i
        <5>1. j \in DOMAIN b.fields BY <2>1, <2>4, BlockFacts
        <5>2. PICK x : x = b.fields[j] OBVIOUS
        <5>3. b2.fields[j] = x BY <3>2, <4>2, <5>1, <5>2
        <5>4. Name(x)' = Name(x) BY <1>12, <2>5, <5>2
        <5> QED BY <4>2, <5>2, <5>3, <5>4
      <4> QED BY <4>1, <4>2
    <3>5. Object(b2)' = [Object(b) EXCEPT !.fields[i] = name]
      <4>1. PICK F : F = [j \in DOMAIN b.fields |->
                            IF j \in ScannedFields(b.shape) THEN Name(b.fields[j]) ELSE b.fields[j]]
        OBVIOUS
      <4>2. PICK G : G = [j \in DOMAIN b2.fields |->
                            IF j \in ScannedFields(b2.shape) THEN Name(b2.fields[j])'
                                                              ELSE b2.fields[j]]
        OBVIOUS
      <4>3. G = [F EXCEPT ![i] = name]
        <5>1. DOMAIN G = DOMAIN F /\ F = [j \in DOMAIN F |-> F[j]] /\ DOMAIN F = DOMAIN b.fields
          BY <3>2, <4>1, <4>2
        <5>2. \A j \in DOMAIN F : G[j] = IF j = i THEN name ELSE F[j]
          BY <3>2, <3>4, <4>1, <4>2, <5>1
        <5>3. G = [j \in DOMAIN F |-> G[j]] BY <4>2, <5>1
        <5> QED BY <5>1, <5>2, <5>3
      <4>4. Object(b) = [shape |-> b.shape, fields |-> F] BY <4>1 DEF Object
      <4>5. Object(b2)' = [shape |-> b2.shape, fields |-> G] BY <4>2 DEF Object
      <4> QED BY <3>2, <4>3, <4>4, <4>5
    <3>6. heap[id] = [Objects[id] EXCEPT !.fields[i] = name] BY <1>23, <1>24
    <3> QED BY <1>24, <2>1, <2>3, <2>4, <2>6, <2>8, <3>5, <3>6
  <2> QED BY <2>7, <2>8
<1>26. DOMAIN heap \subseteq Ids
  <2>1. DOMAIN heap = {IdOf(a) : a \in ReachableBlocks} BY <1>7, <1>23 DEF ViewFacts
  <2>2. \A a \in ReachableBlocks : IdOf(a) \in Ids
    BY <1>7, BlockFacts DEF StoreInv, KnownIds, IdOf, ReachFacts
  <2> QED BY <2>1, <2>2
<1>27. Objects' = Store0!Reachable(heap, Store0!RootValues(FramesView', GlobalsView', CFrameView'))
  BY <1>18, <1>20, <1>25, <1>26, HeapShrinks
<1>28. Store0!Become(FramesView, GlobalsView, CFrameView, heap)
  BY <1>22, <1>27 DEF Store0!Become
<1>29. /\ p \in DOMAIN FramesView[Store0!top] /\ q \in DOMAIN FramesView[Store0!top]
       /\ FramesView[Store0!top][p] = id /\ FramesView[Store0!top][q] = name
       /\ i \in Store0!RefFields(Objects[id].shape)
  BY <1>1, <1>2, <1>4, <1>5, <1>23, ReadObject, ViewNow
<1>30. Store0!Become(FramesView, GlobalsView, CFrameView,
         [Objects EXCEPT ![FramesView[Store0!top][p]].fields[i] = FramesView[Store0!top][q]])
  BY <1>23, <1>28, <1>29
<1>31. /\ FramesView[Store0!top][p] \in DOMAIN Objects
       /\ i \in Store0!RefFields(Objects[FramesView[Store0!top][p]].shape)
  BY <1>24, <1>29
<1> QED BY <1>20, <1>29, <1>30, <1>31, Zenon DEF Store0!Store

\* The value that fills the new object is one the program can read.
LEMMA InitKept ==
  ASSUME IInv, StoreInv, ~Collecting, NEW init \in {"null"} \cup frame.live \cup clive
  PROVE  /\ InitValue(init) \in Kept
         /\ init = "null" => InitValue(init) = Null
         /\ init \in frame.live => InitValue(init) = Value(init)
         /\ init \in clive => InitValue(init) = cvars[init]
<1>1. /\ frame \in Frames /\ clive \subseteq CVars /\ Null \in Kept
      /\ \A c \in clive : cvars[c] \in Kept
      /\ \A s \in frame.live : Value(s) \in Kept
  BY RunFacts, KeptFacts DEF IInv, TypeInv, LiveIn
<1>2. frame.live \subseteq Slots BY <1>1 DEF Frames
<1>3. init = "null" => InitValue(init) = Null
  BY NamesAssumption DEF InitValue
<1>4. ASSUME init \in frame.live PROVE InitValue(init) = Value(init)
  <2>1. init \in Slots /\ init # "null" /\ init \notin CVars BY <1>2, <1>4, NamesAssumption
  <2> QED BY <2>1 DEF InitValue
<1>5. ASSUME init \in clive PROVE InitValue(init) = cvars[init]
  <2>1. init \in CVars /\ init # "null" /\ init \notin Slots BY <1>1, <1>5, NamesAssumption
  <2> QED BY <2>1 DEF InitValue
<1> QED BY <1>1, <1>3, <1>4, <1>5

\* A new object, beyond all others and under a name nothing reachable has.
LEMMA NewObjectView ==
  ASSUME IInv, StoreInv, IInv', ~Collecting, pc' \in {"run", "equalize"},
         NEW id \in Ids \ DOMAIN Objects, NEW want, want.bytes \in Nat, want.shape \in AllShapes,
         NEW v \in Kept, v = InitValue(want.init),
         mem' = PutIn(mem, cur, heapPointer, NewBlock(id, want)), cur' = cur,
         heapPointer' = heapPointer + HS!BlockWords(want.bytes),
         NEW new, new = <<cur, heapPointer>>,
         LiveIn(stack', globals', cvars', clive', Kept \cup {new})
  PROVE  /\ StoreInv' /\ new \notin Kept
         /\ Name(new)' = id /\ \A w \in Kept : Name(w)' = Name(w)
         /\ Objects' = Store0!Reachable(Store0!Put(Objects, id,
                                                   Store0!NewObject(want.shape, Name(v))),
                         Store0!RootValues(FramesView', GlobalsView', CFrameView'))
<1>1. /\ ~Collecting' /\ ~Allocating' /\ ToSpace' = ToSpace
      /\ IsMemory(mem) /\ cur \in {0, 1} /\ heapPointer \in Nat
      /\ Kept \subseteq AllRefs
  BY KeptFacts DEF IInv, TypeInv, Collecting, Allocating, ToSpace
<1>2. PICK block : block = NewBlock(id, want) OBVIOUS
<1>3. /\ block.id = id /\ block.shape = want.shape
      /\ block.fields = [i \in DOMAIN want.shape.refs |->
                           IF i \in ScannedFields(want.shape) THEN v ELSE Raw]
      /\ IsBlock(block)
  <2>1. IsBlock(block) BY <1>2, NewBlockFacts
  <2> QED BY <1>2, <2>1 DEF NewBlock
<1>4. BlockAdded(mem', mem, cur, heapPointer, block) BY <1>1, <1>2, <1>3, PutFacts
<1>5. heapPointer \notin DOMAIN mem[cur]
  <2>1. ~(heapPointer < heapPointer) BY <1>1
  <2> QED BY <2>1 DEF StoreInv
<1>6. ReachFacts /\ ViewFacts /\ Closed(ReachableBlocks)
  BY ReachHolds, ViewHolds DEF ReachFacts, StoreInv
<1>7. new \notin Blocks /\ new \notin AllRefs
  <2>1. new[1] = cur /\ new[2] = heapPointer /\ new \notin {Null, Static}
    BY AddressFacts
  <2>2. new \notin Blocks BY <1>5, <2>1 DEF Blocks
  <2> QED BY <2>1, <2>2 DEF AllRefs
<1>8. ASSUME NEW a \in Blocks
      PROVE  a \in Blocks' /\ BlockAt(a)' = BlockAt(a) /\ IdOf(a)' = IdOf(a) /\ a[1] = cur
  <2>1. /\ a = <<a[1], a[2]>> /\ a[1] = cur /\ a[2] \in DOMAIN mem[cur] /\ a[2] \in Nat
        /\ BlockAt(a) = mem[cur][a[2]]
    BY BlockFacts
  <2>2. a[2] \in DOMAIN mem'[cur] /\ mem'[cur][a[2]] = mem[cur][a[2]]
    BY <1>4, <1>5, <2>1 DEF BlockAdded
  <2>3. a \in Blocks' BY <1>1, <2>1, <2>2 DEF Blocks
  <2>4. BlockAt(a)' = mem'[a[1]][a[2]] BY DEF BlockAt
  <2> QED BY <2>1, <2>2, <2>3, <2>4 DEF IdOf
<1>9. new \in Blocks' /\ BlockAt(new)' = block /\ IdOf(new)' = id
  <2>1. heapPointer \in DOMAIN mem'[cur] /\ mem'[cur][heapPointer] = block
    BY <1>4 DEF BlockAdded
  <2>2. new \in Blocks' BY <1>1, <2>1 DEF Blocks
  <2>3. BlockAt(new)' = block BY <2>1 DEF BlockAt
  <2> QED BY <1>3, <2>2, <2>3 DEF IdOf
<1>10. \A w : Resolve(w) = w /\ Resolve(w)' = w BY <1>1 DEF Resolve
<1>11. ASSUME NEW w \in AllRefs PROVE Name(w)' = Name(w)
  <2>1. ASSUME w \in Blocks PROVE Name(w)' = Name(w)
    <3>1. IsAddress(w) /\ HasBlock(w) /\ w[1] = cur BY <1>8, <2>1, BlockFacts
    <3>2. HasBlock(w)'
      <4>1. w[2] \in DOMAIN mem'[w[1]] BY <1>8, <2>1 DEF Blocks
      <4> QED BY <3>1, <4>1 DEF HasBlock
    <3>3. Name(w)' = IdOf(w)' BY <3>1, <3>2 DEF Name, IdOf
    <3>4. Name(w) = IdOf(w) BY <3>1 DEF Name, IdOf
    <3> QED BY <1>8, <2>1, <3>3, <3>4
  <2>2. ASSUME w \notin Blocks PROVE Name(w)' = Name(w)
    <3>1. w \in {Null, Static} BY <2>2 DEF AllRefs
    <3> QED BY <3>1, AddressFacts DEF Name
  <2> QED BY <2>1, <2>2
<1>12. Name(new)' = id
  <2>1. IsAddress(new) /\ new[1] = cur BY AddressFacts
  <2>2. HasBlock(new)'
    <3>1. new[2] \in DOMAIN mem'[new[1]] BY <1>9 DEF Blocks
    <3> QED BY <2>1, <3>1 DEF HasBlock
  <2>3. Name(new)' = IdOf(new)' BY <2>1, <2>2 DEF Name, IdOf
  <2> QED BY <1>9, <2>3
<1>13. PICK T : T = ReachableBlocks \cup {new} OBVIOUS
<1>14. T \subseteq Blocks' BY <1>6, <1>8, <1>9, <1>13 DEF ReachFacts
<1>15. \A x \in Kept \cup {new} : x \in Blocks' => x \in T
  <2>1. ASSUME NEW x \in Kept, x \in Blocks' PROVE x \in T
    <3>1. x \in Blocks
      <4>1. x \notin {Null, Static}
        <5>1. ReachFacts'
          <6>1. (IInv => ReachFacts)' BY ReachHolds, PTL
          <6> QED BY <6>1
        <5> QED BY <2>1, <5>1 DEF ReachFacts
      <4> QED BY <1>1, <2>1, <4>1 DEF AllRefs
    <3> QED BY <1>10, <1>13, <2>1, <3>1 DEF Kept, Leads
  <2> QED BY <1>13, <2>1
<1>16. ASSUME NEW a \in T PROVE References(a)' \subseteq Kept
  <2>1. CASE a = new
    <3>1. ASSUME NEW j \in ScannedFields(block.shape) PROVE block.fields[j] \in Kept
      <4>1. j \in DOMAIN want.shape.refs BY <1>3, ShapeFacts
      <4> QED BY <1>3, <4>1
    <3>2. \A j \in ScannedFields(BlockAt(a)'.shape) : BlockAt(a)'.fields[j] \in Kept
      BY <1>9, <2>1, <3>1
    <3> QED BY <3>2 DEF References
  <2>2. CASE a # new
    <3>1. a \in ReachableBlocks /\ a \in Blocks BY <1>6, <1>13, <2>2 DEF ReachFacts
    <3>2. \A j \in ScannedFields(BlockAt(a).shape) : BlockAt(a).fields[j] \in Kept
      BY <3>1, KeptFacts
    <3> QED BY <1>8, <3>1, <3>2 DEF References
  <2> QED BY <2>1, <2>2
<1>17. LiveValues' \subseteq Kept \cup {new}
  <2>1. LiveAre'
    <3>1. (IInv => LiveAre)' BY LiveHolds, PTL
    <3> QED BY <3>1
  <2>2. PICK S : S = Kept \cup {new} OBVIOUS
  <2>3. LiveIn(stack', globals', cvars', clive', S) BY <2>2
  <2>4. LiveValues' \subseteq S BY <2>1, <2>3 DEF LiveAre
  <2> QED BY <2>2, <2>4
<1>18. Closed(T)' BY <1>10, <1>15, <1>16, <1>17 DEF Closed
<1>19. \A a \in ReachableBlocks : IdOf(a) \in DOMAIN Objects /\ IdOf(a)' = IdOf(a)
  BY <1>6, <1>8 DEF ViewFacts, ReachFacts
<1>20. UniqueIds' /\ ReachableBlocks' \subseteq T
  <2>1. \A a, b \in T : IdOf(a)' = IdOf(b)' => a = b
    BY <1>9, <1>13, <1>19 DEF StoreInv, UniqueIds
  <2> QED BY <1>14, <1>18, <2>1, HeapStep
<1>21. KnownIds'
  <2>1. ASSUME NEW s \in {0, 1}, NEW n \in DOMAIN mem'[s] PROVE mem'[s][n].id \in Ids
    <3>1. CASE s = cur /\ n = heapPointer BY <1>3, <1>4, <3>1 DEF BlockAdded
    <3>2. CASE s # cur \/ n # heapPointer
      <4>1. n \in DOMAIN mem[s] /\ mem'[s][n] = mem[s][n]
        BY <1>4, <2>1, <3>2 DEF BlockAdded
      <4> QED BY <4>1 DEF StoreInv, KnownIds
    <3> QED BY <3>1, <3>2
  <2> QED BY <2>1 DEF KnownIds
<1>22. StoreInv'
  <2>1. HS!BlockWords(want.bytes) \in Nat \ {0}
    <3>1. HS!SizeInWords(want.bytes) \in Nat BY SizeFacts
    <3> QED BY <3>1 DEF HS!BlockWords
  <2>2. ASSUME NEW n \in DOMAIN mem'[cur] PROVE n < heapPointer'
    <3>1. n = heapPointer \/ (n \in DOMAIN mem[cur] /\ n < heapPointer /\ n \in Nat)
      BY <1>1, <1>4 DEF BlockAdded, StoreInv, IsMemory
    <3> QED BY <1>1, <2>1, <3>1
  <2> QED BY <1>1, <1>20, <1>21, <2>2 DEF StoreInv
<1>23. PICK object, heap : /\ object = Store0!NewObject(want.shape, Name(v))
                          /\ heap = Store0!Put(Objects, id, object)
  OBVIOUS
<1>24. /\ DOMAIN heap = DOMAIN Objects \cup {id} /\ heap[id] = object
       /\ \A x \in DOMAIN Objects : heap[x] = Objects[x]
  BY <1>23 DEF Store0!Put
<1>25. Object(block)' = object
  <2>1. ScannedFields(block.shape) = Store0!RefFields(want.shape) BY <1>3, SameFields
  <2>2. Name(v)' = Name(v) BY <1>1, <1>11
  <2>3. DOMAIN block.fields = DOMAIN want.shape.refs BY <1>3
  <2>4. ASSUME NEW j \in ScannedFields(block.shape), j \in DOMAIN want.shape.refs
        PROVE  Name(block.fields[j])' = Name(v)
    <3>1. block.fields[j] = v BY <1>3, <2>4
    <3> QED BY <2>2, <3>1
  <2>5. PICK F : F = [j \in DOMAIN block.fields |->
                        IF j \in ScannedFields(block.shape) THEN Name(block.fields[j])'
                                                            ELSE block.fields[j]]
    OBVIOUS
  <2>6. F = [j \in DOMAIN want.shape.refs |->
               IF j \in Store0!RefFields(want.shape) THEN Name(v) ELSE Raw]
    BY <1>3, <2>1, <2>3, <2>4, <2>5
  <2>7. Object(block)' = [shape |-> block.shape, fields |-> F] BY <2>5 DEF Object
  <2> QED BY <1>3, <1>23, <2>6, <2>7 DEF Store0!NewObject
<1>26. ASSUME NEW a \in T PROVE IdOf(a)' \in DOMAIN heap /\ heap[IdOf(a)'] = Object(BlockAt(a))'
  <2>1. CASE a = new
    <3>1. Object(BlockAt(new))' = Object(block)' BY <1>9 DEF Object
    <3> QED BY <1>9, <1>24, <1>25, <2>1, <3>1
  <2>2. CASE a # new
    <3>1. a \in ReachableBlocks /\ a \in Blocks BY <1>6, <1>13, <2>2 DEF ReachFacts
    <3>2. Objects[IdOf(a)] = Object(BlockAt(a)) /\ IdOf(a) \in DOMAIN Objects /\ IdOf(a)' = IdOf(a)
      BY <1>6, <1>19, <3>1 DEF ViewFacts
    <3>3. PICK b : b = BlockAt(a) OBVIOUS
    <3>4. \A j \in ScannedFields(b.shape) : b.fields[j] \in Kept BY <3>1, <3>3, KeptFacts
    <3>5. Object(b)' = Object(b)
      <4>1. \A j \in ScannedFields(b.shape) : Name(b.fields[j])' = Name(b.fields[j])
        BY <1>1, <1>11, <3>4
      <4> QED BY <4>1 DEF Object
    <3>6. Object(BlockAt(a))' = Object(b)' BY <1>8, <3>1, <3>3 DEF Object
    <3> QED BY <1>24, <3>2, <3>3, <3>5, <3>6
  <2> QED BY <2>1, <2>2
<1>27. DOMAIN heap \subseteq Ids
  <2>1. DOMAIN Objects = {IdOf(a) : a \in ReachableBlocks} BY <1>6 DEF ViewFacts
  <2>2. \A a \in ReachableBlocks : IdOf(a) \in Ids
    BY <1>6, BlockFacts DEF StoreInv, KnownIds, IdOf, ReachFacts
  <2> QED BY <1>24, <2>1, <2>2
<1>28. Objects' = Store0!Reachable(heap, Store0!RootValues(FramesView', GlobalsView', CFrameView'))
  BY <1>20, <1>22, <1>26, <1>27, HeapShrinks
<1>29. \A w \in Kept : Name(w)' = Name(w) BY <1>1, <1>11
<1>30. new \notin Kept BY <1>1, <1>7
<1> QED BY <1>12, <1>22, <1>23, <1>28, <1>29, <1>30

\* A slot gets a value, when f names the references.
LEMMA AssignNamed ==
  ASSUME NEW frames \in Seq(Frames), NEW i \in DOMAIN frames, NEW s \in Slots, NEW v \in AnyRef, NEW f
  PROVE  NamedStack(f, Assign(frames, i, s, v)) =
           [NamedStack(f, frames) EXCEPT ![i] = Store0!Put(@, s, f[v])]
<1>1. PICK new \in Frames :
        /\ Assign(frames, i, s, v) = WithFrame(frames, i, new)
        /\ new.live = frames[i].live \cup {s}
        /\ \A n \in new.live : new.values[n] = IF n = s THEN v ELSE frames[i].values[n]
  BY AssignFrame
<1> DEFINE Named(g) == [n \in g.live |-> f[g.values[n]]]
<1>2. Named(new) = Store0!Put(Named(frames[i]), s, f[v])
  BY <1>1 DEF Store0!Put
<1>3. /\ DOMAIN WithFrame(frames, i, new) = DOMAIN frames
      /\ WithFrame(frames, i, new)[i] = new
      /\ \A j \in DOMAIN frames : j # i => WithFrame(frames, i, new)[j] = frames[j]
  BY DEF WithFrame
<1>4. \A fs : NamedStack(f, fs) = [j \in DOMAIN fs |-> Named(fs[j])] BY DEF NamedStack
<1> HIDE DEF Named
<1> QED BY <1>1, <1>2, <1>3, <1>4

\* An object outside the heap is its own name.
LEMMA NullName ==
  ASSUME IInv, StoreInv
  PROVE  Name(Null) = Store0!Null
<1>1. ReachFacts /\ ViewFacts BY ReachHolds, ViewHolds
<1>2. Null \in AllRefs /\ Null \notin Blocks BY <1>1 DEF AllRefs, ReachFacts
<1>3. Name(Null) = Null BY <1>1, <1>2 DEF ViewFacts
<1> QED BY <1>3 DEF Null, Store0!Null

\* The program's new object, in a slot.
LEMMA DeliverSlot ==
  ASSUME IInv, StoreInv, IInv', ~Collecting, pc' \in {"run", "equalize"},
         NEW want, want.bytes \in Nat, want.shape \in AllShapes, want.dest \in Slots,
         NEW keep \in SUBSET frame.live, want.init \in {"null"} \cup keep,
         NEW live, Deliver(want, Narrow(stack, top, keep), live)
  PROVE  StoreInv' /\ Store0!New
<1>1. PICK id \in Ids \ DOMAIN Objects : mem' = PutIn(mem, cur, heapPointer, NewBlock(id, want))
  BY Zenon DEF Deliver, PutIn
<1>2. PICK new, fs, dest : new = <<cur, heapPointer>> /\ fs = Narrow(stack, top, keep)
                           /\ dest = want.dest
  OBVIOUS
<1>3. /\ cur' = cur /\ heapPointer' = heapPointer + HS!BlockWords(want.bytes)
      /\ UNCHANGED <<globals, cvars, clive>>
      /\ stack' = Assign(fs, top, dest, new)
  BY <1>2 DEF Deliver, HS!Carve, Assign
<1>4. /\ stack \in Seq(Frames) /\ top \in DOMAIN stack /\ keep \in SUBSET stack[top].live
      /\ LiveIn(stack, globals, cvars, clive, Kept)
      /\ cur \in {0, 1} /\ heapPointer \in Nat
  BY RunFacts, KeptFacts DEF frame, IInv, TypeInv
<1>5. /\ fs \in Seq(Frames) /\ top \in DOMAIN fs /\ FramesIn(fs, Kept)
      /\ StackView(fs) = [FramesView EXCEPT ![top] = Store0!Restrict(@, keep)]
  BY <1>2, <1>4, NarrowFacts, NarrowView, ViewNow DEF LiveIn
<1>6. new \in AnyRef BY <1>2, <1>4 DEF AnyRef
<1>7. LiveIn(stack', globals', cvars', clive', Kept \cup {new})
  <2>1. FramesIn(fs, Kept \cup {new}) BY <1>5 DEF FramesIn
  <2>2. FramesIn(stack', Kept \cup {new}) BY <1>2, <1>3, <1>5, <1>6, <2>1, AssignFacts
  <2> QED BY <1>3, <1>4, <2>2 DEF LiveIn
<1>8. PICK v : v = InitValue(want.init) OBVIOUS
<1>9. /\ v \in Kept
      /\ want.init = "null" => v = Null
      /\ want.init \in frame.live => v = Value(want.init)
  BY <1>8, InitKept
<1>10. /\ StoreInv' /\ new \notin Kept
       /\ Name(new)' = id /\ \A w \in Kept : Name(w)' = Name(w)
       /\ Objects' = Store0!Reachable(Store0!Put(Objects, id,
                                                 Store0!NewObject(want.shape, Name(v))),
                       Store0!RootValues(FramesView', GlobalsView', CFrameView'))
  BY <1>1, <1>2, <1>3, <1>7, <1>8, <1>9, NewObjectView
<1>11. PICK S : S = Kept \cup {new} OBVIOUS
<1>12. PICK f : f = [w \in S |-> IF w = new THEN id ELSE Name(w)] OBVIOUS
<1>13. /\ \A w \in S : Name(w)' = f[w]
       /\ \A w \in Kept : f[w] = Name(w)
       /\ f[new] = id
  <2>1. ASSUME NEW w \in S PROVE Name(w)' = f[w]
    <3>1. CASE w = new BY <1>10, <1>11, <1>12, <3>1
    <3>2. CASE w # new BY <1>10, <1>11, <1>12, <3>2
    <3> QED BY <3>1, <3>2
  <2> QED BY <1>10, <1>11, <1>12, <2>1
<1>14. /\ FramesView' = NamedStack(f, stack') /\ GlobalsView' = NamedGlobals(f, globals)
       /\ CFrameView' = NamedC(f, cvars, clive)
  <2>1. LiveIn(stack', globals', cvars', clive', S) BY <1>7, <1>11
  <2> QED BY <1>3, <1>13, <2>1, NamesAfter
<1>15. LiveIn(fs, globals, cvars, clive, Kept) BY <1>4, <1>5 DEF LiveIn
<1>16. /\ NamedStack(f, fs) = StackView(fs) /\ NamedGlobals(f, globals) = GlobalsView
       /\ NamedC(f, cvars, clive) = CFrameView
  BY <1>13, <1>15, NamesNow, ViewNow
<1>17. FramesView' = [FramesView EXCEPT
                        ![Store0!top] = Store0!Put(Store0!Restrict(@, keep), dest, id)]
  <2>1. NamedStack(f, stack') = [NamedStack(f, fs) EXCEPT ![top] = Store0!Put(@, dest, f[new])]
    BY <1>2, <1>3, <1>5, <1>6, AssignNamed
  <2>2. NamedStack(f, stack') = [[FramesView EXCEPT ![top] = Store0!Restrict(@, keep)] EXCEPT
                                   ![top] = Store0!Put(@, dest, id)]
    BY <1>5, <1>13, <1>16, <2>1
  <2>3. top \in DOMAIN FramesView /\ Store0!top = top BY ViewNow
  <2>4. PICK F, A : F = FramesView /\ A = Store0!Restrict(FramesView[top], keep) OBVIOUS
  <2>5. PICK B : B = Store0!Put(A, dest, id) OBVIOUS
  <2>6. [F EXCEPT ![top] = A][top] = A BY <2>3, <2>4
  <2>7. NamedStack(f, stack') = [[F EXCEPT ![top] = A] EXCEPT ![top] = B]
    BY <2>2, <2>4, <2>5, <2>6, Zenon
  <2>8. [[F EXCEPT ![top] = A] EXCEPT ![top] = B] = [F EXCEPT ![top] = B] OBVIOUS
  <2>9. FramesView' = [F EXCEPT ![top] = B] BY <1>14, <2>7, <2>8
  <2> QED BY <2>3, <2>4, <2>5, <2>9, Zenon
<1>18. Name(v) \in {Store0!Null} \cup {FramesView[Store0!top][s] : s \in keep}
  <2>1. CASE want.init = "null" BY <1>9, <2>1, NullName
  <2>2. CASE want.init \in keep
    <3>1. v = Value(want.init) /\ want.init \in frame.live BY <1>9, <2>2
    <3> QED BY <2>2, <3>1, ViewNow
  <2> QED BY <2>1, <2>2
<1>19. PICK init, shape : init = Name(v) /\ shape = want.shape OBVIOUS
<1>20. Store0!Become([FramesView EXCEPT
                        ![Store0!top] = Store0!Put(Store0!Restrict(@, keep), dest, id)],
                     GlobalsView, CFrameView,
                     Store0!Put(Objects, id, Store0!NewObject(shape, init)))
  BY <1>10, <1>14, <1>16, <1>17, <1>19 DEF Store0!Become
<1>21. /\ keep \in SUBSET DOMAIN FramesView[Store0!top] /\ dest \in Slots /\ shape \in AllShapes
       /\ init \in {Store0!Null} \cup {FramesView[Store0!top][s] : s \in keep}
  BY <1>2, <1>18, <1>19, ViewNow
<1> QED BY <1>10, <1>20, <1>21, Zenon DEF Store0!New

\* A C function's new object.
LEMMA DeliverC ==
  ASSUME IInv, StoreInv, IInv', ~Collecting, pc' \in {"run", "equalize"},
         NEW want, want.bytes \in Nat, want.shape \in AllShapes, want.dest \in CVars,
         NEW live \in SUBSET clive, want.init \in {"null"} \cup live,
         Deliver(want, stack, live)
  PROVE  StoreInv' /\ Store0!New
<1>1. PICK id \in Ids \ DOMAIN Objects : mem' = PutIn(mem, cur, heapPointer, NewBlock(id, want))
  BY Zenon DEF Deliver, PutIn
<1>2. PICK new, dest : new = <<cur, heapPointer>> /\ dest = want.dest OBVIOUS
<1>3. /\ cur' = cur /\ heapPointer' = heapPointer + HS!BlockWords(want.bytes)
      /\ UNCHANGED <<globals, stack>>
      /\ cvars' = [cvars EXCEPT ![dest] = new] /\ clive' = live \cup {dest}
  <2>1. want.dest \notin Slots BY NamesAssumption
  <2> QED BY <1>2, <2>1 DEF Deliver, HS!Carve
<1>4. /\ LiveIn(stack, globals, cvars, clive, Kept)
      /\ cur \in {0, 1} /\ heapPointer \in Nat /\ cvars \in [CVars -> AnyRef]
      /\ clive \subseteq CVars
  BY RunFacts, KeptFacts DEF IInv, TypeInv
<1>5. \A c \in clive' : cvars'[c] = IF c = dest THEN new ELSE cvars[c]
  BY <1>2, <1>3, <1>4
<1>6. LiveIn(stack', globals', cvars', clive', Kept \cup {new})
  BY <1>3, <1>4, <1>5 DEF LiveIn, FramesIn
<1>7. PICK v : v = InitValue(want.init) OBVIOUS
<1>8. /\ v \in Kept
      /\ want.init = "null" => v = Null
      /\ want.init \in clive => v = cvars[want.init]
  BY <1>7, InitKept
<1>9. /\ StoreInv' /\ new \notin Kept
      /\ Name(new)' = id /\ \A w \in Kept : Name(w)' = Name(w)
      /\ Objects' = Store0!Reachable(Store0!Put(Objects, id,
                                                Store0!NewObject(want.shape, Name(v))),
                      Store0!RootValues(FramesView', GlobalsView', CFrameView'))
  BY <1>1, <1>2, <1>3, <1>6, <1>7, <1>8, NewObjectView
<1>10. PICK S : S = Kept \cup {new} OBVIOUS
<1>11. PICK f : f = [w \in S |-> IF w = new THEN id ELSE Name(w)] OBVIOUS
<1>12. /\ \A w \in S : Name(w)' = f[w]
       /\ \A w \in Kept : f[w] = Name(w)
       /\ f[new] = id
  <2>1. ASSUME NEW w \in S PROVE Name(w)' = f[w]
    <3>1. CASE w = new BY <1>9, <1>10, <1>11, <3>1
    <3>2. CASE w # new BY <1>9, <1>10, <1>11, <3>2
    <3> QED BY <3>1, <3>2
  <2> QED BY <1>9, <1>10, <1>11, <2>1
<1>13. /\ FramesView' = NamedStack(f, stack) /\ GlobalsView' = NamedGlobals(f, globals)
       /\ CFrameView' = NamedC(f, cvars', clive')
  <2>1. LiveIn(stack', globals', cvars', clive', S) BY <1>6, <1>10
  <2> QED BY <1>3, <1>12, <2>1, NamesAfter
<1>14. /\ NamedStack(f, stack) = FramesView /\ NamedGlobals(f, globals) = GlobalsView
       /\ NamedC(f, cvars, clive) = CFrameView
  BY <1>4, <1>12, NamesNow, ViewNow
<1>15. CFrameView' = Store0!Put(Store0!Restrict(CFrameView, live), dest, id)
  <2>1. \A c \in clive : CFrameView[c] = f[cvars[c]] BY <1>14 DEF NamedC
  <2>2. NamedC(f, cvars', clive') =
          [c \in live \cup {dest} |-> IF c = dest THEN id ELSE CFrameView[c]]
    BY <1>3, <1>5, <1>12, <2>1 DEF NamedC
  <2> QED BY <1>13, <2>2 DEF Store0!Put, Store0!Restrict
<1>16. DOMAIN CFrameView = clive /\ \A c \in clive : CFrameView[c] = Name(cvars[c])
  BY DEF CFrameView
<1>17. Name(v) \in {Store0!Null} \cup {CFrameView[c] : c \in live}
  <2>1. CASE want.init = "null" BY <1>8, <2>1, NullName
  <2>2. CASE want.init \in live
    <3>1. v = cvars[want.init] /\ want.init \in clive BY <1>8, <2>2
    <3> QED BY <1>16, <2>2, <3>1
  <2> QED BY <2>1, <2>2
<1>18. PICK init, shape : init = Name(v) /\ shape = want.shape OBVIOUS
<1>19. Store0!Become(FramesView, GlobalsView,
                     Store0!Put(Store0!Restrict(CFrameView, live), dest, id),
                     Store0!Put(Objects, id, Store0!NewObject(shape, init)))
  BY <1>9, <1>13, <1>14, <1>15, <1>18 DEF Store0!Become
<1>20. /\ live \in SUBSET DOMAIN CFrameView /\ dest \in CVars /\ shape \in AllShapes
       /\ init \in {Store0!Null} \cup {CFrameView[c] : c \in live}
  BY <1>2, <1>16, <1>17, <1>18
<1> QED BY <1>9, <1>19, <1>20, Zenon DEF Store0!New

\* A collection begins, and variables that are not roots are forgotten.
LEMMA StartView ==
  ASSUME IInv, StoreInv, IInv', ~Collecting, NEW want, NEW frames, NEW live, NEW next,
         StartCollection(want, frames, live, next), request' = want,
         next \in {"collect", "recollect"},
         LiveIn(frames, globals, cvars, live, Kept),
         want.dest \in Slots => want.init \in {"null"} \cup frames[Len(frames)].live,
         want.dest \in CVars => want.init \in {"null"} \cup live
  PROVE  /\ StoreInv'
         /\ Store0!Become(StackView(frames), GlobalsView, CNamed(cvars, live), Objects)
<1>1. /\ UNCHANGED <<mem, cur, globals, cvars>>
      /\ stack' = frames /\ clive' = live /\ pc' = next
  BY DEF StartCollection
<1>2. Collecting' BY <1>1 DEF Collecting
<1>3. LiveIn(stack', globals', cvars', clive', Kept) BY <1>1
<1>4. /\ KnownIds' /\ UniqueIds' /\ Copies'
      /\ StoreInv' => Store0!Become(StackView(stack'), GlobalsNamed(globals'),
                                    CNamed(cvars', clive'), Objects)
  BY <1>1, <1>2, <1>3, VariablesStep
<1>5. StoreInv'
  <2>1. pc' \notin {"resize", "retry", "last"} BY <1>1
  <2>2. /\ request'.dest \in Slots => request'.init \in {"null"} \cup frame'.live
        /\ request'.dest \in CVars => request'.init \in {"null"} \cup clive'
    BY <1>1 DEF frame, top
  <2> QED BY <1>2, <1>4, <2>1, <2>2 DEF StoreInv
<1> QED BY <1>1, <1>4, <1>5, ViewNow

\* The program allocates: there is a new object, or slots are forgotten.
LEMMA AllocateView ==
  IInv /\ IInv' /\ StoreInv /\ gcAllocate => StoreInv' /\ (Store0!New \/ Store0!Forget)
<1> SUFFICES ASSUME IInv, IInv', StoreInv, gcAllocate
             PROVE  StoreInv' /\ (Store0!New \/ Store0!Forget)
  OBVIOUS
<1>1. pc = "run" /\ ~inC /\ ~Collecting BY DEF gcAllocate, MayAllocate, Collecting
<1>2. PICK shape \in Shapes, dest \in Slots, keep \in SUBSET frame.live :
             \E init \in {"null"} \cup keep :
               FirstTry(Want(shape, dest, init), [stack EXCEPT ![top].live = keep], clive)
  BY Zenon DEF gcAllocate
<1>3. PICK init \in {"null"} \cup keep :
             FirstTry(Want(shape, dest, init), [stack EXCEPT ![top].live = keep], clive)
  BY <1>2
<1>4. PICK want, frames : want = Want(shape, dest, init) /\ frames = Narrow(stack, top, keep)
  OBVIOUS
<1>5. FirstTry(want, frames, clive) BY <1>3, <1>4 DEF Narrow
<1>6. /\ want.bytes = Bytes(shape) /\ want.shape = shape /\ want.dest = dest /\ want.init = init
  BY <1>4 DEF Want
<1>7. shape \in AllShapes /\ Bytes(shape) \in Nat BY ShapeFacts DEF AllShapes
<1>8. /\ stack \in Seq(Frames) /\ top \in DOMAIN stack /\ keep \in SUBSET stack[top].live
      /\ LiveIn(stack, globals, cvars, clive, Kept)
  BY <1>1, RunFacts, KeptFacts DEF frame
<1>9. CASE Deliver(want, frames, clive) /\ UNCHANGED <<pc, request>>
  <2>1. pc' \in {"run", "equalize"} BY <1>1, <1>9
  <2>2. Deliver(want, Narrow(stack, top, keep), clive) BY <1>4, <1>9
  <2> QED BY <1>1, <1>6, <1>7, <2>1, <2>2, DeliverSlot
<1>10. CASE StartCollection(want, frames, clive, "collect") /\ request' = want
  <2>1. /\ Len(frames) = top /\ FramesIn(frames, Kept) /\ frames[top].live = keep
        /\ StackView(frames) = [FramesView EXCEPT ![Store0!top] = Store0!Restrict(@, keep)]
    BY <1>4, <1>8, NarrowFacts, NarrowView, ViewNow DEF LiveIn, top
  <2>2. LiveIn(frames, globals, cvars, clive, Kept) BY <1>8, <2>1 DEF LiveIn
  <2>3. dest \notin CVars BY NamesAssumption
  <2>4. StoreInv' /\ Store0!Become(StackView(frames), GlobalsView, CNamed(cvars, clive), Objects)
    BY <1>1, <1>6, <1>10, <2>1, <2>2, <2>3, StartView
  <2>5. CNamed(cvars, clive) = CFrameView BY ViewNow
  <2>6. Store0!Become([FramesView EXCEPT ![Store0!top] = Store0!Restrict(@, keep)],
                      GlobalsView, CFrameView, Objects)
    BY <2>1, <2>4, <2>5
  <2>7. Store0!top \in DOMAIN FramesView /\ keep \in SUBSET DOMAIN FramesView[Store0!top]
    BY ViewNow
  <2>8. Store0!Forget BY <2>6, <2>7, Zenon DEF Store0!Forget
  <2> QED BY <2>4, <2>8
<1> QED BY <1>5, <1>9, <1>10 DEF FirstTry

\* A C function allocates.
LEMMA AllocateFromCView ==
  IInv /\ IInv' /\ StoreInv /\ gcAllocateFromC => StoreInv' /\ (Store0!New \/ Store0!Forget)
<1> SUFFICES ASSUME IInv, IInv', StoreInv, gcAllocateFromC
             PROVE  StoreInv' /\ (Store0!New \/ Store0!Forget)
  OBVIOUS
<1>1. pc = "run" /\ inC /\ ~Collecting BY DEF gcAllocateFromC, MayAllocate, Collecting
<1> DEFINE rooted == ToSet(additionalRoots) \cap clive
<1>2. PICK shape \in CShapes, dest \in CVars :
             \E init \in {"null"} \cup rooted : FirstTry(Want(shape, dest, init), stack, rooted)
  BY Zenon DEF gcAllocateFromC
<1>3. PICK init \in {"null"} \cup rooted : FirstTry(Want(shape, dest, init), stack, rooted)
  BY <1>2
<1>4. PICK want, live : want = Want(shape, dest, init) /\ live = rooted OBVIOUS
<1> HIDE DEF rooted
<1>5. FirstTry(want, stack, live) /\ live \in SUBSET clive BY <1>3, <1>4 DEF rooted
<1>6. /\ want.bytes = Bytes(shape) /\ want.shape = shape /\ want.dest = dest /\ want.init = init
  BY <1>4 DEF Want
<1>7. shape \in AllShapes /\ Bytes(shape) \in Nat BY ShapeFacts DEF AllShapes
<1>8. LiveIn(stack, globals, cvars, clive, Kept) BY <1>1, KeptFacts
<1>9. CASE Deliver(want, stack, live) /\ UNCHANGED <<pc, request>>
  <2>1. pc' \in {"run", "equalize"} BY <1>1, <1>9
  <2> QED BY <1>1, <1>3, <1>4, <1>5, <1>6, <1>7, <1>9, <2>1, DeliverC
<1>10. CASE StartCollection(want, stack, live, "collect") /\ request' = want
  <2>1. LiveIn(stack, globals, cvars, live, Kept) BY <1>5, <1>8 DEF LiveIn
  <2>2. dest \notin Slots BY NamesAssumption
  <2>3. StoreInv' /\ Store0!Become(StackView(stack), GlobalsView, CNamed(cvars, live), Objects)
    BY <1>1, <1>3, <1>4, <1>6, <1>10, <2>1, <2>2, StartView
  <2>4. CNamed(cvars, live) = Store0!Restrict(CFrameView, live)
    BY <1>5 DEF CNamed, CFrameView, Store0!Restrict
  <2>5. Store0!Become(FramesView, GlobalsView, Store0!Restrict(CFrameView, live), Objects)
    BY <2>3, <2>4, ViewNow
  <2>6. live \in SUBSET DOMAIN CFrameView BY <1>5 DEF CFrameView
  <2>7. Store0!Forget BY <2>5, <2>6, Zenon DEF Store0!Forget
  <2> QED BY <2>3, <2>7
<1> QED BY <1>5, <1>9, <1>10 DEF FirstTry

\* With no slot forgotten the stack is the same.
LEMMA NarrowNothing ==
  ASSUME NEW frames \in Seq(Frames), NEW i \in DOMAIN frames
  PROVE  Narrow(frames, i, frames[i].live) = frames
<1>1. PICK new \in Frames :
        /\ Narrow(frames, i, frames[i].live) = WithFrame(frames, i, new)
        /\ new.live = frames[i].live
        /\ new.values = frames[i].values
  BY NarrowFrame
<1>2. PICK old : old = frames[i] OBVIOUS
<1>3. old \in Frames BY <1>2
<1>4. new = old BY <1>1, <1>2, <1>3 DEF Frames
<1>5. WithFrame(frames, i, frames[i]) = frames BY DEF WithFrame
<1> QED BY <1>1, <1>2, <1>4, <1>5

\* The tries after a collection deliver the object, or the second collection
\* begins, which the program does not see.
LEMMA RetryView ==
  IInv /\ IInv' /\ StoreInv /\ (Retry \/ LastTry) =>
    StoreInv' /\ (Store0!New \/ UNCHANGED Store0!vars)
<1> SUFFICES ASSUME IInv, IInv', StoreInv, Retry \/ LastTry
             PROVE  StoreInv' /\ (Store0!New \/ UNCHANGED Store0!vars)
  OBVIOUS
<1>1. pc \in {"retry", "last"} /\ ~Collecting /\ Allocating
  BY DEF Retry, LastTry, Collecting, Allocating
<1>2. \/ Deliver(request, stack, clive) /\ pc' \in {"run", "equalize"}
      \/ StartCollection(request, stack, clive, "recollect") /\ request' = request
  BY Zenon DEF Retry, LastTry
<1>3. /\ request.bytes \in Nat /\ request.shape \in AllShapes
      /\ request.dest \in Slots \cup CVars
      /\ request.dest \in Slots => request.init \in {"null"} \cup frame.live
      /\ request.dest \in CVars => request.init \in {"null"} \cup clive
  BY <1>1 DEF IInv, CallInv, StoreInv
<1>4. stack \in Seq(Frames) /\ top \in DOMAIN stack /\ frame = stack[top]
  BY <1>1, RunFacts DEF frame
<1>5. LiveIn(stack, globals, cvars, clive, Kept) BY <1>1, KeptFacts
<1>6. CASE Deliver(request, stack, clive) /\ pc' \in {"run", "equalize"}
  <2>1. CASE request.dest \in Slots
    <3>1. Narrow(stack, top, frame.live) = stack BY <1>4, NarrowNothing
    <3>2. PICK want, keep : want = request /\ keep = frame.live OBVIOUS
    <3>3. Deliver(want, Narrow(stack, top, keep), clive) BY <1>6, <3>1, <3>2
    <3>4. /\ want.bytes \in Nat /\ want.shape \in AllShapes /\ want.dest \in Slots
          /\ keep \in SUBSET frame.live /\ want.init \in {"null"} \cup keep
      BY <1>3, <2>1, <3>2
    <3> QED BY <1>1, <1>6, <3>3, <3>4, DeliverSlot
  <2>2. CASE request.dest \in CVars
    BY <1>1, <1>3, <1>6, <2>2, DeliverC
  <2> QED BY <1>3, <2>1, <2>2
<1>7. CASE StartCollection(request, stack, clive, "recollect") /\ request' = request
  <2>1. stack[Len(stack)].live = frame.live BY DEF frame, top
  <2>2. StoreInv'
    <3>1. PICK want : want = request OBVIOUS
    <3>2. /\ StartCollection(want, stack, clive, "recollect") /\ request' = want
          /\ want.dest \in Slots => want.init \in {"null"} \cup stack[Len(stack)].live
          /\ want.dest \in CVars => want.init \in {"null"} \cup clive
      BY <1>3, <1>7, <2>1, <3>1
    <3> QED BY <1>1, <1>5, <3>2, StartView
  <2>3. UNCHANGED <<mem, cur, stack, globals, cvars, clive>>
    BY <1>7 DEF StartCollection
  <2>4. StoreInv' => UNCHANGED Store0!vars BY <1>1, <2>3, QuietStep
  <2> QED BY <2>2, <2>4
<1> QED BY <1>2, <1>6, <1>7

-----------------------------------------------------------------------------
(***************************************************************************)
(* The theorems.                                                           *)
(***************************************************************************)

\* At first there are no objects, for the collector as for the store.
LEMMA InitView == Init => StoreInv /\ Store0!Init
<1> SUFFICES ASSUME Init PROVE StoreInv /\ Store0!Init OBVIOUS
<1>1. IInv BY InitHolds
<1>2. /\ cur = 0 /\ pc = "run" /\ clive = {}
      /\ globals = [g \in Globals |-> Null]
      /\ stack = <<[values |-> [s \in Slots |-> Null], live |-> {}]>>
  BY DEF Init
<1>3. DOMAIN mem[0] = {} /\ DOMAIN mem[1] = {} BY DEF Init, EmptySpace
<1>4. Blocks = {} BY <1>3 DEF Blocks
<1>5. ReachableBlocks = {} BY <1>1, <1>4, ReachableAreBlocks
<1>6. StoreInv
  BY <1>2, <1>3, <1>5 DEF StoreInv, KnownIds, UniqueIds, Collecting, Allocating
<1>7. FramesView = <<[s \in {} |-> Store0!Null]>>
  <2> DEFINE f == [values |-> [s \in Slots |-> Null], live |-> {}]
             none == [s \in {} |-> Store0!Null]
  <2>1. f.live = {} OBVIOUS
  <2>2. stack = <<f>> BY <1>2
  <2> HIDE DEF f
  <2>3. DOMAIN stack = {1} /\ stack[1] = f BY <2>2
  <2>4. [s \in stack[1].live |-> Name(stack[1].values[s])] = none BY <2>1, <2>3
  <2> HIDE DEF none
  <2>5. FramesView = [i \in {1} |-> none] BY <2>3, <2>4 DEF FramesView
  <2>6. <<none>> = [i \in {1} |-> none] OBVIOUS
  <2> QED BY <2>5, <2>6 DEF none
<1>8. GlobalsView = [g \in Globals |-> Store0!Null]
  BY <1>1, <1>2, <1>6, NullName DEF GlobalsView
<1>9. CFrameView = [c \in {} |-> Store0!Null] BY <1>2 DEF CFrameView
<1>10. DOMAIN Objects = {} /\ Objects = [id \in DOMAIN Objects |-> Objects[id]]
  BY <1>5 DEF Objects
<1>11. Objects = [id \in {} |-> Store0!NewObject([tag |-> "struct", refs |-> <<>>], Store0!Null)]
  BY <1>10
<1> QED BY <1>6, <1>7, <1>8, <1>9, <1>11, Zenon DEF Store0!Init

\* Every step of the program and of the collector is a step of the store, or none.
LEMMA StoreSteps ==
  IInv /\ IInv' /\ StoreInv /\ [Next]_vars => StoreInv' /\ [Store0!Next]_Store0!vars
<1> SUFFICES ASSUME IInv, IInv', StoreInv, [Next]_vars
             PROVE  StoreInv' /\ [Store0!Next]_Store0!vars
  OBVIOUS
<1>1. CASE ProgramStep
  <2>1. CASE Load BY <2>1, LoadView DEF Store0!Next
  <2>2. CASE Store BY <2>2, StoreView DEF Store0!Next
  <2>3. CASE SetConstant BY <2>3, SetConstantView DEF Store0!Next
  <2>4. CASE GlobalAccess BY <2>4, GlobalView DEF Store0!Next
  <2>5. CASE Call BY <2>5, CallView DEF Store0!Next
  <2>6. CASE Return BY <2>6, ReturnView DEF Store0!Next
  <2>7. CASE CallC BY <2>7, CallCView DEF Store0!Next
  <2>8. CASE ReturnFromC BY <2>8, ReturnFromCView DEF Store0!Next
  <2>9. CASE addRoot \/ removeRoots BY <2>9, RootListView
  <2>10. CASE gcAllocate BY <2>10, AllocateView DEF Store0!Next
  <2>11. CASE gcAllocateFromC BY <2>11, AllocateFromCView DEF Store0!Next
  <2> QED BY <1>1, <2>1, <2>2, <2>3, <2>4, <2>5, <2>6, <2>7, <2>8, <2>9, <2>10, <2>11
          DEF ProgramStep
<1>2. CASE CollectorStep
  <2>1. CASE CopyRoot BY <2>1, CopyRootMoves
  <2>2. CASE ScanField BY <2>2, ScanFieldMoves
  <2>3. CASE Swap BY <2>3, SwapMoves
  <2>4. CASE Retry \/ LastTry BY <2>4, RetryView DEF Store0!Next
  <2>5. CASE ScanNext \/ Resize \/ LastTryFails \/ EqualizeAfter \/ MapFails
    BY <2>5, QuietMoves
  <2> QED BY <1>2, <2>1, <2>2, <2>3, <2>4, <2>5 DEF CollectorStep
<1>3. CASE UNCHANGED vars BY <1>3, QuietMoves
<1> QED BY <1>1, <1>2, <1>3 DEF Next

\* Names, copies and what a collection keeps, at every step.
THEOREM StoreInvariance == Spec => []StoreInv
<1>1. Init => StoreInv BY InitView
<1>2. IInv /\ IInv' /\ StoreInv /\ [Next]_vars => StoreInv' BY StoreSteps
<1> QED BY <1>1, <1>2, Invariance, PTL DEF Spec

\* The collector and the program that uses it implement the store: whatever a
\* collection moves, forwards or reclaims, the program sees an object graph that
\* only its own steps change.
THEOREM Invisible == Spec => CollectionInvisible
<1>1. Init => Store0!Init BY InitView
<1>2. IInv /\ IInv' /\ StoreInv /\ [Next]_vars => [Store0!Next]_Store0!vars BY StoreSteps
<1> QED BY <1>1, <1>2, Invariance, StoreInvariance, PTL DEF Spec, CollectionInvisible, Store0!Spec

\* When a collection ends the semispace holds what is reachable, one block each.
LEMMA KeptExactly == IInv /\ StoreInv => ExactlyReachableKept
<1> SUFFICES ASSUME IInv, StoreInv, pc \in {"resize", "retry", "last"}
             PROVE  /\ {<<cur, offset>> : offset \in DOMAIN mem[cur]} = ReachableBlocks
                    /\ \A a, b \in ReachableBlocks : BlockAt(a).id = BlockAt(b).id => a = b
  BY DEF ExactlyReachableKept
<1>1. ~Collecting BY DEF Collecting
<1>2. \A o \in DOMAIN mem[cur] : <<cur, o>> \in ReachableBlocks BY DEF StoreInv
<1>3. ASSUME NEW a \in ReachableBlocks
      PROVE  a \in {<<cur, offset>> : offset \in DOMAIN mem[cur]}
  <2>1. a \in Blocks BY ReachableAreBlocks
  <2> QED BY <1>1, <2>1, BlockFacts
<1>4. \A a, b \in ReachableBlocks : BlockAt(a).id = BlockAt(b).id => a = b
  BY DEF StoreInv, UniqueIds, IdOf
<1> QED BY <1>2, <1>3, <1>4

\* A collection keeps the reachable objects and nothing else, one copy each.
THEOREM ExactlyReachable == Spec => []ExactlyReachableKept
BY Invariance, StoreInvariance, KeptExactly, PTL

-----------------------------------------------------------------------------
(***************************************************************************)
(* The collector implements the sizing policy: what a collection keeps is  *)
(* never more than what had been carved out of the heap, a second          *)
(* collection of one request keeps all of it, and so the copies never run  *)
(* past the end of the other semispace.                                    *)
(***************************************************************************)

-----------------------------------------------------------------------------
(***************************************************************************)
(* The words of the blocks of a semispace that were not moved.             *)
(***************************************************************************)
Span(space, o) == {n \in Nat : o <= n /\ n < o + Words(space[o])}

Unmoved(space) == UNION {Span(space, o) : o \in {p \in DOMAIN space : HasSize(space[p])}}

\* Those blocks do not overlap, and end before a limit.
Laid(space, limit) ==
  \A o \in DOMAIN space :
    HasSize(space[o]) =>
      /\ o + Words(space[o]) <= limit
      /\ \A p \in DOMAIN space : o < p => o + Words(space[o]) <= p

\* The words to copy and the words copied are the words that were carved.
Measured(space, copied, limit) ==
  /\ Laid(space, limit)
  /\ IsFiniteSet(Unmoved(space))
  /\ Cardinality(Unmoved(space)) + copied = limit

\* Blocks end to end fill the space up to their limit.
LEMMA TiledMeasured ==
  ASSUME NEW space, DOMAIN space \subseteq Nat, NEW limit \in Nat, Tiled(space, limit)
  PROVE  Measured(space, 0, limit)
<1>1. \A o \in DOMAIN space : o \in Nat /\ HasSize(space[o]) /\ Words(space[o]) \in Nat \ {0}
  BY SizeHeader DEF Tiled
<1>2. Laid(space, limit) BY DEF Tiled, Laid
<1>3. Unmoved(space) \subseteq 0 .. limit - 1
  <2>1. ASSUME NEW o \in DOMAIN space, NEW n \in Span(space, o) PROVE n \in 0 .. limit - 1
    BY <1>1 DEF Span, Tiled
  <2> QED BY <2>1 DEF Unmoved
<1>4. 0 .. limit - 1 \subseteq Unmoved(space)
  <2> DEFINE Holes == {n \in 0 .. limit - 1 : n \notin Unmoved(space)}
  <2>1. \A o \in DOMAIN space : o \in Unmoved(space)
    <3>1. ASSUME NEW o \in DOMAIN space PROVE o \in Span(space, o) BY <1>1 DEF Span
    <3> QED BY <1>1, <3>1 DEF Unmoved
  <2>2. Holes = {}
    <3> SUFFICES ASSUME Holes # {} PROVE FALSE OBVIOUS
    <3>1. PICK n \in Holes : \A k \in Holes : n <= k
      <4>1. Holes \in SUBSET Nat OBVIOUS
      <4> HIDE DEF Holes
      <4> QED BY <4>1, Least
    <3>2. n \in Nat /\ n < limit /\ n \notin Unmoved(space) BY <3>1
    <3>3. n # 0 BY <2>1, <3>2 DEF Tiled
    <3>4. n - 1 \in Unmoved(space) BY <3>1, <3>2, <3>3
    <3>5. PICK o \in DOMAIN space : n - 1 \in Span(space, o) BY <3>4 DEF Unmoved
    <3>6. o <= n - 1 /\ n - 1 < o + Words(space[o]) BY <3>5 DEF Span
    <3>7. n \notin Span(space, o) BY <1>1, <3>2 DEF Unmoved
    <3>8. n = o + Words(space[o]) BY <1>1, <3>2, <3>6, <3>7 DEF Span
    <3>9. n \in DOMAIN space \cup {limit} BY <3>8 DEF Tiled
    <3> QED BY <2>1, <3>2, <3>9
  <2> QED BY <2>2
<1>5. Unmoved(space) = 0 .. limit - 1 BY <1>3, <1>4
<1>6. IsFiniteSet(0 .. limit - 1) /\ Cardinality(0 .. limit - 1) = limit
  <2>1. limit - 1 \in Int /\ 0 \in Int OBVIOUS
  <2>2. IsFiniteSet(0 .. limit - 1) /\ Cardinality(0 .. limit - 1) = IF 0 > limit - 1 THEN 0 ELSE limit - 1 - 0 + 1
    BY <2>1, FS_Interval
  <2> QED BY <2>2
<1> QED BY <1>2, <1>5, <1>6 DEF Measured

\* A block that is forwarded is no longer to be copied.
LEMMA ForwardMeasured ==
  ASSUME NEW space, DOMAIN space \subseteq Nat, NEW limit \in Nat, NEW copied \in Nat,
         Measured(space, copied, limit),
         NEW o \in DOMAIN space, HasSize(space[o]),
         NEW after, DOMAIN after = DOMAIN space, ~HasSize(after[o]),
         \A p \in DOMAIN space : p # o => after[p] = space[p]
  PROVE  Measured(after, copied + Words(space[o]), limit)
<1> DEFINE w == Words(space[o])
           S == Unmoved(space)
           T == Span(space, o)
<1>1. o \in Nat /\ w \in Nat \ {0} BY SizeHeader
<1>2. \A p \in DOMAIN space : HasSize(space[p]) => p \in Nat /\ Words(space[p]) \in Nat \ {0}
  BY SizeHeader
<1>3. Laid(after, limit) BY DEF Measured, Laid
<1>4. Unmoved(after) = S \ T
  <2>1. ASSUME NEW p \in DOMAIN space, p # o, HasSize(space[p]), NEW n \in Span(space, p)
        PROVE  n \notin T
    <3>1. n \in Nat /\ p <= n /\ n < p + Words(space[p]) BY DEF Span
    <3>2. p < o => p + Words(space[p]) <= o BY <2>1 DEF Measured, Laid
    <3>3. o < p => o + w <= p BY <2>1 DEF Measured, Laid
    <3> QED BY <1>1, <1>2, <2>1, <3>1, <3>2, <3>3 DEF Span
  <2>2. \A p \in DOMAIN space : p # o => Span(after, p) = Span(space, p) BY DEF Span
  <2> QED BY <2>1, <2>2 DEF Unmoved
<1>5. T \subseteq S BY DEF Unmoved
<1>6. T = o .. o + w - 1 BY <1>1 DEF Span
<1>7. Cardinality(T) = w
  <2>1. o + w - 1 \in Int /\ o \in Int BY <1>1
  <2>2. Cardinality(o .. o + w - 1) = IF o > o + w - 1 THEN 0 ELSE (o + w - 1) - o + 1
    <3> DEFINE z == o + w - 1
    <3>1. z \in Int BY <2>1
    <3> HIDE DEF z
    <3>2. Cardinality(o .. z) = IF o > z THEN 0 ELSE z - o + 1 BY <2>1, <3>1, FS_Interval
    <3> QED BY <3>2 DEF z
  <2> QED BY <1>1, <1>6, <2>2
<1>8. /\ IsFiniteSet(S) /\ IsFiniteSet(S \ T)
      /\ Cardinality(S \ T) = Cardinality(S) - Cardinality(T)
  <2>1. IsFiniteSet(S) BY DEF Measured
  <2>2. S \cap T = T BY <1>5
  <2> HIDE DEF S, T
  <2> QED BY <2>1, <2>2, FS_Difference
<1>9. Cardinality(S) \in Nat BY <1>8, FS_CardinalityType
<1> HIDE DEF S, T, w
<1>10. Cardinality(S) + copied = limit BY DEF Measured, S
<1>11. Cardinality(Unmoved(after)) + (copied + w) = limit
  BY <1>1, <1>4, <1>7, <1>8, <1>9, <1>10
<1> QED BY <1>3, <1>4, <1>8, <1>11 DEF Measured, w

\* When nothing is left to copy the copies take every word.
LEMMA AllMeasured ==
  ASSUME NEW space, NEW limit, NEW copied \in Nat, Measured(space, copied, limit)
  PROVE  /\ limit \in Nat /\ copied <= limit
         /\ (\A o \in DOMAIN space : ~HasSize(space[o])) => copied = limit
<1>1. Cardinality(Unmoved(space)) \in Nat BY FS_CardinalityType DEF Measured
<1>2. ASSUME \A o \in DOMAIN space : ~HasSize(space[o]) PROVE Cardinality(Unmoved(space)) = 0
  <2>1. Unmoved(space) = {} BY <1>2 DEF Unmoved
  <2> QED BY <2>1, FS_EmptySet
<1> QED BY <1>1, <1>2 DEF Measured

\* Only the headers of blocks matter.
LEMMA SameHeaders ==
  ASSUME NEW space, NEW after, DOMAIN after = DOMAIN space,
         \A o \in DOMAIN space : after[o].header = space[o].header,
         NEW copied, NEW limit
  PROVE  /\ Tiled(space, limit) => Tiled(after, limit)
         /\ Measured(space, copied, limit) => Measured(after, copied, limit)
<1>1. \A o \in DOMAIN space : Words(after[o]) = Words(space[o]) /\ (HasSize(after[o]) <=> HasSize(space[o]))
  BY DEF Words, HasSize
<1>2. Tiled(space, limit) => Tiled(after, limit) BY <1>1 DEF Tiled
<1>3. Unmoved(after) = Unmoved(space) BY <1>1 DEF Unmoved, Span
<1>4. Laid(space, limit) => Laid(after, limit) BY <1>1 DEF Laid
<1> QED BY <1>2, <1>3, <1>4 DEF Measured

-----------------------------------------------------------------------------
(***************************************************************************)
(* The invariant: the heap is full of blocks up to what was carved, and    *)
(* during a collection every carved word was copied, is still to be, or    *)
(* is garbage.  The second collection of a request starts with no garbage. *)
(***************************************************************************)
SizeInv ==
  /\ filled \in Nat
  /\ size = [s \in {0, 1} |-> size[s]]
  /\ pc \in {"run", "resize", "retry", "last", "equalize"} => heapPointer = filled
  /\ ~Collecting => Tiled(mem[cur], filled)
  /\ Collecting => Measured(mem[cur], allocPtr, filled)
  /\ pc = "recollect" => \A o \in DOMAIN mem[cur] : Leads(<<cur, o>>)

Quiet == UNCHANGED <<size, cur, heapPointer, pc, request, filled, peak>>

\* Steps of the policy that leave sizes alone.
LEMMA QuietSizes ==
  ASSUME Quiet
  PROVE  UNCHANGED HS!vars
BY DEF Quiet, HS!vars, ToSpace

\* The program's steps that do not touch the heap.
LEMMA ProgramSizes ==
  ASSUME SizeInv, pc = "run", UnchangedHeap
  PROVE  SizeInv' /\ UNCHANGED HS!vars
<1>1. Quiet /\ mem' = mem /\ ~Collecting /\ ~Collecting' /\ pc' = "run"
  BY DEF UnchangedHeap, history, Quiet, Collecting
<1>2. SizeInv' BY <1>1 DEF SizeInv, Quiet, Tiled, HasSize, Words
<1> QED BY <1>1, <1>2, QuietSizes

\* A field that is set.
LEMMA StoreSizes == IInv /\ SizeInv /\ Store => SizeInv' /\ UNCHANGED HS!vars
<1> SUFFICES ASSUME IInv, SizeInv, Store PROVE SizeInv' /\ UNCHANGED HS!vars OBVIOUS
<1>1. Quiet /\ ~Collecting /\ ~Collecting' /\ pc = "run"
  BY DEF Store, Running, history, Quiet, Collecting
<1>2. PICK a \in frame.live, q \in frame.live :
             /\ InHeap(Value(a))
             /\ \E i \in ScannedFields(BlockAt(Value(a)).shape) :
                  mem' = [mem EXCEPT ![cur][Value(a)[2]].fields[i] = Value(q)]
  BY Zenon DEF Store
<1>3. PICK i \in ScannedFields(BlockAt(Value(a)).shape) :
             mem' = [mem EXCEPT ![cur][Value(a)[2]].fields[i] = Value(q)]
  BY <1>2
<1>4. PICK p, w : p = Value(a)[2] /\ w = Value(q) OBVIOUS
<1>5. /\ p \in DOMAIN mem[cur] /\ i \in ScannedFields(mem[cur][p].shape)
      /\ IsMemory(mem) /\ cur \in {0, 1}
  BY <1>1, <1>2, <1>4, RunFacts
<1>6. mem' = WithField(mem, cur, p, i, w) BY <1>3, <1>4 DEF WithField
<1>7. FieldChanged(mem', mem, cur, p, i, w) BY <1>5, <1>6, FieldFacts
<1>8. DOMAIN mem'[cur] = DOMAIN mem[cur] /\ \A o \in DOMAIN mem[cur] : mem'[cur][o].header = mem[cur][o].header
  BY <1>5, <1>7 DEF FieldChanged
<1>9. Tiled(mem'[cur], filled) BY <1>1, <1>8, SameHeaders DEF SizeInv
<1>10. Tiled(mem[cur], filled)' BY <1>1, <1>9 DEF Quiet, Tiled, HasSize, Words
<1>11. SizeInv' BY <1>1, <1>10 DEF SizeInv, Quiet
<1> QED BY <1>1, <1>11, QuietSizes

-----------------------------------------------------------------------------
(***************************************************************************)
(* Allocation.                                                             *)
(***************************************************************************)

\* A block is carved at the end of the others.
LEMMA DeliverSizes ==
  ASSUME IInv, SizeInv, pc \in {"run", "retry", "last"}, pc' \in {"run", "equalize"},
         NEW want, want.bytes \in Nat, want.shape \in AllShapes,
         NEW frames, NEW live, Deliver(want, frames, live)
  PROVE  SizeInv' /\ UNCHANGED <<size, cur, peak>>
<1>1. ~Collecting /\ ~Collecting' BY DEF Collecting
<1>2. PICK id \in Ids : mem' = PutIn(mem, cur, heapPointer, NewBlock(id, want))
  BY Zenon DEF Deliver, PutIn
<1>3. /\ heapPointer' = heapPointer + HS!BlockWords(want.bytes)
      /\ filled' = heapPointer + HS!BlockWords(want.bytes)
      /\ UNCHANGED <<size, cur, peak>>
  BY DEF Deliver, HS!Carve
<1>4. /\ IsMemory(mem) /\ cur \in {0, 1} /\ heapPointer \in Nat /\ heapPointer = filled
      /\ Tiled(mem[cur], filled) /\ DOMAIN mem[cur] \subseteq Nat
  BY <1>1 DEF IInv, TypeInv, IsMemory, SizeInv
<1>5. PICK block : block = NewBlock(id, want) OBVIOUS
<1>6. IsBlock(block) /\ HasSize(block)
  <2>1. PICK R : R = {InitValue(want.init)} OBVIOUS
  <2>2. InitValue(want.init) \in R BY <2>1
  <2> QED BY <1>5, <2>2, NewBlockFacts
<1>7. Words(block) = HS!BlockWords(want.bytes)
  BY <1>5 DEF NewBlock, Words, HS!BlockWords
<1>8. mem'[cur] = Put(mem[cur], filled, block)
  <2>1. mem = [s \in {0, 1} |-> mem[s]] BY <1>4 DEF IsMemory
  <2> QED BY <1>2, <1>4, <1>5, <2>1 DEF PutIn
<1>9. Tiled(mem'[cur], filled + Words(block)) /\ filled + Words(block) \in Nat
  BY <1>4, <1>6, <1>8, AddCopy
<1>10. filled' = filled + Words(block) /\ heapPointer' = filled' BY <1>3, <1>4, <1>7
<1>11. Tiled(mem[cur], filled)' BY <1>3, <1>9, <1>10 DEF Tiled, HasSize, Words
<1>12. SizeInv' BY <1>1, <1>3, <1>9, <1>10, <1>11 DEF SizeInv, Collecting
<1> QED BY <1>3, <1>12

\* A collection starts, with every carved word to copy.
LEMMA StartSizes ==
  ASSUME IInv, IInv', StoreInv, SizeInv, NEW want, NEW frames, NEW live, NEW next,
         StartCollection(want, frames, live, next),
         \/ pc = "run" /\ next = "collect"
         \/ pc = "retry" /\ next = "recollect" /\ frames = stack /\ live = clive
  PROVE  SizeInv' /\ UNCHANGED <<size, cur, filled, peak>>
<1>1. ~Collecting /\ Collecting' /\ pc' = next BY DEF StartCollection, Collecting
<1>2. /\ UNCHANGED <<size, cur, filled, peak, mem, globals, cvars>> /\ allocPtr' = 0
      /\ stack' = frames /\ clive' = live
  BY DEF StartCollection, HS!Overrun
<1>3. /\ IsMemory(mem) /\ cur \in {0, 1} /\ Tiled(mem[cur], filled) /\ DOMAIN mem[cur] \subseteq Nat
      /\ filled \in Nat
  BY <1>1 DEF IInv, TypeInv, IsMemory, SizeInv
<1>4. Measured(mem[cur], 0, filled) BY <1>3, TiledMeasured
<1>5. Measured(mem[cur], allocPtr, filled)'
  BY <1>2, <1>4 DEF Measured, Laid, Unmoved, Span, HasSize, Words
<1>6. ASSUME pc = "retry", NEW o \in DOMAIN mem[cur] PROVE Leads(<<cur, o>>)'
  <2>1. LeadsOn BY <1>1, <1>2, <1>6, QuietStep
  <2>2. <<cur, o>> \in Blocks /\ <<cur, o>> \in AllRefs BY <1>3, RefsAreAll DEF AllRefs
  <2>3. Resolve(<<cur, o>>) = <<cur, o>> BY <1>1, SettledFacts
  <2>4. Leads(<<cur, o>>) BY <1>6, <2>2, <2>3 DEF StoreInv, Leads
  <2>5. PICK u : u = <<cur, o>> OBVIOUS
  <2>6. Leads(u)' BY <2>1, <2>4, <2>5 DEF LeadsOn
  <2> QED BY <1>2, <2>5, <2>6
<1>7. pc' = "recollect" => \A o \in DOMAIN mem'[cur'] : Leads(<<cur, o>>)'
  BY <1>1, <1>2, <1>6
<1>8. SizeInv' BY <1>1, <1>2, <1>3, <1>5, <1>7 DEF SizeInv
<1> QED BY <1>2, <1>8

-----------------------------------------------------------------------------
(***************************************************************************)
(* The steps of a collection.                                              *)
(***************************************************************************)

\* gcCopy moves the words of a block from those to copy to those copied.
LEMMA CopyMeasured ==
  ASSUME IInv, Collecting, NEW v, v \in AllRefs, gcCopy(v),
         Measured(mem[cur], allocPtr, filled), filled \in Nat
  PROVE  LET m == MemoryAfter(v)
         IN  DOMAIN m[cur] = DOMAIN mem[cur] /\ Measured(m[cur], allocPtr', filled)
<1> DEFINE m == MemoryAfter(v)
<1>1. cur \in {0, 1} /\ IsMemory(mem) /\ HeapInv(mem, cur, ToSpace, allocPtr, scanPtr, scanField)
  BY CopyingHeap DEF IInv, TypeInv
<1>2. CASE ~MustCopy(v)
  <2>1. MemoryAfter(v) = mem /\ allocPtr' = allocPtr BY <1>2 DEF MemoryAfter, gcCopy
  <2> QED BY <2>1
<1>3. CASE MustCopy(v)
  <2>1. InHeap(v) /\ ~IsForwarded(BlockAt(v)) /\ IsAddress(v) /\ v[1] = cur
    BY <1>3 DEF MustCopy, InHeap
  <2>2. v \in Blocks
    <3>1. v \in {Null, Static} \/ v \in Blocks BY DEF AllRefs
    <3> QED BY <2>1, <3>1, AddressFacts
  <2>3. v = <<cur, v[2]>> /\ v[2] \in DOMAIN mem[cur] /\ BlockAt(v) = mem[cur][v[2]]
    BY <2>1, <2>2, BlockFacts
  <2>4. PICK o \in DOMAIN mem[cur] : v = <<cur, o>> /\ BlockAt(v) = mem[cur][o] BY <2>3
  <2> HIDE DEF m
  <2>5. /\ DOMAIN m[cur] = DOMAIN mem[cur]
        /\ \A p \in DOMAIN mem[cur] : p # o => m[cur][p] = mem[cur][p]
        /\ m[cur][o].header = <<ToSpace, allocPtr>>
    BY <1>1, <1>3, <2>4, CopyNew DEF m
  <2>6. HasSize(mem[cur][o])
    <3>1. ~IsForwarded(mem[cur][o]) BY <2>1, <2>4
    <3>2. ASSUME NEW p, mem[cur][o].header = <<ToSpace, p>> PROVE FALSE
      BY <3>1, <3>2, AddressFacts DEF IsForwarded
    <3> QED BY <1>1, <3>2 DEF HeapInv, FromInv
  <2>7. ~HasSize(m[cur][o])
    <3>1. IsForwarded(m[cur][o]) BY <2>5, AddressFacts DEF IsForwarded
    <3> QED BY <3>1, SizeHeader
  <2>8. allocPtr \in Nat /\ DOMAIN mem[cur] \subseteq Nat BY <1>1 DEF HeapInv, IsMemory
  <2>9. Measured(m[cur], allocPtr + Words(mem[cur][o]), filled)
    <3>1. PICK space, after : space = mem[cur] /\ after = m[cur] OBVIOUS
    <3>2. Measured(after, allocPtr + Words(space[o]), filled)
      BY <2>5, <2>6, <2>7, <2>8, <3>1, ForwardMeasured
    <3> QED BY <3>1, <3>2
  <2>10. allocPtr' = allocPtr + Words(mem[cur][o]) BY <1>3, <2>4 DEF gcCopy
  <2> QED BY <2>5, <2>9, <2>10 DEF m
<1> QED BY <1>2, <1>3

\* After the copies of a step the words are still accounted for.
LEMMA CollectSizes ==
  ASSUME IInv, SizeInv, Collecting, Quiet, LeadsOn,
         DOMAIN mem'[cur] = DOMAIN mem[cur], Measured(mem'[cur], allocPtr', filled)
  PROVE  SizeInv' /\ UNCHANGED HS!vars
<1>1. Collecting' /\ UNCHANGED <<size, cur, filled, pc>> /\ pc \in {"collect", "recollect"}
  BY DEF Quiet, Collecting
<1>2. Measured(mem[cur], allocPtr, filled)'
  BY <1>1
<1>3. ASSUME pc = "recollect", NEW o \in DOMAIN mem[cur] PROVE Leads(<<cur, o>>)'
  <2>1. PICK u : u = <<cur, o>> OBVIOUS
  <2>2. Leads(u)' BY <1>3, <2>1 DEF SizeInv, LeadsOn
  <2> QED BY <1>1, <2>1, <2>2
<1>4. pc' = "recollect" => \A o \in DOMAIN mem'[cur'] : Leads(<<cur, o>>)'
  BY <1>1, <1>3
<1>5. SizeInv' BY <1>1, <1>2, <1>4 DEF SizeInv
<1> QED BY <1>5, QuietSizes

\* gcCopyRoots and gcScan leave the sizes as they are until the collection ends.
LEMMA CopySizes ==
  IInv /\ IInv' /\ StoreInv /\ SizeInv /\ (CopyRoot \/ ScanField \/ ScanNext) =>
    SizeInv' /\ UNCHANGED HS!vars
<1> SUFFICES ASSUME IInv, IInv', StoreInv, SizeInv, CopyRoot \/ ScanField \/ ScanNext
             PROVE  SizeInv' /\ UNCHANGED HS!vars
  OBVIOUS
<1>1. Collecting /\ Quiet
  BY DEF CopyRoot, ScanField, ScanNext, Scanning, history, Quiet
<1>2. Measured(mem[cur], allocPtr, filled) /\ filled \in Nat BY <1>1 DEF SizeInv
<1>3. LeadsOn
  <2>1. CASE CopyRoot BY <2>1, CopyRootMoves
  <2>2. CASE ScanField BY <2>2, ScanFieldMoves
  <2>3. CASE ScanNext
    <3>1. UNCHANGED <<mem, cur, stack, globals, cvars, clive>> /\ Collecting'
      BY <1>1, <2>3 DEF ScanNext, program, Collecting
    <3> QED BY <3>1, QuietStep
  <2> QED BY <2>1, <2>2, <2>3
<1>4. DOMAIN mem'[cur] = DOMAIN mem[cur] /\ Measured(mem'[cur], allocPtr', filled)
  <2>1. CASE CopyRoot
    <3>1. PICK root, v, w : RootCopied(root, v, w) BY <2>1, CopyRootEffect, Zenon
    <3>2. gcCopy(v) /\ mem' = MemoryAfter(v) /\ v \in LiveValues BY <3>1 DEF RootCopied, CopyMade
    <3>3. v \in AllRefs BY <3>2, Readable
    <3> QED BY <1>1, <1>2, <3>2, <3>3, CopyMeasured
  <2>2. CASE ScanField /\ scanField \in ScannedFields(Scanned.shape)
    <3>1. PICK v, w : v = Scanned.fields[scanField] /\ w = Copied(v) OBVIOUS
    <3>2. gcCopy(v) /\ mem' = [MemoryAfter(v) EXCEPT ![ToSpace][scanPtr].fields[scanField] = w]
      BY <2>2, <3>1 DEF ScanField
    <3>3. cur \in {0, 1} /\ scanPtr \in DOMAIN mem[ToSpace]
      <4>1. todo = <<>> /\ scanPtr < allocPtr BY <2>2 DEF ScanField, Scanning
      <4> QED BY <1>1, <4>1 DEF IInv, TypeInv, Copying
    <3>4. v \in AllRefs
      <4>1. <<ToSpace, scanPtr>> \in Blocks BY <3>3, Spaces, RefsAreAll
      <4>2. v \in References(<<ToSpace, scanPtr>>)
        BY <2>2, <3>1 DEF References, BlockAt, Scanned
      <4> QED BY <4>1, <4>2, Readable
    <3>5. PICK m : m = MemoryAfter(v) OBVIOUS
    <3>6. DOMAIN m[cur] = DOMAIN mem[cur] /\ Measured(m[cur], allocPtr', filled)
      BY <1>1, <1>2, <3>2, <3>4, <3>5, CopyMeasured
    <3>7. mem'[cur] = m[cur] BY <3>2, <3>3, <3>5, Spaces
    <3> QED BY <3>6, <3>7
  <2>3. CASE ScanNext \/ (ScanField /\ scanField \notin ScannedFields(Scanned.shape))
    <3>1. UNCHANGED <<mem, allocPtr>> BY <2>3 DEF ScanNext, ScanField
    <3> QED BY <1>2, <3>1
  <2> QED BY <2>1, <2>2, <2>3
<1> QED BY <1>1, <1>3, <1>4, CollectSizes

\* The end of a collection: no more is kept than was carved, and all of it when
\* the request has collected before.
LEMMA SwapSizes ==
  IInv /\ StoreInv /\ SizeInv /\ Swap => SizeInv' /\ (HS!Recollect \/ \E live \in 0 .. filled : HS!Collect(live))
<1> SUFFICES ASSUME IInv, StoreInv, SizeInv, Swap
             PROVE  SizeInv' /\ (HS!Recollect \/ \E live \in 0 .. filled : HS!Collect(live))
  OBVIOUS
<1>1. /\ Collecting /\ todo = <<>> /\ scanPtr = allocPtr
      /\ cur' = ToSpace /\ heapPointer' = allocPtr /\ filled' = allocPtr
      /\ mem' = [mem EXCEPT ![cur] = EmptySpace]
      /\ UNCHANGED <<size, request>>
  BY DEF Swap
<1>2. cur \in {0, 1} /\ IsMemory(mem) /\ HeapInv(mem, cur, ToSpace, allocPtr, scanPtr, scanField)
  BY <1>1, CopyingHeap DEF IInv, TypeInv
<1>3. mem'[ToSpace] = mem[ToSpace] BY <1>1, <1>2, WipeMemory
<1>4. ToSpace \in {0, 1} /\ ToSpace # cur BY <1>2, Spaces
<1>5. allocPtr \in Nat /\ Tiled(mem[ToSpace], allocPtr) BY <1>2 DEF HeapInv
<1>6. /\ filled \in Nat /\ allocPtr <= filled
      /\ (\A o \in DOMAIN mem[cur] : ~HasSize(mem[cur][o])) => allocPtr = filled
  BY <1>1, <1>5, AllMeasured DEF SizeInv
<1>7. pc = "recollect" => allocPtr = filled
  <2> SUFFICES ASSUME pc = "recollect", NEW o \in DOMAIN mem[cur], HasSize(mem[cur][o]) PROVE FALSE
    BY <1>6
  <2>1. PICK u : u = <<cur, o>> /\ u[1] = cur BY AddressFacts
  <2>2. u \in Blocks /\ BlockAt(u) = mem[cur][o] BY <1>2, <2>1, RefsAreAll DEF BlockAt
  <2>3. ~IsForwarded(BlockAt(u)) /\ u \in AllRefs BY <2>2, SizeHeader DEF AllRefs
  <2>4. Resolve(u) = u BY <1>1, <2>1, <2>2, <2>3, ResolveFacts
  <2>5. u \in ReachableBlocks BY <2>1, <2>2, <2>4 DEF SizeInv, Leads
  <2> QED BY <1>1, <1>4, <2>1, <2>5, MovedAll
<1>8. ToSpace' = cur BY <1>1, <1>2 DEF ToSpace
<1>9. ~Collecting' /\ pc' \in {"resize", "last"} BY DEF Swap, Collecting
<1>10. Tiled(mem[cur], filled)' BY <1>1, <1>3, <1>5 DEF Tiled, HasSize, Words
<1>11. SizeInv' BY <1>1, <1>5, <1>9, <1>10 DEF SizeInv
<1>12. CASE pc = "collect"
  <2>1. HS!Collect(allocPtr)
    BY <1>1, <1>6, <1>8, <1>12 DEF Swap, HS!Collect, HS!SwapKeeping, HS!BlockWords, HS!SizeInWords
  <2>2. allocPtr \in 0 .. filled BY <1>5, <1>6
  <2> QED BY <1>11, <2>1, <2>2
<1>13. CASE pc = "recollect"
  <2>1. HS!Recollect
    BY <1>1, <1>7, <1>8, <1>13 DEF Swap, HS!Recollect, HS!SwapKeeping
  <2> QED BY <1>11, <2>1
<1> QED BY <1>1, <1>12, <1>13 DEF Collecting

-----------------------------------------------------------------------------
(***************************************************************************)
(* The steps between, and the allocations.                                 *)
(***************************************************************************)

\* The spare semispace gets its size, or mmap fails.
LEMMA ResizeSizes ==
  IInv /\ SizeInv /\ (Resize \/ EqualizeAfter \/ LastTryFails \/ MapFails) =>
    SizeInv' /\ (HS!Expand \/ HS!Equalize \/ HS!EqualizeAfter \/ HS!LastTryFails \/ HS!MapFails)
<1> SUFFICES ASSUME IInv, SizeInv, Resize \/ EqualizeAfter \/ LastTryFails \/ MapFails
             PROVE  /\ SizeInv'
                    /\ \/ HS!Expand \/ HS!Equalize \/ HS!EqualizeAfter
                       \/ HS!LastTryFails \/ HS!MapFails
  OBVIOUS
<1>1. cur \in {0, 1} BY DEF IInv, TypeInv
<1>2. ToSpace \in {0, 1} /\ ToSpace # cur BY <1>1, Spaces
<1>3. size = [s \in {0, 1} |-> size[s]] BY DEF SizeInv
<1>4. /\ ~Collecting /\ ~Collecting' /\ pc' # "recollect" /\ UNCHANGED <<mem, cur, filled, ToSpace, peak>>
      /\ pc' \in {"run", "retry"} => UNCHANGED heapPointer /\ pc \in {"resize", "equalize"}
      /\ pc' \in {"run", "retry", "noResult", "exited"}
  BY DEF Resize, EqualizeAfter, LastTryFails, MapFails, HS!MapFails, HS!Overrun, history, Collecting,
     ToSpace
<1>5. ASSUME NEW words, size' = [size EXCEPT ![ToSpace] = words]
      PROVE  /\ size' = [s \in {0, 1} |-> size'[s]]
             /\ size'[cur] = size[cur] /\ size'[ToSpace] = words
  BY <1>1, <1>2, <1>3, <1>5
<1>6. size' = [s \in {0, 1} |-> size'[s]]
  <2>1. CASE Resize \/ EqualizeAfter
    <3>1. \E words : size' = [size EXCEPT ![ToSpace] = words]
      BY <2>1, Zenon DEF Resize, EqualizeAfter
    <3> QED BY <1>5, <3>1
  <2>2. CASE LastTryFails \/ MapFails
    BY <1>3, <2>2 DEF LastTryFails, MapFails
  <2> QED BY <2>1, <2>2
<1>7. SizeInv'
  <2>1. Tiled(mem[cur], filled) BY <1>4 DEF SizeInv
  <2>2. Tiled(mem[cur], filled)' BY <1>4, <2>1
  <2> QED BY <1>4, <1>6, <2>2 DEF SizeInv
<1>8. CASE Resize
  <2>1. PICK words :
          /\ words = IF HS!MustExpand THEN HS!ExpandedSize ELSE HS!EqualizedSize
          /\ words <= MaxWords /\ size' = [size EXCEPT ![ToSpace] = words]
    BY <1>8, Zenon DEF Resize
  <2>2. /\ size'[cur'] = size[cur] /\ size'[ToSpace'] = words
        /\ UNCHANGED <<heapPointer, filled, peak, request>> /\ pc = "resize" /\ pc' = "retry"
    BY <1>4, <1>5, <1>8, <2>1 DEF Resize, history
  <2>3. CASE HS!MustExpand
    <3>1. words = HS!ExpandedSize BY <2>1, <2>3
    <3>2. HS!Expand BY <2>1, <2>2, <2>3, <3>1 DEF HS!Expand
    <3> QED BY <1>7, <3>2
  <2>4. CASE ~HS!MustExpand
    <3>1. words = HS!EqualizedSize BY <2>1, <2>4
    <3>2. HS!Equalize BY <2>2, <2>4, <3>1 DEF HS!Equalize
    <3> QED BY <1>7, <3>2
  <2> QED BY <2>3, <2>4
<1>9. CASE EqualizeAfter
  <2>1. size'[cur'] = size[cur] /\ size'[ToSpace'] = HS!EqualizedSize
    BY <1>4, <1>5, <1>9, Zenon DEF EqualizeAfter
  <2>2. HS!EqualizeAfter
    BY <1>9, <2>1 DEF EqualizeAfter, HS!EqualizeAfter, NoRequest, history
  <2> QED BY <1>7, <2>2
<1>10. CASE LastTryFails
  <2>1. HS!LastTryFails
    BY <1>4, <1>10 DEF LastTryFails, HS!LastTryFails
  <2> QED BY <1>7, <2>1
<1>11. CASE MapFails BY <1>7, <1>11 DEF MapFails
<1> QED BY <1>8, <1>9, <1>10, <1>11

\* The tries after a collection.
LEMMA RetrySizes ==
  IInv /\ IInv' /\ StoreInv /\ SizeInv /\ (Retry \/ LastTry) =>
    SizeInv' /\ (HS!Retry \/ HS!RetryFails \/ HS!LastTry)
<1> SUFFICES ASSUME IInv, IInv', StoreInv, SizeInv, Retry \/ LastTry
             PROVE  SizeInv' /\ (HS!Retry \/ HS!RetryFails \/ HS!LastTry)
  OBVIOUS
<1>1. pc \in {"retry", "last"} /\ Allocating BY DEF Retry, LastTry, Allocating
<1>2. request.bytes \in Nat /\ request.shape \in AllShapes BY <1>1 DEF IInv, CallInv
<1>3. CASE Deliver(request, stack, clive) /\ pc' \in {"run", "equalize"}
  <2>1. SizeInv' /\ UNCHANGED <<size, cur, peak>>
    BY <1>1, <1>2, <1>3, DeliverSizes
  <2>2. UNCHANGED ToSpace BY <2>1 DEF ToSpace
  <2>3. HS!Fits(request.bytes) /\ HS!Carve(request.bytes) BY <1>3 DEF Deliver
  <2>4. CASE Retry
    <3>1. pc = "retry" /\ pc' = "run" /\ request' = NoRequest
      <4>1. pc' # "recollect" BY <1>3
      <4> QED BY <2>4, <4>1 DEF Retry, StartCollection
    <3>2. HS!Retry BY <2>1, <2>2, <2>3, <3>1 DEF HS!Retry, NoRequest
    <3> QED BY <2>1, <3>2
  <2>5. CASE LastTry
    <3>1. HS!LastTry BY <2>1, <2>2, <2>3, <2>5 DEF LastTry, HS!LastTry
    <3> QED BY <2>1, <3>1
  <2> QED BY <2>4, <2>5
<1>4. CASE Retry /\ StartCollection(request, stack, clive, "recollect") /\ UNCHANGED request
  <2>1. pc = "retry" /\ pc' = "recollect" BY <1>4 DEF Retry, StartCollection
  <2>2. SizeInv' /\ UNCHANGED <<size, cur, filled, peak>> BY <1>4, <2>1, StartSizes
  <2>3. UNCHANGED ToSpace BY <2>2 DEF ToSpace
  <2>4. ~HS!Fits(request.bytes) /\ HS!Overrun(request.bytes) BY <1>4 DEF StartCollection
  <2>5. HS!RetryFails BY <1>4, <2>1, <2>2, <2>3, <2>4 DEF HS!RetryFails
  <2> QED BY <2>2, <2>5
<1> QED BY <1>3, <1>4 DEF Retry, LastTry

\* The first try.
LEMMA FirstTrySizes ==
  ASSUME IInv, IInv', StoreInv, SizeInv, pc = "run", NEW want, NEW frames, NEW live,
         want.shape \in AllShapes, want.bytes = Bytes(want.shape), FirstTry(want, frames, live)
  PROVE  /\ SizeInv'
         /\ \E bytes \in {Bytes(shape) : shape \in AllShapes} :
              HS!Allocate(bytes) \/ HS!AllocateFails(bytes)
<1>1. PICK bytes \in {Bytes(shape) : shape \in AllShapes} : bytes = want.bytes OBVIOUS
<1>2. want.bytes \in Nat BY ShapeFacts
<1>3. CASE Deliver(want, frames, live) /\ UNCHANGED <<pc, request>>
  <2>1. SizeInv' /\ UNCHANGED <<size, cur, peak>> BY <1>2, <1>3, DeliverSizes
  <2>2. UNCHANGED ToSpace BY <2>1 DEF ToSpace
  <2>3. HS!Fits(bytes) /\ HS!Carve(bytes) BY <1>1, <1>3 DEF Deliver
  <2>4. HS!Allocate(bytes) BY <1>3, <2>1, <2>2, <2>3 DEF HS!Allocate
  <2> QED BY <2>1, <2>4
<1>4. CASE StartCollection(want, frames, live, "collect") /\ request' = want
  <2>1. pc' = "collect" BY <1>4 DEF StartCollection
  <2>2. SizeInv' /\ UNCHANGED <<size, cur, filled, peak>> BY <1>4, StartSizes
  <2>3. UNCHANGED ToSpace BY <2>2 DEF ToSpace
  <2>4. ~HS!Fits(bytes) /\ HS!Overrun(bytes) BY <1>1, <1>4 DEF StartCollection
  <2>5. HS!AllocateFails(bytes) BY <1>1, <1>4, <2>1, <2>2, <2>3, <2>4 DEF HS!AllocateFails
  <2> QED BY <2>2, <2>5
<1> QED BY <1>3, <1>4 DEF FirstTry

\* The program allocates, itself or in a C function.
LEMMA AllocateSizes ==
  IInv /\ IInv' /\ StoreInv /\ SizeInv /\ (gcAllocate \/ gcAllocateFromC) => SizeInv' /\ HS!Next
<1> SUFFICES ASSUME IInv, IInv', StoreInv, SizeInv, gcAllocate \/ gcAllocateFromC
             PROVE  SizeInv' /\ HS!Next
  OBVIOUS
<1>1. pc = "run" BY DEF gcAllocate, gcAllocateFromC, MayAllocate
<1>2. PICK shape, dest, init, frames, live :
             shape \in AllShapes /\ FirstTry(Want(shape, dest, init), frames, live)
  BY Zenon DEF gcAllocate, gcAllocateFromC, AllShapes
<1>3. PICK want : want = Want(shape, dest, init) OBVIOUS
<1>4. want.shape = shape /\ want.bytes = Bytes(shape) BY <1>3 DEF Want
<1> QED BY <1>1, <1>2, <1>3, <1>4, FirstTrySizes DEF HS!Next

-----------------------------------------------------------------------------
(***************************************************************************)
(* The theorems.                                                           *)
(***************************************************************************)

\* The semispaces start out equal and empty, here and in the policy.
LEMMA InitSizes == Init => SizeInv /\ HS!Init
<1> SUFFICES ASSUME Init PROVE SizeInv /\ HS!Init OBVIOUS
<1>1. /\ cur = 0 /\ ToSpace = 1 /\ pc = "run" /\ heapPointer = 0 /\ filled = 0 /\ peak = 0
      /\ size = [s \in {0, 1} |-> InitialWords] /\ request = NoRequest
  BY DEF Init, ToSpace
<1>2. DOMAIN mem[0] = {} BY DEF Init, EmptySpace
<1>3. SizeInv BY <1>1, <1>2 DEF SizeInv, Collecting, Tiled
<1>4. HS!Init BY <1>1 DEF HS!Init, NoRequest
<1> QED BY <1>3, <1>4

\* Every step is a step of the policy, or leaves the sizes alone.
LEMMA SizingSteps ==
  IInv /\ IInv' /\ StoreInv /\ SizeInv /\ [Next]_vars => SizeInv' /\ [HS!Next]_HS!vars
<1> SUFFICES ASSUME IInv, IInv', StoreInv, SizeInv, [Next]_vars
             PROVE  SizeInv' /\ [HS!Next]_HS!vars
  OBVIOUS
<1>1. CASE ProgramStep
  <2>1. CASE Store BY <2>1, StoreSizes
  <2>2. CASE gcAllocate \/ gcAllocateFromC BY <2>2, AllocateSizes
  <2>3. CASE ~Store /\ ~gcAllocate /\ ~gcAllocateFromC
    <3>1. pc = "run" /\ UnchangedHeap
      BY <1>1, <2>3, Zenon DEF ProgramStep, Load, SetConstant, GlobalAccess, Call, Return, CallC, addRoot,
         removeRoots, ReturnFromC, Running
    <3> QED BY <3>1, ProgramSizes
  <2> QED BY <2>1, <2>2, <2>3
<1>2. CASE CollectorStep
  <2>1. CASE CopyRoot \/ ScanField \/ ScanNext BY <2>1, CopySizes
  <2>2. CASE Swap BY <2>2, SwapSizes DEF HS!Next, HS!CollectorStep
  <2>3. CASE Resize \/ EqualizeAfter \/ LastTryFails \/ MapFails
    BY <2>3, ResizeSizes DEF HS!Next, HS!CollectorStep
  <2>4. CASE Retry \/ LastTry BY <2>4, RetrySizes DEF HS!Next, HS!CollectorStep
  <2> QED BY <1>2, <2>1, <2>2, <2>3, <2>4 DEF CollectorStep
<1>3. CASE UNCHANGED vars
  <2>1. UNCHANGED <<mem, size, cur, heapPointer, stack, globals, cvars, clive, pc, request, allocPtr,
                    filled, peak>>
    BY <1>3 DEF vars, program, collector, history
  <2>2. Quiet /\ Collecting' = Collecting BY <2>1 DEF Quiet, Collecting
  <2>3. CASE ~Collecting
    <3>1. SizeInv' BY <2>1, <2>2, <2>3 DEF SizeInv, Tiled, HasSize, Words, Collecting
    <3> QED BY <2>2, <3>1, QuietSizes
  <2>4. CASE Collecting
    <3>1. LeadsOn BY <2>1, <2>2, QuietStep
    <3>2. DOMAIN mem'[cur] = DOMAIN mem[cur] /\ Measured(mem'[cur], allocPtr', filled)
      BY <2>1, <2>4 DEF SizeInv
    <3> QED BY <2>2, <2>4, <3>1, <3>2, CollectSizes
  <2> QED BY <2>3, <2>4
<1> QED BY <1>1, <1>2, <1>3 DEF Next

\* What was carved is accounted for at every step.
THEOREM SizeInvariance == Spec => []SizeInv
<1>1. Init => SizeInv BY InitSizes
<1>2. IInv /\ IInv' /\ StoreInv /\ SizeInv /\ [Next]_vars => SizeInv' BY SizingSteps
<1> QED BY <1>1, <1>2, Invariance, StoreInvariance, PTL DEF Spec

\* The collector, seen as sizes only, is the sizing policy.
THEOREM SizingFollowed == Spec => FollowsSizing
<1>1. Init => HS!Init BY InitSizes
<1>2. IInv /\ IInv' /\ StoreInv /\ SizeInv /\ [Next]_vars => [HS!Next]_HS!vars BY SizingSteps
<1> QED BY <1>1, <1>2, Invariance, StoreInvariance, SizeInvariance, PTL
        DEF Spec, FollowsSizing, HS!Spec

-----------------------------------------------------------------------------
(***************************************************************************)
(* What is proved of the sizing policy holds of the collector.             *)
(***************************************************************************)
Policy == INSTANCE HeapSizingProofs WITH
            heapSize <- size[cur], used <- heapPointer, otherSize <- size[ToSpace],
            request <- request.bytes, Requests <- {Bytes(shape) : shape \in AllShapes}

\* The policy's assumption on its constants holds of the collector's.
LEMMA PolicySizes == Policy!SizesAssumption
<1>1. \A shape \in AllShapes : Bytes(shape) \in Nat BY ShapeFacts
<1> QED BY <1>1, LimitsAssumption DEF Policy!SizesAssumption

\* The collector implements the policy the theorems are about.
LEMMA PolicyFollowed == Spec => Policy!Spec
<1>1. HS!Init => Policy!Init BY DEF HS!Init, Policy!Init
<1>2. HS!Next => Policy!Next
  BY Zenon DEF HS!Next, Policy!Next, HS!CollectorStep, Policy!CollectorStep,
     HS!Allocate, Policy!Allocate, HS!AllocateFails, Policy!AllocateFails,
     HS!Carve, Policy!Carve, HS!Overrun, Policy!Overrun, HS!Collect, Policy!Collect,
     HS!SwapKeeping, Policy!SwapKeeping, HS!Expand, Policy!Expand, HS!Equalize, Policy!Equalize,
     HS!MapFails, Policy!MapFails, HS!Retry, Policy!Retry, HS!RetryFails, Policy!RetryFails,
     HS!Recollect, Policy!Recollect, HS!LastTry, Policy!LastTry,
     HS!LastTryFails, Policy!LastTryFails, HS!EqualizeAfter, Policy!EqualizeAfter,
     HS!Fits, Policy!Fits, HS!BlockWords, Policy!BlockWords, HS!SizeInWords, Policy!SizeInWords,
     HS!MustExpand, Policy!MustExpand, HS!FreeSize, Policy!FreeSize,
     HS!BytesNeeded, Policy!BytesNeeded, HS!RoundUp, Policy!RoundUp,
     HS!ExpandedSize, Policy!ExpandedSize, HS!MinimumSize, Policy!MinimumSize,
     HS!EqualizedSize, Policy!EqualizedSize
<1>3. [HS!Next]_HS!vars => [Policy!Next]_Policy!vars
  <2>1. CASE HS!Next BY <1>2, <2>1
  <2>2. CASE UNCHANGED HS!vars BY <2>2 DEF HS!vars, Policy!vars
  <2> QED BY <2>1, <2>2
<1> QED BY <1>1, <1>3, SizingFollowed, PTL DEF FollowsSizing, HS!Spec, Policy!Spec

LEMMA PolicyInvariance == Spec => []Policy!IInv
  BY PolicySizes, PolicyFollowed, Policy!Invariance, PTL

\* What that says of the sizes of the collector.
LEMMA PolicyFacts ==
  ASSUME Policy!IInv
  PROVE  /\ size[cur] \in Nat /\ size[ToSpace] \in Nat
         /\ filled <= size[cur]
         /\ pc \in {"run", "collect", "retry", "recollect"} => size[ToSpace] >= size[cur]
         /\ HS!ToSpaceFits /\ HS!OnlyExactFitFails /\ HS!GrowthBounded
  BY DEF Policy!IInv, Policy!TypeOK, Policy!PointerInv, Policy!SpacesInv, Policy!SecuredInv,
     Policy!PeakInv, Policy!GrowthBounded, Policy!Needed, Policy!BlockWords, Policy!SizeInWords,
     HS!ToSpaceFits, HS!OnlyExactFitFails, HS!GrowthBounded, HS!BlockWords, HS!SizeInWords

\* The asserts on the semispaces hold of the collector itself, an allocation only
\* fails on an exact fit, and the heap is bounded by what the program keeps.
THEOREM CollectorSizes ==
  Spec => [](HS!ToSpaceFits /\ HS!OnlyExactFitFails /\ HS!GrowthBounded)
<1>1. Policy!IInv => HS!ToSpaceFits /\ HS!OnlyExactFitFails /\ HS!GrowthBounded BY PolicyFacts
<1> QED BY <1>1, PolicyInvariance, PTL

CopiesWithin == Collecting => allocPtr <= size[ToSpace]

\* gcCopy never writes past the end of the semispace it copies into.
THEOREM CopiesFit == Spec => []CopiesWithin
<1>1. IInv /\ SizeInv /\ Policy!IInv => CopiesWithin
  <2> SUFFICES ASSUME IInv, SizeInv, Policy!IInv, Collecting PROVE allocPtr <= size[ToSpace]
    BY DEF CopiesWithin
  <2>1. allocPtr \in Nat /\ allocPtr <= filled /\ filled \in Nat
    BY AllMeasured DEF IInv, Copying, SizeInv
  <2>2. pc \in {"collect", "recollect"} BY DEF Collecting
  <2> QED BY <2>1, <2>2, PolicyFacts
<1> QED BY <1>1, Invariance, SizeInvariance, PolicyInvariance, PTL

-----------------------------------------------------------------------------
(***************************************************************************)
(* Type correctness.  It takes the sizes: addresses stay within what mmap  *)
(* grants because copies fit; and an unboxed field is never written to.    *)
(***************************************************************************)
RawFields(block) ==
  \A i \in DOMAIN block.fields : i \notin ScannedFields(block.shape) => block.fields[i] = Raw

Contained(m) ==
  \A s \in {0, 1} : \A o \in DOMAIN m[s] : o <= MaxWords /\ RawFields(m[s][o])

BoundInv ==
  /\ \A s \in {0, 1} : size[s] <= MaxWords
  /\ Contained(mem)

\* A field that is scanned may be written.
LEMMA FieldContained ==
  ASSUME NEW m, IsMemory(m), Contained(m), NEW s \in {0, 1}, NEW p \in DOMAIN m[s],
         NEW i \in ScannedFields(m[s][p].shape), NEW w, NEW m2, m2 = WithField(m, s, p, i, w)
  PROVE  Contained(m2)
<1>1. FieldChanged(m2, m, s, p, i, w) BY FieldFacts
<1>2. RawFields(m2[s][p])
  <2>1. RawFields(m[s][p]) BY DEF Contained
  <2> QED BY <1>1, <2>1 DEF RawFields, FieldChanged
<1>3. ASSUME NEW r \in {0, 1}, NEW o \in DOMAIN m2[r] PROVE o <= MaxWords /\ RawFields(m2[r][o])
  <2>1. o \in DOMAIN m[r] BY <1>1, <1>3 DEF FieldChanged
  <2>2. CASE r = s /\ o = p BY <1>2, <2>1, <2>2 DEF Contained
  <2>3. CASE ~(r = s /\ o = p)
    <3>1. m2[r][o] = m[r][o] BY <1>1, <2>1, <2>3 DEF FieldChanged
    <3> QED BY <2>1, <3>1 DEF Contained
  <2> QED BY <2>2, <2>3
<1> QED BY <1>3 DEF Contained

\* A copy has the fields of the block, and starts within the semispace.
LEMMA CopyContained ==
  ASSUME IInv, Collecting, NEW v, v \in AllRefs, allocPtr <= MaxWords, Contained(mem)
  PROVE  Contained(MemoryAfter(v))
<1>1. cur \in {0, 1} /\ IsMemory(mem) /\ HeapInv(mem, cur, ToSpace, allocPtr, scanPtr, scanField)
  BY CopyingHeap DEF IInv, TypeInv
<1>2. CASE ~MustCopy(v) BY <1>2 DEF MemoryAfter
<1>3. CASE MustCopy(v)
  <2>1. InHeap(v) /\ IsAddress(v) /\ v[1] = cur BY <1>3 DEF MustCopy, InHeap
  <2>2. v \in Blocks
    <3>1. v \in {Null, Static} \/ v \in Blocks BY DEF AllRefs
    <3> QED BY <2>1, <3>1, AddressFacts
  <2>3. PICK o \in DOMAIN mem[cur] : v = <<cur, o>> BY <2>1, <2>2, BlockFacts
  <2>4. PICK m : m = MemoryAfter(v) OBVIOUS
  <2>5. /\ DOMAIN m[cur] = DOMAIN mem[cur]
        /\ DOMAIN m[ToSpace] = DOMAIN mem[ToSpace] \cup {allocPtr}
        /\ \A p \in DOMAIN mem[ToSpace] : m[ToSpace][p] = mem[ToSpace][p]
        /\ m[ToSpace][allocPtr] = mem[cur][o]
        /\ \A p \in DOMAIN mem[cur] : p # o => m[cur][p] = mem[cur][p]
        /\ m[cur][o].shape = mem[cur][o].shape /\ m[cur][o].fields = mem[cur][o].fields
    BY <1>1, <1>3, <2>3, <2>4, CopyNew
  <2>6. ToSpace \in {0, 1} /\ {0, 1} = {cur, ToSpace} BY <1>1, Spaces
  <2>7. \A p \in DOMAIN m[cur] : p <= MaxWords /\ RawFields(m[cur][p])
    BY <1>1, <2>5 DEF Contained, RawFields
  <2>8. \A p \in DOMAIN m[ToSpace] : p <= MaxWords /\ RawFields(m[ToSpace][p])
    BY <1>1, <2>5, <2>6 DEF Contained
  <2>9. Contained(m) BY <2>6, <2>7, <2>8 DEF Contained
  <2> QED BY <2>4, <2>9
<1> QED BY <1>2, <1>3

\* A new block starts within the semispace, its unboxed fields raw.
LEMMA DeliverContained ==
  ASSUME IInv, BoundInv, Policy!IInv, NEW want, want.bytes \in Nat, want.shape \in AllShapes,
         NEW frames, NEW live, Deliver(want, frames, live)
  PROVE  BoundInv'
<1>1. PICK id \in Ids : mem' = PutIn(mem, cur, heapPointer, NewBlock(id, want))
  BY Zenon DEF Deliver, PutIn
<1>2. size' = size /\ HS!Fits(want.bytes) BY DEF Deliver
<1>3. IsMemory(mem) /\ cur \in {0, 1} /\ heapPointer \in Nat BY DEF IInv, TypeInv
<1>4. PICK block : block = NewBlock(id, want) OBVIOUS
<1>5. IsBlock(block)
  <2>1. PICK R : R = {InitValue(want.init)} OBVIOUS
  <2>2. InitValue(want.init) \in R BY <2>1
  <2> QED BY <1>4, <2>2, NewBlockFacts
<1>6. BlockAdded(mem', mem, cur, heapPointer, block) BY <1>1, <1>3, <1>4, <1>5, PutFacts
<1>7. RawFields(block) BY <1>4 DEF NewBlock, RawFields
<1>8. heapPointer <= MaxWords
  <2>1. heapPointer + HS!BlockWords(want.bytes) < size[cur] BY <1>2 DEF HS!Fits
  <2>2. HS!BlockWords(want.bytes) \in Nat BY DEF HS!BlockWords, HS!SizeInWords
  <2>3. size[cur] \in Nat /\ size[cur] <= MaxWords BY <1>3, PolicyFacts DEF BoundInv
  <2> QED BY <1>3, <2>1, <2>2, <2>3, LimitsAssumption
<1>9. ASSUME NEW s \in {0, 1}, NEW o \in DOMAIN mem'[s]
      PROVE  o <= MaxWords /\ RawFields(mem'[s][o])
  <2>1. CASE s = cur /\ o = heapPointer BY <1>6, <1>7, <1>8, <2>1 DEF BlockAdded
  <2>2. CASE ~(s = cur /\ o = heapPointer)
    <3>1. o \in DOMAIN mem[s] /\ mem'[s][o] = mem[s][o] BY <1>6, <1>9, <2>2 DEF BlockAdded
    <3> QED BY <3>1 DEF BoundInv, Contained
  <2> QED BY <2>1, <2>2
<1> QED BY <1>2, <1>9 DEF BoundInv, Contained, RawFields

\* A copy leaves the copies already made as they are.
LEMMA CopyKeeps ==
  ASSUME IInv, Collecting, NEW v, v \in AllRefs, NEW o \in DOMAIN mem[ToSpace],
         NEW m, m = MemoryAfter(v)
  PROVE  /\ IsMemory(m) /\ o \in DOMAIN m[ToSpace]
         /\ m[ToSpace][o].shape = mem[ToSpace][o].shape
<1>1. cur \in {0, 1} /\ IsMemory(mem) /\ HeapInv(mem, cur, ToSpace, allocPtr, scanPtr, scanField)
  BY CopyingHeap DEF IInv, TypeInv
<1>2. CASE ~MustCopy(v) BY <1>1, <1>2 DEF MemoryAfter
<1>3. CASE MustCopy(v)
  <2>1. InHeap(v) /\ IsAddress(v) /\ v[1] = cur BY <1>3 DEF MustCopy, InHeap
  <2>2. v \in Blocks
    <3>1. v \in {Null, Static} \/ v \in Blocks BY DEF AllRefs
    <3> QED BY <2>1, <3>1, AddressFacts
  <2>3. PICK p \in DOMAIN mem[cur] : v = <<cur, p>> BY <2>1, <2>2, BlockFacts
  <2>4. /\ HeapInv(m, cur, ToSpace, allocPtr + Words(BlockAt(v)), scanPtr, scanField)
        /\ DOMAIN m[ToSpace] = DOMAIN mem[ToSpace] \cup {allocPtr}
        /\ \A q \in DOMAIN mem[ToSpace] : m[ToSpace][q] = mem[ToSpace][q]
    BY <1>1, <1>3, <2>3, CopyNew
  <2> QED BY <2>4 DEF HeapInv
<1> QED BY <1>2, <1>3

\* The invariant is kept by every step.
LEMMA BoundStep ==
  IInv /\ IInv' /\ StoreInv /\ SizeInv /\ Policy!IInv /\ BoundInv /\ [Next]_vars => BoundInv'
<1> SUFFICES ASSUME IInv, IInv', StoreInv, SizeInv, Policy!IInv, BoundInv, [Next]_vars PROVE BoundInv'
  OBVIOUS
<1>1. cur \in {0, 1} /\ IsMemory(mem) BY DEF IInv, TypeInv
<1>2. CASE UNCHANGED <<mem, size>> BY <1>2 DEF BoundInv, Contained, RawFields
<1>3. CASE Store
  <2>1. size' = size /\ ~Collecting /\ pc = "run" BY <1>3 DEF Store, Running, Collecting
  <2>2. PICK a \in frame.live, q \in frame.live :
               /\ InHeap(Value(a))
               /\ \E i \in ScannedFields(BlockAt(Value(a)).shape) :
                    mem' = [mem EXCEPT ![cur][Value(a)[2]].fields[i] = Value(q)]
    BY <1>3, Zenon DEF Store
  <2>3. PICK i \in ScannedFields(BlockAt(Value(a)).shape) :
               mem' = [mem EXCEPT ![cur][Value(a)[2]].fields[i] = Value(q)]
    BY <2>2
  <2>4. PICK p, w : p = Value(a)[2] /\ w = Value(q) OBVIOUS
  <2>5. p \in DOMAIN mem[cur] /\ i \in ScannedFields(mem[cur][p].shape)
    BY <2>1, <2>2, <2>4, RunFacts
  <2>6. mem' = WithField(mem, cur, p, i, w) BY <2>3, <2>4 DEF WithField
  <2>7. Contained(mem') BY <1>1, <2>5, <2>6, FieldContained DEF BoundInv
  <2> QED BY <2>1, <2>7 DEF BoundInv, Contained, RawFields
<1>4. CASE gcAllocate \/ gcAllocateFromC
  <2>1. PICK shape, dest, init, frames, live :
             shape \in AllShapes /\ FirstTry(Want(shape, dest, init), frames, live)
    BY <1>4, Zenon DEF gcAllocate, gcAllocateFromC, AllShapes
  <2>2. PICK want : want = Want(shape, dest, init) OBVIOUS
  <2>3. want.shape \in AllShapes /\ want.bytes \in Nat BY <2>1, <2>2, ShapeFacts DEF Want
  <2>4. CASE Deliver(want, frames, live) BY <2>3, <2>4, DeliverContained
  <2>5. CASE StartCollection(want, frames, live, "collect")
    BY <1>2, <2>5 DEF StartCollection
  <2> QED BY <2>1, <2>2, <2>4, <2>5 DEF FirstTry
<1>5. CASE Retry \/ LastTry
  <2>1. Allocating BY <1>5 DEF Retry, LastTry, Allocating
  <2>2. request.bytes \in Nat /\ request.shape \in AllShapes BY <2>1 DEF IInv, CallInv
  <2>3. CASE Deliver(request, stack, clive) BY <2>2, <2>3, DeliverContained
  <2>4. CASE StartCollection(request, stack, clive, "recollect")
    BY <1>2, <2>4 DEF StartCollection
  <2> QED BY <1>5, <2>3, <2>4 DEF Retry, LastTry
<1>6. ASSUME Collecting PROVE allocPtr <= MaxWords
  <2>1. allocPtr \in Nat /\ allocPtr <= filled /\ filled \in Nat
    BY <1>6, AllMeasured DEF IInv, Copying, SizeInv
  <2>2. filled <= size[cur] /\ size[cur] \in Nat BY PolicyFacts
  <2> QED BY <1>1, <2>1, <2>2, LimitsAssumption DEF BoundInv
<1>7. CASE CopyRoot
  <2>1. Collecting /\ size' = size
    <3>1. Collecting BY <1>7, Zenon DEF CopyRoot
    <3>2. UNCHANGED size BY <1>7, Zenon DEF CopyRoot
    <3> QED BY <3>1, <3>2
  <2>2. PICK root, v, w : RootCopied(root, v, w) BY <1>7, CopyRootEffect, Zenon
  <2>3. mem' = MemoryAfter(v) /\ v \in LiveValues BY <2>2 DEF RootCopied, CopyMade
  <2>4. v \in AllRefs BY <2>3, Readable
  <2>5. Contained(MemoryAfter(v)) BY <1>6, <2>1, <2>4, CopyContained DEF BoundInv
  <2> QED BY <2>1, <2>3, <2>5 DEF BoundInv, Contained, RawFields
<1>8. CASE ScanField /\ scanField \in ScannedFields(Scanned.shape)
  <2>1. Collecting /\ size' = size BY <1>8 DEF ScanField, Scanning
  <2>2. PICK v, w : v = Scanned.fields[scanField] /\ w = Copied(v) OBVIOUS
  <2>3. mem' = [MemoryAfter(v) EXCEPT ![ToSpace][scanPtr].fields[scanField] = w]
    BY <1>8, <2>2 DEF ScanField
  <2>4. scanPtr \in DOMAIN mem[ToSpace]
    <3>1. todo = <<>> /\ scanPtr < allocPtr BY <1>8 DEF ScanField, Scanning
    <3> QED BY <2>1, <3>1 DEF IInv, TypeInv, Copying
  <2>5. v \in AllRefs
    <3>1. <<ToSpace, scanPtr>> \in Blocks BY <1>1, <2>4, Spaces, RefsAreAll
    <3>2. v \in References(<<ToSpace, scanPtr>>)
      BY <1>8, <2>2 DEF References, BlockAt, Scanned
    <3> QED BY <3>1, <3>2, Readable
  <2>6. PICK m : m = MemoryAfter(v) OBVIOUS
  <2>7. Contained(m) BY <1>6, <2>1, <2>5, <2>6, CopyContained DEF BoundInv
  <2>8. /\ IsMemory(m) /\ scanPtr \in DOMAIN m[ToSpace]
        /\ m[ToSpace][scanPtr].shape = mem[ToSpace][scanPtr].shape
    BY <1>1, <2>1, <2>4, <2>5, <2>6, CopyKeeps
  <2>9. mem' = WithField(m, ToSpace, scanPtr, scanField, w) BY <2>3, <2>6 DEF WithField
  <2>10. Contained(mem')
    BY <1>1, <1>8, <2>7, <2>8, <2>9, Spaces, FieldContained DEF Scanned
  <2> QED BY <2>1, <2>10 DEF BoundInv, Contained, RawFields
<1>9. CASE Swap
  <2>1. mem' = [mem EXCEPT ![cur] = EmptySpace] /\ size' = size BY <1>9 DEF Swap
  <2>2. mem'[ToSpace] = mem[ToSpace] /\ DOMAIN mem'[cur] = {} BY <1>1, <2>1, WipeMemory
  <2>3. Contained(mem') BY <1>1, <2>2, Spaces DEF Contained, BoundInv
  <2> QED BY <2>1, <2>3 DEF BoundInv, Contained, RawFields
<1>10. CASE Resize \/ EqualizeAfter
  <2>1. mem' = mem BY <1>10 DEF Resize, EqualizeAfter
  <2>2. PICK words : size' = [size EXCEPT ![ToSpace] = words] /\ words <= MaxWords
    <3>1. HS!EqualizedSize <= MaxWords BY <1>1, Spaces DEF BoundInv, HS!EqualizedSize
    <3> QED BY <1>10, <3>1 DEF Resize, EqualizeAfter
  <2>3. \A s \in {0, 1} : size'[s] <= MaxWords
    BY <1>1, <2>2, Spaces DEF SizeInv, BoundInv
  <2> QED BY <2>1, <2>3 DEF BoundInv, Contained, RawFields
<1>11. \/ Store \/ gcAllocate \/ gcAllocateFromC \/ Retry \/ LastTry \/ CopyRoot \/ Swap
       \/ Resize \/ EqualizeAfter \/ (ScanField /\ scanField \in ScannedFields(Scanned.shape))
       \/ UNCHANGED <<mem, size>>
  <2>1. CASE Load \/ SetConstant \/ GlobalAccess \/ Call \/ Return \/ CallC \/ addRoot \/ removeRoots
          \/ ReturnFromC
    <3>1. UnchangedHeap
      BY <2>1, Zenon DEF Load, SetConstant, GlobalAccess, Call, Return, CallC, addRoot, removeRoots, ReturnFromC
    <3> QED BY <3>1 DEF UnchangedHeap
  <2>2. CASE ScanNext \/ LastTryFails \/ MapFails BY <2>2 DEF ScanNext, LastTryFails, MapFails
  <2>3. CASE ScanField /\ scanField \notin ScannedFields(Scanned.shape) BY <2>3 DEF ScanField
  <2>4. CASE UNCHANGED vars BY <2>4 DEF vars
  <2> QED BY <2>1, <2>2, <2>3, <2>4, Zenon DEF Next, ProgramStep, CollectorStep
<1> QED BY <1>2, <1>3, <1>4, <1>5, <1>7, <1>8, <1>9, <1>10, <1>11

\* Blocks, references and sizes are what they should be.
LEMMA Typed == IInv /\ StoreInv /\ SizeInv /\ Policy!IInv /\ BoundInv => TypeOK
<1> SUFFICES ASSUME IInv, StoreInv, SizeInv, Policy!IInv, BoundInv PROVE TypeOK OBVIOUS
<1>1. cur \in {0, 1} /\ IsMemory(mem) /\ clive \subseteq CVars /\ pc \in HS!PCs BY DEF IInv, TypeInv
<1>2. \A s \in {0, 1} : \A o \in DOMAIN mem[s] : o \in 0 .. MaxWords
  <2>1. \A s \in {0, 1} : DOMAIN mem[s] \subseteq Nat BY <1>1 DEF IsMemory
  <2> QED BY <2>1, LimitsAssumption DEF BoundInv, Contained
<1>3. AllRefs \subseteq Addresses \cup {Null, Static}
  <2>1. \A a \in Blocks : a \in Addresses BY <1>2, BlockFacts DEF Addresses
  <2> QED BY <2>1 DEF AllRefs
<1>4. ASSUME NEW s \in {0, 1}, NEW o \in DOMAIN mem[s], NEW i \in DOMAIN mem[s][o].fields
      PROVE  mem[s][o].fields[i] \in Addresses \cup {Null, Static, Raw}
  <2>1. CASE i \in ScannedFields(mem[s][o].shape)
    <3>1. <<s, o>> \in Blocks BY RefsAreAll
    <3>2. mem[s][o].fields[i] \in References(<<s, o>>) BY <2>1 DEF References, BlockAt
    <3>3. mem[s][o].fields[i] \in AllRefs BY <3>1, <3>2, Readable
    <3> QED BY <1>3, <3>3
  <2>2. CASE i \notin ScannedFields(mem[s][o].shape)
    BY <2>2 DEF BoundInv, Contained, RawFields
  <2> QED BY <2>1, <2>2
<1>5. \A v \in LiveValues : v \in Addresses \cup {Null, Static} BY <1>3, Readable
<1>6. DOMAIN mem = {0, 1} /\ \A s \in {0, 1} : \A o \in DOMAIN mem[s] : mem[s][o].id \in Ids
  BY <1>1 DEF IsMemory, StoreInv, KnownIds
<1>7. size \in [{0, 1} -> Nat]
  <2>1. size[0] \in Nat /\ size[1] \in Nat BY <1>1, PolicyFacts DEF ToSpace
  <2> QED BY <2>1 DEF SizeInv
<1> QED BY <1>1, <1>2, <1>4, <1>5, <1>6, <1>7 DEF TypeOK

\* Addresses stay within the semispaces, names and sizes are known, and an
\* unboxed field keeps its bits, in every reachable state.
THEOREM TypeCorrect == Spec => []TypeOK
<1>1. Init => BoundInv
  <2> SUFFICES ASSUME Init PROVE BoundInv OBVIOUS
  <2>1. \A s \in {0, 1} : DOMAIN mem[s] = {} /\ size[s] = InitialWords BY DEF Init, EmptySpace
  <2> QED BY <2>1, LimitsAssumption DEF BoundInv, Contained
<1>2. IInv /\ IInv' /\ StoreInv /\ SizeInv /\ Policy!IInv /\ BoundInv /\ [Next]_vars => BoundInv'
  BY BoundStep
<1>3. IInv /\ StoreInv /\ SizeInv /\ Policy!IInv /\ BoundInv => TypeOK BY Typed
<1> QED BY <1>1, <1>2, <1>3, Invariance, StoreInvariance, SizeInvariance, PolicyInvariance, PTL DEF Spec
=============================================================================
