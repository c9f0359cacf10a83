--------------------------- MODULE RegAllocProofs ---------------------------
(***************************************************************************)
(* For every function, number of colours and order of the hash table:      *)
(* liveness, the interference graph and the stack maps are what the paths  *)
(* of the function say, the coloring is proper, and so nothing is written  *)
(* over a value that is still read.                                        *)
(***************************************************************************)
EXTENDS RegAlloc, CommonLemmas

-----------------------------------------------------------------------------
(***************************************************************************)
(* The coloring: the order in which vertices go on and come off the stack  *)
(* never gives two of them one colour that have an edge, unless both are   *)
(* precolored.                                                             *)
(***************************************************************************)
\* igraph is undirected, without loops, and has all precolored registers.
Undirected(graph) ==
  /\ DOMAIN fixed \subseteq DOMAIN graph
  /\ \A v \in DOMAIN graph :
       /\ graph[v] \subseteq DOMAIN graph
       /\ v \notin graph[v]
       /\ \A w \in graph[v] : v \in graph[w]

\* Nothing is put on the stack that is precolored or not in the graph.
Stacked ==
  /\ IsFiniteSet(DOMAIN fixed)
  /\ pc = "coalesce" => stack = <<>>
  /\ pc \in {"simplify", "select"} =>
       Undirected(igraph) /\ stack \in Seq(DOMAIN igraph \ DOMAIN fixed)

\* Precolored registers keep their colours; of two neighbours that have one,
\* one of them not precolored, the colours differ.
Coloured ==
  pc = "select" =>
    /\ IsFiniteSet(DOMAIN coloring)
    /\ DOMAIN coloring \subseteq DOMAIN igraph
    /\ \A v \in DOMAIN fixed : v \in DOMAIN coloring /\ coloring[v] = fixed[v]
    /\ \A v \in DOMAIN coloring \ DOMAIN fixed :
         /\ coloring[v] \in 0 .. Colors - 1
         /\ \A w \in igraph[v] \cap DOMAIN coloring : coloring[v] # coloring[w]

ColoringInv == Stacked /\ Coloured

\* The interference graph is undirected, whatever the code.
LEMMA GraphUndirected ==
  ASSUME NEW c
  PROVE  Undirected(computeInterference(c))
<1> DEFINE edges == Edges(c)
           vertices == DOMAIN fixed \cup UNION edges
<1>1. computeInterference(c) = [v \in vertices |-> {w \in vertices : v # w /\ {v, w} \in edges}]
  BY DEF computeInterference
<1>2. DOMAIN fixed \subseteq vertices OBVIOUS
<1> HIDE DEF edges, vertices
<1>3. \A v, w : {v, w} = {w, v} OBVIOUS
<1> QED BY <1>1, <1>2, <1>3 DEF Undirected

\* If fewer colours are used than there are, the least unused one is a colour
\* and is not used (findColorFor).
LEMMA LeastUnusedIsFree ==
  ASSUME NEW used, IsFiniteSet(used), HasColor(used)
  PROVE  LeastUnused(used) \in 0 .. Colors - 1 /\ LeastUnused(used) \notin used
<1> DEFINE Free == (0 .. Colors - 1) \ used
<1>1. Colors \in Nat BY ColorsAssumption
<1>2. Free # {}
  <2> SUFFICES ASSUME 0 .. Colors - 1 \subseteq used PROVE FALSE OBVIOUS
  <2>1. IsFiniteSet(0 .. Colors - 1) /\ Cardinality(0 .. Colors - 1) = Colors
    BY <1>1, FS_Interval
  <2>2. Cardinality(0 .. Colors - 1) <= Cardinality(used) BY FS_Subset
  <2>3. Cardinality(used) \in Nat BY FS_CardinalityType
  <2> QED BY <1>1, <2>1, <2>2, <2>3 DEF HasColor
<1>3. PICK m \in Free : \A n \in Free : m <= n
  <2>1. Free \in SUBSET Nat OBVIOUS
  <2> HIDE DEF Free
  <2> QED BY <1>2, <2>1, Least
<1>4. \E c \in 0 .. Colors - 1 : c \notin used /\ \A d \in 0 .. c - 1 : d \in used
  <2>1. ASSUME NEW d \in 0 .. m - 1, d \notin used PROVE FALSE BY <1>1, <1>3, <2>1
  <2> QED BY <1>3, <2>1
<1> QED BY <1>4 DEF LeastUnused

\* The initial states have no graph and no stack.
LEMMA ColoringInit ==
  ASSUME Init
  PROVE  ColoringInv
<1>1. PICK f \in Functions : machine = Lowered(f) BY Zenon DEF Init
<1>2. IsFiniteSet(DOMAIN fixed) BY <1>1, MachinesAssumption DEF fixed
<1> QED BY <1>2 DEF Init, ColoringInv, Stacked, Coloured

\* Taking any vertex that is left off the graph keeps the stack as it should be.
LEMMA PushStacked ==
  ASSUME ColoringInv, pc = "simplify", NEW v \in Remaining, stack' = <<v>> \o stack,
         UNCHANGED <<machine, igraph, coloring, pc>>
  PROVE  ColoringInv'
<1> USE DEF ColoringInv
<1>1. Coloured' BY DEF Coloured
<1>2. fixed' = fixed BY DEF fixed
<1>3. stack \in Seq(DOMAIN igraph \ DOMAIN fixed) /\ v \in DOMAIN igraph \ DOMAIN fixed
  BY DEF Stacked, Remaining
<1>4. stack' \in Seq(DOMAIN igraph \ DOMAIN fixed)
  <2> DEFINE S == DOMAIN igraph \ DOMAIN fixed
  <2>1. stack \in Seq(S) /\ <<v>> \in Seq(S) BY <1>3
  <2> HIDE DEF S
  <2>2. <<v>> \o stack \in Seq(S) BY <2>1
  <2> QED BY <2>2 DEF S
<1> QED BY <1>1, <1>2, <1>3, <1>4 DEF Stacked, Undirected

\* A register gets a colour that no neighbour has, so the coloring stays proper.
LEMMA ColorStep ==
  ASSUME ColoringInv, findColorFor
  PROVE  ColoringInv'
<1> DEFINE reg == Head(stack)
           used == UsedColors(reg)
           color == LeastUnused(used)
<1>1. /\ pc = "select" /\ pc' = "select" /\ stack # <<>> /\ HasColor(used)
      /\ coloring' = [v \in DOMAIN coloring \cup {reg} |->
                        IF v = reg THEN LeastUnused(UsedColors(v)) ELSE coloring[v]]
      /\ stack' = Tail(stack)
      /\ machine' = machine /\ igraph' = igraph
  BY DEF findColorFor
<1>2. /\ IsFiniteSet(DOMAIN fixed) /\ Undirected(igraph)
      /\ stack \in Seq(DOMAIN igraph \ DOMAIN fixed)
  BY <1>1 DEF ColoringInv, Stacked
<1>3. fixed' = fixed BY <1>1 DEF fixed
<1>4. reg \in DOMAIN igraph \ DOMAIN fixed /\ stack' \in Seq(DOMAIN igraph \ DOMAIN fixed)
  <2> DEFINE S == DOMAIN igraph \ DOMAIN fixed
  <2>1. stack \in Seq(S) BY <1>2
  <2> HIDE DEF S
  <2>2. Head(stack) \in S /\ Tail(stack) \in Seq(S) BY <1>1, <2>1
  <2> QED BY <1>1, <2>2 DEF S
<1>5. Stacked'
  BY <1>1, <1>2, <1>3, <1>4 DEF Stacked, Undirected
<1>6. /\ IsFiniteSet(DOMAIN coloring) /\ DOMAIN coloring \subseteq DOMAIN igraph
      /\ \A v \in DOMAIN fixed : v \in DOMAIN coloring /\ coloring[v] = fixed[v]
      /\ \A v \in DOMAIN coloring \ DOMAIN fixed :
           /\ coloring[v] \in 0 .. Colors - 1
           /\ \A w \in igraph[v] \cap DOMAIN coloring : coloring[v] # coloring[w]
  BY <1>1 DEF ColoringInv, Coloured
<1>7. color \in 0 .. Colors - 1 /\ color \notin used
  <2>1. igraph[reg] \cap DOMAIN coloring \subseteq DOMAIN coloring OBVIOUS
  <2>2. IsFiniteSet(igraph[reg] \cap DOMAIN coloring) BY <1>6, <2>1, FS_Subset
  <2>3. IsFiniteSet({coloring[w] : w \in igraph[reg] \cap DOMAIN coloring})
    <3> DEFINE D == igraph[reg] \cap DOMAIN coloring
               R == {coloring[w] : w \in D}
               f == [w \in D |-> coloring[w]]
    <3>1. IsFiniteSet(D) BY <2>2
    <3> HIDE DEF D
    <3>2. f \in Surjection(D, R) BY Zenon DEF Surjection
    <3> HIDE DEF f, R
    <3>3. IsFiniteSet(R) BY <3>1, <3>2, FS_Surjection
    <3> QED BY <3>3 DEF D, R
  <2>4. IsFiniteSet(used) BY <2>3 DEF UsedColors
  <2> HIDE DEF used
  <2> QED BY <1>1, <2>4, LeastUnusedIsFree
<1>8. /\ DOMAIN coloring' = DOMAIN coloring \cup {reg}
      /\ coloring'[reg] = color
      /\ \A v \in DOMAIN coloring : v # reg => coloring'[v] = coloring[v]
  <2> HIDE DEF reg
  <2> QED BY <1>1
<1>9. \A w \in igraph[reg] \cap DOMAIN coloring : coloring[w] # color
  BY <1>7 DEF UsedColors
<1>10. IsFiniteSet(DOMAIN coloring') BY <1>6, <1>8, FS_AddElement
<1> HIDE DEF reg, color, used
<1>11. ASSUME NEW v \in DOMAIN coloring' \ DOMAIN fixed
       PROVE  /\ coloring'[v] \in 0 .. Colors - 1
              /\ \A w \in igraph[v] \cap DOMAIN coloring' : coloring'[v] # coloring'[w]
  <2>1. CASE v = reg BY <1>2, <1>4, <1>7, <1>8, <1>9, <2>1 DEF Undirected
  <2>2. CASE v # reg
    <3>1. v \in DOMAIN coloring \ DOMAIN fixed /\ coloring'[v] = coloring[v] /\ v \in DOMAIN igraph
      BY <1>6, <1>8, <2>2
    <3>2. ASSUME NEW w \in igraph[v] \cap DOMAIN coloring' PROVE coloring'[v] # coloring'[w]
      <4>1. CASE w = reg
        <5>1. v \in igraph[reg] BY <1>2, <3>1, <3>2, <4>1 DEF Undirected
        <5> QED BY <1>8, <1>9, <3>1, <4>1, <5>1
      <4>2. CASE w # reg BY <1>6, <1>8, <3>1, <3>2, <4>2
      <4> QED BY <4>1, <4>2
    <3> QED BY <1>6, <3>1, <3>2
  <2> QED BY <2>1, <2>2
<1>12. \A v \in DOMAIN fixed : v \in DOMAIN coloring' /\ coloring'[v] = fixed[v]
  BY <1>4, <1>6, <1>8
<1>13. Coloured'
  BY <1>1, <1>3, <1>4, <1>6, <1>8, <1>10, <1>11, <1>12 DEF Coloured
<1> QED BY <1>5, <1>13 DEF ColoringInv

LEMMA ColoringNext ==
  ASSUME ColoringInv, [Next]_vars
  PROVE  ColoringInv'
<1>1. CASE Coalesce
  <2>1. /\ pc = "coalesce" /\ pc' = "simplify" /\ machine' = machine /\ stack' = stack
        /\ igraph' = computeInterference(coalesceMoves(code))
    BY <1>1 DEF Coalesce
  <2>2. Undirected(igraph') BY <2>1, GraphUndirected
  <2>3. fixed' = fixed BY <2>1 DEF fixed
  <2> QED BY <2>1, <2>2, <2>3 DEF ColoringInv, Stacked, Coloured, Undirected
<1>2. CASE RemoveVertex
  <2>1. PICK v \in Remaining : stack' = <<v>> \o stack BY <1>2 DEF RemoveVertex
  <2>2. pc = "simplify" /\ UNCHANGED <<machine, igraph, coloring, pc>> BY <1>2 DEF RemoveVertex
  <2> QED BY <2>1, <2>2, PushStacked
<1>3. CASE RemoveBlocked
  <2>1. PICK v \in Remaining : stack' = <<v>> \o stack BY <1>3 DEF RemoveBlocked
  <2>2. pc = "simplify" /\ UNCHANGED <<machine, igraph, coloring, pc>> BY <1>3 DEF RemoveBlocked
  <2> QED BY <2>1, <2>2, PushStacked
<1>4. CASE ColorFixed
  <2>1. /\ pc = "simplify" /\ pc' = "select" /\ coloring' = fixed
        /\ machine' = machine /\ igraph' = igraph /\ stack' = stack
    BY <1>4 DEF ColorFixed
  <2>2. fixed' = fixed BY <2>1 DEF fixed
  <2> QED BY <2>1, <2>2 DEF ColoringInv, Stacked, Coloured, Undirected
<1>5. CASE findColorFor BY <1>5, ColorStep
<1>6. CASE Spill
  <2>1. machine' = machine /\ pc' = "coalesce" /\ stack' = <<>> BY <1>6 DEF Spill
  <2>2. fixed' = fixed BY <2>1 DEF fixed
  <2> QED BY <2>1, <2>2 DEF ColoringInv, Stacked, Coloured
<1>7. CASE Assign
  <2>1. machine' = machine /\ pc' \in {"run", "aborted"} BY <1>7 DEF Assign
  <2>2. fixed' = fixed BY <2>1 DEF fixed
  <2> QED BY <2>1, <2>2 DEF ColoringInv, Stacked, Coloured
<1>8. CASE Step
  <2>1. machine' = machine /\ pc = "run" /\ pc' = "run" BY <1>8 DEF Step
  <2>2. fixed' = fixed BY <2>1 DEF fixed
  <2> QED BY <2>1, <2>2 DEF ColoringInv, Stacked, Coloured
<1>9. CASE UNCHANGED vars
  BY <1>9 DEF vars, allocation, ColoringInv, Stacked, Coloured, Undirected, fixed
<1> QED BY <1>1, <1>2, <1>3, <1>4, <1>5, <1>6, <1>7, <1>8, <1>9 DEF Next

-----------------------------------------------------------------------------
(***************************************************************************)
(* Liveness.  Round n of computeLiveness finds what paths of fewer than n  *)
(* steps read first; after as many rounds as there are blocks there are no *)
(* others, and rounds that change nothing end the computation no earlier.  *)
(***************************************************************************)
\* The successors of blocks are blocks.
Wellformed(succ) == succ \in Seq(Seq(1 .. Len(succ))) /\ succ # <<>>

\* R[n] is what is live after n rounds, and one that changes nothing is the last.
RoundsOf(succ, use, def, R) ==
  /\ \A b \in DOMAIN succ : R[0][b] = {}
  /\ \A n \in 0 .. Len(succ) : R[n + 1] = LiveRound(succ, use, def, R[n])
  /\ (\E n \in 0 .. Len(succ) : R[n + 1] = R[n]) =>
        \E n \in 0 .. Len(succ) : R[n + 1] = R[n] /\ LiveIn(succ, use, def) = R[n]

\* LiveIn goes in rounds.
LEMMA LiveRounds ==
  ASSUME NEW succ, Len(succ) \in Nat, NEW use, NEW def
  PROVE  \E R : RoundsOf(succ, use, def, R)
<1> DEFINE N == Len(succ) + 1
           First == [b \in DOMAIN succ |-> {}]
           Round(last) == LiveRound(succ, use, def, last)
           Upto(f, m) == f = [n \in 0 .. m |-> IF n = 0 THEN First ELSE Round(f[n - 1])]
           NotUpto == {m \in 0 .. N : ~ \E f : Upto(f, m)}
<1>1. N \in Nat /\ N = Len(succ) + 1 OBVIOUS
<1> HIDE DEF N
<1>2. NotUpto = {}
  <2> SUFFICES ASSUME NotUpto # {} PROVE FALSE OBVIOUS
  <2>1. PICK m \in NotUpto : \A n \in NotUpto : m <= n
    <3> HIDE DEF Upto
    <3>1. NotUpto \in SUBSET Nat OBVIOUS
    <3> HIDE DEF NotUpto
    <3> QED BY <3>1, Least
  <2> HIDE DEF Round, First
  <2>2. CASE m = 0
    <3>1. Upto([n \in 0 .. 0 |-> First], 0) OBVIOUS
    <3> QED BY <3>1, <2>1, <2>2
  <2>3. CASE m # 0
    <3>1. PICK f : Upto(f, m - 1)
      <4> HIDE DEF Upto
      <4>1. m - 1 \in 0 .. N /\ ~(m <= m - 1) BY <1>1, <2>1, <2>3
      <4>2. m - 1 \notin NotUpto BY <2>1, <4>1
      <4> QED BY <4>1, <4>2
    <3> DEFINE g == [n \in 0 .. m |-> IF n = m THEN Round(f[m - 1]) ELSE f[n]]
    <3>2. ASSUME NEW n \in 0 .. m PROVE g[n] = IF n = 0 THEN First ELSE Round(g[n - 1])
      BY <3>1, <2>1, <2>3
    <3>3. Upto(g, m) BY <3>2
    <3> QED BY <3>3, <2>1
  <2> QED BY <2>2, <2>3
<1>3. \E f : Upto(f, N)
  <2> HIDE DEF Upto
  <2>1. N \in 0 .. N BY <1>1
  <2> QED BY <1>2, <2>1
<1> DEFINE R == CHOOSE f : Upto(f, N)
<1>4. Upto(R, N) BY <1>3
<1>5. LiveIn(succ, use, def) = R[CHOOSE n \in 0 .. Len(succ) : R[n + 1] = R[n]]
  BY Zenon DEF LiveIn, N
<1> HIDE DEF R
<1>6. R[0] = First
  <2> HIDE DEF First, Round
  <2> QED BY <1>1, <1>4
<1>7. ASSUME NEW n \in 0 .. Len(succ) PROVE R[n + 1] = Round(R[n])
  <2> HIDE DEF First, Round
  <2>1. n + 1 \in 0 .. N /\ n + 1 # 0 /\ (n + 1) - 1 = n BY <1>1
  <2> QED BY <1>4, <2>1
<1> HIDE DEF Upto
<1>8. \A b \in DOMAIN succ : R[0][b] = {} BY <1>6
<1>9. ASSUME \E n \in 0 .. Len(succ) : R[n + 1] = R[n]
      PROVE  \E n \in 0 .. Len(succ) : R[n + 1] = R[n] /\ LiveIn(succ, use, def) = R[n]
  BY <1>5, <1>9
<1> QED BY <1>7, <1>8, <1>9 DEF RoundsOf

\* The blocks from which a path of at most n steps leads to one of first, and what
\* n rounds find.
Paths(through, first, W, N) ==
  W[0] = first /\ \A n \in 0 .. N - 1 : W[n + 1] = W[n] \cup PassesOn(through, W[n])
Rounds(through, first, S, N) ==
  S[0] = {} /\ \A n \in 0 .. N : S[n + 1] = first \cup PassesOn(through, S[n])

\* Those of LeadTo.
LEMMA PathSteps ==
  ASSUME NEW through, NEW first, Len(machine.succ) \in Nat
  PROVE  \E W : Paths(through, first, W, Len(machine.succ)) /\ LeadTo(through, first) = W[Len(machine.succ)]
<1> DEFINE N == Len(machine.succ)
           Grow(u) == OrPassOn(through, u)
           Upto(f, m) == f = [n \in 0 .. m |-> IF n = 0 THEN first ELSE Grow(f[n - 1])]
           NotUpto == {m \in 0 .. N : ~ \E f : Upto(f, m)}
<1>1. N \in Nat OBVIOUS
<1> HIDE DEF N
<1>2. NotUpto = {}
  <2> SUFFICES ASSUME NotUpto # {} PROVE FALSE OBVIOUS
  <2>1. PICK m \in NotUpto : \A n \in NotUpto : m <= n
    <3> HIDE DEF Upto
    <3>1. NotUpto \in SUBSET Nat OBVIOUS
    <3> HIDE DEF NotUpto
    <3> QED BY <3>1, Least
  <2> HIDE DEF Grow
  <2>2. CASE m = 0
    <3>1. Upto([n \in 0 .. 0 |-> first], 0) OBVIOUS
    <3> QED BY <3>1, <2>1, <2>2
  <2>3. CASE m # 0
    <3>1. PICK f : Upto(f, m - 1)
      <4> HIDE DEF Upto
      <4>1. m - 1 \in 0 .. N /\ ~(m <= m - 1) BY <1>1, <2>1, <2>3
      <4>2. m - 1 \notin NotUpto BY <2>1, <4>1
      <4> QED BY <4>1, <4>2
    <3> DEFINE g == [n \in 0 .. m |-> IF n = m THEN Grow(f[m - 1]) ELSE f[n]]
    <3>2. ASSUME NEW n \in 0 .. m PROVE g[n] = IF n = 0 THEN first ELSE Grow(g[n - 1])
      BY <3>1, <2>1, <2>3
    <3>3. Upto(g, m) BY <3>2
    <3> QED BY <3>3, <2>1
  <2> QED BY <2>2, <2>3
<1>3. \E f : Upto(f, N)
  <2> HIDE DEF Upto
  <2>1. N \in 0 .. N BY <1>1
  <2> QED BY <1>2, <2>1
<1> DEFINE W == CHOOSE f : Upto(f, N)
<1>4. Upto(W, N) BY <1>3
<1>5. LeadTo(through, first) = W[N]
  BY Zenon DEF LeadTo, N
<1> HIDE DEF W
<1>6. W[0] = first
  <2> HIDE DEF Grow
  <2> QED BY <1>1, <1>4
<1>7. ASSUME NEW n \in 0 .. N - 1 PROVE W[n + 1] = Grow(W[n])
  <2> HIDE DEF Grow
  <2>1. n + 1 \in 0 .. N /\ n + 1 # 0 /\ (n + 1) - 1 = n BY <1>1
  <2> QED BY <1>4, <2>1
<1> HIDE DEF Upto
<1>8. \A n \in 0 .. N - 1 : W[n + 1] = W[n] \cup PassesOn(through, W[n]) BY <1>7 DEF OrPassOn
<1> QED BY <1>5, <1>6, <1>8 DEF N, Paths

\* A block uses first what it reads before writing it (UsedFirst).
LEMMA UsedFirstReads ==
  ASSUME NEW insts, insts \in Seq(ToSet(insts)), NEW v
  PROVE  v \in UsedFirst(insts) <=>
           \E i \in DOMAIN insts : v \in Ins(insts[i]) /\ \A j \in 1 .. i - 1 : v \notin Outs(insts[j])
<1> DEFINE S == ToSet(insts)
<1>1. insts \in Seq(S) OBVIOUS
<1> HIDE DEF S
<1>2. DOMAIN insts = 1 .. Len(insts) /\ Len(insts) \in Nat BY <1>1
<1>3. ASSUME NEW i \in DOMAIN insts
      PROVE  v \in Defined(SubSeq(insts, 1, i - 1)) <=> \E j \in 1 .. i - 1 : v \in Outs(insts[j])
  <2>1. i \in Nat /\ 1 <= i /\ i <= Len(insts) BY <1>2, <1>3
  <2>2. SubSeq(insts, 1, i - 1) = [j \in 1 .. i - 1 |-> insts[j]]
    BY <1>1, <1>2, <2>1
  <2>3. /\ DOMAIN SubSeq(insts, 1, i - 1) = 1 .. i - 1
        /\ \A j \in 1 .. i - 1 : SubSeq(insts, 1, i - 1)[j] = insts[j]
    BY <2>2
  <2> QED BY <2>3 DEF Defined
<1> QED BY <1>3 DEF UsedFirst

\* Blocks that use v, those that do not define it and those that have it live.
Using(use, v) == {b \in Blocks : v \in use[b]}
Clear(def, v) == {b \in Blocks : v \notin def[b]}
With(v, live) == {b \in Blocks : v \in live[b]}

\* The blocks with v live after a round are those that use it, and those that pass
\* it on to one with v live before.
LEMMA RoundAdds ==
  ASSUME Wellformed(machine.succ), NEW use, NEW def, NEW last, NEW v
  PROVE  With(v, LiveRound(machine.succ, use, def, last)) =
           Using(use, v) \cup PassesOn(Clear(def, v), With(v, last))
<1> DEFINE next == LiveRound(machine.succ, use, def, last)
           live == With(v, last)
           found == Using(use, v) \cup PassesOn(Clear(def, v), live)
<1>1. \A b \in Blocks : ToSet(machine.succ[b]) \subseteq Blocks
  BY DEF Wellformed, ToSet, Blocks
<1>2. ASSUME NEW b \in Blocks
      PROVE  v \in next[b] <=> \/ v \in LiveOut(machine.succ, last, b) /\ v \notin def[b]
                               \/ v \in use[b]
  <2>1. b \in DOMAIN machine.succ BY DEF Blocks
  <2> QED BY <2>1 DEF LiveRound
<1>3. ASSUME NEW b \in Blocks
      PROVE  v \in LiveOut(machine.succ, last, b) <=> ToSet(machine.succ[b]) \cap live # {}
  BY <1>1, <1>3 DEF LiveOut, With
<1> HIDE DEF live, next
<1>4. ASSUME NEW b \in Blocks PROVE v \in next[b] <=> b \in found
  BY <1>2, <1>3, <1>4 DEF Using, Clear, PassesOn
<1>5. found \subseteq Blocks BY DEF Using, Clear, PassesOn
<1> HIDE DEF found
<1>6. With(v, next) = found BY <1>4, <1>5 DEF With
<1> QED BY <1>6 DEF found, live, next

\* More to pass on to, more that pass it on.
LEMMA PassesMonotone ==
  ASSUME NEW through, NEW s, NEW t, s \subseteq t
  PROVE  PassesOn(through, s) \subseteq PassesOn(through, t)
BY DEF PassesOn

\* Paths of one step more: rounds and paths go together.
LEMMA RoundsFollowPaths ==
  ASSUME NEW N \in Nat, NEW through, NEW first, NEW S, Rounds(through, first, S, N),
         NEW W, Paths(through, first, W, N),
         NEW k \in 0 .. N
  PROVE  S[k + 1] = W[k]
<1> USE DEF Rounds, Paths
<1> DEFINE Other == {n \in 0 .. N : S[n + 1] # W[n]}
<1> SUFFICES ASSUME Other # {} PROVE FALSE OBVIOUS
<1>1. PICK m \in Other : \A n \in Other : m <= n
  <2>1. Other \in SUBSET Nat OBVIOUS
  <2> HIDE DEF Other
  <2> QED BY <2>1, Least
<1>2. PassesOn(through, {}) = {} BY DEF PassesOn
<1>3. m # 0
  <2> SUFFICES ASSUME m = 0 PROVE FALSE OBVIOUS
  <2>1. 0 \in 0 .. N OBVIOUS
  <2>2. S[0 + 1] = first BY <1>2, <2>1
  <2> QED BY <1>1, <2>2
<1>4. m \in 1 .. N /\ m - 1 \in 0 .. N /\ m - 1 \in 0 .. N - 1 /\ (m - 1) + 1 = m /\ ~(m <= m - 1)
  BY <1>1, <1>3
<1>5. S[m] = W[m - 1] BY <1>1, <1>4
<1>6. W[m] = W[m - 1] \cup PassesOn(through, W[m - 1])
  BY <1>4
<1>7. S[m + 1] = first \cup PassesOn(through, S[m])
  BY <1>4
<1>8. W[m - 1] \subseteq first \cup PassesOn(through, W[m - 1])
  <2>1. CASE m = 1 BY <2>1
  <2>2. CASE m # 1
    <3>1. m - 2 \in 0 .. N - 1 /\ m - 1 \in 0 .. N /\ (m - 2) + 1 = m - 1 BY <1>4, <2>2
    <3>2. W[m - 1] = W[m - 2] \cup PassesOn(through, W[m - 2]) BY <3>1
    <3>3. W[m - 2] \subseteq W[m - 1] BY <3>2
    <3>4. m - 2 \in 0 .. N /\ ~(m <= m - 2) BY <1>4, <3>1
    <3>5. S[m - 1] = W[m - 2] BY <1>1, <3>1, <3>4
    <3>6. S[m] = first \cup PassesOn(through, S[m - 1]) BY <1>4, <3>1
    <3>7. PassesOn(through, W[m - 2]) \subseteq PassesOn(through, W[m - 1]) BY <3>3, PassesMonotone
    <3> QED BY <1>5, <3>5, <3>6, <3>7
  <2> QED BY <2>1, <2>2
<1>9. first \subseteq W[m - 1]
  <2>1. m - 1 \in 0 .. N /\ m - 1 \in Nat BY <1>4
  <2> DEFINE Without == {n \in 0 .. m - 1 : ~first \subseteq W[n]}
  <2>2. Without = {}
    <3> SUFFICES ASSUME Without # {} PROVE FALSE OBVIOUS
    <3>1. PICK j \in Without : \A n \in Without : j <= n
      <4>1. Without \in SUBSET Nat BY <2>1
      <4> HIDE DEF Without
      <4> QED BY <4>1, Least
    <3>2. j # 0 /\ j \in 0 .. m - 1 BY <3>1
    <3>3. j - 1 \in 0 .. m - 1 /\ j - 1 \in 0 .. N - 1 /\ (j - 1) + 1 = j /\ ~(j <= j - 1)
      BY <1>4, <3>2
    <3>4. W[j] = W[j - 1] \cup PassesOn(through, W[j - 1]) BY <3>3
    <3>5. first \subseteq W[j - 1] BY <3>1, <3>3
    <3> QED BY <3>1, <3>4, <3>5
  <2>3. m - 1 \in 0 .. m - 1 BY <2>1
  <2> QED BY <2>2, <2>3
<1> QED BY <1>1, <1>5, <1>6, <1>7, <1>8, <1>9

\* What is live on entry to a block is what some path from there uses before it is
\* defined, whatever is used and defined.
LEMMA LiveInIsExact ==
  ASSUME Wellformed(machine.succ), NEW use, NEW def, NEW v
  PROVE  With(v, LiveIn(machine.succ, use, def)) = LeadTo(Clear(def, v), Using(use, v))
<1>0. PICK N, succ : N = Len(machine.succ) /\ succ = machine.succ OBVIOUS
<1> DEFINE next(live) == LiveRound(machine.succ, use, def, live)
<1>1. N \in Nat /\ N > 0 /\ Blocks = 1 .. N /\ DOMAIN machine.succ = Blocks
  BY <1>0 DEF Wellformed, Blocks
<1>2. PICK R : /\ \A b \in Blocks : R[0][b] = {}
               /\ \A n \in 0 .. N : R[n + 1] = next(R[n])
               /\ (\E n \in 0 .. N : R[n + 1] = R[n]) =>
                     \E n \in 0 .. N : R[n + 1] = R[n] /\ LiveIn(machine.succ, use, def) = R[n]
  <2>1. Len(succ) \in Nat BY <1>0, <1>1
  <2>2. PICK R : RoundsOf(succ, use, def, R) BY <2>1, LiveRounds, Zenon
  <2>5. \A n \in 0 .. N : R[n + 1] = next(R[n]) BY <1>0, <2>2 DEF RoundsOf
  <2>6. \A b \in Blocks : R[0][b] = {} BY <1>0, <1>1, <2>2 DEF RoundsOf
  <2>7. (\E n \in 0 .. N : R[n + 1] = R[n]) =>
          \E n \in 0 .. N : R[n + 1] = R[n] /\ LiveIn(machine.succ, use, def) = R[n]
    BY <1>0, <2>2 DEF RoundsOf
  <2> QED BY <2>5, <2>6, <2>7, Zenon
\* The rounds for one register.
<1>4. ASSUME NEW x
      PROVE  With(x, R[N + 1]) = With(x, R[N]) /\ With(x, R[N + 1]) = LeadTo(Clear(def, x), Using(use, x))
  <2>0. PICK S : S = [n \in 0 .. N + 1 |-> With(x, R[n])] OBVIOUS
  <2>1. S[0] = {} BY <1>1, <1>2, <2>0 DEF With
  <2>2. \A n \in 0 .. N : S[n + 1] = Using(use, x) \cup PassesOn(Clear(def, x), S[n])
    <3> SUFFICES ASSUME NEW n \in 0 .. N
                 PROVE  S[n + 1] = Using(use, x) \cup PassesOn(Clear(def, x), S[n])
      OBVIOUS
    <3>1. R[n + 1] = next(R[n]) BY <1>2
    <3>2. S[n + 1] = With(x, R[n + 1]) /\ S[n] = With(x, R[n]) BY <1>1, <2>0
    <3>3. With(x, next(R[n])) = Using(use, x) \cup PassesOn(Clear(def, x), With(x, R[n]))
      BY RoundAdds, SMT
    <3> QED BY <3>1, <3>2, <3>3
  <2>3. PICK W : Paths(Clear(def, x), Using(use, x), W, N) /\ LeadTo(Clear(def, x), Using(use, x)) = W[N]
    BY <1>0, <1>1, PathSteps, Zenon
  <2>4. \A n \in 0 .. N : S[n + 1] = W[n]
    <3>1. N \in Nat /\ Rounds(Clear(def, x), Using(use, x), S, N) BY <1>1, <2>1, <2>2 DEF Rounds
    <3>2. ASSUME NEW n \in 0 .. N PROVE S[n + 1] = W[n] BY <2>3, <3>1, <3>2, RoundsFollowPaths
    <3> QED BY <3>2
  <2>5. GrowsUntil(W, N)
    <3> USE <2>3 DEF Paths
    <3>1. \A n \in 0 .. N - 1 : W[n] \subseteq W[n + 1] OBVIOUS
    <3>2. ASSUME NEW n \in 0 .. N - 2, W[n + 1] = W[n] PROVE W[n + 2] = W[n + 1]
      <4>1. n \in 0 .. N - 1 /\ n + 1 \in 0 .. N - 1 /\ (n + 1) + 1 = n + 2 BY <1>1
      <4>2. W[n + 1] = W[n] \cup PassesOn(Clear(def, x), W[n]) BY <4>1
      <4>3. W[n + 2] = W[n + 1] \cup PassesOn(Clear(def, x), W[n + 1]) BY <4>1
      <4> QED BY <3>2, <4>2, <4>3
    <3>3. W[0] = {} => W[1] = {}
      <4>1. PassesOn(Clear(def, x), {}) = {} BY DEF PassesOn
      <4>2. 0 \in 0 .. N - 1 /\ 0 + 1 = 1 BY <1>1
      <4>3. W[1] = W[0] \cup PassesOn(Clear(def, x), W[0]) BY <4>2
      <4> QED BY <4>1, <4>3
    <3> QED BY <1>1, <3>1, <3>2, <3>3 DEF GrowsUntil
  <2>6. W[N] \subseteq Blocks /\ IsFiniteSet(W[N]) /\ Cardinality(W[N]) <= N
    <3>1. W[N] \subseteq Blocks
      <4>1. S[N + 1] = W[N] BY <1>1, <2>4
      <4>2. S[N + 1] = With(x, R[N + 1]) BY <1>1, <2>0
      <4> QED BY <4>1, <4>2 DEF With
    <3>2. IsFiniteSet(Blocks) /\ Cardinality(Blocks) = N BY <1>1, FS_Interval
    <3> QED BY <3>1, <3>2, FS_Subset
  <2>7. W[N] = W[N - 1] BY <1>1, <2>5, <2>6, LastStepAddsNothing
  <2>8. S[N + 1] = W[N] /\ S[N] = W[N - 1]
    <3>1. N \in 0 .. N /\ N - 1 \in 0 .. N /\ (N - 1) + 1 = N BY <1>1
    <3> QED BY <2>4, <3>1
  <2>9. S[N + 1] = With(x, R[N + 1]) /\ S[N] = With(x, R[N]) BY <1>1, <2>0
  <2> QED BY <2>3, <2>7, <2>8, <2>9
\* So the last round changes nothing, and the computation ends.
<1>5. R[N + 1] = R[N]
  <2>1. \A n \in 0 .. N : R[n + 1] = [b \in Blocks |-> R[n + 1][b]]
    BY <1>1, <1>2 DEF LiveRound
  <2>2. R[N + 1] = [b \in Blocks |-> R[N + 1][b]]
    <3>1. N \in 0 .. N BY <1>1
    <3> QED BY <2>1, <3>1
  <2>3. R[N] = [b \in Blocks |-> R[N][b]]
    <3>1. N - 1 \in 0 .. N /\ (N - 1) + 1 = N BY <1>1
    <3> QED BY <2>1, <3>1
  <2>4. ASSUME NEW b \in Blocks PROVE R[N + 1][b] = R[N][b]
    <3>1. ASSUME NEW x PROVE x \in R[N + 1][b] <=> x \in R[N][b]
      <4>1. b \in With(x, R[N + 1]) <=> b \in With(x, R[N]) BY <1>4
      <4> QED BY <2>4, <4>1 DEF With
    <3> QED BY <3>1
  <2> QED BY <2>2, <2>3, <2>4
<1>6. PICK Final \in 0 .. N : R[Final + 1] = R[Final] /\ LiveIn(machine.succ, use, def) = R[Final]
  <2>1. N \in 0 .. N BY <1>1
  <2> QED BY <1>2, <1>5, <2>1
\* No round after it changes anything.
<1>7. R[N + 1] = R[Final]
  <2> DEFINE Other == {n \in Final .. N + 1 : R[n] # R[Final]}
  <2>1. Other = {}
    <3> SUFFICES ASSUME Other # {} PROVE FALSE OBVIOUS
    <3>1. PICK k \in Other : \A n \in Other : k <= n
      <4>1. Other \in SUBSET Nat BY <1>1, <1>6
      <4> HIDE DEF Other
      <4> QED BY <4>1, Least
    <3>2. k # Final /\ k # Final + 1 BY <1>6, <3>1
    <3>3. /\ k - 1 \in Final .. N + 1 /\ k - 1 \in 0 .. N /\ (k - 1) + 1 = k /\ ~(k <= k - 1)
          /\ k \in Nat /\ Final \in Nat
      BY <1>1, <1>6, <3>1, <3>2
    <3>4. R[k - 1] = R[Final] BY <3>1, <3>3
    <3>5. R[k] = next(R[k - 1]) BY <1>2, <3>3
    <3>6. R[Final + 1] = next(R[Final]) BY <1>2, <1>6
    <3> QED BY <1>6, <3>1, <3>4, <3>5, <3>6
  <2>2. N + 1 \in Final .. N + 1 BY <1>1, <1>6
  <2> QED BY <2>1, <2>2
<1>8. With(v, LiveIn(machine.succ, use, def)) = LeadTo(Clear(def, v), Using(use, v))
  BY <1>4, <1>6, <1>7
<1> QED BY <1>8

\* What a block uses first and what it defines are what its instructions say.
LEMMA UsesOfCode ==
  ASSUME NEW c, \A b \in Blocks : c[b] \in Seq(ToSet(c[b])), NEW v
  PROVE  /\ Using([b \in Blocks |-> UsedFirst(c[b])], v) = ReadsFirst(c, v)
         /\ Clear([b \in Blocks |-> Defined(c[b])], v) = Keeping(c, v)
<1>1. ASSUME NEW b \in Blocks
      PROVE  v \in UsedFirst(c[b]) <=>
               \E i \in DOMAIN c[b] : v \in Ins(c[b][i]) /\ \A j \in 1 .. i - 1 : v \notin Outs(c[b][j])
  <2>1. c[b] \in Seq(ToSet(c[b])) BY <1>1
  <2> QED BY <2>1, UsedFirstReads
<1>2. ASSUME NEW b \in Blocks
      PROVE  v \notin Defined(c[b]) <=> \A i \in DOMAIN c[b] : v \notin Outs(c[b][i])
  BY DEF Defined
<1> QED BY <1>1, <1>2 DEF Using, Clear, ReadsFirst, Keeping

\* computeLiveness finds what the paths read first.
LEMMA LivenessIsExact ==
  ASSUME Wellformed(machine.succ), NEW c, \A b \in Blocks : c[b] \in Seq(ToSet(c[b])), NEW v
  PROVE  {b \in Blocks : v \in computeLiveness(c)[b]} = ReadFirstFrom(c, v)
<1> DEFINE use == [b \in Blocks |-> UsedFirst(c[b])]
           def == [b \in Blocks |-> Defined(c[b])]
<1>1. computeLiveness(c) = LiveIn(machine.succ, use, def) BY DEF computeLiveness
<1>2. Using(use, v) = ReadsFirst(c, v) /\ Clear(def, v) = Keeping(c, v) BY UsesOfCode
<1> HIDE DEF use, def
<1>3. With(v, computeLiveness(c)) = LeadTo(Clear(def, v), Using(use, v)) BY <1>1, LiveInIsExact
<1> QED BY <1>2, <1>3 DEF With, ReadFirstFrom

\* A sequence is one of its elements.
LEMMA SequenceOfElements ==
  ASSUME NEW S, NEW q \in Seq(S)
  PROVE  q \in Seq(ToSet(q))
<1>1. Len(q) \in Nat /\ DOMAIN q = 1 .. Len(q) OBVIOUS
<1>2. \A i \in 1 .. Len(q) : q[i] \in ToSet(q) BY <1>1 DEF ToSet
<1>3. q = [i \in 1 .. Len(q) |-> q[i]] BY <1>1
<1>4. [i \in 1 .. Len(q) |-> q[i]] \in Seq(ToSet(q))
  <2> HIDE DEF ToSet
  <2> QED BY <1>1, <1>2
<1> QED BY <1>3, <1>4

\* LiveAfter goes back from the last instruction: L[i] is live before the i-th.
WalksBack(insts, out, L) ==
  /\ L[Len(insts) + 1] = out
  /\ \A i \in 1 .. Len(insts) :
       L[i] = Before(insts[i], L[i + 1]) /\ LiveAfter(insts, out)[i] = L[i + 1]

LEMMA LiveAfterSteps ==
  ASSUME NEW insts, insts \in Seq(ToSet(insts)), NEW out
  PROVE  \E L : WalksBack(insts, out, L)
<1> DEFINE N == Len(insts)
           Down(f, m) == f = [i \in m .. N + 1 |-> IF i = N + 1 THEN out ELSE Before(insts[i], f[i + 1])]
           NotDown == {k \in 0 .. N : ~ \E f : Down(f, N + 1 - k)}
<1>1. N \in Nat /\ DOMAIN insts = 1 .. N
  <2> DEFINE S == ToSet(insts)
  <2>1. insts \in Seq(S) OBVIOUS
  <2> HIDE DEF S
  <2> QED BY <2>1
<1> HIDE DEF N
<1>2. NotDown = {}
  <2> SUFFICES ASSUME NotDown # {} PROVE FALSE OBVIOUS
  <2>1. PICK k \in NotDown : \A n \in NotDown : k <= n
    <3> HIDE DEF Down
    <3>1. NotDown \in SUBSET Nat OBVIOUS
    <3> HIDE DEF NotDown
    <3> QED BY <3>1, Least
  <2>2. CASE k = 0
    <3> DEFINE f == [i \in N + 1 .. N + 1 |-> out]
    <3>1. \A i \in N + 1 .. N + 1 : i = N + 1 BY <1>1
    <3>2. Down(f, N + 1) BY <3>1
    <3>3. N + 1 - k = N + 1 BY <1>1, <2>2
    <3> HIDE DEF f, Down
    <3> QED BY <3>2, <3>3, <2>1
  <2>3. CASE k # 0
    <3> DEFINE m == N + 1 - k
    <3>1. k \in 1 .. N /\ k - 1 \in 0 .. N /\ ~(k <= k - 1) BY <1>1, <2>1, <2>3
    <3>2. m \in 1 .. N /\ N + 1 - (k - 1) = m + 1 BY <1>1, <3>1
    <3>3. PICK f : Down(f, m + 1)
      <4> HIDE DEF Down
      <4>1. k - 1 \notin NotDown BY <2>1, <3>1
      <4> QED BY <3>1, <3>2, <4>1
    <3> HIDE DEF m
    <3> DEFINE g == [i \in m .. N + 1 |-> IF i = m THEN Before(insts[m], f[m + 1]) ELSE f[i]]
    <3>4. ASSUME NEW i \in m .. N + 1
          PROVE  g[i] = IF i = N + 1 THEN out ELSE Before(insts[i], g[i + 1])
      <4>1. CASE i = m
        <5>1. m + 1 \in m .. N + 1 /\ m + 1 # m /\ m # N + 1 BY <1>1, <3>2
        <5> QED BY <4>1, <5>1
      <4>2. CASE i # m
        <5>1. i \in m + 1 .. N + 1 BY <1>1, <3>2, <4>2
        <5>2. i # N + 1 => i + 1 \in m .. N + 1 /\ i + 1 # m BY <1>1, <3>2, <5>1
        <5>3. f[i] = IF i = N + 1 THEN out ELSE Before(insts[i], f[i + 1]) BY <3>3, <5>1
        <5> QED BY <4>2, <5>2, <5>3
      <4> QED BY <4>1, <4>2
    <3>5. Down(g, m) BY <3>4
    <3> HIDE DEF g, Down
    <3> QED BY <3>5, <2>1 DEF m
  <2> QED BY <2>2, <2>3
<1>3. \E f : Down(f, 1)
  <2> HIDE DEF Down
  <2>1. N \in 0 .. N /\ N + 1 - N = 1 BY <1>1
  <2> QED BY <1>2, <2>1
<1> DEFINE L == CHOOSE f : Down(f, 1)
<1>4. Down(L, 1) BY <1>3
<1>5. LiveAfter(insts, out) = [i \in DOMAIN insts |-> L[i + 1]]
  BY Zenon DEF LiveAfter, N
<1> HIDE DEF L
<1>6. L[N + 1] = out
  <2>1. N + 1 \in 1 .. N + 1 BY <1>1
  <2> QED BY <1>4, <2>1
<1>7. ASSUME NEW i \in 1 .. N PROVE L[i] = Before(insts[i], L[i + 1])
  <2>1. i \in 1 .. N + 1 /\ i # N + 1 BY <1>1
  <2> QED BY <1>4, <2>1
<1> HIDE DEF Down
<1>8. \A i \in 1 .. N : LiveAfter(insts, out)[i] = L[i + 1] BY <1>1, <1>5
<1> QED BY <1>6, <1>7, <1>8 DEF N, WalksBack

\* From instruction i of insts on, v is read before it is written, or it is not
\* written and is in out.
ReadOn(insts, v, i, out) ==
  \/ \E j \in i .. Len(insts) : v \in Ins(insts[j]) /\ \A k \in i .. j - 1 : v \notin Outs(insts[k])
  \/ v \in out /\ \A k \in i .. Len(insts) : v \notin Outs(insts[k])

\* The first of the instructions reads it, or leaves it to the others.
LEMMA ReadOnStep ==
  ASSUME NEW insts, Len(insts) \in Nat, NEW v, NEW i \in 1 .. Len(insts), NEW out
  PROVE  ReadOn(insts, v, i, out) <=>
           v \in Ins(insts[i]) \/ (v \notin Outs(insts[i]) /\ ReadOn(insts, v, i + 1, out))
<1> DEFINE N == Len(insts)
           reads(j) == v \in Ins(insts[j])
           writes(j) == v \in Outs(insts[j])
<1>1. N \in Nat /\ i \in 1 .. N OBVIOUS
<1>2. ReadOn(insts, v, i, out) <=>
        \/ \E j \in i .. N : reads(j) /\ \A k \in i .. j - 1 : ~writes(k)
        \/ v \in out /\ \A k \in i .. N : ~writes(k)
  BY DEF ReadOn
<1>3. ReadOn(insts, v, i + 1, out) <=>
        \/ \E j \in i + 1 .. N : reads(j) /\ \A k \in i + 1 .. j - 1 : ~writes(k)
        \/ v \in out /\ \A k \in i + 1 .. N : ~writes(k)
  BY DEF ReadOn
<1> HIDE DEF N, reads, writes
<1>4. (\A k \in i .. N : ~writes(k)) <=> ~writes(i) /\ \A k \in i + 1 .. N : ~writes(k) BY <1>1
<1>5. (\E j \in i .. N : reads(j) /\ \A k \in i .. j - 1 : ~writes(k)) <=>
        \/ reads(i)
        \/ ~writes(i) /\ \E j \in i + 1 .. N : reads(j) /\ \A k \in i + 1 .. j - 1 : ~writes(k)
  <2>1. ASSUME NEW j \in i .. N, reads(j), \A k \in i .. j - 1 : ~writes(k), ~reads(i)
        PROVE  ~writes(i) /\ j \in i + 1 .. N /\ \A k \in i + 1 .. j - 1 : ~writes(k)
    <3>1. j # i BY <2>1
    <3>2. i \in i .. j - 1 /\ j \in i + 1 .. N BY <1>1, <3>1
    <3>3. \A k \in i + 1 .. j - 1 : k \in i .. j - 1 BY <1>1
    <3> QED BY <2>1, <3>2, <3>3
  <2>2. ASSUME reads(i) PROVE \E j \in i .. N : reads(j) /\ \A k \in i .. j - 1 : ~writes(k)
    <3>1. i \in i .. N /\ i .. i - 1 = {} BY <1>1
    <3> QED BY <2>2, <3>1
  <2>3. ASSUME ~writes(i), NEW j \in i + 1 .. N, reads(j), \A k \in i + 1 .. j - 1 : ~writes(k)
        PROVE  j \in i .. N /\ \A k \in i .. j - 1 : ~writes(k)
    <3>1. j \in i .. N BY <1>1
    <3>2. \A k \in i .. j - 1 : k = i \/ k \in i + 1 .. j - 1 BY <1>1
    <3> QED BY <2>3, <3>1, <3>2
  <2> QED BY <2>1, <2>2, <2>3
<1>6. ReadOn(insts, v, i, out) <=> reads(i) \/ (~writes(i) /\ ReadOn(insts, v, i + 1, out))
  BY <1>2, <1>3, <1>4, <1>5
<1> QED BY <1>6 DEF reads, writes

\* What the walk back finds live is what is read on.
LEMMA LiveAfterReads ==
  ASSUME NEW insts, insts \in Seq(ToSet(insts)), NEW out, NEW v, NEW i \in 1 .. Len(insts)
  PROVE  v \in LiveAfter(insts, out)[i] <=> ReadOn(insts, v, i + 1, out)
<1> DEFINE N == Len(insts)
<1>1. N \in Nat
  <2> DEFINE S == ToSet(insts)
  <2>1. insts \in Seq(S) OBVIOUS
  <2> HIDE DEF S
  <2> QED BY <2>1
<1>2. PICK L : WalksBack(insts, out, L) BY LiveAfterSteps, Zenon
<1>3. /\ L[N + 1] = out
      /\ \A j \in 1 .. N : L[j] = Before(insts[j], L[j + 1]) /\ LiveAfter(insts, out)[j] = L[j + 1]
  BY <1>2 DEF WalksBack
<1>4. Len(insts) = N OBVIOUS
<1> HIDE DEF N
<1> DEFINE Wrong == {k \in 0 .. N : ~(v \in L[N + 1 - k] <=> ReadOn(insts, v, N + 1 - k, out))}
<1>5. Wrong = {}
  <2> SUFFICES ASSUME Wrong # {} PROVE FALSE OBVIOUS
  <2>1. PICK k \in Wrong : \A n \in Wrong : k <= n
    <3>1. Wrong \in SUBSET Nat OBVIOUS
    <3> HIDE DEF Wrong
    <3> QED BY <3>1, Least
  <2> DEFINE m == N + 1 - k
  <2>2. k \in 0 .. N /\ ~(v \in L[m] <=> ReadOn(insts, v, m, out)) BY <2>1
  <2>3. CASE k = 0
    <3>1. m = N + 1 BY <1>1, <2>3
    <3>2. N + 1 .. N = {} BY <1>1
    <3>3. ReadOn(insts, v, N + 1, out) <=> v \in out BY <1>4, <3>2 DEF ReadOn
    <3> HIDE DEF m
    <3> QED BY <1>3, <2>2, <3>1, <3>3
  <2>4. CASE k # 0
    <3>1. k - 1 \in 0 .. N /\ ~(k <= k - 1) /\ N + 1 - (k - 1) = m + 1 /\ m \in 1 .. N BY <1>1, <2>2, <2>4
    <3>2. v \in L[m + 1] <=> ReadOn(insts, v, m + 1, out)
      <4>1. k - 1 \notin Wrong BY <2>1, <3>1
      <4> QED BY <3>1, <4>1
    <3> HIDE DEF m
    <3>3. L[m] = (L[m + 1] \ Outs(insts[m])) \cup Ins(insts[m]) BY <1>3, <3>1 DEF Before
    <3>4. v \in L[m] <=> v \in Ins(insts[m]) \/ (v \notin Outs(insts[m]) /\ v \in L[m + 1]) BY <3>3
    <3>5. ReadOn(insts, v, m, out) <=>
            v \in Ins(insts[m]) \/ (v \notin Outs(insts[m]) /\ ReadOn(insts, v, m + 1, out))
      BY <1>1, <1>4, <3>1, ReadOnStep
    <3> QED BY <2>2, <3>2, <3>4, <3>5
  <2> QED BY <2>3, <2>4
<1>6. i \in 1 .. N /\ N - i \in 0 .. N /\ N + 1 - (N - i) = i + 1 BY <1>1, <1>4
<1>7. v \in L[i + 1] <=> ReadOn(insts, v, i + 1, out)
  <2>1. N - i \notin Wrong BY <1>5
  <2> QED BY <1>6, <2>1
<1> QED BY <1>3, <1>6, <1>7

\* What is live after an instruction is what a path from there reads first, if
\* that is so on entry to the blocks that follow.
LEMMA LiveAfterFrom ==
  ASSUME NEW c, \A b \in Blocks : c[b] \in Seq(ToSet(c[b])), NEW v, NEW live, NEW b \in Blocks,
         \A s \in ToSet(machine.succ[b]) : v \in live[s] <=> s \in ReadFirstFrom(c, v),
         NEW i \in DOMAIN c[b]
  PROVE  v \in LiveAfterIn(c, live, b)[i] <=> ReadAfter(c, v, b, i)
<1> DEFINE out == LiveOut(machine.succ, live, b)
           insts == c[b]
<1>1. insts \in Seq(ToSet(insts)) OBVIOUS
<1>2. Len(insts) \in Nat /\ DOMAIN insts = 1 .. Len(insts)
  <2> DEFINE S == ToSet(insts)
  <2>1. insts \in Seq(S) BY <1>1
  <2> HIDE DEF S, insts
  <2> QED BY <2>1
<1>3. v \in out <=> \E s \in ToSet(machine.succ[b]) : s \in ReadFirstFrom(c, v)
  BY DEF LiveOut
<1>4. LiveAfterIn(c, live, b) = LiveAfter(insts, out) BY DEF LiveAfterIn
<1> HIDE DEF out, insts
<1>5. i \in 1 .. Len(insts) BY <1>2 DEF insts
<1>6. v \in LiveAfter(insts, out)[i] <=> ReadOn(insts, v, i + 1, out)
  BY <1>1, <1>5, LiveAfterReads
<1>7. ReadOn(insts, v, i + 1, out) <=> ReadAfter(c, v, b, i)
  BY <1>3 DEF ReadOn, ReadAfter, insts
<1> QED BY <1>4, <1>6, <1>7

LEMMA LiveAfterIsExact ==
  ASSUME Wellformed(machine.succ), NEW c, \A b \in Blocks : c[b] \in Seq(ToSet(c[b])),
         NEW v, NEW b \in Blocks, NEW i \in DOMAIN c[b]
  PROVE  v \in LiveAfterIn(c, computeLiveness(c), b)[i] <=> ReadAfter(c, v, b, i)
<1> DEFINE live == computeLiveness(c)
<1>1. ToSet(machine.succ[b]) \subseteq Blocks BY DEF Wellformed, ToSet, Blocks
<1>2. {s \in Blocks : v \in live[s]} = ReadFirstFrom(c, v) BY LivenessIsExact
<1> HIDE DEF live
<1>3. \A s \in ToSet(machine.succ[b]) : v \in live[s] <=> s \in ReadFirstFrom(c, v)
  BY <1>1, <1>2
<1>4. v \in LiveAfterIn(c, live, b)[i] <=> ReadAfter(c, v, b, i) BY <1>3, LiveAfterFrom
<1> QED BY <1>4 DEF live

-----------------------------------------------------------------------------
(***************************************************************************)
(* The stack map is the liveness of code that reads and writes slots, but  *)
(* that the first block defines the parameters: as no jump leads to it,    *)
(* that changes nothing elsewhere.                                         *)
(***************************************************************************)
NoJumpToFirst == \A b \in Blocks : 1 \notin ToSet(machine.succ[b])

LEMMA LeadToApart ==
  ASSUME Len(machine.succ) \in Nat, NoJumpToFirst, NEW first,
         NEW through \in SUBSET Blocks, NEW other \in SUBSET Blocks,
         \A b \in Blocks \ {1} : b \in through <=> b \in other,
         NEW b, b # 1
  PROVE  b \in LeadTo(through, first) <=> b \in LeadTo(other, first)
<1> DEFINE N == Len(machine.succ)
<1>1. PICK V : Paths(through, first, V, N) /\ LeadTo(through, first) = V[N] BY PathSteps, Zenon
<1>2. PICK W : Paths(other, first, W, N) /\ LeadTo(other, first) = W[N] BY PathSteps, Zenon
<1>3. N \in Nat OBVIOUS
<1> HIDE DEF N
<1> DEFINE Apart == {n \in 0 .. N : \E x : x # 1 /\ ~(x \in V[n] <=> x \in W[n])}
<1>4. Apart = {}
  <2> SUFFICES ASSUME Apart # {} PROVE FALSE OBVIOUS
  <2>1. PICK m \in Apart : \A n \in Apart : m <= n
    <3>1. Apart \in SUBSET Nat OBVIOUS
    <3> HIDE DEF Apart
    <3> QED BY <3>1, Least
  <2>2. m # 0 BY <1>1, <1>2, <2>1 DEF Paths
  <2>3. m - 1 \in 0 .. N - 1 /\ m - 1 \in 0 .. N /\ (m - 1) + 1 = m /\ ~(m <= m - 1)
    BY <1>3, <2>1, <2>2
  <2>4. \A x : x # 1 => (x \in V[m - 1] <=> x \in W[m - 1]) BY <2>1, <2>3
  <2>5. V[m] = V[m - 1] \cup PassesOn(through, V[m - 1])
    BY <1>1, <2>3 DEF Paths
  <2>6. W[m] = W[m - 1] \cup PassesOn(other, W[m - 1])
    BY <1>2, <2>3 DEF Paths
  <2>7. \A x \in Blocks \ {1} : ToSet(machine.succ[x]) \cap V[m - 1] # {} <=>
                                ToSet(machine.succ[x]) \cap W[m - 1] # {}
    BY <2>4 DEF NoJumpToFirst
  <2>8. \A x : x # 1 => (x \in PassesOn(through, V[m - 1]) <=> x \in PassesOn(other, W[m - 1]))
    BY <2>7 DEF PassesOn
  <2> QED BY <2>1, <2>4, <2>5, <2>6, <2>8
<1>5. N \in 0 .. N BY <1>3
<1> QED BY <1>1, <1>2, <1>4, <1>5

\* So a call's slots are those that a path from there loads before it saves them.
LEMMA StackMapIsExact ==
  ASSUME Wellformed(machine.succ), NoJumpToFirst, NEW types,
         NEW c, \A b \in Blocks : c[b] \in Seq(ToSet(c[b])),
         NEW b \in Blocks, NEW i \in DOMAIN c[b], c[b][i].op = "call", NEW s
  PROVE  s \in StackMap(types, c)[b][i].map <=> ReadAfter(SlotCode(types, c), s, b, i)
<1> DEFINE slots == SlotCode(types, c)
           use == [x \in Blocks |-> UsedFirst(slots[x])]
           def == [x \in Blocks |-> Defined(slots[x])]
           def1 == [x \in Blocks |-> Defined(slots[x]) \cup IF x = 1 THEN Parameters ELSE {}]
           live == LiveIn(machine.succ, use, def1)
<1>1. StackMap(types, c)[b][i].map = LiveAfterIn(slots, live, b)[i]
  <2>1. StackMap(types, c) = [x \in Blocks |-> Mapped(c[x], LiveAfterIn(slots, live, x))]
    BY Zenon DEF StackMap
  <2> HIDE DEF slots, live
  <2>2. StackMap(types, c)[b] = Mapped(c[b], LiveAfterIn(slots, live, b)) BY <2>1
  <2> QED BY <2>2 DEF Mapped
<1>2. \A x \in Blocks : slots[x] \in Seq(ToSet(slots[x])) /\ DOMAIN slots[x] = DOMAIN c[x]
  <2> SUFFICES ASSUME NEW x \in Blocks
               PROVE  slots[x] \in Seq(ToSet(slots[x])) /\ DOMAIN slots[x] = DOMAIN c[x]
    OBVIOUS
  <2>1. slots[x] = [j \in DOMAIN c[x] |-> SlotsOf(types, c[x][j])] BY DEF SlotCode
  <2>2. Len(c[x]) \in Nat /\ DOMAIN c[x] = 1 .. Len(c[x])
    <3> DEFINE q == c[x]
               S == ToSet(q)
    <3>1. q \in Seq(S) OBVIOUS
    <3> HIDE DEF q, S
    <3>2. Len(q) \in Nat /\ DOMAIN q = 1 .. Len(q) BY <3>1
    <3> QED BY <3>2 DEF q
  <2> DEFINE all == {SlotsOf(types, c[x][j]) : j \in DOMAIN c[x]}
  <2>3. \A j \in 1 .. Len(c[x]) : SlotsOf(types, c[x][j]) \in all BY <2>2
  <2> HIDE DEF slots, all
  <2>4. slots[x] \in Seq(all) BY <2>1, <2>2, <2>3
  <2>5. slots[x] \in Seq(ToSet(slots[x])) BY <2>4, SequenceOfElements
  <2> QED BY <2>1, <2>5
<1>3. With(s, live) = LeadTo(Clear(def1, s), Using(use, s))
  <2> HIDE DEF use, def1
  <2> QED BY LiveInIsExact
<1>4. Using(use, s) = ReadsFirst(slots, s) /\ Clear(def, s) = Keeping(slots, s)
  <2> HIDE DEF slots
  <2> QED BY <1>2, UsesOfCode
<1>5. \A x \in Blocks \ {1} : x \in Clear(def1, s) <=> x \in Clear(def, s)
  <2> HIDE DEF slots
  <2> QED BY DEF Clear
<1>6. Clear(def1, s) \subseteq Blocks /\ Clear(def, s) \subseteq Blocks BY DEF Clear
<1>7. Len(machine.succ) \in Nat BY DEF Wellformed
<1> HIDE DEF slots, use, def, def1, live
<1>8. ASSUME NEW x \in ToSet(machine.succ[b])
      PROVE  s \in live[x] <=> x \in ReadFirstFrom(slots, s)
  <2>1. x \in Blocks BY <1>8 DEF Wellformed, ToSet, Blocks
  <2>2. x # 1 BY <1>8 DEF NoJumpToFirst
  <2>3. x \in LeadTo(Clear(def1, s), Using(use, s)) <=> x \in LeadTo(Clear(def, s), Using(use, s))
    BY <1>5, <1>6, <1>7, <2>2, LeadToApart
  <2> QED BY <1>3, <1>4, <2>1, <2>3 DEF With, ReadFirstFrom
<1>9. i \in DOMAIN slots[b] BY <1>2
<1>10. s \in LiveAfterIn(slots, live, b)[i] <=> ReadAfter(slots, s, b, i)
  BY <1>2, <1>8, <1>9, LiveAfterFrom
<1> QED BY <1>1, <1>10 DEF slots

-----------------------------------------------------------------------------
\* Sequences of instructions that read finitely many operands each.
Finite(inst) == "in" \in DOMAIN inst /\ IsFiniteSet(DOMAIN inst.in)
Instructions(insts) == insts \in Seq(ToSet(insts)) /\ \A inst \in ToSet(insts) : Finite(inst)

\* Until the frame is made the code is the blocks of the function, which no jump
\* leads to the first of.
Machines ==
  /\ Wellformed(machine.succ) /\ NoJumpToFirst
  /\ pc \notin {"run", "aborted"} => DOMAIN code = Blocks /\ \A b \in Blocks : Instructions(code[b])

\* A sequence's domain, and instructions put one by one.
LEMMA SequenceDomain ==
  ASSUME NEW q, q \in Seq(ToSet(q))
  PROVE  Len(q) \in Nat /\ DOMAIN q = 1 .. Len(q)
<1> DEFINE S == ToSet(q)
<1>1. q \in Seq(S) OBVIOUS
<1> HIDE DEF S
<1> QED BY <1>1

LEMMA InstructionsAre ==
  ASSUME NEW n \in Nat, NEW insts, insts = [i \in 1 .. n |-> insts[i]],
         \A i \in 1 .. n : Finite(insts[i])
  PROVE  Instructions(insts)
<1> DEFINE all == {insts[i] : i \in 1 .. n}
<1>1. \A i \in 1 .. n : insts[i] \in all OBVIOUS
<1>2. DOMAIN insts = 1 .. n OBVIOUS
<1>3. [i \in 1 .. n |-> insts[i]] \in Seq(all)
  <2> HIDE DEF all
  <2> QED BY <1>1
<1>4. insts \in Seq(all)
  <2> HIDE DEF all
  <2> QED BY <1>3
<1>5. insts \in Seq(ToSet(insts))
  <2> HIDE DEF all
  <2> QED BY <1>4, SequenceOfElements
<1> QED BY <1>2, <1>5 DEF Instructions, ToSet

\* Renaming registers leaves blocks sequences.
LEMMA CoalescedBlocks ==
  ASSUME NEW c, \A b \in Blocks : Instructions(c[b])
  PROVE  DOMAIN coalesceMoves(c) = Blocks /\ \A b \in Blocks : Instructions(coalesceMoves(c)[b])
<1> DEFINE r == Replacements(c, computeInterference(c))
           renamed(b, i) == [c[b][i] EXCEPT !.in = Renamed(r, @), !.out = Renamed(r, @)]
           coalesced == [b \in Blocks |-> [i \in DOMAIN c[b] |-> renamed(b, i)]]
<1>1. coalesceMoves(c) = coalesced BY DEF coalesceMoves
<1>2. ASSUME NEW b \in Blocks, NEW i \in DOMAIN c[b], Finite(c[b][i])
      PROVE  Finite(renamed(b, i))
  <2>1. "in" \in DOMAIN renamed(b, i) /\ renamed(b, i).in = Renamed(r, c[b][i].in)
    BY <1>2 DEF Finite
  <2>2. DOMAIN Renamed(r, c[b][i].in) = DOMAIN c[b][i].in BY DEF Renamed
  <2> HIDE DEF renamed, r
  <2> QED BY <1>2, <2>1, <2>2 DEF Finite
<1> HIDE DEF renamed
<1>3. ASSUME NEW b \in Blocks
      PROVE  Instructions(coalesced[b])
  <2>1. coalesced[b] = [i \in DOMAIN c[b] |-> renamed(b, i)] BY <1>3
  <2>2. c[b] \in Seq(ToSet(c[b])) /\ \A i \in DOMAIN c[b] : Finite(c[b][i])
    BY <1>3 DEF Instructions, ToSet
  <2>3. Len(c[b]) \in Nat /\ DOMAIN c[b] = 1 .. Len(c[b]) BY <2>2, SequenceDomain
  <2> HIDE DEF coalesced
  <2>4. /\ coalesced[b] = [i \in 1 .. Len(c[b]) |-> coalesced[b][i]]
        /\ \A i \in 1 .. Len(c[b]) : coalesced[b][i] = renamed(b, i)
    BY <2>1, <2>3
  <2>5. \A i \in 1 .. Len(c[b]) : Finite(coalesced[b][i])
    BY <1>2, <1>3, <2>2, <2>3, <2>4
  <2> QED BY <2>3, <2>4, <2>5, InstructionsAre
<1>4. DOMAIN coalesced = Blocks OBVIOUS
<1> HIDE DEF coalesced
<1> QED BY <1>1, <1>3, <1>4

\* What is put together is instructions if its parts are.
LEMMA JoinedSequences ==
  ASSUME NEW p, Instructions(p), NEW q, Instructions(q)
  PROVE  Instructions(p \o q)
<1> DEFINE S == ToSet(p) \cup ToSet(q)
<1>1. p \in Seq(S)
  <2>1. p \in Seq(ToSet(p)) /\ ToSet(p) \subseteq S BY DEF Instructions
  <2> HIDE DEF S
  <2> QED BY <2>1
<1>2. q \in Seq(S)
  <2>1. q \in Seq(ToSet(q)) /\ ToSet(q) \subseteq S BY DEF Instructions
  <2> HIDE DEF S
  <2> QED BY <2>1
<1>3. p \o q \in Seq(S) /\ ToSet(p \o q) = ToSet(p) \cup ToSet(q)
  <2> HIDE DEF S
  <2> QED BY <1>1, <1>2, ConcatElements
<1> HIDE DEF S
<1>4. p \o q \in Seq(ToSet(p \o q)) BY <1>3, SequenceOfElements
<1> QED BY <1>3, <1>4 DEF Instructions

\* One instruction, and none.
LEMMA OneInstruction ==
  ASSUME NEW inst, Finite(inst)
  PROVE  Instructions(<<inst>>)
<1>1. <<inst>> = [i \in 1 .. 1 |-> <<inst>>[i]] /\ <<inst>>[1] = inst OBVIOUS
<1>2. \A i \in 1 .. 1 : Finite(<<inst>>[i]) BY <1>1
<1> QED BY <1>1, <1>2, InstructionsAre

LEMMA NoInstruction == Instructions(<<>>)
<1>1. <<>> \in Seq({}) OBVIOUS
<1>2. <<>> \in Seq(ToSet(<<>>)) BY <1>1, SequenceOfElements
<1> QED BY <1>2 DEF Instructions, ToSet

LEMMA LoadsAndSaves ==
  ASSUME NEW v, NEW slot
  PROVE  Finite(LoadOf(v, slot)) /\ Finite(SaveOf(v, slot))
<1>1. DOMAIN <<>> = {} /\ DOMAIN <<v>> = {1} OBVIOUS
<1>2. LoadOf(v, slot).in = <<>> /\ "in" \in DOMAIN LoadOf(v, slot) BY DEF LoadOf
<1>3. SaveOf(v, slot).in = <<v>> /\ "in" \in DOMAIN SaveOf(v, slot) BY DEF SaveOf
<1>4. IsFiniteSet({}) /\ IsFiniteSet({1}) BY FS_EmptySet, FS_Singleton
<1> QED BY <1>1, <1>2, <1>3, <1>4 DEF Finite

\* The instructions made for one are instructions.
LEMMA SpillInSequence ==
  ASSUME NEW reg, NEW slot, NEW walk, Instructions(walk.done), NEW inst, Finite(inst)
  PROVE  LET next == SpillIn(reg, slot, walk, inst) IN Instructions(next.done)
<1> DEFINE new == walk.fresh
           new2 == IF reg \in Ins(inst) THEN new + 1 ELSE new
           spilled == [inst EXCEPT !.in = Renamed(reg :> new, @), !.out = Renamed(reg :> new2, @)]
           loads == IF reg \in Ins(inst) THEN <<LoadOf(new, slot)>> ELSE <<>>
           saves == IF reg \in Outs(inst) THEN <<SaveOf(new2, slot)>> ELSE <<>>
           next == SpillIn(reg, slot, walk, inst)
<1>1. next.done = walk.done \o loads \o <<spilled>> \o saves BY DEF SpillIn
<1>2. Finite(spilled)
  <2> HIDE DEF new2
  <2>1. "in" \in DOMAIN spilled /\ spilled.in = Renamed(reg :> new, inst.in) BY DEF Finite
  <2>2. DOMAIN Renamed(reg :> new, inst.in) = DOMAIN inst.in BY DEF Renamed
  <2> HIDE DEF spilled, new
  <2> QED BY <2>1, <2>2 DEF Finite
<1> HIDE DEF spilled, new, new2, next
<1>3. Instructions(loads) /\ Instructions(saves)
  BY LoadsAndSaves, OneInstruction, NoInstruction
<1> HIDE DEF loads, saves
<1>4. Instructions(walk.done \o loads) BY <1>3, JoinedSequences
<1>5. Instructions(<<spilled>>) BY <1>2, OneInstruction
<1>6. Instructions(walk.done \o loads \o <<spilled>>) BY <1>4, <1>5, JoinedSequences
<1>7. Instructions(next.done) BY <1>1, <1>3, <1>6, JoinedSequences
<1> QED BY <1>7 DEF next

\* So a block that something is spilled in stays one.
LEMMA SpilledBlock ==
  ASSUME NEW reg, NEW slot, NEW fresh, NEW insts, Instructions(insts)
  PROVE  LET w == SpillInBlock(reg, slot, fresh, insts) IN Instructions(w.done)
<1> DEFINE N == Len(insts)
           First == [done |-> <<>>, fresh |-> fresh]
           Grow(u, i) == SpillIn(reg, slot, u, insts[i])
           Good(u) == Instructions(u.done)
           Upto(f, m) == f = [i \in 0 .. m |-> IF i = 0 THEN First ELSE Grow(f[i - 1], i)]
           NotUpto == {m \in 0 .. N : ~ \E f : Upto(f, m)}
<1>1. N \in Nat /\ \A i \in 1 .. N : Finite(insts[i])
  <2>1. N \in Nat /\ DOMAIN insts = 1 .. N BY SequenceDomain DEF Instructions
  <2> QED BY <2>1 DEF Instructions, ToSet
<1>2. Good(First) BY NoInstruction
<1>3. ASSUME NEW u, NEW i \in 1 .. N, Good(u) PROVE Good(Grow(u, i))
  BY <1>1, <1>3, SpillInSequence
<1> HIDE DEF N
<1>4. NotUpto = {}
  <2> SUFFICES ASSUME NotUpto # {} PROVE FALSE OBVIOUS
  <2>1. PICK m \in NotUpto : \A n \in NotUpto : m <= n
    <3> HIDE DEF Upto, Good
    <3>1. NotUpto \in SUBSET Nat OBVIOUS
    <3> HIDE DEF NotUpto
    <3> QED BY <3>1, Least
  <2> HIDE DEF Grow, First, Good
  <2>2. CASE m = 0
    <3>1. Upto([i \in 0 .. 0 |-> First], 0) OBVIOUS
    <3> QED BY <3>1, <2>1, <2>2
  <2>3. CASE m # 0
    <3>1. PICK f : Upto(f, m - 1)
      <4> HIDE DEF Upto
      <4>1. m - 1 \in 0 .. N /\ ~(m <= m - 1) BY <1>1, <2>1, <2>3
      <4>2. m - 1 \notin NotUpto BY <2>1, <4>1
      <4> QED BY <4>1, <4>2
    <3> DEFINE g == [i \in 0 .. m |-> IF i = m THEN Grow(f[m - 1], m) ELSE f[i]]
    <3>2. ASSUME NEW i \in 0 .. m PROVE g[i] = IF i = 0 THEN First ELSE Grow(g[i - 1], i)
      BY <3>1, <2>1, <2>3
    <3>3. Upto(g, m) BY <3>2
    <3> QED BY <3>3, <2>1
  <2> QED BY <2>2, <2>3
<1>5. \E f : Upto(f, N)
  <2> HIDE DEF Upto
  <2>1. N \in 0 .. N BY <1>1
  <2> QED BY <1>4, <2>1
<1> DEFINE W == CHOOSE f : Upto(f, N)
<1>6. Upto(W, N) BY <1>5
<1>7. SpillInBlock(reg, slot, fresh, insts) = W[N] BY Zenon DEF SpillInBlock, Through, N
<1> HIDE DEF W, First, Grow, Good
<1>8. W[0] = First /\ \A i \in 1 .. N : W[i] = Grow(W[i - 1], i) BY <1>1, <1>6
<1> HIDE DEF Upto
<1> DEFINE Bad == {i \in 0 .. N : ~Good(W[i])}
<1>9. Bad = {}
  <2> SUFFICES ASSUME Bad # {} PROVE FALSE OBVIOUS
  <2>1. PICK m \in Bad : \A n \in Bad : m <= n
    <3>1. Bad \in SUBSET Nat OBVIOUS
    <3> HIDE DEF Bad
    <3> QED BY <3>1, Least
  <2>2. m # 0 BY <1>2, <1>8, <2>1
  <2>3. m \in 1 .. N /\ m - 1 \in 0 .. N /\ ~(m <= m - 1) BY <1>1, <2>1, <2>2
  <2>4. Good(W[m - 1]) BY <2>1, <2>3
  <2>5. Good(Grow(W[m - 1], m)) BY <1>3, <2>3, <2>4
  <2> QED BY <1>8, <2>1, <2>3, <2>5
<1>10. Good(W[N])
  <2>1. N \in 0 .. N BY <1>1
  <2> QED BY <1>9, <2>1
<1> QED BY <1>7, <1>10 DEF Good

\* Spilling a register leaves the code blocks of instructions.
LEMMA SpilledBlocks ==
  ASSUME Wellformed(machine.succ), NEW c, \A b \in Blocks : Instructions(c[b]),
         NEW reg, NEW slot, NEW fresh
  PROVE  LET blocks == spillVariable(c, reg, slot, fresh).blocks
         IN  DOMAIN blocks = Blocks /\ \A b \in Blocks : Instructions(blocks[b])
<1> DEFINE order == [b \in Blocks |-> b]
           N == Len(order)
           First == [blocks |-> <<>>, fresh |-> fresh]
           In(u, b) == SpillInBlock(reg, slot, u.fresh, c[b])
           Grow(u, i) == [blocks |-> Append(u.blocks, In(u, order[i]).done),
                          fresh |-> In(u, order[i]).fresh]
           Good(u, i) == /\ u.blocks \in Seq(ToSet(u.blocks)) /\ Len(u.blocks) = i
                         /\ \A b \in 1 .. i : Instructions(u.blocks[b])
           Upto(f, m) == f = [i \in 0 .. m |-> IF i = 0 THEN First ELSE Grow(f[i - 1], i)]
           NotUpto == {m \in 0 .. N : ~ \E f : Upto(f, m)}
<1>1. N \in Nat /\ Blocks = 1 .. N /\ \A i \in 1 .. N : order[i] = i
  BY DEF Wellformed, Blocks
<1>2. Good(First, 0)
  <2>1. <<>> \in Seq({}) /\ Len(<<>>) = 0 OBVIOUS
  <2>2. <<>> \in Seq(ToSet(<<>>)) BY <2>1, SequenceOfElements
  <2> QED BY <2>1, <2>2
<1> HIDE DEF N, order
<1>3. ASSUME NEW u, NEW i \in 1 .. N, Good(u, i - 1) PROVE Good(Grow(u, i), i)
  <2> DEFINE blocks == u.blocks
             insts == In(u, order[i]).done
             S == ToSet(blocks) \cup {insts}
  <2>1. order[i] = i /\ i \in Blocks BY <1>1, <1>3
  <2>2. Instructions(insts)
    <3>1. Instructions(c[i]) BY <2>1
    <3> QED BY <2>1, <3>1, SpilledBlock
  <2>3. Grow(u, i).blocks = Append(blocks, insts) OBVIOUS
  <2>4. blocks \in Seq(ToSet(blocks)) /\ Len(blocks) = i - 1
        /\ \A b \in 1 .. i - 1 : Instructions(blocks[b])
    BY <1>3
  <2>5. ToSet(blocks) \subseteq S /\ insts \in S OBVIOUS
  <2> HIDE DEF blocks, insts, S
  <2>6. blocks \in Seq(S) BY <2>4, <2>5
  <2>7. /\ Append(blocks, insts) \in Seq(S) /\ Len(Append(blocks, insts)) = i
        /\ \A b \in 1 .. i : Append(blocks, insts)[b] = IF b = i THEN insts ELSE blocks[b]
    BY <1>1, <1>3, <2>4, <2>5, <2>6
  <2>8. Append(blocks, insts) \in Seq(ToSet(Append(blocks, insts)))
    BY <2>7, SequenceOfElements
  <2>9. ASSUME NEW b \in 1 .. i PROVE Instructions(Append(blocks, insts)[b])
    <3>1. CASE b = i BY <2>2, <2>7, <3>1
    <3>2. CASE b # i
      <4>1. b \in 1 .. i - 1 BY <1>1, <1>3, <3>2
      <4> QED BY <2>4, <2>7, <2>9, <3>2, <4>1
    <3> QED BY <3>1, <3>2
  <2> HIDE DEF Grow
  <2> QED BY <2>3, <2>7, <2>8, <2>9
<1>4. NotUpto = {}
  <2> SUFFICES ASSUME NotUpto # {} PROVE FALSE OBVIOUS
  <2>1. PICK m \in NotUpto : \A n \in NotUpto : m <= n
    <3> HIDE DEF Upto
    <3>1. NotUpto \in SUBSET Nat OBVIOUS
    <3> HIDE DEF NotUpto
    <3> QED BY <3>1, Least
  <2> HIDE DEF Grow, First
  <2>2. CASE m = 0
    <3>1. Upto([i \in 0 .. 0 |-> First], 0) OBVIOUS
    <3> QED BY <3>1, <2>1, <2>2
  <2>3. CASE m # 0
    <3>1. PICK f : Upto(f, m - 1)
      <4> HIDE DEF Upto
      <4>1. m - 1 \in 0 .. N /\ ~(m <= m - 1) BY <1>1, <2>1, <2>3
      <4>2. m - 1 \notin NotUpto BY <2>1, <4>1
      <4> QED BY <4>1, <4>2
    <3> DEFINE g == [i \in 0 .. m |-> IF i = m THEN Grow(f[m - 1], m) ELSE f[i]]
    <3>2. ASSUME NEW i \in 0 .. m PROVE g[i] = IF i = 0 THEN First ELSE Grow(g[i - 1], i)
      BY <3>1, <2>1, <2>3
    <3>3. Upto(g, m) BY <3>2
    <3> QED BY <3>3, <2>1
  <2> QED BY <2>2, <2>3
<1>5. \E f : Upto(f, N)
  <2> HIDE DEF Upto
  <2>1. N \in 0 .. N BY <1>1
  <2> QED BY <1>4, <2>1
<1> DEFINE W == CHOOSE f : Upto(f, N)
<1>6. Upto(W, N)
  <2> HIDE DEF Upto
  <2> QED BY <1>5, Zenon
<1>7. spillVariable(c, reg, slot, fresh) = W[N]
  BY Zenon DEF spillVariable, Through, N, order
<1> HIDE DEF W, First, Grow
<1>8. W[0] = First /\ \A i \in 1 .. N : W[i] = Grow(W[i - 1], i) BY <1>1, <1>6
<1> HIDE DEF Upto, Good
<1> DEFINE Bad == {i \in 0 .. N : ~Good(W[i], i)}
<1>9. Bad = {}
  <2> SUFFICES ASSUME Bad # {} PROVE FALSE OBVIOUS
  <2>1. PICK m \in Bad : \A n \in Bad : m <= n
    <3>1. Bad \in SUBSET Nat OBVIOUS
    <3> HIDE DEF Bad
    <3> QED BY <3>1, Least
  <2>2. m # 0 BY <1>2, <1>8, <2>1
  <2>3. m \in 1 .. N /\ m - 1 \in 0 .. N /\ ~(m <= m - 1) BY <1>1, <2>1, <2>2
  <2>4. Good(W[m - 1], m - 1) BY <2>1, <2>3
  <2>5. Good(Grow(W[m - 1], m), m) BY <1>3, <2>3, <2>4
  <2> QED BY <1>8, <2>1, <2>3, <2>5
<1>10. Good(W[N], N)
  <2>1. N \in 0 .. N BY <1>1
  <2> QED BY <1>9, <2>1
<1> DEFINE blocks == W[N].blocks
<1>11. /\ blocks \in Seq(ToSet(blocks)) /\ Len(blocks) = N
       /\ \A b \in 1 .. N : Instructions(blocks[b])
  BY <1>10 DEF Good
<1>12. DOMAIN blocks = 1 .. N
  <2> HIDE DEF blocks
  <2> QED BY <1>11, SequenceDomain
<1> HIDE DEF blocks
<1>13. DOMAIN blocks = Blocks /\ \A b \in Blocks : Instructions(blocks[b])
  BY <1>1, <1>11, <1>12
<1> QED BY <1>7, <1>13 DEF blocks

\* The functions the allocation starts from are what the assumption says.
LEMMA MachinesInit ==
  ASSUME Init
  PROVE  Machines
<1>1. PICK f \in Functions : machine = Lowered(f) BY Zenon DEF Init
<1>2. /\ machine.succ \in Seq(Seq(1 .. Len(machine.succ))) \ {<<>>}
      /\ DOMAIN machine.code = DOMAIN machine.succ
      /\ \A b \in DOMAIN machine.succ : 1 \notin ToSet(machine.succ[b])
      /\ \A b \in DOMAIN machine.code : machine.code[b] \in Seq(ToSet(machine.code[b]))
      /\ \A b \in DOMAIN machine.code : \A inst \in ToSet(machine.code[b]) :
           "in" \in DOMAIN inst /\ IsFiniteSet(DOMAIN inst.in)
  <2> HIDE DEF Init
  <2> QED BY <1>1, MachinesAssumption
<1>3. code = machine.code BY DEF Init
<1>4. \A b \in Blocks : Instructions(code[b]) BY <1>2, <1>3 DEF Instructions, Finite, Blocks
<1> QED BY <1>2, <1>3, <1>4 DEF Machines, Wellformed, NoJumpToFirst, Blocks

LEMMA MachinesNext ==
  ASSUME Machines, [Next]_vars
  PROVE  Machines'
<1>1. ASSUME machine' = machine, code' = code, pc' \notin {"run", "aborted"} => pc \notin {"run", "aborted"}
      PROVE  Machines'
  BY <1>1 DEF Machines, NoJumpToFirst, Blocks
<1>2. CASE Coalesce
  <2>1. machine' = machine /\ pc = "coalesce" /\ code' = coalesceMoves(code)
    BY <1>2 DEF Coalesce
  <2>2. \A b \in Blocks : Instructions(code[b]) BY <2>1 DEF Machines
  <2>3. /\ DOMAIN coalesceMoves(code) = Blocks
        /\ \A b \in Blocks : Instructions(coalesceMoves(code)[b])
    BY <2>2, CoalescedBlocks
  <2> QED BY <2>1, <2>3 DEF Machines, NoJumpToFirst, Blocks
<1>3. CASE RemoveVertex BY <1>1, <1>3 DEF RemoveVertex
<1>4. CASE RemoveBlocked BY <1>1, <1>4 DEF RemoveBlocked
<1>5. CASE ColorFixed BY <1>1, <1>5 DEF ColorFixed
<1>6. CASE findColorFor BY <1>1, <1>6 DEF findColorFor
<1>7. CASE Spill
  <2>1. machine' = machine /\ pc = "select"
        /\ code' = spillVariable(code, Head(stack), Len(slotType) + 1, Len(type) + 1).blocks
    BY <1>7 DEF Spill
  <2>2. \A b \in Blocks : Instructions(code[b]) BY <2>1 DEF Machines
  <2>3. Wellformed(machine.succ) BY DEF Machines
  <2>4. DOMAIN code' = Blocks /\ \A b \in Blocks : Instructions(code'[b])
    BY <2>1, <2>2, <2>3, SpilledBlocks
  <2> QED BY <2>1, <2>3, <2>4 DEF Machines, NoJumpToFirst, Blocks
<1>8. CASE Assign
  <2>1. machine' = machine /\ pc' \in {"run", "aborted"} BY <1>8 DEF Assign
  <2> QED BY <2>1 DEF Machines, NoJumpToFirst, Blocks
<1>9. CASE Step
  <2>1. machine' = machine /\ pc = "run" /\ pc' = "run" BY <1>9 DEF Step
  <2> QED BY <2>1 DEF Machines, NoJumpToFirst, Blocks
<1>10. CASE UNCHANGED vars
  BY <1>10 DEF vars, Machines, NoJumpToFirst, Blocks
<1> QED BY <1>2, <1>3, <1>4, <1>5, <1>6, <1>7, <1>8, <1>9, <1>10 DEF Next

-----------------------------------------------------------------------------
(***************************************************************************)
(* spillAroundCalls makes sequences too, as what is live is finite.        *)
(***************************************************************************)
\* A function with a finite domain has finitely many values.
LEMMA FiniteRange ==
  ASSUME NEW f, IsFiniteSet(DOMAIN f)
  PROVE  IsFiniteSet(ToSet(f))
<1> DEFINE g == [x \in DOMAIN f |-> f[x]]
<1>1. g \in Surjection(DOMAIN f, ToSet(f)) BY DEF Surjection, ToSet
<1> HIDE DEF g
<1> QED BY <1>1, FS_Surjection

\* The registers that some instruction of a block reads.
ReadIn(insts) == [i \in DOMAIN insts |-> Ins(insts[i])]
ReadBy(c) == [b \in Blocks |-> UNION ToSet(ReadIn(c[b]))]
Read(c) == UNION ToSet(ReadBy(c))

LEMMA ReadFinite ==
  ASSUME Wellformed(machine.succ), NEW c, \A b \in Blocks : Instructions(c[b])
  PROVE  IsFiniteSet(Read(c))
<1>1. ASSUME NEW b \in Blocks PROVE IsFiniteSet(ReadBy(c)[b])
  <2>1. Instructions(c[b]) OBVIOUS
  <2>2. Len(c[b]) \in Nat /\ DOMAIN c[b] = 1 .. Len(c[b])
    BY <2>1, SequenceDomain DEF Instructions
  <2>3. ASSUME NEW i \in DOMAIN c[b] PROVE IsFiniteSet(Ins(c[b][i]))
    <3>1. IsFiniteSet(DOMAIN c[b][i].in) BY <2>1, <2>3 DEF Instructions, Finite, ToSet
    <3> QED BY <3>1, FiniteRange DEF Ins
  <2>4. IsFiniteSet(DOMAIN ReadIn(c[b])) BY <2>2, FS_Interval DEF ReadIn
  <2>5. IsFiniteSet(ToSet(ReadIn(c[b]))) BY <2>4, FiniteRange
  <2>6. \A S \in ToSet(ReadIn(c[b])) : IsFiniteSet(S) BY <2>3 DEF ToSet, ReadIn
  <2>7. IsFiniteSet(UNION ToSet(ReadIn(c[b]))) BY <2>5, <2>6, FS_UNION
  <2> QED BY <2>7 DEF ReadBy
<1>2. Blocks = 1 .. Len(machine.succ) /\ Len(machine.succ) \in Nat BY DEF Blocks, Wellformed
<1>3. DOMAIN ReadBy(c) = Blocks BY DEF ReadBy
<1>4. IsFiniteSet(DOMAIN ReadBy(c)) BY <1>2, <1>3, FS_Interval
<1>5. IsFiniteSet(ToSet(ReadBy(c))) BY <1>4, FiniteRange
<1>6. \A S \in ToSet(ReadBy(c)) : IsFiniteSet(S) BY <1>1, <1>3 DEF ToSet
<1> QED BY <1>5, <1>6, FS_UNION DEF Read

LEMMA ReadInBlock ==
  ASSUME NEW c, NEW b \in Blocks, NEW i \in DOMAIN c[b], NEW v \in Ins(c[b][i])
  PROVE  v \in Read(c)
<1>1. Ins(c[b][i]) \in ToSet(ReadIn(c[b])) BY DEF ToSet, ReadIn
<1>2. v \in ReadBy(c)[b] BY <1>1 DEF ReadBy
<1>3. ReadBy(c)[b] \in ToSet(ReadBy(c)) BY DEF ToSet, ReadBy
<1> QED BY <1>2, <1>3 DEF Read

\* No path leads nowhere, and what a path reads is read.
LEMMA NothingLeadTo ==
  ASSUME Len(machine.succ) \in Nat, NEW through
  PROVE  LeadTo(through, {}) = {}
<1> DEFINE N == Len(machine.succ)
<1>1. PICK W : Paths(through, {}, W, N) /\ LeadTo(through, {}) = W[N] BY PathSteps, Zenon
<1>2. N \in Nat OBVIOUS
<1> HIDE DEF N
<1> DEFINE Some == {n \in 0 .. N : W[n] # {}}
<1>3. Some = {}
  <2> SUFFICES ASSUME Some # {} PROVE FALSE OBVIOUS
  <2>1. PICK m \in Some : \A n \in Some : m <= n
    <3>1. Some \in SUBSET Nat OBVIOUS
    <3> HIDE DEF Some
    <3> QED BY <3>1, Least
  <2>2. m # 0 BY <1>1, <2>1 DEF Paths
  <2>3. m - 1 \in 0 .. N - 1 /\ m - 1 \in 0 .. N /\ (m - 1) + 1 = m /\ ~(m <= m - 1)
    BY <1>2, <2>1, <2>2
  <2>4. W[m - 1] = {} BY <2>1, <2>3
  <2>5. W[m] = W[m - 1] \cup PassesOn(through, W[m - 1]) BY <1>1, <2>3 DEF Paths
  <2>6. PassesOn(through, {}) = {} BY DEF PassesOn
  <2> QED BY <2>1, <2>4, <2>5, <2>6
<1>4. N \in 0 .. N BY <1>2
<1> QED BY <1>1, <1>3, <1>4

LEMMA LiveIsRead ==
  ASSUME Wellformed(machine.succ), NEW c, \A b \in Blocks : Instructions(c[b]),
         NEW b \in Blocks, NEW i \in DOMAIN c[b]
  PROVE  IsFiniteSet(LiveAfterIn(c, computeLiveness(c), b)[i])
<1> DEFINE live == LiveAfterIn(c, computeLiveness(c), b)[i]
<1>1. ASSUME NEW v \in live PROVE v \in Read(c)
  <2>1. ReadAfter(c, v, b, i) BY <1>1, LiveAfterIsExact DEF Instructions
  <2>2. \A x \in Blocks : DOMAIN c[x] = 1 .. Len(c[x]) /\ Len(c[x]) \in Nat
    BY SequenceDomain DEF Instructions
  <2>3. CASE \E j \in i + 1 .. Len(c[b]) : v \in Ins(c[b][j])
    <3>1. PICK j \in i + 1 .. Len(c[b]) : v \in Ins(c[b][j]) BY <2>3
    <3>2. j \in DOMAIN c[b] BY <2>2, <3>1
    <3> QED BY <3>1, <3>2, ReadInBlock
  <2>4. CASE \E s \in ToSet(machine.succ[b]) : s \in ReadFirstFrom(c, v)
    <3>1. ReadsFirst(c, v) # {}
      <4>1. Len(machine.succ) \in Nat BY DEF Wellformed
      <4> QED BY <2>4, <4>1, NothingLeadTo DEF ReadFirstFrom
    <3> QED BY <3>1, ReadInBlock DEF ReadsFirst
  <2> QED BY <2>1, <2>3, <2>4 DEF ReadAfter
<1>2. IsFiniteSet(Read(c)) BY ReadFinite
<1> HIDE DEF live
<1>3. IsFiniteSet(live) BY <1>1, <1>2, FS_Subset
<1> QED BY <1>3 DEF live

\* One call saved around.
LEMMA SaveAroundSequence ==
  ASSUME NEW walk, Instructions(walk.done), NEW inst, Finite(inst), NEW live, IsFiniteSet(live)
  PROVE  LET next == SaveAround(walk, inst, live) IN Instructions(next.done)
<1> DEFINE saved == IF inst.op = "call" THEN SetToSeq(SavedAt(inst, live)) ELSE <<>>
           slot(k) == Len(walk.types) + k
           saves == [k \in DOMAIN saved |-> SaveOf(saved[k], slot(k))]
           loads == [k \in DOMAIN saved |-> LoadOf(saved[k], slot(k))]
           next == SaveAround(walk, inst, live)
<1>1. next.done = walk.done \o saves \o <<inst>> \o loads BY DEF SaveAround
<1>2. \E n \in Nat : DOMAIN saved = 1 .. n
  <2>1. IsFiniteSet(SavedAt(inst, live)) BY FS_Subset DEF SavedAt
  <2>2. SetToSeq(SavedAt(inst, live)) \in Seq(SavedAt(inst, live)) BY <2>1, SetToSeqElements
  <2> DEFINE s == SetToSeq(SavedAt(inst, live))
             S == SavedAt(inst, live)
  <2>3. Len(s) \in Nat /\ DOMAIN s = 1 .. Len(s)
    <3>1. s \in Seq(S) BY <2>2
    <3> HIDE DEF s, S
    <3> QED BY <3>1
  <2>4. 0 \in Nat /\ DOMAIN <<>> = 1 .. 0 OBVIOUS
  <2> QED BY <2>3, <2>4
<1> HIDE DEF saved, slot, next
<1>3. PICK n \in Nat : DOMAIN saved = 1 .. n BY <1>2
<1>4. Instructions(saves)
  <2>1. saves = [k \in 1 .. n |-> saves[k]] BY <1>3
  <2>2. \A k \in 1 .. n : saves[k] = SaveOf(saved[k], slot(k)) BY <1>3
  <2> HIDE DEF saves
  <2>3. \A k \in 1 .. n : Finite(saves[k]) BY <2>2, LoadsAndSaves
  <2> QED BY <2>1, <2>3, InstructionsAre
<1>5. Instructions(loads)
  <2>1. loads = [k \in 1 .. n |-> loads[k]] BY <1>3
  <2>2. \A k \in 1 .. n : loads[k] = LoadOf(saved[k], slot(k)) BY <1>3
  <2> HIDE DEF loads
  <2>3. \A k \in 1 .. n : Finite(loads[k]) BY <2>2, LoadsAndSaves
  <2> QED BY <2>1, <2>3, InstructionsAre
<1> HIDE DEF saves, loads
<1>6. Instructions(walk.done \o saves) BY <1>4, JoinedSequences
<1>7. Instructions(<<inst>>) BY OneInstruction
<1>8. Instructions(walk.done \o saves \o <<inst>>) BY <1>6, <1>7, JoinedSequences
<1>9. Instructions(next.done) BY <1>1, <1>5, <1>8, JoinedSequences
<1> QED BY <1>9 DEF next

\* A block, and all of them.
LEMMA SavedInBlock ==
  ASSUME NEW types, NEW insts, Instructions(insts),
         NEW after, \A i \in DOMAIN insts : IsFiniteSet(after[i])
  PROVE  LET w == SaveInBlock(types, insts, after) IN Instructions(w.done)
<1> DEFINE order == [i \in DOMAIN insts |-> i]
           N == Len(order)
           First == [done |-> <<>>, types |-> types]
           Grow(u, i) == SaveAround(u, insts[order[i]], after[order[i]])
           Good(u) == Instructions(u.done)
           Upto(f, m) == f = [i \in 0 .. m |-> IF i = 0 THEN First ELSE Grow(f[i - 1], i)]
           NotUpto == {m \in 0 .. N : ~ \E f : Upto(f, m)}
<1>1. /\ N \in Nat
      /\ \A i \in 1 .. N : Finite(insts[order[i]]) /\ IsFiniteSet(after[order[i]])
  <2>1. Len(insts) \in Nat /\ DOMAIN insts = 1 .. Len(insts) BY SequenceDomain DEF Instructions
  <2>2. \A i \in DOMAIN insts : Finite(insts[i]) BY DEF Instructions, ToSet
  <2>3. order = [i \in 1 .. Len(insts) |-> i] BY <2>1
  <2> HIDE DEF order
  <2>4. N = Len(insts) /\ \A i \in 1 .. N : order[i] = i BY <2>1, <2>3
  <2> QED BY <2>1, <2>2, <2>4
<1>2. Good(First) BY NoInstruction
<1> HIDE DEF N, order
<1>3. ASSUME NEW u, NEW i \in 1 .. N, Good(u) PROVE Good(Grow(u, i))
  BY <1>1, <1>3, SaveAroundSequence
<1>4. NotUpto = {}
  <2> SUFFICES ASSUME NotUpto # {} PROVE FALSE OBVIOUS
  <2>1. PICK m \in NotUpto : \A n \in NotUpto : m <= n
    <3> HIDE DEF Upto, Good
    <3>1. NotUpto \in SUBSET Nat OBVIOUS
    <3> HIDE DEF NotUpto
    <3> QED BY <3>1, Least
  <2> HIDE DEF Grow, First, Good
  <2>2. CASE m = 0
    <3>1. Upto([i \in 0 .. 0 |-> First], 0) OBVIOUS
    <3> QED BY <3>1, <2>1, <2>2
  <2>3. CASE m # 0
    <3>1. PICK f : Upto(f, m - 1)
      <4> HIDE DEF Upto
      <4>1. m - 1 \in 0 .. N /\ ~(m <= m - 1) BY <1>1, <2>1, <2>3
      <4>2. m - 1 \notin NotUpto BY <2>1, <4>1
      <4> QED BY <4>1, <4>2
    <3> DEFINE g == [i \in 0 .. m |-> IF i = m THEN Grow(f[m - 1], m) ELSE f[i]]
    <3>2. ASSUME NEW i \in 0 .. m PROVE g[i] = IF i = 0 THEN First ELSE Grow(g[i - 1], i)
      BY <3>1, <2>1, <2>3
    <3>3. Upto(g, m) BY <3>2
    <3> QED BY <3>3, <2>1
  <2> QED BY <2>2, <2>3
<1>5. \E f : Upto(f, N)
  <2> HIDE DEF Upto
  <2>1. N \in 0 .. N BY <1>1
  <2> QED BY <1>4, <2>1
<1> DEFINE W == CHOOSE f : Upto(f, N)
<1>6. Upto(W, N) BY <1>5
<1>7. SaveInBlock(types, insts, after) = W[N]
  BY Zenon DEF SaveInBlock, Through, N, order
<1> HIDE DEF W, First, Grow, Good
<1>8. W[0] = First /\ \A i \in 1 .. N : W[i] = Grow(W[i - 1], i) BY <1>1, <1>6
<1> HIDE DEF Upto
<1> DEFINE Bad == {i \in 0 .. N : ~Good(W[i])}
<1>9. Bad = {}
  <2> SUFFICES ASSUME Bad # {} PROVE FALSE OBVIOUS
  <2>1. PICK m \in Bad : \A n \in Bad : m <= n
    <3>1. Bad \in SUBSET Nat OBVIOUS
    <3> HIDE DEF Bad
    <3> QED BY <3>1, Least
  <2>2. m # 0 BY <1>2, <1>8, <2>1
  <2>3. m \in 1 .. N /\ m - 1 \in 0 .. N /\ ~(m <= m - 1) BY <1>1, <2>1, <2>2
  <2>4. Good(W[m - 1]) BY <2>1, <2>3
  <2>5. Good(Grow(W[m - 1], m)) BY <1>3, <2>3, <2>4
  <2> QED BY <1>8, <2>1, <2>3, <2>5
<1>10. Good(W[N])
  <2>1. N \in 0 .. N BY <1>1
  <2> QED BY <1>9, <2>1
<1> QED BY <1>7, <1>10 DEF Good

LEMMA SavedBlocks ==
  ASSUME Wellformed(machine.succ), NEW c, \A b \in Blocks : Instructions(c[b])
  PROVE  LET blocks == spillAroundCalls(c).blocks
         IN  DOMAIN blocks = Blocks /\ \A b \in Blocks : Instructions(blocks[b])
<1> DEFINE order == [b \in Blocks |-> b]
           N == Len(order)
           live == computeLiveness(c)
           First == [blocks |-> <<>>, types |-> slotType]
           In(u, b) == SaveInBlock(u.types, c[b], LiveAfterIn(c, live, b))
           Grow(u, i) == [blocks |-> Append(u.blocks, In(u, order[i]).done),
                          types |-> In(u, order[i]).types]
           Good(u, i) == /\ u.blocks \in Seq(ToSet(u.blocks)) /\ Len(u.blocks) = i
                         /\ \A b \in 1 .. i : Instructions(u.blocks[b])
           Upto(f, m) == f = [i \in 0 .. m |-> IF i = 0 THEN First ELSE Grow(f[i - 1], i)]
           NotUpto == {m \in 0 .. N : ~ \E f : Upto(f, m)}
<1>1. N \in Nat /\ Blocks = 1 .. N /\ \A i \in 1 .. N : order[i] = i
  BY DEF Wellformed, Blocks
<1>2. Good(First, 0)
  <2>1. <<>> \in Seq({}) /\ Len(<<>>) = 0 OBVIOUS
  <2>2. <<>> \in Seq(ToSet(<<>>)) BY <2>1, SequenceOfElements
  <2> QED BY <2>1, <2>2
<1> HIDE DEF N, order
<1>3. ASSUME NEW u, NEW i \in 1 .. N, Good(u, i - 1) PROVE Good(Grow(u, i), i)
  <2> DEFINE blocks == u.blocks
             insts == In(u, order[i]).done
             S == ToSet(blocks) \cup {insts}
  <2>1. order[i] = i /\ i \in Blocks BY <1>1, <1>3
  <2>2. Instructions(insts)
    <3>1. Instructions(c[i]) BY <2>1
    <3>2. \A k \in DOMAIN c[i] : IsFiniteSet(LiveAfterIn(c, live, i)[k]) BY <2>1, LiveIsRead
    <3> HIDE DEF live
    <3> QED BY <2>1, <3>1, <3>2, SavedInBlock
  <2>3. Grow(u, i).blocks = Append(blocks, insts) OBVIOUS
  <2>4. blocks \in Seq(ToSet(blocks)) /\ Len(blocks) = i - 1
        /\ \A b \in 1 .. i - 1 : Instructions(blocks[b])
    BY <1>3
  <2>5. ToSet(blocks) \subseteq S /\ insts \in S OBVIOUS
  <2> HIDE DEF blocks, insts, S
  <2>6. blocks \in Seq(S) BY <2>4, <2>5
  <2>7. /\ Append(blocks, insts) \in Seq(S) /\ Len(Append(blocks, insts)) = i
        /\ \A b \in 1 .. i : Append(blocks, insts)[b] = IF b = i THEN insts ELSE blocks[b]
    BY <1>1, <1>3, <2>4, <2>5, <2>6
  <2>8. Append(blocks, insts) \in Seq(ToSet(Append(blocks, insts)))
    BY <2>7, SequenceOfElements
  <2>9. ASSUME NEW b \in 1 .. i PROVE Instructions(Append(blocks, insts)[b])
    <3>1. CASE b = i BY <2>2, <2>7, <3>1
    <3>2. CASE b # i
      <4>1. b \in 1 .. i - 1 BY <1>1, <1>3, <3>2
      <4> QED BY <2>4, <2>7, <2>9, <3>2, <4>1
    <3> QED BY <3>1, <3>2
  <2> HIDE DEF Grow
  <2> QED BY <2>3, <2>7, <2>8, <2>9
<1>4. NotUpto = {}
  <2> SUFFICES ASSUME NotUpto # {} PROVE FALSE OBVIOUS
  <2>1. PICK m \in NotUpto : \A n \in NotUpto : m <= n
    <3> HIDE DEF Upto
    <3>1. NotUpto \in SUBSET Nat OBVIOUS
    <3> HIDE DEF NotUpto
    <3> QED BY <3>1, Least
  <2> HIDE DEF Grow, First
  <2>2. CASE m = 0
    <3>1. Upto([i \in 0 .. 0 |-> First], 0) OBVIOUS
    <3> QED BY <3>1, <2>1, <2>2
  <2>3. CASE m # 0
    <3>1. PICK f : Upto(f, m - 1)
      <4> HIDE DEF Upto
      <4>1. m - 1 \in 0 .. N /\ ~(m <= m - 1) BY <1>1, <2>1, <2>3
      <4>2. m - 1 \notin NotUpto BY <2>1, <4>1
      <4> QED BY <4>1, <4>2
    <3> DEFINE g == [i \in 0 .. m |-> IF i = m THEN Grow(f[m - 1], m) ELSE f[i]]
    <3>2. ASSUME NEW i \in 0 .. m PROVE g[i] = IF i = 0 THEN First ELSE Grow(g[i - 1], i)
      BY <3>1, <2>1, <2>3
    <3>3. Upto(g, m) BY <3>2
    <3> QED BY <3>3, <2>1
  <2> QED BY <2>2, <2>3
<1>5. \E f : Upto(f, N)
  <2> HIDE DEF Upto
  <2>1. N \in 0 .. N BY <1>1
  <2> QED BY <1>4, <2>1
<1> DEFINE W == CHOOSE f : Upto(f, N)
<1>6. Upto(W, N)
  <2> HIDE DEF Upto
  <2> QED BY <1>5, Zenon
<1>7. spillAroundCalls(c) = W[N]
  BY Zenon DEF spillAroundCalls, Through, N, order
<1> HIDE DEF W, First, Grow
<1>8. W[0] = First /\ \A i \in 1 .. N : W[i] = Grow(W[i - 1], i) BY <1>1, <1>6
<1> HIDE DEF Upto, Good
<1> DEFINE Bad == {i \in 0 .. N : ~Good(W[i], i)}
<1>9. Bad = {}
  <2> SUFFICES ASSUME Bad # {} PROVE FALSE OBVIOUS
  <2>1. PICK m \in Bad : \A n \in Bad : m <= n
    <3>1. Bad \in SUBSET Nat OBVIOUS
    <3> HIDE DEF Bad
    <3> QED BY <3>1, Least
  <2>2. m # 0 BY <1>2, <1>8, <2>1
  <2>3. m \in 1 .. N /\ m - 1 \in 0 .. N /\ ~(m <= m - 1) BY <1>1, <2>1, <2>2
  <2>4. Good(W[m - 1], m - 1) BY <2>1, <2>3
  <2>5. Good(Grow(W[m - 1], m), m) BY <1>3, <2>3, <2>4
  <2> QED BY <1>8, <2>1, <2>3, <2>5
<1>10. Good(W[N], N)
  <2>1. N \in 0 .. N BY <1>1
  <2> QED BY <1>9, <2>1
<1> DEFINE blocks == W[N].blocks
<1>11. /\ blocks \in Seq(ToSet(blocks)) /\ Len(blocks) = N
       /\ \A b \in 1 .. N : Instructions(blocks[b])
  BY <1>10 DEF Good
<1>12. DOMAIN blocks = 1 .. N
  <2> HIDE DEF blocks
  <2> QED BY <1>11, SequenceDomain
<1> HIDE DEF blocks
<1>13. DOMAIN blocks = Blocks /\ \A b \in Blocks : Instructions(blocks[b])
  BY <1>1, <1>11, <1>12
<1> QED BY <1>7, <1>13 DEF blocks

(***************************************************************************)
(* LivenessExact, for every function and however often something is        *)
(* spilled: a register is live on entry to a block or after an instruction *)
(* (computeLiveness, computeInterference, reg_alloc.cpp), and a slot is    *)
(* listed for a call (stack_map.cpp), exactly when a path from there reads *)
(* it before writing it.                                                   *)
(***************************************************************************)
THEOREM LiveWhereRead == Spec => []LivenessExact
<1>1. Machines => RegistersExact
  <2> SUFFICES ASSUME Machines, pc = "coalesce"
               PROVE  /\ \A v \in DOMAIN type :
                           {b \in Blocks : v \in computeLiveness(code)[b]} = ReadFirstFrom(code, v)
                      /\ \A b \in Blocks : \A i \in DOMAIN code[b] :
                           LiveAfterIn(code, computeLiveness(code), b)[i] \cap DOMAIN type
                             = {v \in DOMAIN type : ReadAfter(code, v, b, i)}
    BY DEF RegistersExact
  <2>1. Wellformed(machine.succ) /\ \A b \in Blocks : code[b] \in Seq(ToSet(code[b]))
    BY DEF Machines, Instructions
  <2>2. ASSUME NEW v
        PROVE  {b \in Blocks : v \in computeLiveness(code)[b]} = ReadFirstFrom(code, v)
    BY <2>1, LivenessIsExact
  <2>3. ASSUME NEW b \in Blocks, NEW i \in DOMAIN code[b], NEW v
        PROVE  v \in LiveAfterIn(code, computeLiveness(code), b)[i] <=> ReadAfter(code, v, b, i)
    BY <2>1, <2>3, LiveAfterIsExact
  <2> QED BY <2>2, <2>3
<1>2. Machines => StackMapsExact
  <2> DEFINE saved == spillAroundCalls(code)
             mapped == StackMap(saved.types, saved.blocks)
             slots == SlotCode(saved.types, saved.blocks)
  <2> SUFFICES ASSUME Machines, pc = "select",
                      NEW b \in Blocks, NEW i \in DOMAIN mapped[b], mapped[b][i].op = "call", NEW s
               PROVE  s \in mapped[b][i].map <=> ReadAfter(slots, s, b, i)
    BY DEF StackMapsExact
  <2>1. Wellformed(machine.succ) /\ NoJumpToFirst /\ \A x \in Blocks : Instructions(code[x])
    BY DEF Machines
  <2>2. \A x \in Blocks : Instructions(saved.blocks[x]) BY <2>1, SavedBlocks
  <2> HIDE DEF saved
  <2>3. PICK live : mapped[b] = Mapped(saved.blocks[b], live)
    <3>1. \E live : StackMap(saved.types, saved.blocks) = [x \in Blocks |-> Mapped(saved.blocks[x], live[x])]
      <4> DEFINE defined == [x \in Blocks |-> Defined(slots[x]) \cup IF x = 1 THEN Parameters ELSE {}]
                 live == LiveIn(machine.succ, [x \in Blocks |-> UsedFirst(slots[x])], defined)
                 after == [x \in Blocks |-> LiveAfterIn(slots, live, x)]
      <4>1. StackMap(saved.types, saved.blocks) =
              [x \in Blocks |-> Mapped(saved.blocks[x], LiveAfterIn(slots, live, x))]
        BY Zenon DEF StackMap
      <4>2. \A x \in Blocks : after[x] = LiveAfterIn(slots, live, x) OBVIOUS
      <4> HIDE DEF live, slots, after
      <4>3. StackMap(saved.types, saved.blocks) = [x \in Blocks |-> Mapped(saved.blocks[x], after[x])]
        BY <4>1, <4>2
      <4> QED BY <4>3
    <3> QED BY <3>1
  <2>4. i \in DOMAIN saved.blocks[b] /\ saved.blocks[b][i].op = "call"
    <3>1. i \in DOMAIN Mapped(saved.blocks[b], live) BY <2>3
    <3>2. i \in DOMAIN saved.blocks[b] BY <3>1 DEF Mapped
    <3>3. Mapped(saved.blocks[b], live)[i].op = "call" BY <2>3
    <3> QED BY <3>2, <3>3 DEF Mapped
  <2> QED BY <2>1, <2>2, <2>4, StackMapIsExact DEF Instructions
<1>3. Machines => LivenessExact BY <1>1, <1>2 DEF LivenessExact
<1>4. Init => Machines BY MachinesInit
<1>5. Machines /\ [Next]_vars => Machines' BY MachinesNext
<1> QED BY <1>3, <1>4, <1>5, PTL DEF Spec

-----------------------------------------------------------------------------
(***************************************************************************)
(* The graph and the coloring together.  Two precolored registers that     *)
(* interfere have different colours only if the code selected says so,     *)
(* which findColorFor asserts and no allocation could mend.                *)
(***************************************************************************)

(***************************************************************************)
(* No two registers that interfere have the same colour, and the colours   *)
(* given are those of registers there are (findColorFor, reg_alloc.cpp).   *)
(***************************************************************************)
ProperColoring ==
  pc = "select" =>
    \A v \in DOMAIN coloring :
      /\ v \notin DOMAIN fixed => coloring[v] \in 0 .. Colors - 1
      /\ \A w \in igraph[v] \cap DOMAIN coloring : coloring[v] # coloring[w]

\* No instruction writes a precolored register while another one of the same
\* hardware register has a value to be read.
FixedApart ==
  pc = "select" =>
    \A b \in Blocks : \A i \in DOMAIN code[b] : \A o \in Outs(code[b][i]) \cap DOMAIN fixed :
      \A v \in DOMAIN fixed \ {o} : fixed[v] = fixed[o] => ~Needed(code, v, b, i)

\* Some instruction writes w while the value of v is needed.
Overwrites(c, w, v) ==
  \E b \in Blocks : \E i \in DOMAIN c[b] : w \in Outs(c[b][i]) /\ Needed(c, v, b, i)

\* What an edge stands for.
Interfere(c, v, w) ==
  \/ Overwrites(c, w, v)
  \/ Overwrites(c, v, w)
  \/ v \in DOMAIN fixed /\ w \in DOMAIN fixed /\ fixed[v] # fixed[w]

\* The pairs of computeInterference: what an instruction writes, with what is
\* live after it.
LEMMA ClashesAre ==
  ASSUME NEW inst, NEW live, NEW v, NEW w, v # w
  PROVE  LET kept == IF inst.op \in {"mov", "narrow"} THEN live \ Ins(inst) ELSE live
         IN  {v, w} \in Clashes(inst, live) <=>
               (w \in Outs(inst) /\ v \in kept) \/ (v \in Outs(inst) /\ w \in kept)
<1> DEFINE kept == IF inst.op \in {"mov", "narrow"} THEN live \ Ins(inst) ELSE live
<1>1. Clashes(inst, live) = {{o, l} : o \in Outs(inst), l \in kept} BY DEF Clashes
<1> HIDE DEF kept
<1>2. \A o, l : {v, w} = {o, l} <=> (o = v /\ l = w) \/ (o = w /\ l = v)
  <2> SUFFICES ASSUME NEW o, NEW l, {v, w} = {o, l} PROVE (o = v /\ l = w) \/ (o = w /\ l = v)
    OBVIOUS
  <2>1. v \in {o, l} /\ w \in {o, l} OBVIOUS
  <2> QED BY <2>1
<1>3. {v, w} \in Clashes(inst, live) <=> \E o \in Outs(inst), l \in kept : {v, w} = {o, l}
  BY <1>1
<1>4. {v, w} \in Clashes(inst, live) <=>
        (w \in Outs(inst) /\ v \in kept) \/ (v \in Outs(inst) /\ w \in kept)
  BY <1>2, <1>3
<1> QED BY <1>4 DEF kept

\* Two different registers are two.
LEMMA PairSize ==
  ASSUME NEW v, NEW w, v # w
  PROVE  Cardinality({v, w}) = 2
<1>1. IsFiniteSet({v}) /\ Cardinality({v}) = 1 BY FS_Singleton
<1>2. w \notin {v} OBVIOUS
<1> DEFINE S == {v}
<1>3. {v, w} = S \cup {w} OBVIOUS
<1> HIDE DEF S
<1>4. Cardinality(S \cup {w}) = Cardinality(S) + 1 BY <1>1, <1>2, FS_AddElement DEF S
<1>5. Cardinality(S) = 1 BY <1>1 DEF S
<1> QED BY <1>3, <1>4, <1>5

\* There is an edge exactly where one register would overwrite the other, and
\* between precolored ones of different colours.
LEMMA EdgesAreExact ==
  ASSUME Wellformed(machine.succ), NEW c, \A b \in Blocks : c[b] \in Seq(ToSet(c[b])),
         NEW v, NEW w, v # w
  PROVE  {v, w} \in Edges(c) <=> Interfere(c, v, w)
<1> DEFINE live == computeLiveness(c)
           clashes(b, i) == Clashes(c[b][i], LiveAfterIn(c, live, b)[i])
           inBlock(b) == UNION {clashes(b, i) : i \in DOMAIN c[b]}
           between == UNION {{{x, y} : y \in {y \in DOMAIN fixed : fixed[x] # fixed[y]}} : x \in DOMAIN fixed}
<1>1. Edges(c) = {e \in UNION {inBlock(b) : b \in Blocks} : Cardinality(e) = 2} \cup between
  <2> DEFINE after == [b \in Blocks |-> LiveAfterIn(c, live, b)]
             written(b) == UNION {Clashes(c[b][i], after[b][i]) : i \in DOMAIN c[b]}
  <2>1. Edges(c) = {e \in UNION {written(b) : b \in Blocks} : Cardinality(e) = 2} \cup between
    BY Zenon DEF Edges
  <2>2. \A b \in Blocks : written(b) = inBlock(b) OBVIOUS
  <2> HIDE DEF written, inBlock, between
  <2>3. {written(b) : b \in Blocks} = {inBlock(b) : b \in Blocks} BY <2>2
  <2> QED BY <2>1, <2>3
<1>2. Cardinality({v, w}) = 2 BY PairSize
<1>3. {v, w} \in between <=> v \in DOMAIN fixed /\ w \in DOMAIN fixed /\ fixed[v] # fixed[w]
  <2>1. {v, w} \in between <=> \E x, y \in DOMAIN fixed : fixed[x] # fixed[y] /\ {v, w} = {x, y}
    <3> DEFINE pair == {v, w}
               from(x) == {{x, y} : y \in {y \in DOMAIN fixed : fixed[x] # fixed[y]}}
    <3> HIDE DEF pair
    <3>1. \A x \in DOMAIN fixed :
            pair \in from(x) <=> \E y \in DOMAIN fixed : fixed[x] # fixed[y] /\ pair = {x, y}
      OBVIOUS
    <3> HIDE DEF from
    <3>2. pair \in UNION {from(x) : x \in DOMAIN fixed} <=> \E x \in DOMAIN fixed : pair \in from(x)
      OBVIOUS
    <3>3. between = UNION {from(x) : x \in DOMAIN fixed} BY DEF from
    <3> HIDE DEF between
    <3> QED BY <3>1, <3>2, <3>3 DEF pair
  <2> HIDE DEF between
  <2>2. ASSUME NEW x, NEW y, {v, w} = {x, y} PROVE (x = v /\ y = w) \/ (x = w /\ y = v)
    <3>1. v \in {x, y} /\ w \in {x, y} BY <2>2
    <3> QED BY <3>1
  <2> QED BY <2>1, <2>2
<1>4. ASSUME NEW b \in Blocks, NEW i \in DOMAIN c[b]
      PROVE  {v, w} \in clashes(b, i) <=>
               \/ w \in Outs(c[b][i]) /\ Needed(c, v, b, i)
               \/ v \in Outs(c[b][i]) /\ Needed(c, w, b, i)
  <2> DEFINE inst == c[b][i]
             after == LiveAfterIn(c, live, b)[i]
             kept == IF inst.op \in {"mov", "narrow"} THEN after \ Ins(inst) ELSE after
  <2>1. {v, w} \in Clashes(inst, after) <=>
          (w \in Outs(inst) /\ v \in kept) \/ (v \in Outs(inst) /\ w \in kept)
    <3> HIDE DEF inst, after
    <3> QED BY ClashesAre
  <2>2. \A x : x \in after <=> ReadAfter(c, x, b, i)
    <3>1. ASSUME NEW x PROVE x \in after <=> ReadAfter(c, x, b, i)
      BY <1>4, LiveAfterIsExact
    <3> QED BY <3>1
  <2> HIDE DEF after
  <2>3. \A x : x \in kept <=> Needed(c, x, b, i) BY <2>2 DEF Needed
  <2> HIDE DEF kept, inst
  <2> QED BY <2>1, <2>3 DEF after, inst
<1>5. {v, w} \in UNION {inBlock(b) : b \in Blocks} <=>
        \E b \in Blocks : \E i \in DOMAIN c[b] : {v, w} \in clashes(b, i)
  <2> DEFINE pair == {v, w}
  <2> HIDE DEF clashes, pair
  <2>1. \A b \in Blocks : pair \in inBlock(b) <=> \E i \in DOMAIN c[b] : pair \in clashes(b, i)
    OBVIOUS
  <2> HIDE DEF inBlock
  <2>2. pair \in UNION {inBlock(b) : b \in Blocks} <=> \E b \in Blocks : pair \in inBlock(b)
    OBVIOUS
  <2> QED BY <2>1, <2>2 DEF pair
<1> HIDE DEF clashes, inBlock, between
<1>6. {v, w} \in Edges(c) <=>
        \/ \E b \in Blocks : \E i \in DOMAIN c[b] : {v, w} \in clashes(b, i)
        \/ v \in DOMAIN fixed /\ w \in DOMAIN fixed /\ fixed[v] # fixed[w]
  BY <1>1, <1>2, <1>3, <1>5
<1> QED BY <1>4, <1>6 DEF Interfere, Overwrites

LEMMA GraphIsExact ==
  ASSUME Wellformed(machine.succ), NEW c, \A b \in Blocks : c[b] \in Seq(ToSet(c[b])),
         NEW v, NEW w, v # w
  PROVE  Interfere(c, v, w) <=>
           v \in DOMAIN computeInterference(c) /\ w \in computeInterference(c)[v]
<1> DEFINE edges == Edges(c)
           vertices == DOMAIN fixed \cup UNION edges
<1>1. computeInterference(c) = [x \in vertices |-> {y \in vertices : x # y /\ {x, y} \in edges}]
  BY DEF computeInterference
<1>2. {v, w} \in edges => v \in vertices /\ w \in vertices
  <2> HIDE DEF edges
  <2>1. v \in {v, w} /\ w \in {v, w} OBVIOUS
  <2> QED BY <2>1
<1>3. {v, w} \in edges <=> Interfere(c, v, w) BY EdgesAreExact
<1> HIDE DEF edges, vertices
<1> QED BY <1>1, <1>2, <1>3

\* From simplify on the graph is that of the code, and what it has is precolored,
\* still on the stack or coloured.
Current ==
  /\ pc \in {"simplify", "select"} => igraph = computeInterference(code)
  /\ pc = "select" => DOMAIN igraph \subseteq DOMAIN coloring \cup ToSet(stack)

AllocationInv == ColoringInv /\ Machines /\ Current

\* The function does not change, nor does what its graph depends on but the code.
LEMMA GraphOfCode ==
  ASSUME machine' = machine
  PROVE  computeInterference(code)' = computeInterference(code')
BY DEF computeInterference, Edges, computeLiveness, LiveAfterIn, Blocks, fixed

LEMMA CurrentNext ==
  ASSUME AllocationInv, [Next]_vars
  PROVE  Current'
<1>1. ASSUME machine' = machine, code' = code
      PROVE  computeInterference(code)' = computeInterference(code)
  <2>1. computeInterference(code') = computeInterference(code) BY <1>1
  <2> QED BY <1>1, <2>1, GraphOfCode
<1>2. CASE Coalesce
  <2>1. /\ machine' = machine /\ pc' = "simplify" /\ code' = coalesceMoves(code)
        /\ igraph' = computeInterference(coalesceMoves(code))
    BY <1>2 DEF Coalesce
  <2>2. computeInterference(code') = computeInterference(coalesceMoves(code)) BY <2>1
  <2> QED BY <2>1, <2>2, GraphOfCode DEF Current
<1>3. CASE RemoveVertex \/ RemoveBlocked
  <2>1. /\ pc = "simplify" /\ pc' = pc
        /\ machine' = machine /\ code' = code /\ igraph' = igraph
    BY <1>3 DEF RemoveVertex, RemoveBlocked
  <2>2. igraph = computeInterference(code) BY <2>1 DEF AllocationInv, Current
  <2> QED BY <1>1, <2>1, <2>2 DEF Current
<1>4. CASE ColorFixed
  <2>1. /\ pc = "simplify" /\ pc' = "select" /\ Remaining = {} /\ coloring' = fixed
        /\ machine' = machine /\ code' = code /\ igraph' = igraph /\ stack' = stack
    BY <1>4 DEF ColorFixed
  <2>2. igraph = computeInterference(code) BY <2>1 DEF AllocationInv, Current
  <2>3. DOMAIN igraph \subseteq DOMAIN fixed \cup ToSet(stack) BY <2>1 DEF Remaining
  <2> QED BY <1>1, <2>1, <2>2, <2>3 DEF Current
<1>5. CASE findColorFor
  <2>1. /\ pc = "select" /\ pc' = "select" /\ stack # <<>> /\ stack' = Tail(stack)
        /\ DOMAIN coloring' = DOMAIN coloring \cup {Head(stack)}
        /\ machine' = machine /\ code' = code /\ igraph' = igraph
    BY <1>5 DEF findColorFor
  <2>2. igraph = computeInterference(code) /\ DOMAIN igraph \subseteq DOMAIN coloring \cup ToSet(stack)
    BY <2>1 DEF AllocationInv, Current
  <2>3. ToSet(stack) \subseteq ToSet(Tail(stack)) \cup {Head(stack)}
    <3> DEFINE S == DOMAIN igraph \ DOMAIN fixed
    <3>1. stack \in Seq(S) BY <2>1 DEF AllocationInv, ColoringInv, Stacked
    <3> HIDE DEF S
    <3>2. ASSUME NEW i \in 1 .. Len(stack), i # 1 PROVE stack[i] \in ToSet(Tail(stack))
      <4>1. i - 1 \in 1 .. Len(Tail(stack)) /\ Tail(stack)[i - 1] = stack[i] BY <2>1, <3>1, <3>2
      <4> QED BY <2>1, <3>1, <4>1 DEF ToSet
    <3>3. stack[1] = Head(stack) /\ DOMAIN stack = 1 .. Len(stack) BY <3>1
    <3> QED BY <3>2, <3>3 DEF ToSet
  <2> QED BY <1>1, <2>1, <2>2, <2>3 DEF Current
<1>6. CASE Spill
  <2>1. pc' = "coalesce" BY <1>6 DEF Spill
  <2> QED BY <2>1 DEF Current
<1>7. CASE Assign \/ Step
  <2>1. pc' \in {"run", "aborted"} BY <1>7 DEF Assign, Step
  <2> QED BY <2>1 DEF Current
<1>8. CASE UNCHANGED vars
  <2>1. UNCHANGED <<machine, code, igraph, pc, coloring, stack>> BY <1>8 DEF vars, allocation
  <2> QED BY <1>1, <2>1 DEF AllocationInv, Current
<1> QED BY <1>2, <1>3, <1>4, <1>5, <1>6, <1>7, <1>8 DEF Next

THEOREM AllocationInvariance == Spec => []AllocationInv
<1>1. Init => AllocationInv
  <2>1. Init => Current BY DEF Init, Current
  <2> QED BY <2>1, ColoringInit, MachinesInit DEF AllocationInv
<1>2. AllocationInv /\ [Next]_vars => AllocationInv'
  BY ColoringNext, MachinesNext, CurrentNext DEF AllocationInv
<1> QED BY <1>1, <1>2, PTL DEF Spec

\* Edges of the graph while it is there.
LEMMA GraphNow ==
  ASSUME AllocationInv, pc \in {"simplify", "select"}, NEW v, NEW w, v # w
  PROVE  Interfere(code, v, w) <=> v \in DOMAIN igraph /\ w \in igraph[v]
<1>1. Wellformed(machine.succ) /\ \A b \in Blocks : code[b] \in Seq(ToSet(code[b]))
  BY DEF AllocationInv, Machines, Instructions
<1>2. igraph = computeInterference(code) BY DEF AllocationInv, Current
<1> QED BY <1>1, <1>2, GraphIsExact

(***************************************************************************)
(* The graph has an edge exactly between two registers of which some       *)
(* instruction writes one while a path from there still reads the other,   *)
(* the instruction being no move between the two, and between precolored   *)
(* ones of different colours (computeInterference, reg_alloc.cpp), as long *)
(* as it is used.                                                          *)
(***************************************************************************)
InterferenceExact ==
  pc \in {"simplify", "select"} =>
    \A v, w \in DOMAIN type :
      v # w => (Interfere(code, v, w) <=> v \in DOMAIN igraph /\ w \in igraph[v])

THEOREM EdgesWhereNeeded == Spec => []InterferenceExact
<1>1. AllocationInv => InterferenceExact BY GraphNow DEF InterferenceExact
<1> QED BY <1>1, AllocationInvariance, PTL

\* Where findColorFor's assertion holds the coloring is proper.
LEMMA Proper ==
  ASSUME AllocationInv, FixedApart
  PROVE  ProperColoring
<1> USE DEF AllocationInv
<1> SUFFICES ASSUME pc = "select", NEW v \in DOMAIN coloring
             PROVE  /\ v \notin DOMAIN fixed => coloring[v] \in 0 .. Colors - 1
                    /\ \A w \in igraph[v] \cap DOMAIN coloring : coloring[v] # coloring[w]
  BY DEF ProperColoring
<1>1. CASE v \notin DOMAIN fixed BY <1>1 DEF ColoringInv, Coloured
<1>2. CASE v \in DOMAIN fixed
  <2>1. ASSUME NEW w \in igraph[v] \cap DOMAIN coloring PROVE coloring[v] # coloring[w]
    <3>1. /\ v \in DOMAIN igraph /\ w \in igraph[v] /\ v \in igraph[w] /\ v # w
          /\ coloring[v] = fixed[v]
      BY <1>2 DEF ColoringInv, Coloured, Stacked, Undirected
    <3>2. CASE w \in DOMAIN fixed
      <4>1. coloring[w] = fixed[w] BY <3>2 DEF ColoringInv, Coloured
      <4>2. Interfere(code, v, w) BY <3>1, GraphNow
      <4> SUFFICES ASSUME fixed[v] = fixed[w] PROVE FALSE BY <3>1, <4>1
      <4>3. Overwrites(code, w, v) \/ Overwrites(code, v, w) BY <4>2 DEF Interfere
      <4> QED BY <1>2, <3>1, <3>2, <4>3 DEF Overwrites, FixedApart
    <3>3. CASE w \notin DOMAIN fixed BY <3>1, <3>3 DEF ColoringInv, Coloured
    <3> QED BY <3>2, <3>3
  <2> QED BY <1>2, <2>1
<1> QED BY <1>1, <1>2

(***************************************************************************)
(* ProperColoring, for every function and number of colours, unless the    *)
(* instructions selected let two precolored registers of one colour        *)
(* interfere: "no two registers which interfere are assigned the same      *)
(* color" (findColorFor, reg_alloc.cpp).                                   *)
(***************************************************************************)
THEOREM NeighboursApart == Spec => [](FixedApart => ProperColoring)
<1>1. AllocationInv => (FixedApart => ProperColoring) BY Proper
<1> QED BY <1>1, AllocationInvariance, PTL

(***************************************************************************)
(* NothingOverwritten, for every function, number of colours, order of the *)
(* graph and spill: in the registers it is given no instruction writes     *)
(* what a path still reads, unless the instructions selected already do    *)
(* with precolored registers.                                              *)
(***************************************************************************)
THEOREM ValuesKept == Spec => [](FixedApart => NothingOverwritten)
<1>1. ASSUME AllocationInv, FixedApart PROVE NothingOverwritten
  <2> SUFFICES ASSUME pc = "select", stack = <<>>, NEW b \in Blocks, NEW i \in DOMAIN code[b],
                      NEW o \in Outs(code[b][i]), NEW v \in DOMAIN type \ {o},
                      ColorOf(v) = ColorOf(o), Needed(code, v, b, i)
               PROVE  FALSE
    BY DEF NothingOverwritten
  <2>1. v # o /\ Interfere(code, v, o) BY DEF Interfere, Overwrites
  <2>2. v \in DOMAIN igraph /\ o \in igraph[v] BY <1>1, <2>1, GraphNow
  <2>3. o \in DOMAIN igraph BY <1>1, <2>2 DEF AllocationInv, ColoringInv, Stacked, Undirected
  <2>4. ToSet(stack) = {} BY DEF ToSet
  <2>5. v \in DOMAIN coloring /\ o \in DOMAIN coloring
    BY <1>1, <2>2, <2>3, <2>4 DEF AllocationInv, Current
  <2>6. coloring[v] # coloring[o] BY <1>1, <2>2, <2>5, Proper DEF ProperColoring
  <2> QED BY <2>5, <2>6 DEF ColorOf
<1>2. AllocationInv => (FixedApart => NothingOverwritten) BY <1>1
<1> QED BY <1>2, AllocationInvariance, PTL
=============================================================================
