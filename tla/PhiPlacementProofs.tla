------------------------- MODULE PhiPlacementProofs -------------------------
(***************************************************************************)
(* Proofs about where the construction of SSA form puts phi nodes, for     *)
(* every control-flow graph all of whose blocks can be reached.            *)
(***************************************************************************)
EXTENDS PhiPlacement, CommonLemmas

(***************************************************************************)
(* Reachability as a least closed set.                                     *)
(***************************************************************************)
\* The blocks are numbers, and so few that Len(f.succ) steps visit all.
LEMMA BlocksAreNumbered ==
  ASSUME NEW f, IsControlFlowGraph(f)
  PROVE  /\ Len(f.succ) \in Nat /\ Blocks(f) = 1 .. Len(f.succ)
         /\ Entry \in Blocks(f) /\ None \notin Blocks(f)
         /\ \A b \in Blocks(f) : /\ f.succ[b] \in Seq(Blocks(f))
                                 /\ ToSet(f.succ[b]) \in SUBSET Blocks(f)
<1> USE DEF IsControlFlowGraph
<1>1. f.succ \in Seq(Seq(Blocks(f))) /\ Entry \in Blocks(f) OBVIOUS
<1>2. Len(f.succ) \in Nat /\ DOMAIN f.succ = 1 .. Len(f.succ) BY <1>1
<1>3. Blocks(f) = 1 .. Len(f.succ) BY <1>2 DEF Blocks
<1>4. ASSUME NEW b \in Blocks(f)
      PROVE  f.succ[b] \in Seq(Blocks(f)) /\ ToSet(f.succ[b]) \in SUBSET Blocks(f)
  <2>1. f.succ[b] \in Seq(Blocks(f)) BY <1>1, <1>2, <1>3
  <2> QED BY <2>1 DEF ToSet
<1> QED BY <1>1, <1>2, <1>3, <1>4 DEF None

\* Closed under the jumps that do not lead to d, from the entry on.
Closed(f, d, T) ==
  /\ {Entry} \ {d} \subseteq T
  /\ \A x \in T : ToSet(f.succ[x]) \ {d} \subseteq T

LEMMA Avoiding ==
  ASSUME NEW f, IsControlFlowGraph(f), NEW d
  PROVE  /\ ReachableAvoiding(f, d) \subseteq Blocks(f) \ {d}
         /\ Closed(f, d, ReachableAvoiding(f, d))
         /\ \A T \in SUBSET Blocks(f) : Closed(f, d, T) => ReachableAvoiding(f, d) \subseteq T
<1> DEFINE next == [b \in Blocks(f) |-> ToSet(f.succ[b]) \ {d}]
           start == {Entry} \ {d}
           Round(before) == before \cup ((UNION {ToSet(f.succ[b]) : b \in before}) \ {d})
           g == [S \in SUBSET Blocks(f) |-> Round(S)]
           Steps(W, N) == W = [n \in 0 .. N |-> IF n = 0 THEN start ELSE Round(W[n - 1])]
<1>0. PICK N : N = Len(f.succ) OBVIOUS
<1>1. N \in Nat /\ Blocks(f) = 1 .. N /\ start \in SUBSET Blocks(f) BY <1>0, BlocksAreNumbered
<1>2. next \in [Blocks(f) -> SUBSET Blocks(f)] BY BlocksAreNumbered
<1>3. ASSUME NEW S \in SUBSET Blocks(f)
      PROVE  Round(S) \in SUBSET Blocks(f) /\ Round(S) = S \cup UNION {next[b] : b \in S} /\ g[S] = Round(S)
  <2>1. \A b \in S : ToSet(f.succ[b]) \in SUBSET Blocks(f) /\ next[b] = ToSet(f.succ[b]) \ {d}
    BY BlocksAreNumbered
  <2>2. Round(S) \in SUBSET Blocks(f) BY <2>1
  <2>3. UNION {next[b] : b \in S} = (UNION {ToSet(f.succ[b]) : b \in S}) \ {d}
    <3> HIDE DEF next
    <3> QED BY <2>1
  <2>4. g[S] = Round(S) OBVIOUS
  <2> QED BY <2>2, <2>3, <2>4
<1> HIDE DEF next, start, Round, g
<1>4. \E W : Steps(W, N)
  <2>1. N \in Nat /\ start \in SUBSET Blocks(f) /\ g \in [SUBSET Blocks(f) -> SUBSET Blocks(f)]
    BY <1>1, <1>3 DEF g
  <2>2. PICK R \in [0 .. N -> SUBSET Blocks(f)] : Iterates(R, N, start, g)
    BY <2>1, IterationWithin, Zenon
  <2>3. ASSUME NEW n \in 0 .. N, n # 0 PROVE g[R[n - 1]] = Round(R[n - 1])
    <3>1. n - 1 \in 0 .. N BY <1>1, <2>3
    <3> QED BY <1>3, <3>1
  <2> QED BY <2>2, <2>3 DEF Iterates
<1> DEFINE W == CHOOSE W : Steps(W, N)
<1>5. Steps(W, N) BY <1>4
<1>6. ReachableAvoiding(f, d) = W[N] BY <1>0, Zenon DEF ReachableAvoiding, Round, start
<1> HIDE DEF W
<1>7. Grows(next, start, W, N)
  <2>1. W[0] = start BY <1>1, <1>5
  <2> DEFINE Bad == {n \in 0 .. N : W[n] \notin SUBSET Blocks(f)}
  <2>2. \A n \in 0 .. N - 1 : W[n + 1] = Round(W[n])
    <3> SUFFICES ASSUME NEW n \in 0 .. N - 1 PROVE W[n + 1] = Round(W[n]) OBVIOUS
    <3>1. n + 1 \in 0 .. N /\ n + 1 # 0 /\ (n + 1) - 1 = n BY <1>1
    <3> QED BY <1>5, <3>1
  <2>3. Bad = {}
    <3> SUFFICES ASSUME Bad # {} PROVE FALSE OBVIOUS
    <3>1. PICK k \in Bad : \A n \in Bad : k <= n
      <4>1. Bad \in SUBSET Nat OBVIOUS
      <4> HIDE DEF Bad
      <4> QED BY <4>1, Least
    <3>2. k \in 0 .. N /\ W[k] \notin SUBSET Blocks(f) /\ k # 0 BY <1>1, <2>1, <3>1
    <3>3. k - 1 \in 0 .. N - 1 /\ k - 1 \in 0 .. N /\ (k - 1) + 1 = k /\ ~(k <= k - 1) BY <1>1, <3>2
    <3>4. W[k - 1] \in SUBSET Blocks(f) BY <3>1, <3>3
    <3>5. W[k] = Round(W[k - 1]) BY <2>2, <3>3
    <3> QED BY <1>3, <3>2, <3>4, <3>5
  <2>4. ASSUME NEW n \in 0 .. N - 1 PROVE W[n + 1] = W[n] \cup UNION {next[b] : b \in W[n]}
    <3>1. n \in 0 .. N BY <1>1
    <3> QED BY <1>3, <2>2, <2>3, <3>1
  <2> QED BY <2>1, <2>4 DEF Grows
<1>8. W[N] \in SUBSET Blocks(f) /\ IsClosure(next, start, W[N]) BY <1>1, <1>2, <1>7, GrowsToClosure
<1>9. Closed(f, d, W[N])
  BY <1>8 DEF IsClosure, Closed, next, start
<1>10. ASSUME NEW T \in SUBSET Blocks(f), Closed(f, d, T) PROVE W[N] \subseteq T
  BY <1>8, <1>10 DEF IsClosure, Closed, next, start
<1>11. d \notin W[N]
  <2>1. Closed(f, d, W[N] \ {d}) BY <1>9 DEF Closed
  <2> QED BY <1>8, <1>10, <2>1
<1> QED BY <1>6, <1>8, <1>9, <1>10, <1>11

-----------------------------------------------------------------------------
(***************************************************************************)
(* What dominance is: an order on the blocks in which the dominators of    *)
(* each form a chain.                                                      *)
(***************************************************************************)
AllReachable(f) == IsControlFlowGraph(f) /\ ReachableBlocks(f) = Blocks(f)

\* What holds of the entry and, with a block, of its successors, holds of all.
LEMMA HoldsOfAll ==
  ASSUME NEW f, AllReachable(f), NEW T \in SUBSET Blocks(f), Entry \in T,
         \A x \in T : ToSet(f.succ[x]) \subseteq T
  PROVE  T = Blocks(f)
<1>1. Closed(f, None, T) BY DEF Closed
<1>2. ReachableAvoiding(f, None) \subseteq T BY <1>1, Avoiding, Zenon DEF AllReachable
<1> QED BY <1>2 DEF AllReachable, ReachableBlocks

\* A block other than d that control can come to from one reached without d is
\* reached without d.
LEMMA AvoidsOn ==
  ASSUME NEW f, AllReachable(f), NEW d, NEW p \in ReachableAvoiding(f, d),
         NEW b \in ToSet(f.succ[p]), b # d
  PROVE  b \in ReachableAvoiding(f, d)
<1>1. Closed(f, d, ReachableAvoiding(f, d)) BY Avoiding DEF AllReachable
<1> QED BY <1>1 DEF Closed

LEMMA AvoidsFromEntry ==
  ASSUME NEW f, AllReachable(f), NEW d, d # Entry
  PROVE  Entry \in ReachableAvoiding(f, d)
BY Avoiding DEF AllReachable, Closed

LEMMA AvoidsItself ==
  ASSUME NEW f, AllReachable(f), NEW d
  PROVE  d \notin ReachableAvoiding(f, d) /\ ReachableAvoiding(f, d) \subseteq Blocks(f)
BY Avoiding DEF AllReachable

\* A set with the entry in it, if not d, and with a block its successors but d.
LEMMA AvoidsWithin ==
  ASSUME NEW f, AllReachable(f), NEW d, NEW T \in SUBSET Blocks(f), d # Entry => Entry \in T,
         \A x \in T : \A y \in ToSet(f.succ[x]) : y # d => y \in T
  PROVE  ReachableAvoiding(f, d) \subseteq T
<1>1. Closed(f, d, T) BY DEF Closed
<1> QED BY <1>1, Avoiding DEF AllReachable

LEMMA EntryDominates ==
  ASSUME NEW f, AllReachable(f), NEW b \in Blocks(f)
  PROVE  /\ Dominates(f, Entry, b)
         /\ \A d : Dominates(f, d, Entry) => d = Entry
<1>1. ReachableAvoiding(f, Entry) \subseteq {}
  <2> DEFINE T == {}
  <2>1. T \in SUBSET Blocks(f) /\ \A x \in T : \A y \in ToSet(f.succ[x]) : y # Entry => y \in T OBVIOUS
  <2> HIDE DEF T
  <2>2. ReachableAvoiding(f, Entry) \subseteq T BY <2>1, AvoidsWithin
  <2> QED BY <2>2 DEF T
<1> QED BY <1>1, AvoidsFromEntry DEF Dominates

LEMMA DominanceTransitive ==
  ASSUME NEW f, AllReachable(f), NEW d, NEW e, NEW b, Dominates(f, d, e), Dominates(f, e, b)
  PROVE  Dominates(f, d, b)
<1> SUFFICES ASSUME b # d, b \in ReachableAvoiding(f, d), e # b, d # e PROVE FALSE
  BY DEF Dominates
<1>1. e \notin ReachableAvoiding(f, d) /\ b \notin ReachableAvoiding(f, e) BY DEF Dominates
<1> DEFINE T == ReachableAvoiding(f, d) \cap ReachableAvoiding(f, e)
<1>2. T \in SUBSET Blocks(f) BY AvoidsItself
<1>3. d # Entry => Entry \in T
  <2>1. d # Entry => Entry # e BY <1>1, AvoidsFromEntry
  <2> QED BY <2>1, AvoidsFromEntry
<1>4. ASSUME NEW x \in T, NEW y \in ToSet(f.succ[x]), y # d PROVE y \in T
  <2>1. y \in ReachableAvoiding(f, d) BY <1>4, AvoidsOn
  <2>2. y # e BY <2>1, <1>1
  <2> QED BY <2>1, <2>2, <1>4, AvoidsOn
<1> HIDE DEF T
<1>5. ReachableAvoiding(f, d) \subseteq T BY <1>2, <1>3, <1>4, AvoidsWithin
<1> QED BY <1>1, <1>5 DEF T

LEMMA DominanceAntisymmetric ==
  ASSUME NEW f, AllReachable(f), NEW d \in Blocks(f), NEW e \in Blocks(f),
         Dominates(f, d, e), Dominates(f, e, d)
  PROVE  d = e
<1> SUFFICES ASSUME d # e PROVE FALSE OBVIOUS
<1>1. e \notin ReachableAvoiding(f, d) /\ d \notin ReachableAvoiding(f, e) BY DEF Dominates
<1> DEFINE T == ReachableAvoiding(f, d) \cap ReachableAvoiding(f, e)
<1>2. T \in SUBSET Blocks(f) BY AvoidsItself
<1>3. Entry \in T BY <1>1, AvoidsFromEntry
<1>4. ASSUME NEW x \in T, NEW y \in ToSet(f.succ[x]) PROVE y \in T
  <2>1. y # d /\ y # e BY <1>1, <1>4, AvoidsOn
  <2> QED BY <2>1, <1>4, AvoidsOn
<1>5. T = Blocks(f)
  <2> HIDE DEF T
  <2> QED BY <1>2, <1>3, <1>4, HoldsOfAll
<1> QED BY <1>5, AvoidsItself

\* Of two dominators of a block, one dominates the other.
LEMMA DominatorsFormChain ==
  ASSUME NEW f, AllReachable(f), NEW b \in Blocks(f), NEW d \in Blocks(f), NEW e \in Blocks(f),
         Dominates(f, d, b), Dominates(f, e, b)
  PROVE  Dominates(f, d, e) \/ Dominates(f, e, d)
<1> SUFFICES ASSUME d # e, e \in ReachableAvoiding(f, d), d \in ReachableAvoiding(f, e) PROVE FALSE
  BY DEF Dominates
<1> DEFINE T == ReachableAvoiding(f, d) \cup ReachableAvoiding(f, e)
<1>1. T \in SUBSET Blocks(f) BY AvoidsItself
<1>2. Entry \in T BY AvoidsFromEntry
<1>3. ASSUME NEW x \in T, NEW y \in ToSet(f.succ[x]) PROVE y \in T
  BY AvoidsOn, <1>3
<1>4. T = Blocks(f)
  <2> HIDE DEF T
  <2> QED BY <1>1, <1>2, <1>3, HoldsOfAll
<1> QED BY <1>4, AvoidsItself DEF Dominates

\* Who strictly dominates a block dominates its predecessors ...
LEMMA DominatesPredecessors ==
  ASSUME NEW f, AllReachable(f), NEW b \in Blocks(f), NEW d, Dominates(f, d, b), d # b,
         NEW p \in Predecessors(f, b)
  PROVE  Dominates(f, d, p)
<1>1. p \in Blocks(f) /\ b \in ToSet(f.succ[p]) BY DEF Predecessors
<1> QED BY <1>1, AvoidsOn DEF Dominates

\* ... and who dominates all its predecessors dominates a block.
LEMMA DominatesAfterAll ==
  ASSUME NEW f, AllReachable(f), NEW b \in Blocks(f), b # Entry, NEW d,
         \A p \in Predecessors(f, b) : Dominates(f, d, p)
  PROVE  Dominates(f, d, b)
<1> SUFFICES ASSUME b # d, b \in ReachableAvoiding(f, d) PROVE FALSE BY DEF Dominates
<1> DEFINE T == ReachableAvoiding(f, d) \ {b}
<1>1. T \in SUBSET Blocks(f) BY AvoidsItself
<1>2. d # Entry => Entry \in T BY AvoidsFromEntry
<1>3. ASSUME NEW x \in T, NEW y \in ToSet(f.succ[x]), y # d PROVE y \in T
  <2>1. y \in ReachableAvoiding(f, d) BY <1>3, AvoidsOn
  <2>2. ASSUME y = b PROVE FALSE
    <3>1. x \in Predecessors(f, b) BY <1>1, <1>3, <2>2 DEF Predecessors
    <3>2. x # d BY AvoidsItself
    <3> QED BY <3>1, <3>2 DEF Dominates
  <2> QED BY <2>1, <2>2
<1> HIDE DEF T
<1>4. ReachableAvoiding(f, d) \subseteq T BY <1>1, <1>2, <1>3, AvoidsWithin
<1> QED BY <1>4 DEF T

\* Every other block has a predecessor.
LEMMA HasPredecessor ==
  ASSUME NEW f, AllReachable(f), NEW b \in Blocks(f), b # Entry
  PROVE  Predecessors(f, b) # {}
<1> SUFFICES ASSUME Predecessors(f, b) = {} PROVE FALSE OBVIOUS
<1> DEFINE T == Blocks(f) \ {b}
<1>1. Entry \in T BY BlocksAreNumbered DEF AllReachable
<1>2. ASSUME NEW x \in T PROVE ToSet(f.succ[x]) \subseteq T
  BY BlocksAreNumbered DEF AllReachable, Predecessors
<1>3. T = Blocks(f) BY <1>1, <1>2, HoldsOfAll
<1> QED BY <1>3

-----------------------------------------------------------------------------
(***************************************************************************)
(* findDominators.                                                         *)
(***************************************************************************)
\* What one round keeps.
LEMMA RoundKeeps ==
  ASSUME NEW f, AllReachable(f), NEW dom, NEW b \in Blocks(f), NEW d \in Blocks(f)
  PROVE  <<b, d>> \in DominatorRound(f, dom) <=>
           (b = d \/ (b # Entry /\ \A p \in Predecessors(f, b) : <<p, d>> \in dom))
<1>1. b # Entry => Predecessors(f, b) # {} BY HasPredecessor
<1>2. <<b, d>> \in Blocks(f) \X Blocks(f) /\ <<b, d>>[1] = b /\ <<b, d>>[2] = d OBVIOUS
<1> QED BY <1>1, <1>2 DEF DominatorRound

AllPairs(f) == {x \in Blocks(f) \X Blocks(f) : x[1] = Entry => x[2] = Entry}

\* R holds the pairs after each round, and dom is what the last one leaves.
DominatorRounds(f, R, dom) ==
  /\ R[0] = AllPairs(f)
  /\ \A n \in 0 .. Len(f.succ) : R[n + 1] = DominatorRound(f, R[n])
  /\ (\E n \in 0 .. Len(f.succ) : R[n + 1] = R[n]) =>
       \E n \in 0 .. Len(f.succ) :
         R[n + 1] = R[n] /\ dom = [b \in Blocks(f) |-> {d \in Blocks(f) : <<b, d>> \in R[n]}]

LEMMA RoundsRun ==
  ASSUME NEW f, AllReachable(f)
  PROVE  \E R : DominatorRounds(f, R, findDominators(f))
<1> DEFINE g == [S \in SUBSET (Blocks(f) \X Blocks(f)) |-> DominatorRound(f, S)]
           Steps(W, N) == W = [n \in 0 .. N + 1 |-> IF n = 0 THEN AllPairs(f) ELSE DominatorRound(f, W[n - 1])]
<1>0. PICK N : N = Len(f.succ) OBVIOUS
<1>1. N \in Nat BY <1>0, BlocksAreNumbered DEF AllReachable
<1>2. \A S : DominatorRound(f, S) \in SUBSET (Blocks(f) \X Blocks(f)) BY DEF DominatorRound
<1>3. AllPairs(f) \in SUBSET (Blocks(f) \X Blocks(f)) BY DEF AllPairs
<1>4. \A S \in SUBSET (Blocks(f) \X Blocks(f)) : g[S] = DominatorRound(f, S) OBVIOUS
<1> HIDE DEF g
<1>5. \E W : Steps(W, N)
  <2>1. /\ N + 1 \in Nat /\ AllPairs(f) \in SUBSET (Blocks(f) \X Blocks(f))
        /\ g \in [SUBSET (Blocks(f) \X Blocks(f)) -> SUBSET (Blocks(f) \X Blocks(f))]
    BY <1>1, <1>2, <1>3 DEF g
  <2>2. PICK R \in [0 .. N + 1 -> SUBSET (Blocks(f) \X Blocks(f))] : Iterates(R, N + 1, AllPairs(f), g)
    BY <2>1, IterationWithin, Zenon
  <2>3. ASSUME NEW n \in 0 .. N + 1, n # 0 PROVE g[R[n - 1]] = DominatorRound(f, R[n - 1])
    <3>1. n - 1 \in 0 .. N + 1 BY <1>1, <2>3
    <3> QED BY <1>4, <3>1
  <2> QED BY <2>2, <2>3 DEF Iterates
<1> DEFINE R == CHOOSE W : Steps(W, N)
<1>6. Steps(R, N) BY <1>5
<1> DEFINE last == CHOOSE n \in 0 .. N : R[n + 1] = R[n]
<1>7. findDominators(f) = [b \in Blocks(f) |-> {d \in Blocks(f) : <<b, d>> \in R[last]}]
  BY <1>0, Zenon DEF findDominators, AllPairs
<1> HIDE DEF R
<1>8. R[0] = AllPairs(f) BY <1>1, <1>6
<1>9. ASSUME NEW n \in 0 .. N PROVE R[n + 1] = DominatorRound(f, R[n])
  <2>1. n + 1 \in 0 .. N + 1 /\ n + 1 # 0 /\ (n + 1) - 1 = n BY <1>1
  <2> QED BY <1>6, <2>1
<1>10. ASSUME \E n \in 0 .. N : R[n + 1] = R[n]
       PROVE  last \in 0 .. N /\ R[last + 1] = R[last]
  BY <1>10
<1> HIDE DEF last, Steps
<1> QED BY <1>0, <1>7, <1>8, <1>9, <1>10 DEF DominatorRounds

\* No round loses a dominator.
LEMMA RoundsKeepDominators ==
  ASSUME NEW f, AllReachable(f), NEW R, NEW dom, DominatorRounds(f, R, dom),
         NEW b \in Blocks(f), NEW d \in Blocks(f), Dominates(f, d, b)
  PROVE  \A n \in 0 .. Len(f.succ) + 1 : <<b, d>> \in R[n]
<1>0. PICK N : N = Len(f.succ) OBVIOUS
<1>1. N \in Nat BY <1>0, BlocksAreNumbered DEF AllReachable
<1> DEFINE Lost == {n \in 0 .. N + 1 : \E x, y \in Blocks(f) : Dominates(f, x, y) /\ <<y, x>> \notin R[n]}
<1> SUFFICES ASSUME Lost # {} PROVE FALSE BY <1>0
<1>2. PICK k \in Lost : \A n \in Lost : k <= n
  <2>1. Lost \in SUBSET Nat BY <1>1
  <2> HIDE DEF Lost
  <2> QED BY <2>1, Least
<1>3. PICK x \in Blocks(f), y \in Blocks(f) : Dominates(f, x, y) /\ <<y, x>> \notin R[k] BY <1>2
<1>4. CASE k = 0
  <2>1. y = Entry => x = Entry BY <1>3, EntryDominates
  <2> QED BY <1>3, <1>4, <2>1 DEF DominatorRounds, AllPairs
<1>5. CASE k # 0
  <2>1. k - 1 \in 0 .. N /\ k - 1 \in 0 .. N + 1 /\ (k - 1) + 1 = k /\ ~(k <= k - 1) BY <1>1, <1>2, <1>5
  <2>2. R[k] = DominatorRound(f, R[k - 1]) BY <1>0, <2>1 DEF DominatorRounds
  <2>3. x # y /\ (y = Entry \/ \E p \in Predecessors(f, y) : <<p, x>> \notin R[k - 1])
    BY <1>3, <2>2, RoundKeeps
  <2>4. y # Entry BY <1>3, <2>3, EntryDominates
  <2>5. PICK p \in Predecessors(f, y) : <<p, x>> \notin R[k - 1] BY <2>3, <2>4
  <2>6. p \in Blocks(f) /\ Dominates(f, x, p) BY <1>3, <2>3, DominatesPredecessors DEF Predecessors
  <2>7. k - 1 \in Lost BY <2>1, <2>5, <2>6
  <2> QED BY <1>2, <2>1, <2>7
<1> QED BY <1>4, <1>5

\* A round that changes nothing leaves only dominators.
LEMMA StableRound ==
  ASSUME NEW f, AllReachable(f), NEW S, S = DominatorRound(f, S),
         NEW b \in Blocks(f), NEW d \in Blocks(f), <<b, d>> \in S
  PROVE  Dominates(f, d, b)
<1> DEFINE T == {x \in Blocks(f) : <<x, d>> \notin S}
<1>1. d # Entry => Entry \in T
  <2>1. Entry \in Blocks(f) BY BlocksAreNumbered DEF AllReachable
  <2>2. ASSUME <<Entry, d>> \in S PROVE d = Entry BY <2>1, <2>2, RoundKeeps
  <2> QED BY <2>1, <2>2
<1>2. ASSUME NEW x \in T, NEW y \in ToSet(f.succ[x]), y # d PROVE y \in T
  <2>1. x \in Blocks(f) /\ y \in Blocks(f) BY BlocksAreNumbered DEF AllReachable
  <2>2. x \in Predecessors(f, y) BY <2>1 DEF Predecessors
  <2> QED BY <1>2, <2>1, <2>2, RoundKeeps
<1>3. T \in SUBSET Blocks(f) OBVIOUS
<1> HIDE DEF T
<1>4. ReachableAvoiding(f, d) \subseteq T BY <1>1, <1>2, <1>3, AvoidsWithin
<1> QED BY <1>4 DEF T, Dominates

\* The blocks that d no longer dominates after each round are those a path of as
\* many steps reaches without d: so Len(f.succ) rounds settle it.
LEMMA RoundsSettle ==
  ASSUME NEW f, AllReachable(f), NEW R, NEW dom, DominatorRounds(f, R, dom), NEW d \in Blocks(f)
  PROVE  \A b \in Blocks(f) : <<b, d>> \in R[Len(f.succ) + 1] <=> <<b, d>> \in R[Len(f.succ)]
<1>0. PICK N : N = Len(f.succ) OBVIOUS
<1>1. N \in Nat /\ Blocks(f) = 1 .. N /\ Entry \in Blocks(f)
      /\ \A b \in Blocks(f) : ToSet(f.succ[b]) \in SUBSET Blocks(f)
  BY <1>0, BlocksAreNumbered DEF AllReachable
<1> DEFINE start == {Entry} \ {d}
           next == [b \in Blocks(f) |-> ToSet(f.succ[b]) \ {d}]
           Without(S) == {b \in Blocks(f) : <<b, d>> \notin S}
           From(V) == UNION {next[b] : b \in V}
           V == [n \in 0 .. N + 1 |-> Without(R[n])]
<1>2. V[0] = start
  <2>1. R[0] = AllPairs(f) BY DEF DominatorRounds
  <2>2. ASSUME NEW b \in Blocks(f) PROVE <<b, d>> \notin AllPairs(f) <=> b = Entry /\ d # Entry
    BY DEF AllPairs
  <2>3. V[0] = Without(R[0]) BY <1>1
  <2> QED BY <1>1, <2>1, <2>2, <2>3
<1>3. ASSUME NEW n \in 0 .. N PROVE V[n + 1] = start \cup From(V[n])
  <2>1. n \in 0 .. N + 1 /\ n + 1 \in 0 .. N + 1 BY <1>1
  <2>2. R[n + 1] = DominatorRound(f, R[n]) BY <1>0 DEF DominatorRounds
  <2>3. V[n + 1] = Without(DominatorRound(f, R[n])) /\ V[n] = Without(R[n]) BY <2>1, <2>2
  <2>4. ASSUME NEW b \in Blocks(f)
        PROVE  b \in From(Without(R[n])) <=> b # d /\ \E p \in Predecessors(f, b) : <<p, d>> \notin R[n]
    <3>1. b \in From(Without(R[n])) <=> \E p \in Without(R[n]) : b \in ToSet(f.succ[p]) \ {d} OBVIOUS
    <3> QED BY <3>1 DEF Predecessors
  <2>5. From(Without(R[n])) \subseteq Blocks(f) BY <1>1
  <2>6. ASSUME NEW b \in Blocks(f)
        PROVE  b \in Without(DominatorRound(f, R[n])) <=>
                 b # d /\ (b = Entry \/ \E p \in Predecessors(f, b) : <<p, d>> \notin R[n])
    <3>1. b \in Without(DominatorRound(f, R[n])) <=> <<b, d>> \notin DominatorRound(f, R[n])
      OBVIOUS
    <3>2. <<b, d>> \in DominatorRound(f, R[n]) <=>
            (b = d \/ (b # Entry /\ \A p \in Predecessors(f, b) : <<p, d>> \in R[n]))
      BY RoundKeeps
    <3> HIDE DEF Without, V
    <3> QED BY <3>1, <3>2
  <2> HIDE DEF From, V
  <2>7. Without(DominatorRound(f, R[n])) \subseteq Blocks(f) /\ start \subseteq Blocks(f) BY <1>1
  <2>8. ASSUME NEW b \in Blocks(f) PROVE b \in start <=> b = Entry /\ b # d OBVIOUS
  <2> HIDE DEF Without, start
  <2> QED BY <2>3, <2>4, <2>5, <2>6, <2>7, <2>8
<1>4. next \in [1 .. N -> SUBSET (1 .. N)] /\ start \in SUBSET (1 .. N)
  BY <1>1
<1> HIDE DEF start, next, V
<1>5. \A n \in 0 .. N : V[n] \subseteq V[n + 1]
  <2> DEFINE Drops == {n \in 0 .. N : ~(V[n] \subseteq V[n + 1])}
  <2> SUFFICES ASSUME Drops # {} PROVE FALSE OBVIOUS
  <2>1. PICK k \in Drops : \A n \in Drops : k <= n
    <3>1. Drops \in SUBSET Nat BY <1>1
    <3> HIDE DEF Drops
    <3> QED BY <3>1, Least
  <2>2. k # 0
    <3>1. ASSUME k = 0 PROVE start \subseteq V[k + 1] BY <1>3, <2>1
    <3> QED BY <1>2, <2>1, <3>1
  <2>3. k - 1 \in 0 .. N /\ (k - 1) + 1 = k /\ ~(k <= k - 1) BY <1>1, <2>1, <2>2
  <2>4. V[k - 1] \subseteq V[k] BY <2>1, <2>3
  <2>5. V[k] = start \cup From(V[k - 1]) BY <1>3, <2>3
  <2>6. V[k + 1] = start \cup From(V[k]) BY <1>3, <2>1
  <2>7. From(V[k - 1]) \subseteq From(V[k]) BY <2>4
  <2> HIDE DEF From
  <2> QED BY <2>1, <2>5, <2>6, <2>7
<1>6. \A n \in 0 .. N : V[n + 1] = V[n] \cup From(V[n])
  <2> SUFFICES ASSUME NEW n \in 0 .. N PROVE V[n + 1] = V[n] \cup From(V[n]) OBVIOUS
  <2> HIDE DEF From
  <2>1. start \subseteq V[n]
    <3>1. CASE n = 0 BY <1>2, <3>1
    <3>2. CASE n # 0
      <4>1. n - 1 \in 0 .. N /\ (n - 1) + 1 = n BY <1>1, <3>2
      <4>2. V[(n - 1) + 1] = start \cup From(V[n - 1]) BY <1>3, <4>1, Zenon
      <4> QED BY <4>1, <4>2
    <3> QED BY <3>1, <3>2
  <2> QED BY <1>3, <1>5, <2>1
<1>7. Grows(next, start, V, N)
  <2>1. \A n \in 0 .. N - 1 : n \in 0 .. N BY <1>1
  <2> QED BY <1>2, <1>6, <2>1 DEF Grows
<1>8. IsClosure(next, start, V[N])
  <2>1. N \in Nat BY <1>1
  <2> QED BY <1>4, <1>7, <2>1, GrowsToClosure
<1>9. V[N + 1] = V[N]
  <2>1. From(V[N]) \subseteq V[N] BY <1>8 DEF IsClosure
  <2>2. N \in 0 .. N BY <1>1
  <2> HIDE DEF From
  <2> QED BY <1>6, <2>1, <2>2
<1>10. N \in 0 .. N + 1 /\ N + 1 \in 0 .. N + 1 BY <1>1
<1> QED BY <1>0, <1>9, <1>10 DEF V

\* findDominators finds the dominators.
LEMMA DominatorsFound ==
  ASSUME NEW f, AllReachable(f)
  PROVE  findDominators(f) = [b \in Blocks(f) |-> {d \in Blocks(f) : Dominates(f, d, b)}]
<1>1. PICK R : DominatorRounds(f, R, findDominators(f)) BY RoundsRun, Zenon
<1>0. PICK N : N = Len(f.succ) OBVIOUS
<1>2. N \in Nat BY <1>0, BlocksAreNumbered DEF AllReachable
<1>3. R[N + 1] = R[N]
  <2>1. N \in 0 .. N /\ N - 1 \in Int /\ (N - 1) + 1 = N BY <1>2
  <2>2. R[N + 1] = DominatorRound(f, R[N]) BY <1>0, <1>1, <2>1 DEF DominatorRounds
  <2>3. R[N] \in SUBSET (Blocks(f) \X Blocks(f))
    <3>1. CASE N = 0 BY <1>1, <3>1 DEF DominatorRounds, AllPairs
    <3>2. CASE N # 0
      <4>1. N - 1 \in 0 .. N BY <1>2, <3>2
      <4>2. R[(N - 1) + 1] = DominatorRound(f, R[N - 1]) BY <1>0, <1>1, <4>1, Zenon DEF DominatorRounds
      <4> QED BY <2>1, <4>2 DEF DominatorRound
    <3> QED BY <3>1, <3>2
  <2>4. R[N + 1] \in SUBSET (Blocks(f) \X Blocks(f)) BY <2>2 DEF DominatorRound
  <2>5. \A b, d \in Blocks(f) : <<b, d>> \in R[N + 1] <=> <<b, d>> \in R[N]
    BY <1>0, <1>1, RoundsSettle
  <2> QED BY <2>3, <2>4, <2>5
<1>4. PICK n \in 0 .. N : /\ R[n + 1] = R[n]
                          /\ findDominators(f) = [b \in Blocks(f) |-> {d \in Blocks(f) : <<b, d>> \in R[n]}]
  <2>1. N \in 0 .. N BY <1>2
  <2> QED BY <1>0, <1>1, <1>3, <2>1 DEF DominatorRounds
<1>5. R[n] = DominatorRound(f, R[n]) BY <1>0, <1>1, <1>4 DEF DominatorRounds
<1>6. ASSUME NEW b \in Blocks(f), NEW d \in Blocks(f)
      PROVE  <<b, d>> \in R[n] <=> Dominates(f, d, b)
  <2>1. n \in 0 .. N + 1 BY <1>2
  <2> QED BY <1>0, <1>1, <1>5, <2>1, RoundsKeepDominators, StableRound
<1> QED BY <1>4, <1>6

-----------------------------------------------------------------------------
(***************************************************************************)
(* getImmediateDominators.                                                 *)
(***************************************************************************)
\* The dominators of b; None stands above the entry.
Above(f, b) == IF b = None THEN {} ELSE {d \in Blocks(f) : Dominates(f, d, b)}

LEMMA AboveFinite ==
  ASSUME NEW f, AllReachable(f), NEW b
  PROVE  /\ IsFiniteSet(Above(f, b)) /\ Cardinality(Above(f, b)) \in Nat
         /\ Cardinality(Above(f, b)) <= Len(f.succ)
<1>1. Len(f.succ) \in Nat /\ Blocks(f) = 1 .. Len(f.succ) BY BlocksAreNumbered DEF AllReachable
<1>2. IsFiniteSet(Blocks(f)) /\ Cardinality(Blocks(f)) = Len(f.succ) BY <1>1, FS_Interval
<1>3. Above(f, b) \in SUBSET Blocks(f) BY DEF Above
<1> QED BY <1>2, <1>3, FS_Subset, FS_CardinalityType

\* Who dominates another block has fewer dominators.
LEMMA FewerAbove ==
  ASSUME NEW f, AllReachable(f), NEW d \in Blocks(f), NEW e \in Blocks(f), d # e, Dominates(f, d, e)
  PROVE  /\ Above(f, d) \subseteq Above(f, e) \ {e}
         /\ Cardinality(Above(f, d)) < Cardinality(Above(f, e))
<1>1. e # None /\ d # None /\ e \in Above(f, e)
  BY BlocksAreNumbered DEF AllReachable, Above, Dominates
<1>2. Above(f, d) \subseteq Above(f, e) BY <1>1, DominanceTransitive DEF Above
<1>3. e \notin Above(f, d) BY <1>1, DominanceAntisymmetric DEF Above
<1>4. Cardinality(Above(f, e) \ {e}) = Cardinality(Above(f, e)) - 1 /\ IsFiniteSet(Above(f, e) \ {e})
  BY <1>1, AboveFinite, FS_RemoveElement
<1>5. Above(f, d) \in SUBSET (Above(f, e) \ {e}) BY <1>2, <1>3
<1>6. Cardinality(Above(f, d)) <= Cardinality(Above(f, e) \ {e}) BY <1>4, <1>5, FS_Subset
<1> QED BY <1>4, <1>5, <1>6, AboveFinite

\* The strict dominators of a block but the entry have a last one.
LEMMA ClosestExists ==
  ASSUME NEW f, AllReachable(f), NEW b \in Blocks(f), b # Entry
  PROVE  \E d \in Above(f, b) \ {b} : \A e \in Above(f, b) \ {b} : Dominates(f, e, d)
<1> DEFINE Strict == Above(f, b) \ {b}
           Left == {Len(f.succ) - Cardinality(Above(f, d)) : d \in Strict}
<1>1. b # None /\ Entry \in Blocks(f) /\ Len(f.succ) \in Nat BY BlocksAreNumbered DEF AllReachable
<1>2. Entry \in Strict BY <1>1, EntryDominates DEF Above
<1>3. PICK m \in Left : \A n \in Left : m <= n
  <2>1. Left \in SUBSET Nat BY <1>1, AboveFinite
  <2>2. Left # {} BY <1>2
  <2> HIDE DEF Left
  <2> QED BY <2>1, <2>2, Least
<1>4. PICK d \in Strict : m = Len(f.succ) - Cardinality(Above(f, d)) BY <1>3
<1>5. \A e \in Strict : Cardinality(Above(f, e)) <= Cardinality(Above(f, d))
  <2> SUFFICES ASSUME NEW e \in Strict PROVE Cardinality(Above(f, e)) <= Cardinality(Above(f, d))
    OBVIOUS
  <2>1. m <= Len(f.succ) - Cardinality(Above(f, e)) BY <1>3
  <2> QED BY <1>1, <1>4, <2>1, AboveFinite
<1>6. \A e \in Strict : e \in Blocks(f) /\ Dominates(f, e, b) BY <1>1 DEF Above
<1>7. ASSUME NEW e \in Strict PROVE Dominates(f, e, d)
  <2>1. CASE e = d BY <2>1 DEF Dominates
  <2>2. CASE e # d
    <3>1. Dominates(f, d, e) \/ Dominates(f, e, d) BY <1>4, <1>6, <1>7, DominatorsFormChain
    <3>2. ~Dominates(f, d, e)
      <4> SUFFICES ASSUME Dominates(f, d, e) PROVE FALSE OBVIOUS
      <4>1. Cardinality(Above(f, d)) < Cardinality(Above(f, e)) BY <1>4, <1>6, <1>7, <2>2, FewerAbove
      <4>2. Cardinality(Above(f, e)) <= Cardinality(Above(f, d)) BY <1>5, <1>7
      <4> QED BY <4>1, <4>2, AboveFinite
    <3> QED BY <3>1, <3>2
  <2> QED BY <2>1, <2>2
<1> QED BY <1>4, <1>7

\* idom is right.
IdomOf(f, idom) ==
  /\ idom \in [Blocks(f) -> Blocks(f) \cup {None}]
  /\ idom[Entry] = None
  /\ \A b \in Blocks(f) \ {Entry} :
       /\ idom[b] \in Above(f, b) \ {b}
       /\ \A e \in Above(f, b) \ {b} : Dominates(f, e, idom[b])

LEMMA ImmediateDominatorsFound ==
  ASSUME NEW f, AllReachable(f)
  PROVE  IdomOf(f, getImmediateDominators(findDominators(f)))
<1> DEFINE dom == findDominators(f)
           idom == getImmediateDominators(dom)
<1>1. DOMAIN dom = Blocks(f) /\ \A b \in Blocks(f) : dom[b] = Above(f, b)
  <2>1. \A b \in Blocks(f) : b # None BY BlocksAreNumbered DEF AllReachable
  <2> QED BY <2>1, DominatorsFound DEF Above
<1> HIDE DEF dom
<1>2. /\ DOMAIN idom = Blocks(f) /\ idom = [b \in Blocks(f) |-> idom[b]]
      /\ \A b \in Blocks(f) : /\ ClosestDominators(dom, b) = {} => idom[b] = None
                              /\ \A d : ClosestDominators(dom, b) = {d} => idom[b] = d
  BY <1>1 DEF getImmediateDominators
<1> HIDE DEF idom
<1>3. idom[Entry] = None
  <2>1. Entry \in Blocks(f) BY BlocksAreNumbered DEF AllReachable
  <2>2. Above(f, Entry) \subseteq {Entry} BY EntryDominates, <2>1 DEF Above
  <2>3. ClosestDominators(dom, Entry) = {} BY <1>1, <2>1, <2>2 DEF ClosestDominators
  <2> QED BY <1>2, <2>1, <2>3
<1>4. ASSUME NEW b \in Blocks(f) \ {Entry}
      PROVE  /\ idom[b] \in Above(f, b) \ {b}
             /\ \A e \in Above(f, b) \ {b} : Dominates(f, e, idom[b])
  <2>0. b \in Blocks(f) /\ b # None BY BlocksAreNumbered DEF AllReachable
  <2>1. PICK d \in Above(f, b) \ {b} : \A e \in Above(f, b) \ {b} : Dominates(f, e, d)
    BY <1>4, ClosestExists
  <2>2. \A e \in Above(f, b) : e \in Blocks(f) /\ e # None BY BlocksAreNumbered DEF AllReachable, Above
  <2>3. ASSUME NEW e \in Above(f, b) \ {b}, e # d PROVE d \notin dom[e] /\ e \in dom[d]
    <3>1. e \in Blocks(f) /\ d \in Blocks(f) /\ Dominates(f, e, d) BY <2>1, <2>2, <2>3
    <3>2. ~Dominates(f, d, e) BY <2>3, <3>1, DominanceAntisymmetric
    <3> QED BY <1>1, <2>2, <3>1, <3>2 DEF Above
  <2>4. ClosestDominators(dom, b) = {d}
    <3>1. dom[b] = Above(f, b) BY <1>1, <2>0
    <3>2. d \in ClosestDominators(dom, b) BY <2>1, <2>3, <3>1 DEF ClosestDominators
    <3>3. ASSUME NEW e \in ClosestDominators(dom, b), e # d PROVE FALSE
      BY <2>1, <2>3, <3>1, <3>3 DEF ClosestDominators
    <3> QED BY <3>2, <3>3
  <2> QED BY <1>2, <2>0, <2>1, <2>4
<1>5. \A b \in Blocks(f) : idom[b] \in Blocks(f) \cup {None} BY <1>3, <1>4 DEF Above
<1>6. IdomOf(f, idom)
  <2>1. idom \in [Blocks(f) -> Blocks(f) \cup {None}] BY <1>2, <1>5
  <2> QED BY <1>3, <1>4, <2>1 DEF IdomOf
<1> QED BY <1>6 DEF idom, dom

-----------------------------------------------------------------------------
(***************************************************************************)
(* getDominanceFrontiers.                                                  *)
(***************************************************************************)
\* Above the immediate dominator of a block is what is strictly above the block.
LEMMA ClimbOne ==
  ASSUME NEW f, AllReachable(f), NEW idom, IdomOf(f, idom), NEW b \in Blocks(f)
  PROVE  /\ Above(f, b) = {b} \cup Above(f, idom[b]) /\ b \notin Above(f, idom[b])
         /\ Cardinality(Above(f, b)) = Cardinality(Above(f, idom[b])) + 1
<1>0. b # None /\ Entry # None /\ Entry \in Blocks(f) /\ \A d \in Blocks(f) : d # None
  BY BlocksAreNumbered DEF AllReachable
<1>1. b \in Above(f, b) BY <1>0 DEF Above, Dominates
<1>2. Above(f, idom[b]) = Above(f, b) \ {b}
  <2>1. CASE b = Entry
    <3>1. Above(f, b) = {b} BY <1>1, <2>1, EntryDominates DEF Above
    <3>2. Above(f, idom[b]) = {} BY <2>1 DEF IdomOf, Above
    <3> QED BY <3>1, <3>2
  <2>2. CASE b # Entry
    <3>1. /\ idom[b] \in Above(f, b) \ {b}
          /\ \A e \in Above(f, b) \ {b} : Dominates(f, e, idom[b])
      BY <2>2 DEF IdomOf
    <3>2. idom[b] \in Blocks(f) /\ Dominates(f, idom[b], b) /\ idom[b] # b BY <1>0, <3>1 DEF Above
    <3>3. Above(f, b) \ {b} \subseteq Above(f, idom[b]) BY <1>0, <3>1, <3>2 DEF Above
    <3>4. Above(f, idom[b]) \subseteq Above(f, b) \ {b} BY <3>2, FewerAbove
    <3> QED BY <3>3, <3>4
  <2> QED BY <2>1, <2>2
<1>3. Cardinality(Above(f, b) \ {b}) = Cardinality(Above(f, b)) - 1
  BY <1>1, AboveFinite, FS_RemoveElement
<1> QED BY <1>1, <1>2, <1>3, AboveFinite

\* The runner from p up to the dominator, step by step.
Climbs(idom, p, Q, N) ==
  Q = [n \in 0 .. N |-> IF n = 0 THEN p ELSE idom[Q[n - 1]]]

\* The blocks it passes on its way are those above p and not above the dominator.
LEMMA RunnersFound ==
  ASSUME NEW f, AllReachable(f), NEW idom, IdomOf(f, idom), NEW p \in Blocks(f),
         NEW top, top = None \/ top \in Above(f, p)
  PROVE  RunnersUpTo(idom, p, top) = Above(f, p) \ Above(f, top)
<1> DEFINE N == Len(idom)
<1>0. N = Len(f.succ)
  <2>1. Len(f.succ) \in Nat /\ Blocks(f) = 1 .. Len(f.succ) BY BlocksAreNumbered DEF AllReachable
  <2> QED BY <2>1 DEF IdomOf
<1>1. N \in Nat /\ Blocks(f) = 1 .. N /\ None \notin Blocks(f)
  BY <1>0, BlocksAreNumbered DEF AllReachable
<1>3. \E Q : Climbs(idom, p, Q, N)
  <2>1. N \in Nat BY <1>1
  <2> HIDE DEF N
  <2>2. PICK Q : Iterates(Q, N, p, idom) BY <2>1, Iteration, Zenon
  <2> QED BY <2>2 DEF Iterates, Climbs
<1> DEFINE Q == CHOOSE Q : Climbs(idom, p, Q, N)
           Arrived(n) == Q[n] = top /\ \A m \in 0 .. n - 1 : Q[m] # top
           last == CHOOSE n \in 0 .. N : Arrived(n)
<1>4. Climbs(idom, p, Q, N) BY <1>3
<1>5. RunnersUpTo(idom, p, top) = {Q[n] : n \in 0 .. last - 1}
  BY Zenon DEF RunnersUpTo, Climbs
<1> HIDE DEF Q, N
<1>6. Q[0] = p /\ \A n \in 0 .. N - 1 : Q[n + 1] = idom[Q[n]]
  <2>1. Q[0] = p BY <1>1, <1>4 DEF Climbs
  <2>2. ASSUME NEW n \in 0 .. N - 1 PROVE Q[n + 1] = idom[Q[n]]
    <3>1. n + 1 \in 0 .. N /\ n + 1 # 0 /\ (n + 1) - 1 = n BY <1>1
    <3> QED BY <1>4, <3>1 DEF Climbs
  <2> QED BY <2>1, <2>2
\* Before it arrives.
<1> DEFINE Passed(n) == {Q[m] : m \in 0 .. n - 1}
           Climbing(n) == /\ Q[n] = None \/ Q[n] \in Blocks(f)
                          /\ top = None \/ top \in Above(f, Q[n])
                          /\ Above(f, p) = Above(f, Q[n]) \cup Passed(n)
                          /\ Above(f, Q[n]) \cap Passed(n) = {}
                          /\ Cardinality(Above(f, Q[n])) <= N - n
<1>7. ASSUME NEW n \in 0 .. N, \A m \in 0 .. n - 1 : Q[m] # top PROVE Climbing(n)
  <2> DEFINE Fails == {k \in 0 .. n : ~Climbing(k)}
  <2> SUFFICES ASSUME Fails # {} PROVE FALSE
    <3>1. n \in 0 .. n BY <1>1
    <3> HIDE DEF Climbing
    <3> QED BY <3>1
  <2> HIDE DEF Climbing
  <2>1. PICK k \in Fails : \A j \in Fails : k <= j
    <3>1. Fails \in SUBSET Nat BY <1>1
    <3> HIDE DEF Fails
    <3> QED BY <3>1, Least
  <2>2. CASE k = 0
    <3>1. Passed(0) = {} OBVIOUS
    <3>2. Cardinality(Above(f, p)) <= N - 0 BY <1>0, <1>1, AboveFinite
    <3> HIDE DEF Passed
    <3>3. Climbing(0) BY <1>6, <3>1, <3>2 DEF Climbing
    <3> QED BY <2>1, <2>2, <3>3
  <2>3. CASE k # 0
    <3>1. PICK j : j = k - 1 OBVIOUS
    <3>2. j \in 0 .. n /\ j \in 0 .. N - 1 /\ j \in 0 .. n - 1 /\ j + 1 = k /\ ~(k <= j)
      BY <1>1, <2>1, <2>3, <3>1
    <3>3. Climbing(j) BY <2>1, <3>2
    <3>4. Q[j] # top /\ Q[k] = idom[Q[j]] BY <1>6, <1>7, <3>2
    <3>5. Q[j] \in Blocks(f)
      <4>1. ASSUME Q[j] = None PROVE FALSE BY <3>3, <3>4, <4>1 DEF Climbing, Above
      <4> QED BY <3>3, <4>1 DEF Climbing
    <3>6. /\ Above(f, Q[j]) = {Q[j]} \cup Above(f, Q[k]) /\ Q[j] \notin Above(f, Q[k])
          /\ Cardinality(Above(f, Q[j])) = Cardinality(Above(f, Q[k])) + 1
      BY <3>4, <3>5, ClimbOne
    <3>7. Passed(k) = Passed(j) \cup {Q[j]}
      <4>1. 0 .. k - 1 = (0 .. j - 1) \cup {j} BY <3>1, <3>2
      <4> QED BY <4>1
    <3>8. Q[k] = None \/ Q[k] \in Blocks(f) BY <3>4, <3>5 DEF IdomOf
    <3>9. Cardinality(Above(f, Q[k])) <= N - k
      <4>1. Cardinality(Above(f, Q[j])) <= N - j BY <3>3 DEF Climbing
      <4> QED BY <1>1, <3>1, <3>2, <3>6, <4>1, AboveFinite
    <3> HIDE DEF Passed
    <3>10. Climbing(k) BY <3>3, <3>4, <3>6, <3>7, <3>8, <3>9 DEF Climbing
    <3> QED BY <2>1, <3>10
  <2> QED BY <2>2, <2>3
<1> HIDE DEF Climbing
\* It does.
<1>8. \E n \in 0 .. N : Arrived(n)
  <2> DEFINE Meets == {n \in 0 .. N : Q[n] = top}
  <2>1. Meets # {}
    <3> SUFFICES ASSUME Meets = {} PROVE FALSE OBVIOUS
    <3>1. N \in 0 .. N /\ \A m \in 0 .. N : Q[m] # top BY <1>1
    <3>2. Climbing(N) BY <1>1, <1>7, <3>1
    <3>3. Cardinality(Above(f, Q[N])) <= N - N BY <3>2 DEF Climbing
    <3>4. Above(f, Q[N]) = {}
      <4>1. Cardinality(Above(f, Q[N])) = 0 BY <1>1, <3>3, AboveFinite
      <4> QED BY <4>1, AboveFinite, FS_EmptySet
    <3>5. Q[N] = None
      <4>1. ASSUME Q[N] \in Blocks(f) PROVE Q[N] \in Above(f, Q[N])
        BY <1>1, <4>1 DEF Above, Dominates
      <4> QED BY <3>2, <3>4, <4>1 DEF Climbing
    <3>6. top = None BY <3>2, <3>4 DEF Climbing
    <3> QED BY <3>1, <3>5, <3>6
  <2>2. PICK n \in Meets : \A m \in Meets : n <= m
    <3>1. Meets \in SUBSET Nat BY <1>1
    <3> HIDE DEF Meets
    <3> QED BY <2>1, <3>1, Least
  <2>3. \A m \in 0 .. n - 1 : m \in 0 .. N /\ ~(n <= m) BY <1>1, <2>2
  <2>4. Arrived(n) BY <2>2, <2>3
  <2> QED BY <2>2, <2>4
<1>9. last \in 0 .. N /\ Arrived(last)
  <2> HIDE DEF Arrived
  <2> QED BY <1>8
<1> HIDE DEF last
<1>10. Climbing(last) BY <1>7, <1>9
<1> QED BY <1>5, <1>9, <1>10 DEF Climbing

\* A block with two predecessors has two jumps to it.
LEMMA TwoPredecessorsJoin ==
  ASSUME NEW f, AllReachable(f), NEW b \in Blocks(f),
         NEW p \in Predecessors(f, b), NEW q \in Predecessors(f, b), p # q
  PROVE  b \in Joins(f)
<1>1. ASSUME NEW r \in Predecessors(f, b)
      PROVE  \E i : <<r, i>> \in JumpsTo(f, b)
  <2>1. r \in Blocks(f) /\ b \in ToSet(f.succ[r]) BY DEF Predecessors
  <2>2. PICK i \in DOMAIN f.succ[r] : f.succ[r][i] = b BY <2>1 DEF ToSet
  <2>3. <<r, i>> \in {r} \X DOMAIN f.succ[r] BY <2>2
  <2>4. <<r, i>> \in UNION {{x} \X DOMAIN f.succ[x] : x \in Blocks(f)} BY <2>1, <2>3
  <2>5. <<r, i>> \in JumpsTo(f, b) BY <2>2, <2>4 DEF JumpsTo
  <2> QED BY <2>5
<1>2. PICK i, j : <<p, i>> \in JumpsTo(f, b) /\ <<q, j>> \in JumpsTo(f, b) BY <1>1
<1>3. <<p, i>> # <<q, j>> OBVIOUS
<1> QED BY <1>2, <1>3 DEF Joins

\* Who dominates all predecessors, and one at least, but not the block is the
\* block itself, and another predecessor leads there first.
LEMMA FrontierIsJoin ==
  ASSUME NEW f, AllReachable(f), NEW b \in Blocks(f), NEW p \in Predecessors(f, b), NEW r \in Blocks(f),
         Dominates(f, r, p), ~(r # b /\ Dominates(f, r, b))
  PROVE  b \in Joins(f)
<1> SUFFICES ASSUME b \notin Joins(f) PROVE FALSE OBVIOUS
<1>1. Predecessors(f, b) = {p} BY TwoPredecessorsJoin
<1>2. b # Entry BY DEF AllReachable, IsControlFlowGraph
<1>3. Dominates(f, r, b) BY <1>1, <1>2, DominatesAfterAll
<1>4. r = b BY <1>3
<1>5. p \in Blocks(f) BY DEF Predecessors
<1>6. p # b
  <2> SUFFICES ASSUME p = b PROVE FALSE OBVIOUS
  <2> DEFINE T == Blocks(f) \ {b}
  <2>1. Entry \in T BY <1>2, BlocksAreNumbered DEF AllReachable
  <2>2. ASSUME NEW x \in T PROVE ToSet(f.succ[x]) \subseteq T
    <3>1. ToSet(f.succ[x]) \subseteq Blocks(f) BY BlocksAreNumbered DEF AllReachable
    <3>2. x \notin Predecessors(f, b) BY <1>1
    <3> QED BY <3>1, <3>2 DEF Predecessors
  <2>3. T = Blocks(f) BY <2>1, <2>2, HoldsOfAll
  <2> QED BY <2>3
<1>7. Dominates(f, p, b)
  <2>1. Dominates(f, p, p) BY DEF Dominates
  <2> QED BY <1>1, <1>2, <2>1, DominatesAfterAll
<1> QED BY <1>4, <1>5, <1>6, <1>7, DominanceAntisymmetric

\* The blocks in whose frontier b is, by the definition.
InFrontierOf(f, b, c) ==
  /\ \E p \in Predecessors(f, c) : Dominates(f, b, p)
  /\ ~(b # c /\ Dominates(f, b, c))

LEMMA FrontiersFound ==
  ASSUME NEW f, AllReachable(f), NEW idom, IdomOf(f, idom)
  PROVE  getDominanceFrontiers(f, idom) = [b \in Blocks(f) |-> {c \in Blocks(f) : InFrontierOf(f, b, c)}]
<1> DEFINE found == UNION {UNION {RunnersUpTo(idom, p, idom[c]) \X {c} : p \in Predecessors(f, c)} : c \in Joins(f)}
<1>1. getDominanceFrontiers(f, idom) = [b \in Blocks(f) |-> {c \in Blocks(f) : <<b, c>> \in found}]
  BY DEF getDominanceFrontiers
<1>2. ASSUME NEW b \in Blocks(f), NEW c \in Blocks(f)
      PROVE  <<b, c>> \in found <=> InFrontierOf(f, b, c)
  <2>0. b # None /\ c # None /\ \A d \in Blocks(f) : d # None BY BlocksAreNumbered DEF AllReachable
  <2>1. ASSUME NEW p \in Predecessors(f, c)
        PROVE  b \in RunnersUpTo(idom, p, idom[c]) <=>
                 Dominates(f, b, p) /\ ~(b # c /\ Dominates(f, b, c))
    <3>1. p \in Blocks(f) /\ c # Entry BY DEF Predecessors, AllReachable, IsControlFlowGraph
    <3>2. idom[c] \in Above(f, c) \ {c} BY <3>1 DEF IdomOf
    <3>3. idom[c] \in Blocks(f) /\ Dominates(f, idom[c], c) /\ idom[c] # c
      BY <2>0, <3>2 DEF Above
    <3>4. Dominates(f, idom[c], p) BY <3>3, DominatesPredecessors
    <3>5. idom[c] \in Above(f, p) BY <2>0, <3>1, <3>3, <3>4 DEF Above
    <3>6. RunnersUpTo(idom, p, idom[c]) = Above(f, p) \ Above(f, idom[c])
      BY <3>1, <3>5, RunnersFound
    <3>7. Above(f, idom[c]) = Above(f, c) \ {c} BY ClimbOne
    <3> QED BY <2>0, <3>1, <3>6, <3>7 DEF Above
  <2>2. <<b, c>> \in found <=>
          c \in Joins(f) /\ \E p \in Predecessors(f, c) : b \in RunnersUpTo(idom, p, idom[c])
    OBVIOUS
  <2> HIDE DEF found
  <2>3. ASSUME NEW p \in Predecessors(f, c), Dominates(f, b, p), ~(b # c /\ Dominates(f, b, c))
        PROVE  c \in Joins(f)
    BY <2>3, FrontierIsJoin
  <2> QED BY <2>1, <2>2, <2>3 DEF InFrontierOf
<1> HIDE DEF found
<1> QED BY <1>1, <1>2

-----------------------------------------------------------------------------
(***************************************************************************)
(* For every control-flow graph that is connected, of any size and shape,  *)
(* findDominators ends with the dominators as paths define them, after no  *)
(* more rounds than there are blocks; getImmediateDominators finds one     *)
(* immediate dominator of every block but the entry and never meets its    *)
(* assert(false); and the runners of getDominanceFrontiers, though they    *)
(* only climb from the predecessors of joins, find all of each frontier.   *)
(***************************************************************************)
THEOREM DominatorsAreRight ==
  ASSUME IsControlFlowGraph(function)
  PROVE  DominatorsRight
<1> SUFFICES ASSUME ReachableBlocks(function) = Blocks(function)
             PROVE  DominatorsRight
  BY Zenon DEF DominatorsRight
<1> DEFINE f == function
           dom == findDominators(f)
           idom == getImmediateDominators(dom)
           df == getDominanceFrontiers(f, idom)
<1>1. AllReachable(f) BY DEF AllReachable
<1>2. dom = [b \in Blocks(f) |-> {d \in Blocks(f) : Dominates(f, d, b)}] BY <1>1, DominatorsFound
<1>3. IdomOf(f, idom) BY <1>1, ImmediateDominatorsFound
<1>4. df = [b \in Blocks(f) |-> {c \in Blocks(f) : InFrontierOf(f, b, c)}]
  BY <1>1, <1>3, FrontiersFound
<1> HIDE DEF dom, idom, df
<1>5. ASSUME NEW b \in Blocks(f)
      PROVE  /\ dom[b] = {d \in Blocks(f) : Dominates(f, d, b)}
             /\ IF b = Entry THEN idom[b] = None ELSE ImmediatelyDominates(f, idom[b], b)
             /\ df[b] = {c \in Blocks(f) : /\ \E p \in Predecessors(f, c) : Dominates(f, b, p)
                                           /\ ~(b # c /\ Dominates(f, b, c))}
  <2>1. dom[b] = {d \in Blocks(f) : Dominates(f, d, b)} BY <1>2
  <2>2. df[b] = {c \in Blocks(f) : /\ \E p \in Predecessors(f, c) : Dominates(f, b, p)
                                   /\ ~(b # c /\ Dominates(f, b, c))}
    BY <1>4 DEF InFrontierOf
  <2>3. CASE b = Entry BY <1>3, <2>1, <2>2, <2>3 DEF IdomOf
  <2>4. CASE b # Entry
    <3>0. \A d \in Blocks(f) : d # None BY <1>1, BlocksAreNumbered DEF AllReachable
    <3>1. /\ idom[b] \in Above(f, b) \ {b}
          /\ \A e \in Above(f, b) \ {b} : Dominates(f, e, idom[b])
      BY <1>3, <2>4 DEF IdomOf
    <3>2. ImmediatelyDominates(f, idom[b], b) BY <3>0, <3>1 DEF ImmediatelyDominates, Above
    <3> QED BY <2>1, <2>2, <2>4, <3>2
  <2> QED BY <2>3, <2>4
<1> QED BY <1>5 DEF DominatorsRight, dom, idom, df

-----------------------------------------------------------------------------
(***************************************************************************)
(* calculatePhiNodes.                                                      *)
(***************************************************************************)
\* Every block in the frontier of one that assigns, or has a phi, has a phi.
LEMMA PhisClosed ==
  ASSUME NEW N \in Nat, NEW df \in [1 .. N -> SUBSET (1 .. N)], NEW work \in SUBSET (1 .. N)
  PROVE  /\ Iterate(df, work) \in SUBSET (1 .. N)
         /\ Iterate(df, work) = UNION {df[b] : b \in work \cup Iterate(df, work)}
<1> DEFINE From(S) == UNION {df[b] : b \in S}
           Round(S) == UNION {df[b] : b \in work \cup S}
           g == [S \in SUBSET (1 .. N) |-> Round(S)]
           Steps(W) == W = [n \in 0 .. Len(df) |-> IF n = 0 THEN {} ELSE Round(W[n - 1])]
<1>0. Len(df) = N OBVIOUS
<1>1. \A S \in SUBSET (1 .. N) : Round(S) \in SUBSET (1 .. N) /\ g[S] = Round(S) OBVIOUS
<1>2. \A S \in SUBSET (1 .. N) : Round(S) = From(work \cup S) OBVIOUS
<1> HIDE DEF g, Round
<1>3. \E W : Steps(W)
  <2>1. N \in Nat /\ {} \in SUBSET (1 .. N) /\ g \in [SUBSET (1 .. N) -> SUBSET (1 .. N)]
    BY <1>1 DEF g
  <2>2. PICK R \in [0 .. N -> SUBSET (1 .. N)] : Iterates(R, N, {}, g)
    BY <2>1, IterationWithin, Zenon
  <2>3. ASSUME NEW n \in 0 .. N, n # 0 PROVE g[R[n - 1]] = Round(R[n - 1])
    <3>1. n - 1 \in 0 .. N BY <2>3
    <3> QED BY <1>1, <3>1
  <2>4. R = [n \in 0 .. N |-> IF n = 0 THEN {} ELSE Round(R[n - 1])] BY <2>2, <2>3 DEF Iterates
  <2>5. Steps(R) BY <1>0, <2>4
  <2> QED BY <2>5
<1> DEFINE W == CHOOSE W : Steps(W)
<1>4. Steps(W) BY <1>3
<1>5. Iterate(df, work) = W[Len(df)] BY Zenon DEF Iterate, Round
<1> HIDE DEF W
<1>6. W[0] = {} /\ \A n \in 0 .. N - 1 : W[n + 1] = Round(W[n])
  <2>1. W[0] = {} BY <1>0, <1>4
  <2>2. ASSUME NEW n \in 0 .. N - 1 PROVE W[n + 1] = Round(W[n])
    <3>1. n + 1 \in 0 .. N /\ n + 1 # 0 /\ (n + 1) - 1 = n OBVIOUS
    <3> QED BY <1>0, <1>4, <3>1
  <2> QED BY <2>1, <2>2
<1> HIDE DEF Steps
\* It grows.
<1> DEFINE Good(n) == W[n] \in SUBSET (1 .. N) /\ (n < N => W[n] \subseteq W[n + 1])
           Bad == {n \in 0 .. N : ~Good(n)}
<1>7. Bad = {}
  <2> SUFFICES ASSUME Bad # {} PROVE FALSE OBVIOUS
  <2>1. PICK k \in Bad : \A n \in Bad : k <= n
    <3>1. Bad \in SUBSET Nat OBVIOUS
    <3> HIDE DEF Bad
    <3> QED BY <3>1, Least
  <2>2. k # 0 BY <1>6, <2>1
  <2>3. k - 1 \in 0 .. N /\ k - 1 \in 0 .. N - 1 /\ (k - 1) + 1 = k /\ ~(k <= k - 1) /\ k - 1 < N
    BY <2>1, <2>2
  <2>4. W[k - 1] \in SUBSET (1 .. N) /\ W[k - 1] \subseteq W[k] BY <2>1, <2>3
  <2>5. W[k] = Round(W[k - 1]) BY <1>6, <2>3
  <2>6. W[k] \in SUBSET (1 .. N) BY <1>1, <2>4, <2>5
  <2>7. ASSUME k < N PROVE W[k] \subseteq W[k + 1]
    <3>1. W[k + 1] = Round(W[k]) BY <1>6, <2>1, <2>7
    <3>2. From(work \cup W[k - 1]) \subseteq From(work \cup W[k]) BY <2>4
    <3> QED BY <1>2, <2>4, <2>5, <2>6, <3>1, <3>2
  <2> QED BY <2>1, <2>6, <2>7
<1> DEFINE V == [n \in 0 .. N |-> work \cup W[n]]
<1>8. Grows(df, work, V, N)
  <2>1. V[0] = work BY <1>6
  <2>2. ASSUME NEW n \in 0 .. N - 1 PROVE V[n + 1] = V[n] \cup UNION {df[b] : b \in V[n]}
    <3>1. n \in 0 .. N /\ n + 1 \in 0 .. N /\ n < N OBVIOUS
    <3>2. W[n] \in SUBSET (1 .. N) /\ W[n] \subseteq W[n + 1] BY <1>7, <3>1
    <3>3. W[n + 1] = From(work \cup W[n]) BY <1>2, <1>6, <3>2
    <3>4. V[n + 1] = work \cup W[n + 1] /\ V[n] = work \cup W[n] BY <3>1
    <3> HIDE DEF V
    <3> QED BY <3>2, <3>3, <3>4
  <2> QED BY <2>1, <2>2 DEF Grows
<1> HIDE DEF V
<1>9. IsClosure(df, work, V[N]) /\ (N # 0 => V[N] = V[N - 1])
  BY <1>8, GrowsToClosure
<1>10. CASE N = 0
  <2>1. Iterate(df, work) = {} BY <1>0, <1>5, <1>6, <1>10
  <2>2. work = {} BY <1>10
  <2> QED BY <2>1, <2>2
<1>11. CASE N # 0
  <2>1. N - 1 \in 0 .. N - 1 /\ N - 1 \in 0 .. N /\ N \in 0 .. N /\ (N - 1) + 1 = N BY <1>11
  <2>2. W[N] = Round(W[N - 1]) BY <1>6, <2>1
  <2>3. W[N - 1] \in SUBSET (1 .. N) /\ W[N] \in SUBSET (1 .. N) BY <1>7, <2>1
  <2>4. V[N] = work \cup W[N] /\ V[N - 1] = work \cup W[N - 1] BY <2>1 DEF V
  <2>5. W[N] = From(work \cup W[N]) BY <1>2, <1>9, <1>11, <2>2, <2>3, <2>4
  <2> QED BY <1>0, <1>5, <2>3, <2>5
<1> QED BY <1>10, <1>11

\* From a block that defines nothing control goes on.
PassedOn(f, defining) == [b \in Blocks(f) |-> IF b \in defining THEN {} ELSE ToSet(f.succ[b])]

LEMMA ReachedIsClosure ==
  ASSUME NEW f, AllReachable(f), NEW defining, NEW d \in Blocks(f)
  PROVE  /\ Reached(f, defining, d) \in SUBSET Blocks(f)
         /\ IsClosure(PassedOn(f, defining), ToSet(f.succ[d]), Reached(f, defining, d))
<1> DEFINE start == ToSet(f.succ[d])
           next == PassedOn(f, defining)
           Round(before) == before \cup UNION {ToSet(f.succ[b]) : b \in before \ defining}
           g == [S \in SUBSET Blocks(f) |-> Round(S)]
           Steps(W, N) == W = [n \in 0 .. N |-> IF n = 0 THEN start ELSE Round(W[n - 1])]
<1>0. PICK N : N = Len(f.succ) OBVIOUS
<1>1. N \in Nat /\ Blocks(f) = 1 .. N /\ start \in SUBSET Blocks(f)
  BY <1>0, BlocksAreNumbered DEF AllReachable
<1>2. \A b \in Blocks(f) : ToSet(f.succ[b]) \in SUBSET Blocks(f) BY BlocksAreNumbered DEF AllReachable
<1>3. next \in [Blocks(f) -> SUBSET Blocks(f)] BY <1>2 DEF PassedOn
<1>4. ASSUME NEW S \in SUBSET Blocks(f)
      PROVE  Round(S) \in SUBSET Blocks(f) /\ Round(S) = S \cup UNION {next[b] : b \in S} /\ g[S] = Round(S)
  <2>1. \A b \in S : next[b] = IF b \in defining THEN {} ELSE ToSet(f.succ[b]) BY DEF PassedOn
  <2>2. Round(S) \in SUBSET Blocks(f) BY <1>2
  <2>3. UNION {next[b] : b \in S} = UNION {ToSet(f.succ[b]) : b \in S \ defining}
    <3> HIDE DEF next
    <3> QED BY <2>1
  <2>4. g[S] = Round(S) OBVIOUS
  <2> QED BY <2>2, <2>3, <2>4
<1> HIDE DEF next, start, Round, g
<1>5. \E W : Steps(W, N)
  <2>1. N \in Nat /\ start \in SUBSET Blocks(f) /\ g \in [SUBSET Blocks(f) -> SUBSET Blocks(f)]
    BY <1>1, <1>4 DEF g
  <2>2. PICK R \in [0 .. N -> SUBSET Blocks(f)] : Iterates(R, N, start, g)
    BY <2>1, IterationWithin, Zenon
  <2>3. ASSUME NEW n \in 0 .. N, n # 0 PROVE g[R[n - 1]] = Round(R[n - 1])
    <3>1. n - 1 \in 0 .. N BY <1>1, <2>3
    <3> QED BY <1>4, <3>1
  <2> QED BY <2>2, <2>3 DEF Iterates
<1> DEFINE W == CHOOSE W : Steps(W, N)
<1>6. Steps(W, N) BY <1>5
<1>7. Reached(f, defining, d) = W[N] BY <1>0, Zenon DEF Reached, Round, start
<1> HIDE DEF W
<1>8. W[0] = start /\ \A n \in 0 .. N - 1 : W[n + 1] = Round(W[n])
  <2>1. W[0] = start BY <1>1, <1>6
  <2>2. ASSUME NEW n \in 0 .. N - 1 PROVE W[n + 1] = Round(W[n])
    <3>1. n + 1 \in 0 .. N /\ n + 1 # 0 /\ (n + 1) - 1 = n BY <1>1
    <3> QED BY <1>6, <3>1
  <2> QED BY <2>1, <2>2
<1> HIDE DEF Steps
<1> DEFINE Outside == {n \in 0 .. N : W[n] \notin SUBSET Blocks(f)}
<1>9. Outside = {}
  <2> SUFFICES ASSUME Outside # {} PROVE FALSE OBVIOUS
  <2>1. PICK k \in Outside : \A n \in Outside : k <= n
    <3>1. Outside \in SUBSET Nat OBVIOUS
    <3> HIDE DEF Outside
    <3> QED BY <3>1, Least
  <2>2. k \in 0 .. N /\ W[k] \notin SUBSET Blocks(f) /\ k # 0 BY <1>1, <1>8, <2>1
  <2>3. k - 1 \in 0 .. N - 1 /\ k - 1 \in 0 .. N /\ (k - 1) + 1 = k /\ ~(k <= k - 1) BY <1>1, <2>2
  <2>4. W[k - 1] \in SUBSET Blocks(f) BY <2>1, <2>3
  <2>5. W[k] = Round(W[k - 1]) BY <1>8, <2>3
  <2> QED BY <1>4, <2>2, <2>4, <2>5
<1>10. Grows(next, start, W, N)
  <2>1. ASSUME NEW n \in 0 .. N - 1 PROVE W[n + 1] = W[n] \cup UNION {next[b] : b \in W[n]}
    <3>1. n \in 0 .. N BY <1>1
    <3> QED BY <1>4, <1>8, <1>9, <3>1
  <2> QED BY <1>8, <2>1 DEF Grows
<1>11. W[N] \in SUBSET Blocks(f) /\ IsClosure(next, start, W[N]) BY <1>1, <1>3, <1>10, GrowsToClosure
<1> QED BY <1>7, <1>11 DEF next, start

\* Control comes to the successors of d, and passes through what defines nothing.
LEMMA ReachedOn ==
  ASSUME NEW f, AllReachable(f), NEW defining, NEW d \in Blocks(f)
  PROVE  /\ ToSet(f.succ[d]) \subseteq Reached(f, defining, d)
         /\ \A x \in Reached(f, defining, d) \ defining : ToSet(f.succ[x]) \subseteq Reached(f, defining, d)
<1> DEFINE R == Reached(f, defining, d)
<1>1. R \in SUBSET Blocks(f) /\ IsClosure(PassedOn(f, defining), ToSet(f.succ[d]), R)
  BY ReachedIsClosure
<1> HIDE DEF R
<1> QED
  <2>1. ToSet(f.succ[d]) \subseteq R BY <1>1 DEF IsClosure
  <2>2. ASSUME NEW x \in R \ defining PROVE ToSet(f.succ[x]) \subseteq R
    <3>1. PassedOn(f, defining)[x] = ToSet(f.succ[x]) BY <1>1 DEF PassedOn
    <3>2. PassedOn(f, defining)[x] \subseteq R BY <1>1 DEF IsClosure
    <3> QED BY <3>1, <3>2
  <2> QED BY <2>1, <2>2 DEF R

\* What contains the successors of d, and with a block outside defining its
\* successors, contains all that control reaches from d.
LEMMA ReachedWithin ==
  ASSUME NEW f, AllReachable(f), NEW defining, NEW d \in Blocks(f), NEW T \in SUBSET Blocks(f),
         ToSet(f.succ[d]) \subseteq T, \A x \in T \ defining : ToSet(f.succ[x]) \subseteq T
  PROVE  Reached(f, defining, d) \subseteq T
<1>1. IsClosure(PassedOn(f, defining), ToSet(f.succ[d]), Reached(f, defining, d)) BY ReachedIsClosure
<1>2. DOMAIN PassedOn(f, defining) = Blocks(f) BY DEF PassedOn
<1>3. ASSUME NEW x \in T PROVE PassedOn(f, defining)[x] \subseteq T BY DEF PassedOn
<1> QED BY <1>1, <1>2, <1>3 DEF IsClosure

-----------------------------------------------------------------------------
(***************************************************************************)
(* Where values meet.                                                      *)
(***************************************************************************)
\* The given blocks are the frontiers of the defining ones, and define too.
Settled(f, given, defining) ==
  /\ Entry \in defining /\ given \subseteq defining /\ defining \subseteq Blocks(f)
  /\ \A c \in Blocks(f) : c \in given <=> \E x \in defining : InFrontierOf(f, x, c)

\* The phis are: the work list leaves none out, and nothing else gets one.
LEMMA PhisSettled ==
  ASSUME NEW f, AllReachable(f), NEW v \in Variables(f), NEW phis, phis = PhiNodes(f)
  PROVE  Settled(f, {b \in Blocks(f) : v \in phis[b]}, Defining(f, phis, v))
<1> DEFINE given == {b \in Blocks(f) : v \in phis[b]}
           defining == Defining(f, phis, v)
           work == WorkStart(f, v)
<1>0. Entry \in Blocks(f) BY BlocksAreNumbered DEF AllReachable
<1>1. PICK df : df = getDominanceFrontiers(f, getImmediateDominators(findDominators(f))) OBVIOUS
<1>2. df = [b \in Blocks(f) |-> {c \in Blocks(f) : InFrontierOf(f, b, c)}]
  BY <1>1, ImmediateDominatorsFound, FrontiersFound
<1>3. phis = calculatePhiNodes(f, df) BY <1>1 DEF PhiNodes
<1>4. /\ work \in SUBSET Blocks(f)
      /\ defining = {Entry} \cup work \cup given /\ defining \in SUBSET Blocks(f)
  BY <1>0 DEF WorkStart, StoreBlocks, Defining
<1>5. given = UNION {df[b] : b \in work \cup given}
  <2>1. PICK N \in Nat : Blocks(f) = 1 .. N BY BlocksAreNumbered DEF AllReachable
  <2>2. df \in [1 .. N -> SUBSET (1 .. N)] /\ work \in SUBSET (1 .. N) BY <1>2, <1>4, <2>1
  <2>3. /\ Iterate(df, work) \in SUBSET (1 .. N)
        /\ Iterate(df, work) = UNION {df[b] : b \in work \cup Iterate(df, work)}
    BY <2>2, PhisClosed
  <2>4. \A x \in Blocks(f) : v \in phis[x] <=> x \in Iterate(df, work)
    BY <1>3 DEF calculatePhiNodes
  <2>5. given = Iterate(df, work) BY <2>1, <2>3, <2>4
  <2> HIDE DEF given, work
  <2> QED BY <2>3, <2>5
<1> HIDE DEF work, defining, given
<1>6. ASSUME NEW c \in Blocks(f), NEW x \in defining, InFrontierOf(f, x, c) PROVE c \in given
  <2>1. c \in df[x] BY <1>2, <1>4, <1>6
  <2>2. CASE x \in work \cup given BY <1>5, <2>1, <2>2
  <2>3. CASE x = Entry
    <3>1. c = Entry BY <1>6, <2>3, EntryDominates DEF InFrontierOf
    <3> QED BY <1>6, <3>1 DEF InFrontierOf, AllReachable, IsControlFlowGraph
  <2> QED BY <1>4, <2>2, <2>3
<1>7. ASSUME NEW c \in given PROVE \E x \in defining : InFrontierOf(f, x, c)
  <2>1. PICK x \in work \cup given : c \in df[x] BY <1>5
  <2>2. x \in defining /\ x \in Blocks(f) BY <1>4
  <2> QED BY <1>2, <2>1, <2>2
<1> QED BY <1>4, <1>6, <1>7 DEF Settled, given, defining

\* d is the last of the given blocks on every path to the end, or to the start, of b.
LastAbove(f, defining, d, b) ==
  d \in defining /\ Dominates(f, d, b) /\ \A e \in defining : Dominates(f, e, b) => Dominates(f, e, d)
LastBefore(f, defining, d, b) ==
  /\ d \in defining /\ d # b /\ Dominates(f, d, b)
  /\ \A e \in defining : e # b /\ Dominates(f, e, b) => Dominates(f, e, d)

\* To a block that was given nothing comes one value: that of the last block
\* above it that defines.
LEMMA OneComes ==
  ASSUME NEW f, AllReachable(f), NEW given, NEW defining, Settled(f, given, defining),
         NEW d \in defining, NEW e \in defining,
         NEW b \in Reached(f, defining, d) \cap Reached(f, defining, e), b \notin given
  PROVE  d = e
<1>0. defining \in SUBSET Blocks(f) /\ given \subseteq defining BY DEF Settled
\* Over a jump to a block not given anything, and through one that defines nothing.
<1>1. ASSUME NEW x \in Blocks(f), NEW p \in Blocks(f), NEW c \in ToSet(f.succ[p]), c \notin given,
             LastAbove(f, defining, x, p)
      PROVE  LastBefore(f, defining, x, c)
  <2>1. c \in Blocks(f) BY BlocksAreNumbered DEF AllReachable
  <2>2. p \in Predecessors(f, c) BY <1>1 DEF Predecessors
  <2>3. x \in defining /\ Dominates(f, x, p) BY <1>1 DEF LastAbove
  <2>4. x # c /\ Dominates(f, x, c) BY <1>1, <2>1, <2>2, <2>3 DEF InFrontierOf, Settled
  <2>5. ASSUME NEW y \in defining, y # c, Dominates(f, y, c) PROVE Dominates(f, y, x)
    <3>1. Dominates(f, y, p) BY <2>1, <2>2, <2>5, DominatesPredecessors
    <3> QED BY <1>1, <3>1 DEF LastAbove
  <2> QED BY <2>3, <2>4, <2>5 DEF LastBefore
<1>2. ASSUME NEW x, NEW c \in Blocks(f) \ defining, LastBefore(f, defining, x, c)
      PROVE  LastAbove(f, defining, x, c)
  BY <1>2 DEF LastBefore, LastAbove
<1>3. ASSUME NEW x \in defining PROVE LastAbove(f, defining, x, x)
  BY DEF LastAbove, Dominates
<1>4. ASSUME NEW x \in defining, NEW c \in Reached(f, defining, x), c \notin given
      PROVE  LastBefore(f, defining, x, c)
  <2> DEFINE T == {y \in Blocks(f) : y \in given \/ LastBefore(f, defining, x, y)}
  <2>1. x \in Blocks(f) BY <1>0
  <2>2. \A y \in Blocks(f) : ToSet(f.succ[y]) \subseteq Blocks(f)
    BY BlocksAreNumbered DEF AllReachable
  <2>3. ToSet(f.succ[x]) \subseteq T BY <1>1, <1>3, <2>1, <2>2
  <2>4. ASSUME NEW y \in T \ defining PROVE ToSet(f.succ[y]) \subseteq T
    <3>1. y \in Blocks(f) \ defining /\ y \notin given BY <1>0
    <3>2. LastAbove(f, defining, x, y) BY <1>2, <3>1
    <3> QED BY <1>1, <2>1, <2>2, <3>1, <3>2
  <2>5. T \in SUBSET Blocks(f) OBVIOUS
  <2> HIDE DEF T
  <2>6. Reached(f, defining, x) \subseteq T BY <2>1, <2>3, <2>4, <2>5, ReachedWithin
  <2> QED BY <1>4, <2>6 DEF T
<1>5. LastBefore(f, defining, d, b) /\ LastBefore(f, defining, e, b) BY <1>4
<1>6. Dominates(f, d, e) /\ Dominates(f, e, d) BY <1>5 DEF LastBefore
<1>7. d \in Blocks(f) /\ e \in Blocks(f) BY <1>0
<1> QED BY <1>6, <1>7, DominanceAntisymmetric

\* A value from a region comes over a jump out of a block of it, when all jumps
\* into the region lead to blocks that define or come from it.
LEMMA ComesFromRegion ==
  ASSUME NEW f, AllReachable(f), NEW defining \in SUBSET Blocks(f), Entry \in defining,
         NEW R \in SUBSET Blocks(f),
         \A y \in Blocks(f) : \A z \in ToSet(f.succ[y]) : z \in R \ defining => y \in R,
         NEW b, NEW p \in Predecessors(f, b), p \in R
  PROVE  \E d \in defining \cap R : b \in Reached(f, defining, d)
<1> DEFINE AtEnd(d, y) == y = d \/ y \in Reached(f, defining, d) \ defining
           T == {y \in Blocks(f) : y \in R => \E d \in defining \cap R : AtEnd(d, y)}
<1>1. ASSUME NEW d \in defining, NEW y, AtEnd(d, y), NEW z \in ToSet(f.succ[y])
      PROVE  z \in Reached(f, defining, d)
  <2>1. d \in Blocks(f) OBVIOUS
  <2> QED BY <1>1, <2>1, ReachedOn
<1>2. Entry \in T OBVIOUS
<1>3. ASSUME NEW y \in T, NEW z \in ToSet(f.succ[y]) PROVE z \in T
  <2>1. z \in Blocks(f) BY BlocksAreNumbered DEF AllReachable
  <2>2. CASE z \in R \ defining
    <3>1. y \in R BY <2>2
    <3>2. PICK d \in defining \cap R : AtEnd(d, y) BY <3>1
    <3>3. z \in Reached(f, defining, d) BY <1>1, <3>2
    <3> QED BY <2>1, <2>2, <3>3
  <2>3. CASE z \notin R BY <2>1, <2>3
  <2>4. CASE z \in R \cap defining BY <2>1, <2>4
  <2> QED BY <2>2, <2>3, <2>4
<1>4. T = Blocks(f)
  <2>1. T \in SUBSET Blocks(f) OBVIOUS
  <2> HIDE DEF T
  <2> QED BY <1>2, <1>3, <2>1, HoldsOfAll
<1>5. p \in Blocks(f) /\ b \in ToSet(f.succ[p]) BY DEF Predecessors
<1>6. PICK d \in defining \cap R : AtEnd(d, p) BY <1>4, <1>5
<1> QED BY <1>1, <1>5, <1>6

\* Who dominates a predecessor of a block but not, strictly, the block misses
\* another predecessor.
LEMMA FrontierIsMissed ==
  ASSUME NEW f, AllReachable(f), NEW x, NEW b \in Blocks(f), InFrontierOf(f, x, b)
  PROVE  \E q \in Predecessors(f, b) : ~Dominates(f, x, q)
<1> SUFFICES ASSUME \A q \in Predecessors(f, b) : Dominates(f, x, q) PROVE FALSE OBVIOUS
<1>1. b # Entry BY DEF InFrontierOf, AllReachable, IsControlFlowGraph
<1>2. x = b BY <1>1, DominatesAfterAll DEF InFrontierOf
<1> DEFINE T == {y \in Blocks(f) : ~Dominates(f, b, y)}
<1>3. Entry \in T BY <1>1, EntryDominates, BlocksAreNumbered DEF AllReachable
<1>4. ASSUME NEW y \in T, NEW z \in ToSet(f.succ[y]) PROVE z \in T
  <2>1. z \in Blocks(f) BY BlocksAreNumbered DEF AllReachable
  <2>2. y \in Predecessors(f, z) BY DEF Predecessors
  <2>3. z # b BY <1>2, <2>2
  <2> QED BY <2>1, <2>2, <2>3, DominatesPredecessors
<1>5. T = Blocks(f)
  <2>1. T \in SUBSET Blocks(f) OBVIOUS
  <2> HIDE DEF T
  <2> QED BY <1>3, <1>4, <2>1, HoldsOfAll
<1> QED BY <1>5 DEF Dominates

\* To a block that was given something come two values: one from below the
\* block in whose frontier it lies, and one from elsewhere.
LEMMA TwoCome ==
  ASSUME NEW f, AllReachable(f), NEW given, NEW defining, Settled(f, given, defining), NEW b \in given
  PROVE  \E d, e \in defining : d # e /\ b \in Reached(f, defining, d) /\ b \in Reached(f, defining, e)
<1>0. defining \in SUBSET Blocks(f) /\ given \subseteq defining /\ Entry \in defining /\ b \in Blocks(f)
  BY DEF Settled
<1>1. PICK x \in defining : InFrontierOf(f, x, b) BY <1>0 DEF Settled
<1>2. PICK p \in Predecessors(f, b) : Dominates(f, x, p) BY <1>1 DEF InFrontierOf
<1>3. PICK q \in Predecessors(f, b) : ~Dominates(f, x, q) BY <1>0, <1>1, FrontierIsMissed
<1> DEFINE Below == {y \in Blocks(f) : Dominates(f, x, y)}
           Elsewhere == {y \in Blocks(f) : ~Dominates(f, x, y)}
<1>4. p \in Below /\ q \in Elsewhere BY <1>2, <1>3 DEF Predecessors
<1>5. ASSUME NEW y \in Blocks(f), NEW z \in ToSet(f.succ[y]), z \in Below \ defining PROVE y \in Below
  <2>1. z \in Blocks(f) /\ Dominates(f, x, z) /\ x # z BY <1>5
  <2>2. y \in Predecessors(f, z) BY DEF Predecessors
  <2> QED BY <2>1, <2>2, DominatesPredecessors
<1>6. ASSUME NEW y \in Blocks(f), NEW z \in ToSet(f.succ[y]), z \in Elsewhere \ defining
      PROVE  y \in Elsewhere
  <2> SUFFICES ASSUME Dominates(f, x, y) PROVE FALSE OBVIOUS
  <2>1. z \in Blocks(f) /\ ~Dominates(f, x, z) BY <1>6
  <2>2. y \in Predecessors(f, z) BY DEF Predecessors
  <2>3. InFrontierOf(f, x, z) BY <2>1, <2>2 DEF InFrontierOf
  <2> QED BY <1>0, <1>6, <2>1, <2>3 DEF Settled
<1>7. Below \in SUBSET Blocks(f) /\ Elsewhere \in SUBSET Blocks(f) /\ Below \cap Elsewhere = {} OBVIOUS
<1> HIDE DEF Below, Elsewhere
<1>8. PICK d \in defining \cap Below : b \in Reached(f, defining, d)
  BY <1>0, <1>4, <1>5, <1>7, ComesFromRegion
<1>9. PICK e \in defining \cap Elsewhere : b \in Reached(f, defining, e)
  BY <1>0, <1>4, <1>6, <1>7, ComesFromRegion
<1> QED BY <1>7, <1>8, <1>9

(***************************************************************************)
(* The iterated dominance frontier is where values meet, for every         *)
(* connected control-flow graph and every placement of stores.  Where a    *)
(* block has no phi for a variable, its value comes from one and the same  *)
(* block whatever path control took there: so a load there may be replaced *)
(* by the value on top of _phiStack, though rename walks the control-flow  *)
(* graph and not the dominator tree.  Where it has one, values of two      *)
(* blocks do come.                                                         *)
(***************************************************************************)
THEOREM PhisAreExact ==
  ASSUME IsControlFlowGraph(function)
  PROVE  PhisWhereDefinitionsMeet
<1> SUFFICES ASSUME ReachableBlocks(function) = Blocks(function)
             PROVE  PhisWhereDefinitionsMeet
  BY Zenon DEF PhisWhereDefinitionsMeet
<1>1. AllReachable(function) BY DEF AllReachable
<1>2. PICK phis : phis = PhiNodes(function) OBVIOUS
<1>3. ASSUME NEW v \in Variables(function)
      PROVE  {b \in Blocks(function) : v \in phis[b]} = ValuesMeet(function, Defining(function, phis, v))
  <2>1. PICK f : f = function OBVIOUS
  <2> DEFINE given == {c \in Blocks(f) : v \in phis[c]}
             defining == Defining(f, phis, v)
             reaches == UNION {{d} \X Reached(f, defining, d) : d \in defining}
  <2>2. AllReachable(f) /\ Settled(f, given, defining) BY <1>1, <1>2, <2>1, PhisSettled
  <2>3. ValuesMeet(f, defining)
          = {b \in Blocks(f) : \E d, e \in defining : d # e /\ {<<d, b>>, <<e, b>>} \subseteq reaches}
    BY DEF ValuesMeet
  <2>4. \A b : \A d \in defining : <<d, b>> \in reaches <=> b \in Reached(f, defining, d)
    OBVIOUS
  <2> HIDE DEF reaches
  <2>5. given \subseteq Blocks(f) OBVIOUS
  <2> HIDE DEF given, defining
  <2>6. ASSUME NEW b \in given
        PROVE  \E d, e \in defining : d # e /\ b \in Reached(f, defining, d) /\ b \in Reached(f, defining, e)
    BY <2>2, TwoCome
  <2>7. ASSUME NEW b \in Blocks(f) \ given, NEW d \in defining, NEW e \in defining,
               b \in Reached(f, defining, d), b \in Reached(f, defining, e)
        PROVE  d = e
    BY <2>2, <2>7, OneComes
  <2>8. ASSUME NEW b \in given PROVE b \in ValuesMeet(f, defining)
    <3>1. PICK d \in defining, e \in defining :
            d # e /\ b \in Reached(f, defining, d) /\ b \in Reached(f, defining, e)
      BY <2>6
    <3>2. <<d, b>> \in reaches /\ <<e, b>> \in reaches BY <2>4, <3>1
    <3> QED BY <2>3, <2>5, <3>1, <3>2
  <2>9. ASSUME NEW b \in ValuesMeet(f, defining) PROVE b \in given
    <3>1. b \in Blocks(f) BY <2>3
    <3>2. PICK d \in defining, e \in defining : d # e /\ <<d, b>> \in reaches /\ <<e, b>> \in reaches
      BY <2>3
    <3>3. b \in Reached(f, defining, d) /\ b \in Reached(f, defining, e) BY <2>4, <3>2
    <3> QED BY <2>7, <3>1, <3>2, <3>3
  <2>10. given = ValuesMeet(f, defining) BY <2>8, <2>9
  <2> QED BY <2>1, <2>10 DEF given, defining
<1> QED BY <1>2, <1>3, Zenon DEF PhisWhereDefinitionsMeet

=============================================================================
