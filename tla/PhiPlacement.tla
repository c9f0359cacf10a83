---------------------------- MODULE PhiPlacement ----------------------------
(***************************************************************************)
(* Where the construction of SSA form (ir/to_ssa.cpp) puts phi nodes: the  *)
(* dominators of each block of a function, the dominance frontiers, and    *)
(* the blocks in the iterated frontier of the stores to a variable.        *)
(*                                                                         *)
(* A function f has succ, the successors of each block, code, the          *)
(* instructions of each, its locals and its params.  Block 1 is the entry. *)
(***************************************************************************)
EXTENDS Passes, FiniteSets

VARIABLES
  function,  \* the function being compiled
  came       \* the block of it that ran last, None before the first

Entry == 1
Blocks(f) == DOMAIN f.succ
Variables(f) == f.locals \cup ToSet(f.params)
Predecessors(f, b) == {p \in Blocks(f) : b \in ToSet(f.succ[p])}

\* _predecessors lists a block once for each of its jumps.
JumpsTo(f, b) == {x \in UNION {{p} \X DOMAIN f.succ[p] : p \in Blocks(f)} : f.succ[x[1]][x[2]] = b}

\* The blocks with two entries in that list, or more.
Joins(f) == {b \in Blocks(f) : \E x, y \in JumpsTo(f, b) : x # y}

\* Jumps lead to blocks of the function, and none to its entry.
IsControlFlowGraph(f) ==
  /\ f.succ \in Seq(Seq(Blocks(f)))
  /\ Entry \in Blocks(f)
  /\ Predecessors(f, Entry) = {}

-----------------------------------------------------------------------------
(***************************************************************************)
(* Dominators and dominance frontiers.                                     *)
(***************************************************************************)
\* dom holds the pairs of a block and a dominator of it.  The code overwrites
\* dom block by block, which comes to the same greatest fixed point, no later.
DominatorRound(f, dom) ==
  {x \in Blocks(f) \X Blocks(f) :
     \/ x[1] = x[2]
     \/ /\ x[1] # Entry /\ Predecessors(f, x[1]) # {}
        /\ \A p \in Predecessors(f, x[1]) : <<p, x[2]>> \in dom}

\* Rounds until one changes nothing, which is no later than after Len(f.succ).
findDominators(f) ==
  LET After[n \in 0 .. Len(f.succ) + 1] ==
        IF n = 0 THEN {x \in Blocks(f) \X Blocks(f) : x[1] = Entry => x[2] = Entry}
        ELSE DominatorRound(f, After[n - 1])
      dom == After[CHOOSE n \in 0 .. Len(f.succ) : After[n + 1] = After[n]]
  IN  [b \in Blocks(f) |-> {d \in Blocks(f) : <<b, d>> \in dom}]

\* The strict dominators of b that dominate no other strict dominator of b.
ClosestDominators(dom, b) ==
  {d \in dom[b] \ {b} : \A e \in dom[b] \ {b, d} : d \notin dom[e]}

getImmediateDominators(dom) ==
  [b \in DOMAIN dom |->
     IF ClosestDominators(dom, b) = {} THEN None ELSE CHOOSE d \in ClosestDominators(dom, b) : TRUE]

\* The blocks from runner up to, and without, the given dominator.
RunnersUpTo(idom, runner, dominator) ==
  LET Runner[n \in 0 .. Len(idom)] == IF n = 0 THEN runner ELSE idom[Runner[n - 1]]
      Arrived(n) == Runner[n] = dominator /\ \A m \in 0 .. n - 1 : Runner[m] # dominator
  IN  {Runner[n] : n \in 0 .. (CHOOSE n \in 0 .. Len(idom) : Arrived(n)) - 1}

\* Mutant: only the predecessors themselves are looked at.
PredecessorFrontiers(f, idom) ==
  [r \in Blocks(f) |->
     {b \in Joins(f) : r \in Predecessors(f, b) \ {idom[b]}}]

getDominanceFrontiers(f, idom) ==
  LET found == UNION {UNION {RunnersUpTo(idom, p, idom[b]) \X {b} : p \in Predecessors(f, b)} : b \in Joins(f)}
  IN  [r \in Blocks(f) |-> {b \in Blocks(f) : <<r, b>> \in found}]

-----------------------------------------------------------------------------
(***************************************************************************)
(* Placement of phi nodes: the iterated dominance frontier of the blocks   *)
(* that store to a variable, and of the entry for an argument.             *)
(***************************************************************************)
StoreBlocks(f, v) ==
  {b \in Blocks(f) : \E inst \in ToSet(f.code[b]) : inst.op = "store" /\ inst.dest = v}

WorkStart(f, v) == StoreBlocks(f, v) \cup (IF v \in ToSet(f.params) THEN {Entry} ELSE {})

\* Mutant: a phi is not taken for an assignment of its own.
FrontierOnce(df, work) == UNION {df[b] : b \in work}

\* The work list holds the blocks that assign, and then those given a phi.
Iterate(df, work) ==
  LET Inserted[n \in 0 .. Len(df)] ==
        IF n = 0 THEN {} ELSE UNION {df[b] : b \in work \cup Inserted[n - 1]}
  IN  Inserted[Len(df)]

calculatePhiNodes(f, df) ==
  LET found == UNION {Iterate(df, WorkStart(f, v)) \X {v} : v \in Variables(f)}
  IN  [b \in Blocks(f) |-> {v \in Variables(f) : <<b, v>> \in found}]

PhiNodes(f) ==
  calculatePhiNodes(f, getDominanceFrontiers(f, getImmediateDominators(findDominators(f))))

-----------------------------------------------------------------------------
(* Properties, and the reference definitions they need. *)

(***************************************************************************)
(* Reference definitions, by paths.  b is reachable without going through  *)
(* d exactly when d does not dominate it.                                  *)
(***************************************************************************)
ReachableAvoiding(f, d) ==
  LET Within[n \in 0 .. Len(f.succ)] ==
        IF n = 0 THEN {Entry} \ {d}
        ELSE LET before == Within[n - 1]
             IN  before \cup ((UNION {ToSet(f.succ[b]) : b \in before}) \ {d})
  IN  Within[Len(f.succ)]

ReachableBlocks(f) == ReachableAvoiding(f, None)

Dominates(f, d, b) == b = d \/ b \notin ReachableAvoiding(f, d)

\* d strictly dominates b and every other strict dominator of b dominates d.
ImmediatelyDominates(f, d, b) ==
  /\ d # b /\ Dominates(f, d, b)
  /\ \A e \in ReachableBlocks(f) \ {b} : Dominates(f, e, b) => Dominates(f, e, d)

(***************************************************************************)
(* findDominators and getImmediateDominators agree with the definition by  *)
(* paths on every reachable block (no assert(false) in the latter), and a  *)
(* block lies in the frontier of another exactly when that one dominates   *)
(* a predecessor of it and not, strictly, the block.                       *)
(***************************************************************************)
DominatorsRight ==
  LET f == function
      dom == findDominators(f)
      idom == getImmediateDominators(dom)
      df == getDominanceFrontiers(f, idom)
  IN  came = None /\ ReachableBlocks(f) = Blocks(f) =>
        \A b \in Blocks(f) :
          /\ dom[b] = {d \in Blocks(f) : Dominates(f, d, b)}
          /\ IF b = Entry THEN idom[b] = None ELSE ImmediatelyDominates(f, idom[b], b)
          /\ df[b] = {c \in Blocks(f) : /\ \E p \in Predecessors(f, c) : Dominates(f, b, p)
                                        /\ ~(b # c /\ Dominates(f, b, c))}

\* The blocks to whose start control comes from the end of d without passing
\* through a block of the given set in between.
Reached(f, defining, d) ==
  LET Within[n \in 0 .. Len(f.succ)] ==
        IF n = 0 THEN ToSet(f.succ[d])
        ELSE LET before == Within[n - 1]
             IN  before \cup UNION {ToSet(f.succ[b]) : b \in before \ defining}
  IN  Within[Len(f.succ)]

\* Where v gets a value: the blocks that store to it, those with a phi for it,
\* and the entry, for an argument or for no value yet.
Defining(f, phis, v) == {Entry} \cup StoreBlocks(f, v) \cup {b \in Blocks(f) : v \in phis[b]}

\* The blocks to whose start come the values of two of the defining blocks.
ValuesMeet(f, defining) ==
  LET reaches == UNION {{d} \X Reached(f, defining, d) : d \in defining}
  IN  {b \in Blocks(f) : \E d, e \in defining : d # e /\ {<<d, b>>, <<e, b>>} \subseteq reaches}

(***************************************************************************)
(* A block has a phi for a variable exactly when values of two blocks meet *)
(* there: to the start of any other block comes, along all paths, the      *)
(* value of one and the same block.  This is why rename may replace a load *)
(* by what its walk of the control-flow graph met last (to_ssa.cpp:321),   *)
(* along whatever path it came; and no phi is inserted for nothing.        *)
(***************************************************************************)
PhisWhereDefinitionsMeet ==
  LET phis == PhiNodes(function)
  IN  came = None /\ ReachableBlocks(function) = Blocks(function) =>
        \A v \in Variables(function) :
          {b \in Blocks(function) : v \in phis[b]} = ValuesMeet(function, Defining(function, phis, v))

=============================================================================
