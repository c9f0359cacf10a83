------------------------------- MODULE Passes -------------------------------
(***************************************************************************)
(* What the models of the compiler's passes share: folds over the sequence *)
(* of a block's instructions, and the backward data-flow problem that both *)
(* the register allocator and the stack map solve.                         *)
(***************************************************************************)
EXTENDS Integers, SequencesExt

None == 0              \* no value, nullptr, false

\* op over the elements of a sequence, in order.
Through(op(_, _), base, s) ==
  LET Upto[i \in 0 .. Len(s)] == IF i = 0 THEN base ELSE op(Upto[i - 1], s[i])
  IN  Upto[Len(s)]

\* For sets of instructions whose order does not matter.
InSomeOrder(S) == FoldSet(LAMBDA x, order : <<x>> \o order, <<>>, S)

-----------------------------------------------------------------------------
LiveOut(succ, live, b) == UNION {live[s] : s \in ToSet(succ[b])}

\* live[n] = (U_{s in succ[n]} live[s]) - def[n] + ref[n], for all blocks at once:
\* the code overwrites block by block, and ends with the same least solution.
LiveRound(succ, use, def, live) ==
  [b \in DOMAIN succ |-> (LiveOut(succ, live, b) \ def[b]) \cup use[b]]

\* What is live on entry to each block, given what each uses first and defines:
\* rounds until one changes nothing, which is no later than after Len(succ).
LiveIn(succ, use, def) ==
  LET After[n \in 0 .. Len(succ) + 1] ==
        IF n = 0 THEN [b \in DOMAIN succ |-> {}]
        ELSE LiveRound(succ, use, def, After[n - 1])
  IN  After[CHOOSE n \in 0 .. Len(succ) : After[n + 1] = After[n]]
=============================================================================
