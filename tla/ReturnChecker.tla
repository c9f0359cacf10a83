----------------------------- MODULE ReturnChecker -----------------------------
(***************************************************************************)
(* Whether every path through a function returns a value                   *)
(* (src/semantic/return_checker.hpp and .cpp).  The analyser refuses a     *)
(* function with a result whose body does not AlwaysReturns; what is read  *)
(* as its result when it is left without a return is whatever the register *)
(* holds.                                                                  *)
(***************************************************************************)
EXTENDS Ast

IsLoop(node) == node.kind \in {"While", "For", "Forever"}

\* The nodes directly below a statement that are statements.
Substatements(node) ==
    CASE node.kind = "Block" -> ToSet(node.children)
      [] node.kind = "IfElse" -> {node.body, node.elseBody}
      [] node.kind = "Match" -> ToSet(node.arms)
      [] IsLoop(node) \/ node.kind = "MatchArm" -> {node.body}
      [] OTHER -> {}

\* A break that is not inside a further loop.
RECURSIVE HasBreak(_)
HasBreak(node) ==
    \/ node.kind = "Break"
    \/ ~IsLoop(node) /\ \E part \in Substatements(node) : HasBreak(part)

\* Mutant of CanEscape: a break below a branch is not seen.
CanEscapeDirectly(loop) == \E part \in Substatements(loop.body) : part.kind = "Break"

\* LoopEscapeChecker: the break statements whose loop this is.
CanEscape(loop) == HasBreak(loop.body)

RECURSIVE AlwaysReturns(_)
AlwaysReturns(node) ==
    CASE node.kind = "Return" -> TRUE
      [] node.kind = "FunctionCall" -> node.target = "panic"
      [] node.kind = "Block" -> \E part \in Substatements(node) : AlwaysReturns(part)
      [] node.kind \in {"IfElse", "Match", "MatchArm"} ->
            \A part \in Substatements(node) : AlwaysReturns(part)
      [] node.kind \in {"While", "For"} -> AlwaysReturns(node.body)
      [] node.kind = "Forever" -> ~CanEscape(node) \/ AlwaysReturns(node.body)
      [] OTHER -> FALSE
-------------------------------------------------------------------------------
(* The ways control can leave a statement, if a condition, a match and an   *)
(* iterable can turn out in every way: it falls through to the next, the   *)
(* function returns, or the loop around it is left or continued.           *)

RECURSIVE Outcomes(_)
Outcomes(node) ==
    LET OfParts == UNION {Outcomes(part) : part \in Substatements(node)}
        Then(sofar, next) ==
            IF "falls" \in sofar THEN (sofar \ {"falls"}) \cup Outcomes(next) ELSE sofar
    IN  CASE node.kind = "Return" -> {"returns"}
          [] node.kind = "Break" -> {"breaks"}
          [] node.kind = "Continue" -> {"continues"}
          [] node.kind = "FunctionCall" -> IF node.target = "panic" THEN {} ELSE {"falls"}
          [] node.kind = "Block" -> FoldLeft(Then, {"falls"}, node.children)
          [] node.kind \in {"IfElse", "Match", "MatchArm"} -> OfParts
          [] node.kind \in {"While", "For"} -> {"falls"} \cup (OfParts \cap {"returns"})
          [] node.kind = "Forever" ->
                (IF "breaks" \in OfParts THEN {"falls"} ELSE {}) \cup (OfParts \cap {"returns"})
          [] OTHER -> {"falls"}

RECURSIVE Within(_)
Within(node) == {node} \cup UNION {Within(part) : part \in Substatements(node)}

\* A loop that is taken to return always though it can be left before.
TakenToReturn(loop) == AlwaysReturns(loop.body) /\ "falls" \in Outcomes(loop)

\* A break that cannot be reached.
DeadBreak(loop) == CanEscape(loop) /\ "breaks" \notin Outcomes(loop.body)
===============================================================================
