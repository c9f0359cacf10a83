------------------------------- MODULE FrontEnd -------------------------------
(***************************************************************************)
(* Reading a program: the lexer and the parser one after the other, what   *)
(* the tree they end with has to be, and what the check of its returns     *)
(* finds.                                                                  *)
(***************************************************************************)
EXTENDS Parser, ReturnChecker, OffsideRule

VARIABLE written        \* what the text was written from (history variable)

(* Three kinds of text are read.  "tree": a program written after the       *)
(* grammar from a known tree, which is Refused for a text that is none.    *)
(* "lines": lines of one statement each, each at a level that is open or   *)
(* new.  "literal": one integer literal.                                   *)
vars == <<parseVars, written>>

Next ==
    \/ Lex /\ UNCHANGED <<tree, written>>
    \/ ParseProgram /\ UNCHANGED written

-------------------------------------------------------------------------------
(* Properties. *)

\* A program written from a tree after the grammar is read as that tree,
\* however it is laid out: precedence and associativity, the sugar of lists,
\* ranges, compound assignments and implicit where clauses, blocks by
\* indentation or after a colon, comments, continued lines, brackets over
\* several lines, and declarations that come from an imported file.  A text
\* with a line that fits no open block is not read at all.
ParsesAsWritten ==
    (written.kind = "tree" /\ tree # NoNode) => tree = written.tree

\* An integer literal is read if and only if its type can hold the number,
\* as the bits of that number: Int for the suffix i or a sign, UInt for u,
\* UInt8 for u8 (neither of them takes a sign), and without a suffix whichever
\* of Int and UInt is wide enough.
LiteralsDenote ==
    (written.kind = "literal" /\ tree # NoNode) =>
        LET literal == written.literal
            number == IF literal.negative THEN -literal.digits ELSE literal.digits
            ranges == [i |-> -(2 ^ (WordBits - 1)) .. 2 ^ (WordBits - 1) - 1,
                       u |-> 0 .. 2 ^ WordBits - 1,
                       u8 |-> 0 .. 2 ^ ByteBits - 1]
            types == IF literal.suffix = "" THEN {"i", "u"} ELSE {literal.suffix}
            fitting == {t \in types : number \in ranges[t]
                                        /\ (literal.negative => t = "i")}
            read == tree.children[1]
        IN  IF fitting = {} THEN tree = Refused
            ELSE /\ tree.kind = "Program"
                 /\ (read.value - number) % 2 ^ WordBits = 0
                 /\ read.value \in ranges["i"]
                 /\ (read.suffix = "u") = ("i" \notin fitting /\ "u" \in fitting)

\* A function whose body is taken to return always is never left in another
\* way, and one that is refused can be, if there is no loop that can be left
\* before the return in its body, and no break that cannot be reached.  (The
\* body of a while or for statement may never run, and a forever statement may
\* break before it returns: return_checker.cpp:27, 46 and 73 do not ask.  A
\* break or continue outside a loop is refused earlier, semantic.cpp:1464.)
ReturnsChecked ==
    tree.kind = "Program" =>
        \A function \in {node \in ToSet(tree.children) : node.kind = "FunctionDef"} :
            LET loops == {node \in Within(function.body) : IsLoop(node)}
                returns == AlwaysReturns(function.body)
                canFallOff == "falls" \in Outcomes(function.body)
            IN  Outcomes(function.body) \subseteq {"falls", "returns"} =>
                /\ (\A l \in loops : ~TakenToReturn(l)) => ~(returns /\ canFallOff)
                /\ (\A l \in loops : ~DeadBreak(l)) => (returns \/ canFallOff)
===============================================================================
