----------------------------- MODULE OffsideRule -----------------------------
(***************************************************************************)
(* What the lexer has to make of the layout of a text: the offside rule,   *)
(* stated by the places of the pieces, for texts that import nothing.  A   *)
(* logical line starts after a newline outside all brackets, if the line   *)
(* holds a token at all; the levels that are open before it are those of   *)
(* the earlier lines that no line in between is left of.                   *)
(***************************************************************************)
EXTENDS Layout, FiniteSets

Spacing == {"WHITESPACE", "NEWLINE", "COMMENT", "CONTINUATION"}
NotWritten == {"NOTHING", "NONE", "IMPORT", "EOL", "INDENT", "DEDENT", "END", "EOF"}

TypeAt(text, i) == IF i \in DOMAIN text THEN text[i].type ELSE "NOTHING"
TokenAt(text, i) == TypeAt(text, i) \notin Spacing \cup NotWritten

\* The number of brackets that are open after the first i pieces.
OpenBrackets(text) ==
    LET open[i \in 0 .. Len(text)] ==
            CASE i = 0 -> 0
              [] i > 0 /\ text[i].type = "[" -> open[i - 1] + 1
              [] i > 0 /\ text[i].type = "]" -> IF open[i - 1] > 0 THEN open[i - 1] - 1 ELSE 0
              [] OTHER -> open[i - 1]
    IN  open

AfterNewline(text, i) == i = 1 \/ TypeAt(text, i - 1) = "NEWLINE"
StartOfLogical(text, i) == AfterNewline(text, i) /\ OpenBrackets(text)[i - 1] = 0

\* There is no token before piece i on its line.
FirstOnLine(text, i) ==
    \E j \in 1 .. i :
        /\ AfterNewline(text, j)
        /\ \A k \in j .. i - 1 : TypeAt(text, k) \in {"WHITESPACE", "COMMENT"}

\* A text as flex cuts it up.  Blanks are taken together, and a comment ends
\* its line.  What is not asked of a source file by flex: a line of blanks or
\* of a comment only is ended, and a continued line goes on with a token.
Readable(text) ==
    /\ \A i \in DOMAIN text :
        /\ text[i].type \notin NotWritten
        /\ text[i].type = "WHITESPACE" =>
             text[i].value \in Nat /\ TypeAt(text, i + 1) # "WHITESPACE"
        /\ text[i].type = "COMMENT" => TypeAt(text, i + 1) \in {"NEWLINE", "NOTHING"}
        /\ text[i].type = "CONTINUATION" =>
             /\ \/ TokenAt(text, i + 1)
                \/ TypeAt(text, i + 1) = "WHITESPACE" /\ TokenAt(text, i + 2)
             /\ FirstOnLine(text, i) => OpenBrackets(text)[i - 1] > 0
    /\ FirstOnLine(text, Len(text) + 1) /\ OpenBrackets(text)[Len(text)] = 0
        => AfterNewline(text, Len(text) + 1)

-------------------------------------------------------------------------------
(* The levels. *)

StartsLine(text, i) ==
    /\ AfterNewline(text, i)
    /\ TokenAt(text, i) \/ (TypeAt(text, i) = "WHITESPACE" /\ TokenAt(text, i + 1))
    /\ OpenBrackets(text)[i - 1] = 0

Indent(text, i) == IF text[i].type = "WHITESPACE" THEN text[i].value ELSE 0

OpenLevels(text, i) ==
    {0} \cup {Indent(text, j) : j \in {j \in 1 .. i - 1 :
                /\ StartsLine(text, j)
                /\ \A k \in j .. i - 1 :
                     StartsLine(text, k) => Indent(text, k) >= Indent(text, j)}}

LeftOf(text, i, level) == {l \in OpenLevels(text, i) : l > level}

WellIndented(text, i) ==
    Indent(text, i) \in OpenLevels(text, i) \/ LeftOf(text, i, Indent(text, i)) = {}

Repeat(type, n) == [k \in 1 .. n |-> Tok(type)]

-------------------------------------------------------------------------------
(* The tokens. *)

LayoutTokens(text, i) ==
    IF ~StartsLine(text, i) THEN <<>>
    ELSE (IF /\ Indent(text, i) \notin OpenLevels(text, i)
             /\ LeftOf(text, i, Indent(text, i)) = {}
          THEN Repeat("INDENT", 1)
          ELSE Repeat("DEDENT", Cardinality(LeftOf(text, i, Indent(text, i)))))
         \o (IF WellIndented(text, i) THEN <<>> ELSE <<Tok("EOF")>>)

\* A newline ends a line if there is a token on it and no bracket is open; a
\* minus sign and the number after it are one literal.
PieceTokens(text, i) ==
    CASE text[i].type = "NEWLINE" ->
            IF OpenBrackets(text)[i - 1] = 0 /\ ~FirstOnLine(text, i) THEN <<Tok("EOL")>> ELSE <<>>
      [] text[i].type = "-" /\ TypeAt(text, i + 1) = "INT_LIT" -> <<>>
      [] text[i].type = "INT_LIT" /\ TypeAt(text, i - 1) = "-" ->
            <<Negative(text[i])>>
      [] text[i].type \in Spacing \ {"NEWLINE"} -> <<>>
      [] OTHER -> <<text[i]>>

TokensOf(text, i) == LayoutTokens(text, i) \o PieceTokens(text, i)
TokensUpTo(text, i) == FlattenSeq([k \in 1 .. i |-> TokensOf(text, k)])

BadLines(text) == {i \in DOMAIN text : StartsLine(text, i) /\ ~WellIndented(text, i)}

\* The tokens up to the first line that belongs to no open block, or all.
ExpectedTokens(text) ==
    LET n == Len(text)
        first == CHOOSE i \in BadLines(text) : \A j \in BadLines(text) : i <= j
    IN  IF BadLines(text) # {} THEN TokensUpTo(text, first)
        ELSE TokensUpTo(text, n)
                \o (IF StartOfLogical(text, n + 1) THEN <<>> ELSE <<Tok("EOL")>>)
                \o Repeat("DEDENT", Cardinality(LeftOf(text, n + 1, 0)))
                \o <<Tok("END")>>

-------------------------------------------------------------------------------
(* The lexer reading a text, and what it promises. *)

Reads(text, importable) == InitLexer(text, importable) /\ [][Lex]_lexVars

\* The tokens of a text that imports nothing are those of the offside rule:
\* blocks open and close with the indentation of their lines, and those left
\* open are closed at the end; blank and commented lines, continued lines and
\* line breaks in brackets change nothing; a line that fits no open block ends
\* the stream where it is.
LayoutUnderstood ==
    LET text == buffers[1].pieces
    IN  LexingEnded /\ Len(buffers) = 1 /\ Readable(text) => tokens = ExpectedTokens(text)
===============================================================================
