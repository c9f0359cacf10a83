-------------------------------- MODULE Layout --------------------------------
(***************************************************************************)
(* The lexer: the flex scanner (src/lexer/lexer.flex) and the transformer  *)
(* behind it that turns indentation into tokens                            *)
(* (src/lexer/lexer_transform.cpp).                                        *)
(*                                                                         *)
(* A source file is a sequence of pieces.  A piece is a token, a run of    *)
(* blanks (with the width count_whitespace gives it), a comment, a         *)
(* newline, a backslash before a newline, or an import line.  Which        *)
(* characters make up a token is left to flex; that a minus sign glued to  *)
(* a number is one token with it is kept, for the meaning of a program     *)
(* depends on it.                                                          *)
(***************************************************************************)
EXTENDS Naturals, Sequences, SequencesExt

VARIABLES
    files,              \* what the importable files hold: name -> pieces
    buffers,            \* the stack of open files: [pieces, at]
    unclosedBrackets,
    indentation,        \* the stack of indentation levels, the top last
    tokenQueue,
    lastToken,          \* the types of the last token put into the stream
    lastReturnedToken,  \* and of the last one returned
    lexerError,
    tokens              \* what the parser has been given

lexVars == <<files, buffers, unclosedBrackets, indentation, tokenQueue,
             lastToken, lastReturnedToken, lexerError, tokens>>

Tok(type) == [type |-> type]
Blanks(width) == [type |-> "WHITESPACE", value |-> width]
Newline == Tok("NEWLINE")
Comment == Tok("COMMENT")
Continuation == Tok("CONTINUATION")
Import(name) == [type |-> "IMPORT", value |-> name]
IntLit(digits, suffix) ==
    [type |-> "INT_LIT",
     value |-> [digits |-> digits, negative |-> FALSE, suffix |-> suffix]]
Negative(literal) == [literal EXCEPT !.value.negative = TRUE]

Buffer(pieces) == [pieces |-> pieces, at |-> 1]
Advanced(buffer, n) == [buffer EXCEPT !.at = @ + n]

InitLexer(pieces, importable) ==
    /\ files = importable
    /\ buffers = <<Buffer(pieces)>>
    /\ unclosedBrackets = 0
    /\ indentation = <<0>>
    /\ tokenQueue = <<>>
    /\ lastToken = "EOL"
    /\ lastReturnedToken = "EOL"
    /\ lexerError = FALSE
    /\ tokens = <<>>

\* The parser asks for no token after either of these.
LexingEnded ==
    lexerError \/ (tokens # <<>> /\ Last(tokens).type \in {"END", "EOF"})

-------------------------------------------------------------------------------
(* The scanner. *)

Piece(buffer, i) ==
    IF i <= Len(buffer.pieces) THEN buffer.pieces[i] ELSE Tok("NOTHING")

AtLineStart(buffer) ==
    buffer.at = 1 \/ Piece(buffer, buffer.at - 1).type
                        \in {"NEWLINE", "CONTINUATION", "IMPORT"}

\* The number of pieces of the blank or commented line at the head of the
\* buffer, newline included; 0 when the line holds more than that.
BlankLine(buffer) ==
    LET blanks == IF Piece(buffer, buffer.at).type = "WHITESPACE" THEN 1 ELSE 0
        comment == IF Piece(buffer, buffer.at + blanks).type = "COMMENT" THEN 1 ELSE 0
    IN  IF /\ AtLineStart(buffer)
           /\ Piece(buffer, buffer.at + blanks + comment).type = "NEWLINE"
        THEN blanks + comment + 1
        ELSE 0

\* What the rules of the scanner make of the head of the buffer: how many
\* pieces it consumes and the token it returns, or "NONE" if it goes on.
Scanned(buffer) ==
    LET piece == Piece(buffer, buffer.at)
        second == Piece(buffer, buffer.at + 1)
        consumed ==
            CASE piece.type = "-" /\ second.type = "INT_LIT" ->
                    [pieces |-> 2, token |-> Negative(second)]
              [] piece.type \in {"COMMENT", "CONTINUATION"} ->
                    [pieces |-> 1, token |-> Tok("NONE")]
              [] piece.type = "NEWLINE" ->
                    [pieces |-> 1,
                     token |-> Tok(IF unclosedBrackets = 0 THEN "EOL" ELSE "NONE")]
              [] OTHER -> [pieces |-> 1, token |-> piece]
    IN  IF BlankLine(buffer) > 0
        THEN [pieces |-> BlankLine(buffer), token |-> Tok("NONE")]
        ELSE consumed

CountBrackets(token) ==
    unclosedBrackets' =
        CASE token.type = "[" -> unclosedBrackets + 1
          [] token.type = "]" /\ unclosedBrackets > 0 -> unclosedBrackets - 1
          [] OTHER -> unclosedBrackets

-------------------------------------------------------------------------------
(* The transformer. *)

\* Levels are popped while the top is above newLevel, one DEDENT for each.
Kept(newLevel) ==
    CHOOSE k \in DOMAIN indentation :
        /\ indentation[k] <= newLevel
        /\ \A i \in DOMAIN indentation : i > k => indentation[i] > newLevel
Surviving(newLevel) == SubSeq(indentation, 1, Kept(newLevel))
DedentTokens(newLevel) == [i \in 1 .. Len(indentation) - Kept(newLevel) |-> Tok("DEDENT")]

\* A mutant: the blocks that are open at the end are dropped, not closed.
EndOfInputUnclosed(token) ==
    /\ tokenQueue' = (IF lastReturnedToken # "EOL" THEN <<Tok("EOL")>> ELSE <<>>)
                        \o (IF token.type = "END" THEN <<token>> ELSE <<>>)
    /\ indentation' = Surviving(0)
    /\ UNCHANGED lastToken

\* The end of a file, of the program or of an imported one, closes its last
\* line and its blocks.
EndOfInput(token) ==
    /\ tokenQueue' = (IF lastReturnedToken # "EOL" THEN <<Tok("EOL")>> ELSE <<>>)
                        \o DedentTokens(0)
                        \o (IF token.type = "END" THEN <<token>> ELSE <<>>)
    /\ indentation' = Surviving(0)
    /\ UNCHANGED lastToken

\* The first token of a line: its indentation opens or closes blocks.
StartOfLine(token) ==
    LET newLevel == IF token.type = "WHITESPACE" THEN token.value ELSE 0
        top == Last(indentation)
        returned == IF token.type # "WHITESPACE" THEN <<token>> ELSE <<>>
    IN  IF newLevel > top
        THEN /\ indentation' = Append(indentation, newLevel)
             /\ tokenQueue' = <<Tok("INDENT")>>
             /\ UNCHANGED lastToken
        ELSE /\ indentation' = Surviving(newLevel)
             /\ IF newLevel # Last(Surviving(newLevel))
                THEN /\ tokenQueue' = Append(DedentTokens(newLevel), Tok("EOF"))
                     /\ UNCHANGED lastToken
                ELSE /\ tokenQueue' = DedentTokens(newLevel) \o returned
                     /\ lastToken' = IF returned = <<>> THEN "WHITESPACE" ELSE lastToken

RestOfLine(token) ==
    /\ tokenQueue' = IF token.type # "WHITESPACE" THEN <<token>> ELSE <<>>
    /\ UNCHANGED <<indentation, lastToken>>

-------------------------------------------------------------------------------
(* The steps of yylex: the queue first, then the scanner. *)

\* A queued token is returned to the parser.
ReturnToken ==
    /\ ~LexingEnded
    /\ tokenQueue # <<>>
    /\ tokens' = Append(tokens, Head(tokenQueue))
    /\ tokenQueue' = Tail(tokenQueue)
    /\ lastToken' = Head(tokenQueue).type
    /\ lastReturnedToken' = Head(tokenQueue).type
    /\ UNCHANGED <<files, buffers, unclosedBrackets, indentation, lexerError>>

\* The scanner reads on in the file on top.
ScanPiece ==
    LET top == Last(buffers)
        scanned == Scanned(top)
    IN  /\ ~LexingEnded
        /\ tokenQueue = <<>>
        /\ top.at <= Len(top.pieces)
        /\ scanned.token.type # "IMPORT"
        /\ buffers' = [buffers EXCEPT ![Len(buffers)] = Advanced(@, scanned.pieces)]
        /\ CountBrackets(scanned.token)
        /\ IF scanned.token.type = "NONE"
           THEN UNCHANGED <<indentation, tokenQueue, lastToken>>
           ELSE IF lastToken = "EOL"
                THEN StartOfLine(scanned.token)
                ELSE RestOfLine(scanned.token)
        /\ UNCHANGED <<files, lastReturnedToken, lexerError, tokens>>

\* An import line: its file is read first.
ImportFile ==
    LET top == Last(buffers)
        name == Piece(top, top.at).value
    IN  /\ ~LexingEnded
        /\ tokenQueue = <<>>
        /\ Piece(top, top.at).type = "IMPORT"
        /\ IF name \in DOMAIN files
           THEN /\ buffers' = Append([buffers EXCEPT ![Len(buffers)] = Advanced(@, 1)],
                                     Buffer(files[name]))
                /\ UNCHANGED lexerError
           ELSE lexerError' = TRUE /\ UNCHANGED buffers
        /\ UNCHANGED <<files, unclosedBrackets, indentation, tokenQueue, lastToken,
                       lastReturnedToken, tokens>>

\* The end of the file on top: of the program when no other file is open.
EndOfFile ==
    LET top == Last(buffers)
    IN  /\ ~LexingEnded
        /\ tokenQueue = <<>>
        /\ top.at > Len(top.pieces)
        /\ IF Len(buffers) = 1
           THEN EndOfInput(Tok("END")) /\ UNCHANGED buffers
           ELSE EndOfInput(Tok("EOF")) /\ buffers' = Front(buffers)
        /\ UNCHANGED <<files, unclosedBrackets, lastReturnedToken, lexerError, tokens>>

Lex == ReturnToken \/ ScanPiece \/ ImportFile \/ EndOfFile
===============================================================================
