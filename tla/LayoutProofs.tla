---------------------------- MODULE LayoutProofs ----------------------------
(***************************************************************************)
(* The lexer follows the offside rule: the tokens of every text that       *)
(* imports nothing are those that OffsideRule expects.                     *)
(***************************************************************************)
EXTENDS OffsideRule, CommonLemmas

-----------------------------------------------------------------------------
(***************************************************************************)
(* The brackets that are open, piece by piece.                             *)
(***************************************************************************)
Brackets(type, open) ==
  CASE type = "[" -> open + 1
    [] type = "]" -> IF open > 0 THEN open - 1 ELSE 0
    [] OTHER -> open

\* OpenBrackets counts on from the piece before, and never below 0.
LEMMA OpenBracketsSteps ==
  ASSUME NEW Pieces, NEW text \in Seq(Pieces)
  PROVE  /\ OpenBrackets(text)[0] = 0
         /\ \A i \in 0 .. Len(text) : OpenBrackets(text)[i] \in Nat
         /\ \A i \in 1 .. Len(text) :
              OpenBrackets(text)[i] = Brackets(text[i].type, OpenBrackets(text)[i - 1])
<1> DEFINE N == Len(text)
           Step(f, i) == CASE i = 0 -> 0
                           [] i > 0 /\ text[i].type = "[" -> f[i - 1] + 1
                           [] i > 0 /\ text[i].type = "]" -> IF f[i - 1] > 0 THEN f[i - 1] - 1 ELSE 0
                           [] OTHER -> f[i - 1]
           Upto(f, m) == f = [i \in 0 .. m |-> Step(f, i)]
           NotUpto == {k \in 0 .. N : ~ \E f : Upto(f, k)}
<1>1. N \in Nat OBVIOUS
<1>2. ASSUME NEW f, NEW g, NEW i \in Nat, i > 0 => f[i - 1] = g[i - 1] PROVE Step(f, i) = Step(g, i)
  <2>1. CASE i = 0 BY <2>1
  <2>2. CASE i > 0
    <3>1. f[i - 1] = g[i - 1] BY <1>2, <2>2
    <3> QED BY <2>2, <3>1
  <2> QED BY <2>1, <2>2
<1>3. ASSUME NEW f PROVE Step(f, 0) = 0 OBVIOUS
<1> HIDE DEF N, Step
<1>4. NotUpto = {}
  <2> SUFFICES ASSUME NotUpto # {} PROVE FALSE OBVIOUS
  <2>1. PICK k \in NotUpto : \A n \in NotUpto : k <= n
    <3> HIDE DEF Upto
    <3>1. NotUpto \in SUBSET Nat OBVIOUS
    <3> HIDE DEF NotUpto
    <3> QED BY <3>1, Least
  <2>2. CASE k = 0
    <3> DEFINE f == [i \in 0 .. 0 |-> 0]
    <3>1. \A i \in 0 .. 0 : i = 0 OBVIOUS
    <3>2. \A i \in 0 .. 0 : Step(f, i) = 0 BY <3>1, <1>3
    <3>3. Upto(f, 0) BY <3>2
    <3> HIDE DEF f, Upto
    <3> QED BY <3>3, <2>1, <2>2
  <2>3. CASE k # 0
    <3>1. k \in 1 .. N /\ k - 1 \in 0 .. N /\ ~(k <= k - 1) BY <1>1, <2>1, <2>3
    <3>2. PICK f : Upto(f, k - 1)
      <4> HIDE DEF Upto
      <4>1. k - 1 \notin NotUpto BY <2>1, <3>1
      <4> QED BY <3>1, <4>1
    <3> DEFINE g == [i \in 0 .. k |-> IF i = k THEN Step(f, k) ELSE f[i]]
    <3>3. ASSUME NEW i \in 0 .. k PROVE g[i] = Step(g, i)
      <4>1. i > 0 => i - 1 \in 0 .. k /\ i - 1 # k BY <3>1
      <4>2. i > 0 => f[i - 1] = g[i - 1] BY <4>1
      <4>3. Step(f, i) = Step(g, i) BY <1>2, <4>2
      <4>4. CASE i = k BY <4>3, <4>4
      <4>5. CASE i # k
        <5>1. i \in 0 .. k - 1 BY <3>1, <4>5
        <5>2. f[i] = Step(f, i) BY <3>2, <5>1
        <5> QED BY <4>3, <4>5, <5>2
      <4> QED BY <4>4, <4>5
    <3>4. Upto(g, k) BY <3>3
    <3> HIDE DEF g, Upto
    <3> QED BY <3>4, <2>1
  <2> QED BY <2>2, <2>3
<1>5. \E f : Upto(f, N)
  <2> HIDE DEF Upto
  <2>1. N \in 0 .. N BY <1>1
  <2> QED BY <1>4, <2>1
<1> DEFINE O == CHOOSE f : Upto(f, N)
<1>6. Upto(O, N) BY <1>5
<1>7. OpenBrackets(text) = O BY Zenon DEF OpenBrackets, N, Step
<1> HIDE DEF O
<1>8. \A i \in 0 .. N : O[i] = Step(O, i) BY <1>6
<1> HIDE DEF Upto
<1>9. O[0] = 0 BY <1>1, <1>3, <1>8
<1>10. ASSUME NEW i \in 1 .. N PROVE O[i] = Brackets(text[i].type, O[i - 1])
  <2>1. i \in 0 .. N /\ i > 0 /\ i # 0 BY <1>1
  <2> QED BY <1>8, <2>1 DEF Step, Brackets
<1> DEFINE NoNat == {i \in 0 .. N : O[i] \notin Nat}
<1>11. NoNat = {}
  <2> SUFFICES ASSUME NoNat # {} PROVE FALSE OBVIOUS
  <2>1. PICK k \in NoNat : \A n \in NoNat : k <= n
    <3>1. NoNat \in SUBSET Nat OBVIOUS
    <3> HIDE DEF NoNat
    <3> QED BY <3>1, Least
  <2>2. k \in 1 .. N /\ k - 1 \in 0 .. N /\ ~(k <= k - 1) BY <1>1, <1>9, <2>1
  <2>3. O[k - 1] \in Nat BY <2>1, <2>2
  <2>4. O[k] = Brackets(text[k].type, O[k - 1]) BY <1>10, <2>2
  <2>5. O[k] \in Nat BY <2>3, <2>4 DEF Brackets
  <2> QED BY <2>1, <2>5
<1> QED BY <1>7, <1>9, <1>10, <1>11 DEF N

-----------------------------------------------------------------------------
(***************************************************************************)
(* The tokens, piece by piece.                                             *)
(***************************************************************************)

\* One more sequence is appended to what the ones before it make.
LEMMA FlattenSeqStep ==
  ASSUME NEW S, NEW n \in Nat, NEW g, \A i \in 1 .. n + 1 : g[i] \in Seq(S)
  PROVE  FlattenSeq([i \in 1 .. n + 1 |-> g[i]]) = FlattenSeq([i \in 1 .. n |-> g[i]]) \o g[n + 1]
<1> DEFINE long == [i \in 1 .. n + 1 |-> g[i]]
           short == [i \in 1 .. n |-> g[i]]
<1>1. /\ long \in Seq(Seq(S)) /\ Len(long) = n + 1 /\ \A i \in 1 .. n + 1 : long[i] = g[i]
      /\ short \in Seq(Seq(S)) /\ Len(short) = n /\ \A i \in 1 .. n : short[i] = g[i]
  OBVIOUS
<1> HIDE DEF long, short
<1>2. PICK f : /\ f = [i \in 1 .. Len(long) |-> IF i = 1 THEN long[i] ELSE f[i - 1] \o long[i]]
               /\ FlattenSeq(long) = f[Len(long)]
  <2>1. Len(long) \in Nat \ {0} BY <1>1
  <2> QED BY <2>1, FlattenSeqDef
<1>3. \A i \in 1 .. n + 1 : f[i] = IF i = 1 THEN g[i] ELSE f[i - 1] \o g[i]
  BY <1>1, <1>2
<1>4. CASE n = 0
  <2>1. short = <<>> BY <1>1, <1>4
  <2>2. FlattenSeq(short) = <<>> BY <2>1, <1>1, <1>4 DEF FlattenSeq
  <2>3. 1 \in 1 .. n + 1 /\ n + 1 = 1 BY <1>4
  <2>4. f[1] = g[1] /\ g[1] \in Seq(S) BY <1>3, <2>3
  <2>5. FlattenSeq(long) = g[1] BY <1>1, <1>2, <2>3, <2>4
  <2>6. <<>> \o g[1] = g[1] BY <2>4
  <2> QED BY <2>2, <2>3, <2>5, <2>6 DEF long, short
<1>5. CASE n # 0
  <2>1. PICK h : /\ h = [i \in 1 .. Len(short) |-> IF i = 1 THEN short[i] ELSE h[i - 1] \o short[i]]
                 /\ FlattenSeq(short) = h[Len(short)]
    <3>1. Len(short) \in Nat \ {0} BY <1>1, <1>5
    <3> QED BY <3>1, FlattenSeqDef
  <2>2. \A i \in 1 .. n : h[i] = IF i = 1 THEN g[i] ELSE h[i - 1] \o g[i]
    BY <1>1, <2>1
  <2> DEFINE Other == {i \in 1 .. n : f[i] # h[i]}
  <2>3. Other = {}
    <3> SUFFICES ASSUME Other # {} PROVE FALSE OBVIOUS
    <3>1. PICK k \in Other : \A i \in Other : k <= i
      <4>1. Other \in SUBSET Nat OBVIOUS
      <4> HIDE DEF Other
      <4> QED BY <4>1, Least
    <3>2. k \in 1 .. n /\ k \in 1 .. n + 1 /\ f[k] # h[k] BY <3>1
    <3>3. k # 1 BY <1>3, <2>2, <3>2
    <3>4. k - 1 \in 1 .. n /\ ~(k <= k - 1) BY <3>2, <3>3
    <3>5. f[k - 1] = h[k - 1] BY <3>1, <3>4
    <3> QED BY <1>3, <2>2, <3>2, <3>3, <3>5
  <2>4. n \in 1 .. n /\ n + 1 \in 1 .. n + 1 /\ n + 1 # 1 /\ (n + 1) - 1 = n BY <1>5
  <2>5. f[n] = h[n] BY <2>3, <2>4
  <2>6. f[n + 1] = h[n] \o g[n + 1] BY <1>3, <2>4, <2>5
  <2> QED BY <1>1, <1>2, <2>1, <2>6 DEF long, short
<1> QED BY <1>4, <1>5

\* What is written are records with a type.
Typed(Pieces) == \A p \in Pieces : "type" \in DOMAIN p

\* A literal with a sign is a literal.
LEMMA NegativeType ==
  ASSUME NEW token, "type" \in DOMAIN token
  PROVE  Negative(token).type = token.type
BY Zenon DEF Negative

\* The tokens there can be.
Emitted(text) ==
  {text[i] : i \in DOMAIN text}
    \cup {Negative(text[i]) : i \in DOMAIN text}
    \cup {Tok(type) : type \in {"EOL", "INDENT", "DEDENT", "EOF", "END"}}

\* n tokens of a type, that are among what the lexer emits.
LEMMA RepeatIs ==
  ASSUME NEW text, NEW type \in {"EOL", "INDENT", "DEDENT", "EOF", "END"}, NEW n \in Nat
  PROVE  /\ Repeat(type, n) \in Seq(Emitted(text)) /\ Len(Repeat(type, n)) = n
         /\ \A i \in 1 .. n : Repeat(type, n)[i] = Tok(type)
<1>1. Tok(type) \in Emitted(text) BY DEF Emitted
<1> QED BY <1>1 DEF Repeat

\* A piece makes tokens that the lexer can emit,
LEMMA PieceTokensEmitted ==
  ASSUME NEW text, NEW i \in DOMAIN text
  PROVE  PieceTokens(text, i) \in Seq(Emitted(text))
<1> DEFINE negative == Negative(text[i])
<1>1. text[i] \in Emitted(text) /\ negative \in Emitted(text) /\ Tok("EOL") \in Emitted(text)
  BY DEF Emitted
<1>2. PieceTokens(text, i) \in {<<>>, <<Tok("EOL")>>, <<text[i]>>, <<negative>>}
  <2> HIDE DEF negative
  <2> QED BY DEF PieceTokens, negative
<1> HIDE DEF negative
<1> DEFINE S == Emitted(text)
           eol == Tok("EOL")
           own == text[i]
<1>3. own \in S /\ negative \in S /\ eol \in S BY <1>1
<1> HIDE DEF S, eol, own
<1>4. <<>> \in Seq(S) /\ <<eol>> \in Seq(S) /\ <<own>> \in Seq(S) /\ <<negative>> \in Seq(S)
  BY <1>3
<1> QED BY <1>2, <1>4, Zenon DEF S, eol, own

\* The levels of a readable text are natural numbers, and not too many.
LEMMA LevelsFinite ==
  ASSUME NEW Pieces, NEW text \in Seq(Pieces), Readable(text), NEW i \in 1 .. Len(text) + 1
  PROVE  /\ OpenLevels(text, i) \in SUBSET Nat /\ 0 \in OpenLevels(text, i)
         /\ IsFiniteSet(OpenLevels(text, i))
         /\ \A level : /\ IsFiniteSet(LeftOf(text, i, level))
                       /\ Cardinality(LeftOf(text, i, level)) \in Nat
<1>1. DOMAIN text = 1 .. Len(text) /\ Len(text) \in Nat OBVIOUS
<1>2. ASSUME NEW j \in 1 .. i - 1 PROVE Indent(text, j) \in Nat
  <2>1. j \in DOMAIN text BY <1>1
  <2> QED BY <2>1 DEF Indent, Readable
<1> DEFINE Js == {j \in 1 .. i - 1 : /\ StartsLine(text, j)
                /\ \A k \in j .. i - 1 :
                     StartsLine(text, k) => Indent(text, k) >= Indent(text, j)}
           Is == {Indent(text, j) : j \in Js}
<1>3. Js \subseteq 1 .. i - 1 OBVIOUS
<1>4. OpenLevels(text, i) = {0} \cup Is BY DEF OpenLevels
<1> HIDE DEF Js
<1>5. IsFiniteSet(Js)
  <2>1. IsFiniteSet(1 .. i - 1) BY FS_Interval
  <2> QED BY <1>3, <2>1, FS_Subset
<1>6. IsFiniteSet(Is)
  <2>1. Is = {Indent(text, j) : j \in Js} OBVIOUS
  <2> HIDE DEF Is
  <2> DEFINE f == [j \in Js |-> Indent(text, j)]
  <2>2. f \in Surjection(Js, Is) BY <2>1, Zenon DEF Surjection
  <2> QED BY <1>5, <2>2, FS_Surjection
<1>7. Is \in SUBSET Nat BY <1>2, <1>3
<1> HIDE DEF Is
<1>8. IsFiniteSet({0} \cup Is) BY <1>6, FS_Singleton, FS_Union
<1>9. ASSUME NEW level
      PROVE  IsFiniteSet(LeftOf(text, i, level)) /\ Cardinality(LeftOf(text, i, level)) \in Nat
  <2>1. LeftOf(text, i, level) \subseteq OpenLevels(text, i) BY DEF LeftOf
  <2>2. IsFiniteSet(LeftOf(text, i, level)) BY <1>4, <1>8, <2>1, FS_Subset
  <2> QED BY <2>2, FS_CardinalityType
<1> QED BY <1>4, <1>7, <1>8, <1>9

\* and so does the layout before it.
LEMMA TokensOfEmitted ==
  ASSUME NEW Pieces, NEW text \in Seq(Pieces), Readable(text), NEW i \in 1 .. Len(text)
  PROVE  /\ LayoutTokens(text, i) \in Seq(Emitted(text)) /\ PieceTokens(text, i) \in Seq(Emitted(text))
         /\ TokensOf(text, i) \in Seq(Emitted(text))
<1> DEFINE S == Emitted(text)
           d == Cardinality(LeftOf(text, i, Indent(text, i)))
<1>1. i \in 1 .. Len(text) + 1 /\ DOMAIN text = 1 .. Len(text) OBVIOUS
<1>2. d \in Nat BY <1>1, LevelsFinite
<1>3. Repeat("INDENT", 1) \in Seq(S) /\ Repeat("DEDENT", d) \in Seq(S)
  <2> HIDE DEF d, S
  <2> QED BY <1>2, RepeatIs DEF S
<1>4. Tok("EOF") \in S BY DEF Emitted
<1>5. LayoutTokens(text, i) \in Seq(S)
  <2> HIDE DEF S
  <2>1. <<>> \in Seq(S) /\ <<Tok("EOF")>> \in Seq(S) BY <1>4
  <2> DEFINE e == IF WellIndented(text, i) THEN <<>> ELSE <<Tok("EOF")>>
             l == IF /\ Indent(text, i) \notin OpenLevels(text, i)
                     /\ LeftOf(text, i, Indent(text, i)) = {}
                  THEN Repeat("INDENT", 1)
                  ELSE Repeat("DEDENT", d)
  <2>2. e \in Seq(S) BY <2>1
  <2>3. l \in Seq(S) BY <1>3
  <2>4. LayoutTokens(text, i) = IF ~StartsLine(text, i) THEN <<>> ELSE l \o e
    BY DEF LayoutTokens
  <2> HIDE DEF e, l
  <2> QED BY <2>1, <2>2, <2>3, <2>4
<1>6. PieceTokens(text, i) \in Seq(S) BY <1>1, PieceTokensEmitted
<1> HIDE DEF S
<1> QED BY <1>5, <1>6 DEF TokensOf, S

\* The tokens of one more piece come after those of the pieces before it.
LEMMA TokensUpToStep ==
  ASSUME NEW Pieces, NEW text \in Seq(Pieces), Readable(text), NEW i \in 1 .. Len(text)
  PROVE  TokensUpTo(text, i) = TokensUpTo(text, i - 1) \o TokensOf(text, i)
<1> DEFINE g == [k \in 1 .. Len(text) |-> TokensOf(text, k)]
<1>1. i - 1 \in Nat /\ (i - 1) + 1 = i OBVIOUS
<1>2. \A k \in 1 .. i : k \in 1 .. Len(text) OBVIOUS
<1>3. \A k \in 1 .. i : g[k] = TokensOf(text, k) BY <1>2
<1>4. \A k \in 1 .. i : g[k] \in Seq(Emitted(text)) BY <1>2, <1>3, TokensOfEmitted
<1> HIDE DEF g
<1>5. FlattenSeq([k \in 1 .. i |-> g[k]]) = FlattenSeq([k \in 1 .. i - 1 |-> g[k]]) \o g[i]
  <2>1. \A k \in 1 .. (i - 1) + 1 : g[k] \in Seq(Emitted(text)) BY <1>1, <1>4
  <2> QED BY <1>1, <2>1, FlattenSeqStep
<1>6. [k \in 1 .. i |-> g[k]] = [k \in 1 .. i |-> TokensOf(text, k)] BY <1>3
<1>7. [k \in 1 .. i - 1 |-> g[k]] = [k \in 1 .. i - 1 |-> TokensOf(text, k)] BY <1>3
<1>8. g[i] = TokensOf(text, i) BY <1>3
<1> QED BY <1>5, <1>6, <1>7, <1>8, Zenon DEF TokensUpTo

\* The tokens up to a piece, for every piece.
LEMMA TokensUpToEmitted ==
  ASSUME NEW Pieces, NEW text \in Seq(Pieces), Readable(text)
  PROVE  /\ TokensUpTo(text, 0) = <<>>
         /\ \A i \in 0 .. Len(text) : TokensUpTo(text, i) \in Seq(Emitted(text))
<1>1. TokensUpTo(text, 0) = <<>>
  <2>1. [k \in 1 .. 0 |-> TokensOf(text, k)] = <<>> OBVIOUS
  <2> QED BY <2>1 DEF TokensUpTo, FlattenSeq
<1> DEFINE Not == {i \in 0 .. Len(text) : TokensUpTo(text, i) \notin Seq(Emitted(text))}
<1>2. Not = {}
  <2> SUFFICES ASSUME Not # {} PROVE FALSE OBVIOUS
  <2>1. PICK k \in Not : \A i \in Not : k <= i
    <3>1. Not \in SUBSET Nat OBVIOUS
    <3> HIDE DEF Not
    <3> QED BY <3>1, Least
  <2>2. ASSUME k = 0 PROVE FALSE
    <3>1. TokensUpTo(text, k) = <<>> BY <1>1, <2>2
    <3>2. <<>> \in Seq(Emitted(text)) OBVIOUS
    <3>3. TokensUpTo(text, k) \notin Seq(Emitted(text)) BY <2>1
    <3> QED BY <3>1, <3>2, <3>3
  <2>3. k \in 1 .. Len(text) /\ k - 1 \in 0 .. Len(text) /\ ~(k <= k - 1) BY <2>1, <2>2
  <2>4. TokensUpTo(text, k - 1) \in Seq(Emitted(text)) /\ TokensUpTo(text, k) \notin Seq(Emitted(text))
    BY <2>1, <2>3
  <2>5. TokensOf(text, k) \in Seq(Emitted(text)) BY <2>3, TokensOfEmitted
  <2>6. TokensUpTo(text, k) = TokensUpTo(text, k - 1) \o TokensOf(text, k) BY <2>3, TokensUpToStep
  <2> HIDE DEF Not
  <2> QED BY <2>4, <2>5, <2>6
<1> QED BY <1>1, <1>2

-----------------------------------------------------------------------------
(***************************************************************************)
(* The levels: what is open after a line, and the stack that holds it.     *)
(***************************************************************************)
LEMMA OpenLevelsStep ==
  ASSUME NEW Pieces, NEW text \in Seq(Pieces), Readable(text), NEW i \in 1 .. Len(text)
  PROVE  OpenLevels(text, i + 1) =
           IF StartsLine(text, i)
           THEN {l \in OpenLevels(text, i) : l <= Indent(text, i)} \cup {Indent(text, i)}
           ELSE OpenLevels(text, i)
<1> DEFINE Up(j) == StartsLine(text, j)
           Ind(j) == Indent(text, j)
           Still(j, e) == Up(j) /\ \A k \in j .. e - 1 : Up(k) => Ind(k) >= Ind(j)
<1>1. ASSUME NEW j \in 1 .. i PROVE Ind(j) \in Nat
  <2>1. j \in DOMAIN text OBVIOUS
  <2> QED BY <2>1 DEF Indent, Readable
<1>2. ASSUME NEW l, NEW e
      PROVE  l \in OpenLevels(text, e) <=> l = 0 \/ \E j \in 1 .. e - 1 : Still(j, e) /\ l = Ind(j)
  BY Zenon DEF OpenLevels
<1> HIDE DEF Up, Ind
<1>3. ASSUME NEW j \in 1 .. i
      PROVE  Still(j, i + 1) <=> IF j = i THEN Up(i) ELSE Still(j, i) /\ (Up(i) => Ind(i) >= Ind(j))
  <2>1. (i + 1) - 1 = i /\ Ind(j) \in Nat /\ Ind(i) \in Nat BY <1>1
  <2>2. CASE j = i
    <3>1. j .. i = {i} BY <2>2
    <3>2. Ind(i) >= Ind(j) BY <2>1, <2>2
    <3> QED BY <2>1, <2>2, <3>1, <3>2
  <2>3. CASE j # i
    <3>1. j .. i = (j .. i - 1) \cup {i} BY <2>3
    <3>2. (\A k \in j .. i : Up(k) => Ind(k) >= Ind(j))
             <=> (\A k \in j .. i - 1 : Up(k) => Ind(k) >= Ind(j)) /\ (Up(i) => Ind(i) >= Ind(j))
      BY <3>1
    <3> QED BY <2>1, <2>3, <3>2
  <2> QED BY <2>2, <2>3
<1>4. i \in 1 .. i /\ 1 .. (i + 1) - 1 = 1 .. i /\ \A j \in 1 .. i : j # i <=> j \in 1 .. i - 1
  OBVIOUS
<1>5. 1 .. i - 1 \subseteq 1 .. i OBVIOUS
<1> HIDE DEF Still
<1>6. ASSUME NEW l
      PROVE  l \in OpenLevels(text, i + 1) <=>
               \/ l = 0
               \/ Up(i) /\ l = Ind(i)
               \/ \E j \in 1 .. i - 1 : Still(j, i) /\ (Up(i) => Ind(i) >= Ind(j)) /\ l = Ind(j)
  <2>1. l \in OpenLevels(text, i + 1) <=> l = 0 \/ \E j \in 1 .. i : Still(j, i + 1) /\ l = Ind(j)
    BY <1>2, <1>4
  <2>2. (\E j \in 1 .. i : Still(j, i + 1) /\ l = Ind(j)) <=>
           \/ Up(i) /\ l = Ind(i)
           \/ \E j \in 1 .. i - 1 : Still(j, i) /\ (Up(i) => Ind(i) >= Ind(j)) /\ l = Ind(j)
    BY <1>3, <1>4, <1>5
  <2> QED BY <2>1, <2>2
<1>7. CASE ~Up(i)
  <2>1. \A l : l \in OpenLevels(text, i + 1) <=> l \in OpenLevels(text, i)
    BY <1>2, <1>6, <1>7
  <2> QED BY <1>7, <2>1 DEF Up
<1>8. CASE Up(i)
  <2>1. Ind(i) \in Nat /\ \A j \in 1 .. i - 1 : Ind(j) \in Nat BY <1>1
  <2>2. 0 <= Ind(i) /\ \A j \in 1 .. i - 1 : Ind(i) >= Ind(j) <=> Ind(j) <= Ind(i) BY <2>1
  <2>3. ASSUME NEW l
        PROVE  l \in OpenLevels(text, i + 1) <=>
                 l \in {m \in OpenLevels(text, i) : m <= Ind(i)} \cup {Ind(i)}
    <3>1. l \in OpenLevels(text, i + 1) <=>
             \/ l = 0
             \/ l = Ind(i)
             \/ \E j \in 1 .. i - 1 : Still(j, i) /\ Ind(j) <= Ind(i) /\ l = Ind(j)
      BY <1>6, <1>8, <2>2
    <3>2. l \in OpenLevels(text, i) <=> l = 0 \/ \E j \in 1 .. i - 1 : Still(j, i) /\ l = Ind(j)
      BY <1>2
    <3> QED BY <2>2, <3>1, <3>2
  <2> QED BY <1>8, <2>3 DEF Up, Ind
<1> QED BY <1>7, <1>8

\* A stack of levels: from 0 upwards.
NestedLevels(s) ==
  /\ s \in Seq(Nat) /\ s # <<>> /\ s[1] = 0
  /\ \A i, j \in DOMAIN s : i < j => s[i] < s[j]

\* What is popped: the levels above the new one, and only those.
LEMMA KeptIs ==
  ASSUME NestedLevels(indentation), NEW level \in Nat
  PROVE  /\ Kept(level) \in 1 .. Len(indentation)
         /\ indentation[Kept(level)] <= level
         /\ \A i \in DOMAIN indentation : i > Kept(level) => indentation[i] > level
<1> USE DEF NestedLevels
<1>1. DOMAIN indentation = 1 .. Len(indentation) /\ Len(indentation) \in Nat \ {0}
  OBVIOUS
<1> DEFINE Right(k) == /\ indentation[k] <= level
                       /\ \A i \in DOMAIN indentation : i > k => indentation[i] > level
           Above == {n \in 0 .. Len(indentation) : indentation[Len(indentation) - n] <= level}
<1>2. \E k \in DOMAIN indentation : Right(k)
  <2>1. Len(indentation) - (Len(indentation) - 1) = 1 /\ Len(indentation) - 1 \in 0 .. Len(indentation)
    BY <1>1
  <2>2. Len(indentation) - 1 \in Above BY <2>1
  <2>3. PICK n \in Above : \A m \in Above : n <= m
    <3>1. Above # {} BY <2>2
    <3>2. Above \subseteq 0 .. Len(indentation) OBVIOUS
    <3>3. 0 .. Len(indentation) \subseteq Nat BY <1>1
    <3> HIDE DEF Above
    <3>4. Above \in SUBSET Nat BY <3>2, <3>3
    <3> QED BY <3>1, <3>4, Least
  <2> DEFINE k == Len(indentation) - n
  <2>4. n <= Len(indentation) - 1 /\ n \in Nat /\ indentation[k] <= level BY <2>2, <2>3
  <2>5. k \in 1 .. Len(indentation) BY <1>1, <2>4
  <2>6. ASSUME NEW i \in DOMAIN indentation, i > k PROVE indentation[i] > level
    <3> DEFINE m == Len(indentation) - i
    <3>1. m \in 0 .. Len(indentation) /\ Len(indentation) - m = i /\ ~(n <= m) BY <1>1, <2>4, <2>6
    <3>2. m \notin Above BY <2>3, <3>1
    <3>3. ~(indentation[i] <= level) BY <3>1, <3>2
    <3> QED BY <3>3
  <2> HIDE DEF k
  <2> QED BY <1>1, <2>4, <2>5, <2>6
<1>3. Right(Kept(level)) /\ Kept(level) \in DOMAIN indentation
  BY <1>2 DEF Kept
<1> QED BY <1>1, <1>3

\* What is popped and what stays, as sets of levels.
LEMMA Popped ==
  ASSUME NestedLevels(indentation), NEW level \in Nat
  PROVE  /\ NestedLevels(Surviving(level))
         /\ ToSet(Surviving(level)) = {l \in ToSet(indentation) : l <= level}
         /\ level = Last(Surviving(level)) <=> level \in ToSet(indentation)
         /\ DedentTokens(level) = Repeat("DEDENT", Cardinality({l \in ToSet(indentation) : l > level}))
<1> DEFINE k == Kept(level)
           n == Len(indentation)
           low == Surviving(level)
           left == {l \in ToSet(indentation) : l > level}
<1>1. n \in Nat /\ k \in 1 .. n /\ indentation[k] <= level
      /\ (\A i \in 1 .. n : i > k => indentation[i] > level)
      /\ DOMAIN indentation = 1 .. n
  <2>1. n \in Nat /\ DOMAIN indentation = 1 .. n BY DEF NestedLevels
  <2>2. /\ Kept(level) \in 1 .. Len(indentation) /\ indentation[Kept(level)] <= level
        /\ \A i \in DOMAIN indentation : i > Kept(level) => indentation[i] > level
    BY KeptIs
  <2> QED BY <2>1, <2>2
<1>2. low = SubSeq(indentation, 1, k) BY DEF Surviving
<1>3. indentation \in Seq(Nat) /\ \A i \in 1 .. n : indentation[i] \in Nat
      BY <1>1 DEF NestedLevels
<1>4. /\ low \in Seq(Nat) /\ Len(low) = k /\ DOMAIN low = 1 .. k
      /\ \A i \in 1 .. k : low[i] = indentation[i]
  BY <1>1, <1>2, <1>3
<1>5. \A i, j \in 1 .. n : i < j => indentation[i] < indentation[j] BY <1>1 DEF NestedLevels
<1>6. \A i \in 1 .. k : indentation[i] <= level
  <2> TAKE i \in 1 .. k
  <2>1. CASE i = k BY <1>1, <2>1
  <2>2. CASE i # k
    <3>1. i \in 1 .. n /\ k \in 1 .. n /\ i < k BY <1>1, <2>2
    <3>2. indentation[i] < indentation[k] BY <1>5, <3>1
    <3> QED BY <1>1, <1>3, <3>1, <3>2
  <2> QED BY <2>1, <2>2
<1> HIDE DEF k, low
<1>7. NestedLevels(low)
  <2>1. 1 \in 1 .. k /\ 1 .. k \subseteq 1 .. n BY <1>1
  <2>2. low[1] = 0 /\ low # <<>> BY <1>4, <2>1 DEF NestedLevels
  <2>3. \A i, j \in DOMAIN low : i < j => low[i] < low[j] BY <1>4, <1>5, <2>1
  <2> QED BY <1>4, <2>2, <2>3 DEF NestedLevels
<1>8. ToSet(indentation) = {indentation[i] : i \in 1 .. n} /\ ToSet(low) = {low[i] : i \in 1 .. k}
  BY <1>1, <1>4 DEF ToSet
<1>9. ToSet(low) = {l \in ToSet(indentation) : l <= level}
  <2>1. ASSUME NEW i \in 1 .. k PROVE low[i] \in {l \in ToSet(indentation) : l <= level}
    <3>1. i \in 1 .. n BY <1>1
    <3> QED BY <1>4, <1>6, <1>8, <3>1
  <2>2. ASSUME NEW i \in 1 .. n, indentation[i] <= level PROVE indentation[i] \in ToSet(low)
    <3>1. ~(i > k) BY <1>1, <1>3, <2>2
    <3>2. i \in 1 .. k BY <1>1, <3>1
    <3> QED BY <1>4, <1>8, <3>2
  <2> QED BY <1>8, <2>1, <2>2
<1>10. Last(low) = indentation[k] BY <1>1, <1>4 DEF Last
<1>11. level = Last(low) <=> level \in ToSet(indentation)
  <2>1. ASSUME level = Last(low) PROVE level \in ToSet(indentation) BY <1>1, <1>8, <1>10, <2>1
  <2>2. ASSUME level \in ToSet(indentation) PROVE level = Last(low)
    <3>1. PICK i \in 1 .. n : indentation[i] = level BY <1>8, <2>2
    <3>2. ~(i > k) BY <1>1, <3>1
    <3>3. CASE i = k BY <1>10, <3>1, <3>3
    <3>4. CASE i # k
      <4>1. i < k /\ k \in 1 .. n BY <1>1, <3>2, <3>4
      <4>2. indentation[i] < indentation[k] BY <1>5, <4>1
      <4> QED BY <1>1, <1>3, <3>1, <4>1, <4>2
    <3> QED BY <3>3, <3>4
  <2> QED BY <2>1, <2>2
<1>12. Cardinality(left) = n - k
  <2> DEFINE f == [i \in 1 .. n - k |-> indentation[k + i]]
  <2>1. \A i \in 1 .. n - k : k + i \in 1 .. n /\ k + i > k BY <1>1
  <2>2. \A i \in 1 .. n - k : f[i] = indentation[k + i] /\ f[i] \in left BY <1>1, <1>8, <2>1
  <2>3. f \in [1 .. n - k -> left] BY <2>2
  <2>4. ASSUME NEW i \in 1 .. n - k, NEW j \in 1 .. n - k, f[i] = f[j] PROVE i = j
    <3>1. k + i \in 1 .. n /\ k + j \in 1 .. n BY <2>1
    <3>2. ~(k + i < k + j) /\ ~(k + j < k + i) BY <1>3, <1>5, <2>2, <2>4, <3>1
    <3> QED BY <1>1, <3>2
  <2>5. ASSUME NEW l \in left PROVE \E i \in 1 .. n - k : f[i] = l
    <3>1. PICK j \in 1 .. n : indentation[j] = l BY <1>8
    <3>2. l > level BY DEF left
    <3>3. j \notin 1 .. k
      <4> SUFFICES ASSUME j \in 1 .. k PROVE FALSE OBVIOUS
      <4>1. indentation[j] <= level /\ indentation[j] \in Nat BY <1>3, <1>6
      <4> QED BY <3>1, <3>2, <4>1
    <3>4. j - k \in 1 .. n - k /\ k + (j - k) = j BY <1>1, <3>3
    <3> QED BY <2>2, <3>1, <3>4
  <2> HIDE DEF f, left
  <2>6. f \in Bijection(1 .. n - k, left)
    <3>1. f \in Injection(1 .. n - k, left) BY <2>3, <2>4, Zenon DEF Injection, IsInjective
    <3>2. f \in Surjection(1 .. n - k, left) BY <2>3, <2>5, Zenon DEF Surjection
    <3> QED BY <3>1, <3>2 DEF Bijection
  <2>7. IsFiniteSet(1 .. n - k) /\ Cardinality(1 .. n - k) = n - k
    <3>1. n - k \in Nat BY <1>1
    <3> DEFINE m == n - k
    <3> HIDE DEF m
    <3>2. m \in Nat BY <3>1 DEF m
    <3>3. Cardinality(1 .. m) = IF 1 > m THEN 0 ELSE m - 1 + 1 BY <3>2, FS_Interval
    <3>4. Cardinality(1 .. m) = m BY <3>2, <3>3
    <3> QED BY <3>4, FS_Interval, <3>2 DEF m
  <2>8. ExistsBijection(1 .. n - k, left) BY <2>6 DEF ExistsBijection
  <2> QED BY <2>7, <2>8, FS_Bijection, <2>6
<1>13. DedentTokens(level) = Repeat("DEDENT", Cardinality(left))
  BY <1>12 DEF DedentTokens, Repeat, k
<1> QED BY <1>7, <1>9, <1>11, <1>13 DEF low

\* The layout tokens of a line, by the stack.
LEMMA LayoutTokensAre ==
  ASSUME NEW Pieces, NEW text \in Seq(Pieces), Readable(text), NEW i \in 1 .. Len(text),
         StartsLine(text, i), NestedLevels(indentation), ToSet(indentation) = OpenLevels(text, i)
  PROVE  LET level == Indent(text, i) IN
         /\ level \in Nat
         /\ level > Last(indentation) =>
              /\ WellIndented(text, i) /\ LayoutTokens(text, i) = <<Tok("INDENT")>>
              /\ NestedLevels(Append(indentation, level))
              /\ ToSet(Append(indentation, level)) = OpenLevels(text, i + 1)
         /\ ~(level > Last(indentation)) /\ level = Last(Surviving(level)) =>
              /\ WellIndented(text, i) /\ LayoutTokens(text, i) = DedentTokens(level)
              /\ NestedLevels(Surviving(level))
              /\ ToSet(Surviving(level)) = OpenLevels(text, i + 1)
         /\ ~(level > Last(indentation)) /\ level # Last(Surviving(level)) =>
              /\ ~WellIndented(text, i)
              /\ LayoutTokens(text, i) = Append(DedentTokens(level), Tok("EOF"))
<1> DEFINE level == Indent(text, i)
           n == Len(indentation)
           top == Last(indentation)
           left == LeftOf(text, i, level)
           d == Cardinality(left)
<1>1. level \in Nat
  <2>1. i \in DOMAIN text OBVIOUS
  <2> QED BY <2>1 DEF Indent, Readable
<1>2. /\ n \in Nat \ {0} /\ DOMAIN indentation = 1 .. n /\ indentation \in Seq(Nat)
      /\ indentation[n] \in Nat /\ top = indentation[n]
      /\ \A j, k \in 1 .. n : j < k => indentation[j] < indentation[k]
      /\ \A j \in 1 .. n : indentation[j] \in Nat
  BY DEF NestedLevels, Last
<1>3. ToSet(indentation) = {indentation[j] : j \in 1 .. n} BY <1>2 DEF ToSet
<1>4. i \in 1 .. Len(text) + 1 OBVIOUS
<1>5. d \in Nat /\ IsFiniteSet(left) BY <1>4, LevelsFinite
<1>6. left = {l \in ToSet(indentation) : l > level} BY DEF LeftOf
<1>7. OpenLevels(text, i + 1) = {l \in ToSet(indentation) : l <= level} \cup {level}
  BY OpenLevelsStep
<1>8. LayoutTokens(text, i) =
        (IF level \notin ToSet(indentation) /\ left = {} THEN Repeat("INDENT", 1) ELSE Repeat("DEDENT", d))
           \o (IF WellIndented(text, i) THEN <<>> ELSE <<Tok("EOF")>>)
  BY DEF LayoutTokens
<1>9. WellIndented(text, i) <=> level \in ToSet(indentation) \/ left = {}
  BY DEF WellIndented
<1>10. /\ NestedLevels(Surviving(level))
       /\ ToSet(Surviving(level)) = {l \in ToSet(indentation) : l <= level}
       /\ level = Last(Surviving(level)) <=> level \in ToSet(indentation)
       /\ DedentTokens(level) = Repeat("DEDENT", d)
  BY <1>1, <1>6, Popped
<1>11. /\ Repeat("DEDENT", d) \in Seq(Emitted(text)) /\ Repeat("INDENT", 1) = <<Tok("INDENT")>>
       /\ <<Tok("INDENT")>> \in Seq(Emitted(text)) /\ Tok("EOF") \in Emitted(text)
  <2>1. Repeat("DEDENT", d) \in Seq(Emitted(text)) BY <1>5, RepeatIs
  <2>2. Tok("INDENT") \in Emitted(text) /\ Tok("EOF") \in Emitted(text) BY DEF Emitted
  <2>3. Repeat("INDENT", 1) = <<Tok("INDENT")>> BY DEF Repeat
  <2> QED BY <2>1, <2>2, <2>3
<1> HIDE DEF level, left, d, n, top
<1>12. CASE level > top
  <2>1. \A j \in 1 .. n : indentation[j] < level
    <3> TAKE j \in 1 .. n
    <3>1. n \in 1 .. n BY <1>2
    <3>2. j = n \/ j < n BY <1>2
    <3> QED BY <1>1, <1>2, <1>12, <3>1, <3>2
  <2>2. left = {} /\ level \notin ToSet(indentation)
    BY <1>1, <1>2, <1>3, <1>6, <2>1
  <2>3. LayoutTokens(text, i) = <<Tok("INDENT")>> BY <1>8, <1>9, <1>11, <2>2
  <2> DEFINE up == Append(indentation, level)
  <2>4. /\ up \in Seq(Nat) /\ Len(up) = n + 1 /\ DOMAIN up = 1 .. n + 1
        /\ \A j \in 1 .. n : up[j] = indentation[j]
        /\ up[n + 1] = level
    BY <1>1, <1>2 DEF n
  <2> HIDE DEF up
  <2>5. NestedLevels(up)
    <3>1. 1 \in 1 .. n /\ indentation[1] = 0 BY <1>2 DEF NestedLevels
    <3>2. up[1] = 0 /\ up # <<>> BY <2>4, <3>1, <1>2
    <3>3. ASSUME NEW j \in 1 .. n + 1, NEW k \in 1 .. n + 1, j < k PROVE up[j] < up[k]
      <4>1. j \in 1 .. n BY <1>2, <3>3
      <4>2. CASE k = n + 1 BY <2>1, <2>4, <4>1, <4>2
      <4>3. CASE k # n + 1
        <5>1. k \in 1 .. n BY <1>2, <4>3
        <5> QED BY <1>2, <2>4, <3>3, <4>1, <5>1
      <4> QED BY <4>2, <4>3
    <3> QED BY <2>4, <3>2, <3>3 DEF NestedLevels
  <2>6. ToSet(up) = ToSet(indentation) \cup {level}
    <3>1. ToSet(up) = {up[j] : j \in 1 .. n + 1} BY <2>4 DEF ToSet
    <3>2. 1 .. n + 1 = (1 .. n) \cup {n + 1} BY <1>2
    <3> QED BY <1>3, <2>4, <3>1, <3>2
  <2>7. ToSet(up) = OpenLevels(text, i + 1)
    <3>1. \A l \in ToSet(indentation) : l <= level BY <1>1, <1>2, <1>3, <2>1
    <3> QED BY <1>7, <2>6, <3>1
  <2> QED BY <1>1, <1>9, <1>12, <2>2, <2>3, <2>5, <2>7 DEF level, top, up
<1>13. CASE ~(level > top) /\ level = Last(Surviving(level))
  <2>1. level \in ToSet(indentation) BY <1>10, <1>13
  <2>2. WellIndented(text, i) BY <1>9, <2>1
  <2>3. LayoutTokens(text, i) = DedentTokens(level)
    <3>1. LayoutTokens(text, i) = Repeat("DEDENT", d) \o <<>> BY <1>8, <2>1, <2>2
    <3> QED BY <1>10, <1>11, <3>1
  <2>4. ToSet(Surviving(level)) = OpenLevels(text, i + 1)
    <3>1. level <= level BY <1>1
    <3> QED BY <1>7, <1>10, <2>1, <3>1
  <2> QED BY <1>1, <1>10, <1>13, <2>2, <2>3, <2>4 DEF level, top
<1>14. CASE ~(level > top) /\ level # Last(Surviving(level))
  <2>1. level \notin ToSet(indentation) BY <1>10, <1>14
  <2>2. top \in ToSet(indentation) /\ top \in Nat
    <3>1. n \in 1 .. n BY <1>2
    <3> QED BY <1>2, <1>3, <3>1
  <2>3. top \in left
    <3>1. top # level BY <2>1, <2>2
    <3>2. top > level BY <1>1, <1>14, <2>2, <3>1
    <3> QED BY <1>6, <2>2, <3>2
  <2>4. ~WellIndented(text, i) /\ left # {} BY <1>9, <2>1, <2>3
  <2>5. LayoutTokens(text, i) = Repeat("DEDENT", d) \o <<Tok("EOF")>> BY <1>8, <2>4
  <2>6. LayoutTokens(text, i) = Append(DedentTokens(level), Tok("EOF"))
    <3> DEFINE r == Repeat("DEDENT", d)
               S == Emitted(text)
               e == Tok("EOF")
    <3>1. r \in Seq(S) /\ e \in S BY <1>11
    <3> HIDE DEF r, S, e
    <3>2. r \o <<e>> = Append(r, e) BY <3>1
    <3> QED BY <1>10, <2>5, <3>2 DEF r, e
  <2> QED BY <1>1, <1>14, <2>4, <2>6 DEF level, top
<1> QED BY <1>1, <1>12, <1>13, <1>14 DEF level, top

-----------------------------------------------------------------------------
(***************************************************************************)
(* The pieces, as the scanner comes to them.                               *)
(***************************************************************************)
Depth(text, i) == OpenBrackets(text)[i]

\* Whether a piece is the first on its line depends on the piece before it.
LEMMA FirstOnLineStep ==
  ASSUME NEW text, NEW i \in Nat \ {0}
  PROVE  /\ AfterNewline(text, i) => FirstOnLine(text, i)
         /\ FirstOnLine(text, i + 1) <=>
              \/ TypeAt(text, i) = "NEWLINE"
              \/ FirstOnLine(text, i) /\ TypeAt(text, i) \in {"WHITESPACE", "COMMENT"}
<1> DEFINE Space(k) == TypeAt(text, k) \in {"WHITESPACE", "COMMENT"}
           From(j, e) == AfterNewline(text, j) /\ \A k \in j .. e - 1 : Space(k)
<1>1. \A e : FirstOnLine(text, e) <=> \E j \in 1 .. e : From(j, e)
  BY DEF FirstOnLine
<1>2. AfterNewline(text, i + 1) <=> TypeAt(text, i) = "NEWLINE"
  <2>1. i + 1 # 1 /\ (i + 1) - 1 = i OBVIOUS
  <2> QED BY <2>1 DEF AfterNewline
<1> HIDE DEF Space
<1>3. From(i + 1, i + 1) <=> AfterNewline(text, i + 1)
  <2>1. i + 1 .. (i + 1) - 1 = {} OBVIOUS
  <2> QED BY <2>1
<1>4. From(i, i) <=> AfterNewline(text, i)
  <2>1. i .. i - 1 = {} OBVIOUS
  <2> QED BY <2>1
<1>5. ASSUME NEW j \in 1 .. i PROVE From(j, i + 1) <=> From(j, i) /\ Space(i)
  <2>1. j .. (i + 1) - 1 = (j .. i - 1) \cup {i} OBVIOUS
  <2> QED BY <2>1
<1>6. 1 .. i + 1 = (1 .. i) \cup {i + 1} /\ i \in 1 .. i OBVIOUS
<1> HIDE DEF From
<1>7. FirstOnLine(text, i + 1) <=> AfterNewline(text, i + 1) \/ (FirstOnLine(text, i) /\ Space(i))
  BY <1>1, <1>3, <1>5, <1>6
<1> QED BY <1>1, <1>2, <1>4, <1>6, <1>7 DEF Space

\* What a readable text holds.
LEMMA TypesAre ==
  ASSUME NEW Pieces, NEW text \in Seq(Pieces), Readable(text)
  PROVE  /\ \A i \in 1 .. Len(text) :
              /\ TypeAt(text, i) = text[i].type /\ TypeAt(text, i) \notin NotWritten
              /\ TokenAt(text, i) <=> TypeAt(text, i) \notin Spacing
              /\ TypeAt(text, i) = "WHITESPACE" =>
                   text[i].value \in Nat /\ TypeAt(text, i + 1) # "WHITESPACE"
              /\ TypeAt(text, i) = "COMMENT" => TypeAt(text, i + 1) \in {"NEWLINE", "NOTHING"}
              /\ TypeAt(text, i) = "CONTINUATION" =>
                   /\ \/ TokenAt(text, i + 1)
                      \/ TypeAt(text, i + 1) = "WHITESPACE" /\ TokenAt(text, i + 2)
                   /\ FirstOnLine(text, i) => Depth(text, i - 1) > 0
         /\ \A i : i \notin 1 .. Len(text) => TypeAt(text, i) = "NOTHING"
         /\ \A i : TokenAt(text, i) => TypeAt(text, i) \notin Spacing /\ i \in 1 .. Len(text)
         /\ FirstOnLine(text, Len(text) + 1) /\ Depth(text, Len(text)) = 0
              => AfterNewline(text, Len(text) + 1)
<1>1. DOMAIN text = 1 .. Len(text) OBVIOUS
<1>2. \A i \in 1 .. Len(text) : TypeAt(text, i) = text[i].type BY <1>1 DEF TypeAt
<1>3. \A i : i \notin 1 .. Len(text) => TypeAt(text, i) = "NOTHING" BY <1>1 DEF TypeAt
<1>4. \A i : TokenAt(text, i) => TypeAt(text, i) \notin Spacing /\ i \in 1 .. Len(text)
  BY <1>3 DEF TokenAt, Spacing, NotWritten
<1>5. ASSUME NEW i \in 1 .. Len(text)
      PROVE  /\ TypeAt(text, i) \notin NotWritten
             /\ TypeAt(text, i) = "WHITESPACE" =>
                   text[i].value \in Nat /\ TypeAt(text, i + 1) # "WHITESPACE"
             /\ TypeAt(text, i) = "COMMENT" => TypeAt(text, i + 1) \in {"NEWLINE", "NOTHING"}
             /\ TypeAt(text, i) = "CONTINUATION" =>
                   /\ \/ TokenAt(text, i + 1)
                      \/ TypeAt(text, i + 1) = "WHITESPACE" /\ TokenAt(text, i + 2)
                   /\ FirstOnLine(text, i) => Depth(text, i - 1) > 0
  BY <1>1, <1>2 DEF Readable, Depth
<1>6. \A i \in 1 .. Len(text) : TokenAt(text, i) <=> TypeAt(text, i) \notin Spacing
  BY <1>5 DEF TokenAt
<1> QED BY <1>2, <1>3, <1>4, <1>5, <1>6 DEF Readable, Depth

\* The brackets that are open after a piece depend on it and on those before.
LEMMA DepthStep ==
  ASSUME NEW Pieces, NEW text \in Seq(Pieces), Readable(text), NEW i \in 1 .. Len(text)
  PROVE  /\ Depth(text, i - 1) \in Nat /\ Depth(text, i) \in Nat
         /\ Depth(text, i) = Brackets(TypeAt(text, i), Depth(text, i - 1))
<1>1. i \in 0 .. Len(text) /\ i - 1 \in 0 .. Len(text) OBVIOUS
<1>2. TypeAt(text, i) = text[i].type BY TypesAre
<1> QED BY <1>1, <1>2, OpenBracketsSteps DEF Depth

\* The scanner stops at piece i: never within a blank line, nor before the
\* number that belongs to a minus sign.
Fresh(text, i) ==
  /\ FirstOnLine(text, i) /\ Depth(text, i - 1) = 0 => AfterNewline(text, i) \/ TokenAt(text, i)
  /\ ~(TypeAt(text, i) = "INT_LIT" /\ TypeAt(text, i - 1) = "-")

At(text, i) == [pieces |-> text, at |-> i]

\* The rule for blank lines, by the types of the pieces at the head.
LEMMA BlankLineIs ==
  ASSUME NEW Pieces, NEW text \in Seq(Pieces), Readable(text), NEW i \in 1 .. Len(text)
  PROVE  LET b == IF TypeAt(text, i) = "WHITESPACE" THEN 1 ELSE 0
             c == IF TypeAt(text, i + b) = "COMMENT" THEN 1 ELSE 0
         IN  BlankLine(At(text, i)) =
               IF AfterNewline(text, i) /\ TypeAt(text, i + b + c) = "NEWLINE" THEN b + c + 1 ELSE 0
<1> DEFINE b == IF TypeAt(text, i) = "WHITESPACE" THEN 1 ELSE 0
           c == IF TypeAt(text, i + b) = "COMMENT" THEN 1 ELSE 0
<1>1. At(text, i).pieces = text /\ At(text, i).at = i BY DEF At
<1>2. Len(text) \in Nat /\ DOMAIN text = 1 .. Len(text) OBVIOUS
<1>3. \A j \in Nat \ {0} : Piece(At(text, i), j).type = TypeAt(text, j)
  BY <1>1, <1>2 DEF Piece, TypeAt, Tok
<1>4. b \in 0 .. 1 /\ c \in 0 .. 1 OBVIOUS
<1>5. i \in Nat \ {0} /\ i + b \in Nat \ {0} /\ i + b + c \in Nat \ {0} BY <1>4
<1>6. AtLineStart(At(text, i)) <=>
        AfterNewline(text, i) \/ TypeAt(text, i - 1) \in {"CONTINUATION", "IMPORT"}
  <2>1. CASE i = 1 BY <1>1, <2>1 DEF AtLineStart, AfterNewline
  <2>2. CASE i # 1
    <3>1. i - 1 \in Nat \ {0} BY <2>2
    <3>2. Piece(At(text, i), i - 1).type = TypeAt(text, i - 1) BY <1>3, <3>1
    <3> QED BY <1>1, <2>2, <3>2 DEF AtLineStart, AfterNewline
  <2> QED BY <2>1, <2>2
<1>7. BlankLine(At(text, i)) =
        IF AtLineStart(At(text, i)) /\ TypeAt(text, i + b + c) = "NEWLINE" THEN b + c + 1 ELSE 0
  <2>1. b = IF Piece(At(text, i), i).type = "WHITESPACE" THEN 1 ELSE 0 BY <1>3, <1>5
  <2>2. c = IF Piece(At(text, i), i + b).type = "COMMENT" THEN 1 ELSE 0 BY <1>3, <1>5
  <2>3. Piece(At(text, i), i + b + c).type = TypeAt(text, i + b + c) BY <1>3, <1>5
  <2> HIDE DEF b, c
  <2> QED BY <1>1, <2>1, <2>2, <2>3 DEF BlankLine
<1>8. ASSUME TypeAt(text, i + b + c) = "NEWLINE"
      PROVE  TypeAt(text, i - 1) \notin {"CONTINUATION", "IMPORT"}
  <2>1. CASE i - 1 \in 1 .. Len(text)
    <3>1. (i - 1) + 1 = i /\ (i - 1) + 2 = i + 1 OBVIOUS
    <3>2. TypeAt(text, i - 1) # "IMPORT" BY <2>1, TypesAre DEF NotWritten
    <3>3. ASSUME TypeAt(text, i - 1) = "CONTINUATION" PROVE FALSE
      <4>1. TokenAt(text, i) \/ (TypeAt(text, i) = "WHITESPACE" /\ TokenAt(text, i + 1))
        BY <2>1, <3>1, <3>3, TypesAre
      <4>2. CASE TokenAt(text, i)
        <5>1. TypeAt(text, i) \notin Spacing BY <4>2, TypesAre
        <5>2. b = 0 /\ i + b = i BY <5>1 DEF Spacing
        <5>3. c = 0 /\ i + b + c = i BY <5>1, <5>2 DEF Spacing
        <5> HIDE DEF b, c
        <5> QED BY <1>8, <5>1, <5>3 DEF Spacing
      <4>3. CASE TypeAt(text, i) = "WHITESPACE" /\ TokenAt(text, i + 1)
        <5>1. TypeAt(text, i + 1) \notin Spacing BY <4>3, TypesAre
        <5>2. b = 1 BY <4>3
        <5>3. c = 0 /\ i + b + c = i + 1 BY <5>1, <5>2 DEF Spacing
        <5> HIDE DEF b, c
        <5> QED BY <1>8, <5>1, <5>3 DEF Spacing
      <4> QED BY <4>1, <4>2, <4>3
    <3> QED BY <3>2, <3>3
  <2>2. CASE i - 1 \notin 1 .. Len(text) BY <2>2, TypesAre
  <2> QED BY <2>1, <2>2
<1> HIDE DEF b, c
<1> QED BY <1>6, <1>7, <1>8 DEF b, c

\* A line that starts outside all brackets, with piece i, holds a token.
LEMMA LineHasToken ==
  ASSUME NEW Pieces, NEW text \in Seq(Pieces), Readable(text), NEW i \in 1 .. Len(text),
         StartOfLogical(text, i), BlankLine(At(text, i)) = 0
  PROVE  StartsLine(text, i)
<1> DEFINE b == IF TypeAt(text, i) = "WHITESPACE" THEN 1 ELSE 0
           c == IF TypeAt(text, i + b) = "COMMENT" THEN 1 ELSE 0
<1>1. AfterNewline(text, i) /\ Depth(text, i - 1) = 0 BY DEF StartOfLogical, Depth
<1>2. TypeAt(text, i + b + c) # "NEWLINE"
  <2>1. b \in 0 .. 1 /\ c \in 0 .. 1 OBVIOUS
  <2>2. BlankLine(At(text, i)) =
          IF AfterNewline(text, i) /\ TypeAt(text, i + b + c) = "NEWLINE" THEN b + c + 1 ELSE 0
    BY BlankLineIs
  <2> HIDE DEF b, c
  <2> QED BY <1>1, <2>1, <2>2
<1>3. SUFFICES ASSUME ~TokenAt(text, i), ~(TypeAt(text, i) = "WHITESPACE" /\ TokenAt(text, i + 1))
               PROVE FALSE
  BY <1>1 DEF StartsLine, Depth
<1>4. FirstOnLine(text, i) BY <1>1, FirstOnLineStep
<1>5. /\ TypeAt(text, i) \in Spacing
      /\ TypeAt(text, i) = "CONTINUATION" => FALSE
      /\ TypeAt(text, i) = "COMMENT" => TypeAt(text, i + 1) \in {"NEWLINE", "NOTHING"}
      /\ TypeAt(text, i) = "WHITESPACE" => TypeAt(text, i + 1) # "WHITESPACE"
  BY <1>1, <1>3, <1>4, TypesAre
<1>6. Depth(text, i) = 0 BY <1>1, <1>5, DepthStep DEF Brackets, Spacing
<1>7. (i + 1) - 1 = i /\ i + 1 \in Nat \ {0} /\ (i + 1) + 1 = i + 2 /\ (i + 2) - 1 = i + 1 OBVIOUS
\* No text ends within such a line.
<1>8. ASSUME NEW e \in {i + 1, i + 2}, FirstOnLine(text, e), Depth(text, e - 1) = 0,
             TypeAt(text, e) = "NOTHING", TypeAt(text, e - 1) \in {"WHITESPACE", "COMMENT"}
      PROVE  FALSE
  <2>1. e - 1 \in 1 .. Len(text)
    <3>1. e - 1 \in Nat BY <1>8
    <3> QED BY <1>8, TypesAre
  <2>2. e \notin 1 .. Len(text) BY <1>8, TypesAre DEF NotWritten
  <2>3. e = Len(text) + 1 BY <2>1, <2>2
  <2>4. (Len(text) + 1) - 1 = Len(text) /\ Len(text) + 1 # 1 BY <2>1
  <2>5. AfterNewline(text, Len(text) + 1) BY <1>8, <2>3, <2>4, TypesAre
  <2> QED BY <1>8, <2>3, <2>4, <2>5 DEF AfterNewline
<1>9. CASE TypeAt(text, i) = "NEWLINE"
  <2>1. i + b + c = i
    <3>1. b = 0 /\ i + b = i BY <1>9
    <3> HIDE DEF b
    <3> QED BY <1>9, <3>1
  <2> HIDE DEF b, c
  <2> QED BY <1>2, <1>9, <2>1
<1>10. CASE TypeAt(text, i) = "COMMENT"
  <2>1. i + b + c = i + 1
    <3>1. b = 0 /\ i + b = i BY <1>10
    <3> HIDE DEF b
    <3> QED BY <1>10, <3>1
  <2>2. FirstOnLine(text, i + 1) BY <1>4, <1>10, FirstOnLineStep
  <2>3. TypeAt(text, i + 1) = "NOTHING"
    <3> HIDE DEF b, c
    <3> QED BY <1>2, <1>5, <1>10, <2>1
  <2> QED BY <1>6, <1>7, <1>8, <1>10, <2>2, <2>3
<1>11. CASE TypeAt(text, i) = "WHITESPACE"
  <2>1. b = 1 BY <1>11
  <2>2. FirstOnLine(text, i + 1) BY <1>4, <1>11, FirstOnLineStep
  <2>3. CASE i + 1 \notin 1 .. Len(text)
    <3>1. TypeAt(text, i + 1) = "NOTHING" BY <2>3, TypesAre
    <3> QED BY <1>6, <1>7, <1>8, <1>11, <2>2, <3>1
  <2>4. CASE i + 1 \in 1 .. Len(text)
    <3>1. TypeAt(text, i + 1) \in Spacing BY <1>3, <1>11, <2>4, TypesAre
    <3>2. TypeAt(text, i + 1) # "CONTINUATION" BY <1>6, <1>7, <2>2, <2>4, TypesAre
    <3>3. TypeAt(text, i + 1) # "NEWLINE"
      <4>1. ASSUME TypeAt(text, i + 1) = "NEWLINE" PROVE i + b + c = i + 1
        <5> HIDE DEF b
        <5> QED BY <2>1, <4>1
      <4> HIDE DEF b, c
      <4> QED BY <1>2, <4>1
    <3>4. TypeAt(text, i + 1) = "COMMENT"
      BY <1>5, <1>11, <3>1, <3>2, <3>3 DEF Spacing
    <3>5. i + b + c = i + 2
      <4> HIDE DEF b
      <4> QED BY <2>1, <3>4
    <3>6. TypeAt(text, i + 2) = "NOTHING"
      <4>1. TypeAt(text, i + 2) \in {"NEWLINE", "NOTHING"} BY <1>7, <2>4, <3>4, TypesAre
      <4> HIDE DEF b, c
      <4> QED BY <1>2, <3>5, <4>1
    <3>7. FirstOnLine(text, i + 2) BY <1>7, <2>2, <3>4, FirstOnLineStep
    <3>8. Depth(text, i + 1) = 0 BY <1>6, <1>7, <2>4, <3>4, DepthStep DEF Brackets
    <3> QED BY <1>7, <1>8, <3>4, <3>6, <3>7, <3>8
  <2> QED BY <2>3, <2>4
<1> QED BY <1>5, <1>9, <1>10, <1>11 DEF Spacing

\* From piece i to piece e there are no tokens and no levels.
Passed(text, i, e) ==
  /\ TokensUpTo(text, e - 1) = TokensUpTo(text, i - 1)
  /\ Depth(text, e - 1) = Depth(text, i - 1)
  /\ OpenLevels(text, e) = OpenLevels(text, i)
  /\ \A j \in i .. e - 1 : ~StartsLine(text, j)

\* Blanks, a comment, and a newline that ends no line make no token.
LEMMA PassedOne ==
  ASSUME NEW Pieces, NEW text \in Seq(Pieces), Readable(text), NEW i \in 1 .. Len(text),
         ~StartsLine(text, i), TypeAt(text, i) \in Spacing,
         TypeAt(text, i) = "NEWLINE" => Depth(text, i - 1) # 0 \/ FirstOnLine(text, i)
  PROVE  Passed(text, i, i + 1)
<1>1. (i + 1) - 1 = i /\ i .. i = {i} OBVIOUS
<1>2. Depth(text, i) = Depth(text, i - 1) BY DepthStep DEF Brackets, Spacing
<1>3. OpenLevels(text, i + 1) = OpenLevels(text, i) BY OpenLevelsStep
<1>4. text[i].type = TypeAt(text, i) BY TypesAre
<1>5. LayoutTokens(text, i) = <<>> BY DEF LayoutTokens
<1>6. PieceTokens(text, i) = <<>>
  <2>1. CASE text[i].type = "NEWLINE"
    <3>1. ~(OpenBrackets(text)[i - 1] = 0 /\ ~FirstOnLine(text, i)) BY <1>4, <2>1 DEF Depth
    <3> QED BY <2>1, <3>1 DEF PieceTokens
  <2>2. CASE text[i].type # "NEWLINE"
    <3>1. /\ text[i].type \in Spacing \ {"NEWLINE"} /\ text[i].type # "-"
          /\ text[i].type # "INT_LIT"
      BY <1>4, <2>2 DEF Spacing
    <3> QED BY <2>2, <3>1 DEF PieceTokens
  <2> QED BY <2>1, <2>2
<1>7. TokensUpTo(text, i) = TokensUpTo(text, i - 1)
  <2>1. TokensOf(text, i) = <<>> BY <1>5, <1>6 DEF TokensOf
  <2>2. i - 1 \in 0 .. Len(text) OBVIOUS
  <2>3. TokensUpTo(text, i - 1) \in Seq(Emitted(text)) BY <2>2, TokensUpToEmitted
  <2>4. TokensUpTo(text, i) = TokensUpTo(text, i - 1) \o TokensOf(text, i) BY TokensUpToStep
  <2> QED BY <2>1, <2>3, <2>4
<1> QED BY <1>1, <1>2, <1>3, <1>7 DEF Passed

\* One such piece after another.
LEMMA PassedMore ==
  ASSUME NEW text, NEW i \in Nat, NEW j \in Nat, NEW e \in Nat, i <= j, j <= e,
         Passed(text, i, j), Passed(text, j, e)
  PROVE  Passed(text, i, e)
<1>1. \A k \in i .. e - 1 : k \in i .. j - 1 \/ k \in j .. e - 1 OBVIOUS
<1> QED BY <1>1 DEF Passed

\* A blank line is passed at once.
LEMMA BlankLinePassed ==
  ASSUME NEW Pieces, NEW text \in Seq(Pieces), Readable(text), NEW i \in 1 .. Len(text),
         BlankLine(At(text, i)) > 0
  PROVE  LET e == i + BlankLine(At(text, i)) IN
         /\ e \in i + 1 .. Len(text) + 1 /\ AfterNewline(text, i) /\ AfterNewline(text, e)
         /\ Passed(text, i, e) /\ ~TokenAt(text, i)
<1> DEFINE b == IF TypeAt(text, i) = "WHITESPACE" THEN 1 ELSE 0
           c == IF TypeAt(text, i + b) = "COMMENT" THEN 1 ELSE 0
<1>1. b \in 0 .. 1 /\ c \in 0 .. 1 OBVIOUS
<1>2. BlankLine(At(text, i)) =
        IF AfterNewline(text, i) /\ TypeAt(text, i + b + c) = "NEWLINE" THEN b + c + 1 ELSE 0
  BY BlankLineIs
<1>3. /\ TypeAt(text, i) = "WHITESPACE" <=> b = 1
      /\ TypeAt(text, i + b) = "COMMENT" <=> c = 1
  OBVIOUS
<1> HIDE DEF b, c
<1> DEFINE e == i + b + c + 1
           last == i + b + c
<1>4. AfterNewline(text, i) /\ TypeAt(text, last) = "NEWLINE" /\ i + BlankLine(At(text, i)) = e
  BY <1>1, <1>2
<1>5. last \in 1 .. Len(text)
  <2>1. last \in Nat BY <1>1
  <2> QED BY <1>4, TypesAre
<1>6. e \in i + 1 .. Len(text) + 1 /\ e # 1 /\ e - 1 = last BY <1>1, <1>5
<1>7. AfterNewline(text, e) BY <1>4, <1>6 DEF AfterNewline
<1>8. FirstOnLine(text, i) BY <1>4, FirstOnLineStep
<1>9. ASSUME NEW j \in i .. last, FirstOnLine(text, j), TypeAt(text, j) \in Spacing,
             j = i => ~(TypeAt(text, i) = "WHITESPACE" /\ TokenAt(text, i + 1)),
             j # i => TypeAt(text, j - 1) # "NEWLINE"
      PROVE  Passed(text, j, j + 1)
  <2>1. j \in 1 .. Len(text) BY <1>5, <1>9
  <2>2. ~TokenAt(text, j) BY <1>9, <2>1, TypesAre
  <2>3. ~StartsLine(text, j)
    <3>1. CASE j = i BY <1>9, <2>2, <3>1 DEF StartsLine
    <3>2. CASE j # i
      <4>1. j # 1 BY <3>2
      <4> QED BY <1>9, <3>2, <4>1 DEF StartsLine, AfterNewline
    <3> QED BY <3>1, <3>2
  <2> QED BY <1>9, <2>1, <2>3, PassedOne
<1>10. i \in Nat /\ i - 1 \in Int OBVIOUS
<1>11. CASE b = 0
  <2>1. i + b = i BY <1>11
  <2>2. TypeAt(text, i) # "WHITESPACE" BY <1>3, <1>11
  <2>3. CASE c = 0
    <3>1. last = i /\ e = i + 1 BY <1>11, <2>3
    <3>2. TypeAt(text, i) = "NEWLINE" BY <1>4, <3>1
    <3>3. Passed(text, i, i + 1) BY <1>8, <1>9, <2>2, <3>1, <3>2 DEF Spacing
    <3>4. ~TokenAt(text, i) BY <3>2, TypesAre DEF Spacing
    <3> QED BY <1>4, <1>6, <1>7, <3>1, <3>3, <3>4
  <2>4. CASE c = 1
    <3>1. last = i + 1 /\ e = (i + 1) + 1 /\ (i + 1) - 1 = i /\ i + 1 # i BY <1>11, <2>4
    <3>2. TypeAt(text, i) = "COMMENT" /\ TypeAt(text, i + 1) = "NEWLINE" BY <1>3, <1>4, <2>1, <2>4, <3>1
    <3>3. Passed(text, i, i + 1) BY <1>8, <1>9, <2>2, <3>1, <3>2 DEF Spacing
    <3>4. FirstOnLine(text, i + 1) BY <1>8, <3>2, FirstOnLineStep
    <3>5. Passed(text, i + 1, (i + 1) + 1)
      <4>1. i + 1 \in i .. last BY <3>1
      <4>2. TypeAt(text, (i + 1) - 1) # "NEWLINE" BY <3>1, <3>2
      <4> QED BY <1>9, <3>1, <3>2, <3>4, <4>1, <4>2 DEF Spacing
    <3>6. Passed(text, i, e) BY <3>1, <3>3, <3>5, PassedMore
    <3>7. ~TokenAt(text, i) BY <3>2, TypesAre DEF Spacing
    <3> QED BY <1>4, <1>6, <1>7, <3>6, <3>7
  <2> QED BY <1>1, <2>3, <2>4
<1>12. CASE b = 1
  <2>1. TypeAt(text, i) = "WHITESPACE" /\ i + b = i + 1 /\ (i + 1) - 1 = i /\ i + 1 # i BY <1>3, <1>12
  <2>2. FirstOnLine(text, i + 1) BY <1>8, <2>1, FirstOnLineStep
  <2>3. ~TokenAt(text, i) BY <2>1, TypesAre DEF Spacing
  <2>4. CASE c = 0
    <3>1. last = i + 1 /\ e = (i + 1) + 1 BY <1>12, <2>4
    <3>2. TypeAt(text, i + 1) = "NEWLINE" BY <1>4, <3>1
    <3>3. ~TokenAt(text, i + 1) BY <3>2, TypesAre DEF Spacing
    <3>4. Passed(text, i, i + 1) BY <1>8, <1>9, <2>1, <3>1, <3>3 DEF Spacing
    <3>5. Passed(text, i + 1, (i + 1) + 1)
      <4>1. i + 1 \in i .. last BY <3>1
      <4>2. TypeAt(text, (i + 1) - 1) # "NEWLINE" BY <2>1
      <4> QED BY <1>9, <2>1, <2>2, <3>2, <4>1, <4>2 DEF Spacing
    <3>6. Passed(text, i, e) BY <3>1, <3>4, <3>5, PassedMore
    <3> QED BY <1>4, <1>6, <1>7, <2>3, <3>6
  <2>5. CASE c = 1
    <3>1. last = i + 2 /\ e = (i + 2) + 1 /\ (i + 2) - 1 = i + 1 /\ i + 2 # i /\ (i + 1) + 1 = i + 2
      BY <1>12, <2>5
    <3>2. TypeAt(text, i + 1) = "COMMENT" /\ TypeAt(text, i + 2) = "NEWLINE"
      BY <1>3, <1>4, <2>1, <2>5, <3>1
    <3>3. ~TokenAt(text, i + 1) BY <3>2, TypesAre DEF Spacing
    <3>4. Passed(text, i, i + 1) BY <1>8, <1>9, <2>1, <3>1, <3>3 DEF Spacing
    <3>5. Passed(text, i + 1, i + 2)
      <4>1. i + 1 \in i .. last BY <3>1
      <4>2. TypeAt(text, (i + 1) - 1) # "NEWLINE" BY <2>1
      <4> QED BY <1>9, <2>1, <2>2, <3>1, <3>2, <4>1, <4>2 DEF Spacing
    <3>6. FirstOnLine(text, i + 2) BY <2>2, <3>1, <3>2, FirstOnLineStep
    <3>7. Passed(text, i + 2, (i + 2) + 1)
      <4>1. i + 2 \in i .. last BY <3>1
      <4>2. TypeAt(text, (i + 2) - 1) # "NEWLINE" BY <3>1, <3>2
      <4> QED BY <1>9, <3>1, <3>2, <3>6, <4>1, <4>2 DEF Spacing
    <3>8. Passed(text, i, i + 2) BY <3>4, <3>5, PassedMore
    <3>9. Passed(text, i, e) BY <3>1, <3>7, <3>8, PassedMore
    <3> QED BY <1>4, <1>6, <1>7, <2>3, <3>9
  <2> QED BY <1>1, <2>4, <2>5
<1> QED BY <1>1, <1>11, <1>12

\* What the parser is given for what the scanner returns, layout apart.
Given(token) == IF token.type \in {"NONE", "WHITESPACE"} THEN <<>> ELSE <<token>>

\* The scanner goes from piece i to piece e and returns the token.
Consumes(text, i, e, token) ==
  /\ e \in i + 1 .. Len(text) + 1
  /\ Given(token) \in Seq(Emitted(text))
  /\ TokensUpTo(text, e - 1) = (TokensUpTo(text, i - 1) \o LayoutTokens(text, i)) \o Given(token)
  /\ OpenLevels(text, e) = OpenLevels(text, i + 1)
  /\ \A j \in i + 1 .. e - 1 : ~StartsLine(text, j)
  /\ Depth(text, e - 1) = Brackets(token.type, Depth(text, i - 1))
  /\ Fresh(text, e)
  /\ StartOfLogical(text, e) <=> token.type = "EOL"
  /\ token.type \notin {"END", "EOF", "IMPORT", "INDENT", "DEDENT"}
  /\ IF TypeAt(text, i) = "WHITESPACE" THEN token = text[i] ELSE token.type # "WHITESPACE"
  /\ TokenAt(text, i) => token.type \notin {"NONE", "EOL"}
  /\ token.type = "WHITESPACE" => TypeAt(text, i) = "WHITESPACE" /\ e = i + 1

\* What the other rules of the scanner consume and return.
LEMMA ScannedIs ==
  ASSUME NEW Pieces, NEW text \in Seq(Pieces), Readable(text), NEW i \in 1 .. Len(text),
         BlankLine(At(text, i)) = 0
  PROVE  LET type == TypeAt(text, i)
             pair == type = "-" /\ TypeAt(text, i + 1) = "INT_LIT"
             scanned == Scanned(At(text, i))
         IN  /\ scanned.pieces = IF pair THEN 2 ELSE 1
             /\ pair => i + 1 \in 1 .. Len(text) /\ scanned.token = Negative(text[i + 1])
             /\ type \in {"COMMENT", "CONTINUATION"} => scanned.token = Tok("NONE")
             /\ type = "NEWLINE" =>
                  scanned.token = Tok(IF unclosedBrackets = 0 THEN "EOL" ELSE "NONE")
             /\ type \notin {"COMMENT", "CONTINUATION", "NEWLINE"} /\ ~pair =>
                  scanned.token = text[i]
<1>1. At(text, i).pieces = text /\ At(text, i).at = i BY DEF At
<1>2. Len(text) \in Nat /\ DOMAIN text = 1 .. Len(text) OBVIOUS
<1>3. Piece(At(text, i), i) = text[i] /\ text[i].type = TypeAt(text, i)
  BY <1>1, <1>2, TypesAre DEF Piece
<1>4. Piece(At(text, i), i + 1).type = TypeAt(text, i + 1)
  BY <1>1, <1>2 DEF Piece, TypeAt, Tok
<1>5. TypeAt(text, i + 1) = "INT_LIT" => i + 1 \in 1 .. Len(text) /\ Piece(At(text, i), i + 1) = text[i + 1]
  <2>1. TypeAt(text, i + 1) = "INT_LIT" => i + 1 \in 1 .. Len(text) BY TypesAre
  <2> QED BY <1>1, <1>2, <2>1 DEF Piece
<1>6. BlankLine(At(text, i)) > 0 <=> FALSE OBVIOUS
<1> DEFINE piece == Piece(At(text, i), i)
           second == Piece(At(text, i), i + 1)
           eol == Tok(IF unclosedBrackets = 0 THEN "EOL" ELSE "NONE")
<1>7. Scanned(At(text, i)) =
        CASE piece.type = "-" /\ second.type = "INT_LIT" -> [pieces |-> 2, token |-> Negative(second)]
          [] piece.type \in {"COMMENT", "CONTINUATION"} -> [pieces |-> 1, token |-> Tok("NONE")]
          [] piece.type = "NEWLINE" -> [pieces |-> 1, token |-> eol]
          [] OTHER -> [pieces |-> 1, token |-> piece]
  BY <1>1, <1>6 DEF Scanned
<1> HIDE DEF piece, second, eol
<1>8. CASE piece.type = "-" /\ second.type = "INT_LIT"
  <2>1. Scanned(At(text, i)) = [pieces |-> 2, token |-> Negative(second)] BY <1>7, <1>8
  <2> QED BY <1>3, <1>4, <1>5, <1>8, <2>1 DEF piece, second
<1>9. CASE ~(piece.type = "-" /\ second.type = "INT_LIT")
  <2>1. CASE piece.type \in {"COMMENT", "CONTINUATION"}
    <3>1. Scanned(At(text, i)) = [pieces |-> 1, token |-> Tok("NONE")] BY <1>7, <1>9, <2>1
    <3> QED BY <1>3, <1>4, <1>9, <2>1, <3>1 DEF piece, second
  <2>2. CASE piece.type = "NEWLINE"
    <3>1. Scanned(At(text, i)) = [pieces |-> 1, token |-> eol] BY <1>7, <1>9, <2>2
    <3> QED BY <1>3, <1>4, <1>9, <2>2, <3>1 DEF piece, second, eol
  <2>3. CASE piece.type \notin {"COMMENT", "CONTINUATION", "NEWLINE"}
    <3>1. Scanned(At(text, i)) = [pieces |-> 1, token |-> piece] BY <1>7, <1>9, <2>3
    <3> QED BY <1>3, <1>4, <1>9, <2>3, <3>1 DEF piece, second
  <2> QED BY <2>1, <2>2, <2>3
<1> QED BY <1>8, <1>9

\* What goes with the token when the scanner goes on by one piece.
LEMMA NextPiece ==
  ASSUME NEW Pieces, NEW text \in Seq(Pieces), Readable(text), NEW i \in 1 .. Len(text),
         BlankLine(At(text, i)) = 0, Fresh(text, i),
         ~(TypeAt(text, i) = "-" /\ TypeAt(text, i + 1) = "INT_LIT")
  PROVE  /\ Fresh(text, i + 1)
         /\ StartOfLogical(text, i + 1) <=> TypeAt(text, i) = "NEWLINE" /\ Depth(text, i - 1) = 0
         /\ TypeAt(text, i) = "NEWLINE" =>
              ~StartsLine(text, i) /\ (Depth(text, i - 1) = 0 => ~FirstOnLine(text, i))
         /\ TypeAt(text, i) \in {"COMMENT", "CONTINUATION"} => ~StartsLine(text, i)
<1>1. (i + 1) - 1 = i /\ i + 1 # 1 /\ i \in Nat \ {0} OBVIOUS
<1>2. AfterNewline(text, i + 1) <=> TypeAt(text, i) = "NEWLINE" BY <1>1 DEF AfterNewline
<1>3. TypeAt(text, i) = "NEWLINE" => Depth(text, i) = Depth(text, i - 1)
  BY DepthStep DEF Brackets
<1>4. StartOfLogical(text, i + 1) <=> TypeAt(text, i) = "NEWLINE" /\ Depth(text, i - 1) = 0
  BY <1>1, <1>2, <1>3 DEF StartOfLogical, Depth
<1>5. ASSUME StartsLine(text, i), TypeAt(text, i) \in {"COMMENT", "CONTINUATION", "NEWLINE"} PROVE FALSE
  <2>1. ~TokenAt(text, i) /\ TypeAt(text, i) # "WHITESPACE" BY <1>5, TypesAre DEF Spacing
  <2> QED BY <1>5, <2>1 DEF StartsLine
<1>6. ASSUME TypeAt(text, i) = "NEWLINE", Depth(text, i - 1) = 0, FirstOnLine(text, i) PROVE FALSE
  <2>1. ~TokenAt(text, i) BY <1>6, TypesAre DEF Spacing
  <2>2. AfterNewline(text, i) BY <1>6, <2>1 DEF Fresh
  <2>3. StartOfLogical(text, i) BY <1>6, <2>2 DEF StartOfLogical, Depth
  <2>4. StartsLine(text, i) BY <2>3, LineHasToken
  <2> QED BY <1>5, <1>6, <2>4
<1>7. ASSUME FirstOnLine(text, i + 1), Depth(text, i) = 0
      PROVE  AfterNewline(text, i + 1) \/ TokenAt(text, i + 1)
  <2>1. CASE TypeAt(text, i) = "NEWLINE" BY <1>2, <2>1
  <2>2. CASE TypeAt(text, i) # "NEWLINE"
    <3>1. FirstOnLine(text, i) /\ TypeAt(text, i) \in {"WHITESPACE", "COMMENT"}
      BY <1>1, <1>7, <2>2, FirstOnLineStep
    <3>2. Depth(text, i - 1) = 0 BY <1>7, <3>1, DepthStep DEF Brackets
    <3>3. ~TokenAt(text, i) BY <3>1, TypesAre DEF Spacing
    <3>4. AfterNewline(text, i) BY <3>1, <3>2, <3>3 DEF Fresh
    <3>5. StartOfLogical(text, i) BY <3>2, <3>4 DEF StartOfLogical, Depth
    <3>6. StartsLine(text, i) BY <3>5, LineHasToken
    <3> QED BY <3>3, <3>6 DEF StartsLine
  <2> QED BY <2>1, <2>2
<1>8. Fresh(text, i + 1) BY <1>1, <1>7 DEF Fresh
<1> QED BY <1>4, <1>5, <1>6, <1>8

\* Those rules consume what comes to the token they return.
LEMMA OnePiece ==
  ASSUME NEW Pieces, Typed(Pieces), NEW text \in Seq(Pieces), Readable(text),
         NEW i \in 1 .. Len(text), BlankLine(At(text, i)) = 0, Fresh(text, i),
         unclosedBrackets = Depth(text, i - 1)
  PROVE  Consumes(text, i, i + Scanned(At(text, i)).pieces, Scanned(At(text, i)).token)
<1> DEFINE type == TypeAt(text, i)
           pair == type = "-" /\ TypeAt(text, i + 1) = "INT_LIT"
           m == Scanned(At(text, i)).pieces
           token == Scanned(At(text, i)).token
           S == Emitted(text)
           U(j) == TokensUpTo(text, j)
           L == LayoutTokens(text, i)
           P(j) == PieceTokens(text, j)
<1>1. /\ m = IF pair THEN 2 ELSE 1
      /\ pair => i + 1 \in 1 .. Len(text) /\ token = Negative(text[i + 1])
      /\ type \in {"COMMENT", "CONTINUATION"} => token = Tok("NONE")
      /\ type = "NEWLINE" => token = Tok(IF unclosedBrackets = 0 THEN "EOL" ELSE "NONE")
      /\ type \notin {"COMMENT", "CONTINUATION", "NEWLINE"} /\ ~pair => token = text[i]
  BY ScannedIs
<1>2. /\ type \notin NotWritten /\ text[i].type = type
      /\ TokenAt(text, i) <=> type \notin Spacing
  BY TypesAre
<1>3. Depth(text, i) = Brackets(type, Depth(text, i - 1)) /\ Depth(text, i - 1) \in Nat BY DepthStep
<1>4. /\ U(i - 1) \in Seq(S) /\ L \in Seq(S) /\ P(i) \in Seq(S)
      /\ U(i) = U(i - 1) \o (L \o P(i))
  <2>1. i - 1 \in 0 .. Len(text) OBVIOUS
  <2>2. U(i - 1) \in Seq(S) BY <2>1, TokensUpToEmitted
  <2>3. L \in Seq(S) /\ P(i) \in Seq(S) BY TokensOfEmitted
  <2>4. U(i) = U(i - 1) \o (L \o P(i)) BY TokensUpToStep DEF TokensOf
  <2> QED BY <2>2, <2>3, <2>4
<1>5. ASSUME NEW p \in Seq(S), NEW q \in Seq(S), NEW r \in Seq(S) PROVE p \o (q \o r) = (p \o q) \o r
  <2> HIDE DEF S
  <2> QED OBVIOUS
<1>6. U(i) = (U(i - 1) \o L) \o P(i)
  <2> HIDE DEF U, L, P, S
  <2> QED BY <1>4, <1>5
<1>7. ASSUME pair PROVE Consumes(text, i, i + m, token)
  <2>1. m = 2 /\ i + 1 \in 1 .. Len(text) /\ token = Negative(text[i + 1]) BY <1>1, <1>7
  <2>2. i + 2 \in i + 1 .. Len(text) + 1 /\ (i + 2) - 1 = i + 1 /\ (i + 1) - 1 = i /\ i + 2 # 1
        /\ (i + 1) + 1 = i + 2 /\ i + 1 .. i + 1 = {i + 1} /\ i + 1 # 1
    BY <2>1
  <2>3. type = "-" /\ TypeAt(text, i + 1) = "INT_LIT" BY <1>7
  <2>4. text[i + 1].type = "INT_LIT" /\ "type" \in DOMAIN text[i + 1]
    <3>1. text[i + 1].type = TypeAt(text, i + 1) BY <2>1, TypesAre
    <3>2. text[i + 1] \in Pieces BY <2>1
    <3> QED BY <2>3, <3>1, <3>2 DEF Typed
  <2>5. token.type = "INT_LIT" BY <2>1, <2>4, NegativeType
  <2>6. Given(token) = <<token>> BY <2>5 DEF Given
  <2>7. P(i) = <<>> BY <1>2, <2>3 DEF PieceTokens
  <2>8. P(i + 1) = <<token>>
    <3>1. TypeAt(text, (i + 1) - 1) = "-" BY <2>2, <2>3
    <3>2. P(i + 1) = <<Negative(text[i + 1])>>
      <4>1. /\ text[i + 1].type # "NEWLINE" /\ text[i + 1].type # "-"
            /\ text[i + 1].type \notin Spacing \ {"NEWLINE"}
            /\ text[i + 1].type = "INT_LIT" /\ TypeAt(text, (i + 1) - 1) = "-"
        BY <2>4, <3>1 DEF Spacing
      <4> QED BY <4>1 DEF PieceTokens
    <3> QED BY <2>1, <3>2
  <2>9. ~AfterNewline(text, i + 1) /\ ~AfterNewline(text, i + 2)
    BY <2>2, <2>3 DEF AfterNewline
  <2>10. ~StartsLine(text, i + 1) BY <2>9 DEF StartsLine
  <2>11. LayoutTokens(text, i + 1) = <<>> BY <2>10 DEF LayoutTokens
  <2>12. U(i + 1) = (U(i - 1) \o L) \o <<token>> /\ <<token>> \in Seq(S)
    <3>1. U(i + 1) = U(i) \o (<<>> \o <<token>>)
      <4>1. U(i + 1) = U((i + 1) - 1) \o TokensOf(text, i + 1) BY <2>1, TokensUpToStep
      <4>2. TokensOf(text, i + 1) = <<>> \o <<token>> BY <2>8, <2>11 DEF TokensOf
      <4> HIDE DEF U, token
      <4> QED BY <2>2, <4>1, <4>2
    <3>2. P(i + 1) \in Seq(S) BY <2>1, TokensOfEmitted
    <3>3. <<token>> \in Seq(S) BY <2>8, <3>2
    <3> HIDE DEF U, L, P, S, token
    <3>4. U(i) = U(i - 1) \o L BY <1>4, <1>6, <2>7
    <3>5. <<>> \o <<token>> = <<token>> BY <3>3
    <3> QED BY <3>1, <3>3, <3>4, <3>5
  <2>13. Depth(text, i + 1) = Brackets(token.type, Depth(text, i - 1))
    <3>1. Depth(text, i) = Depth(text, i - 1) BY <1>3, <2>3 DEF Brackets
    <3>2. Depth(text, i + 1) = Depth(text, i)
      <4>1. Depth(text, i + 1) = Brackets(TypeAt(text, i + 1), Depth(text, (i + 1) - 1))
        BY <2>1, DepthStep
      <4> QED BY <2>2, <2>3, <4>1 DEF Brackets
    <3> QED BY <2>5, <3>1, <3>2 DEF Brackets
  <2>14. OpenLevels(text, i + 2) = OpenLevels(text, i + 1) BY <2>1, <2>2, <2>10, OpenLevelsStep
  <2>15. Fresh(text, i + 2)
    <3>1. ~FirstOnLine(text, i + 2)
      <4>1. i + 1 \in Nat \ {0} OBVIOUS
      <4> QED BY <2>2, <2>3, <4>1, FirstOnLineStep
    <3>2. TypeAt(text, (i + 2) - 1) # "-" BY <2>2, <2>3
    <3> QED BY <3>1, <3>2 DEF Fresh
  <2>16. ~StartOfLogical(text, i + 2) BY <2>9 DEF StartOfLogical
  <2>17. i + m = i + 2 BY <2>1
  <2> HIDE DEF m, token, S, U, L
  <2> QED BY <2>2, <2>3, <2>5, <2>6, <2>10, <2>12, <2>13, <2>14, <2>15, <2>16, <2>17
          DEF Consumes, S, U, L, type
<1>8. ASSUME ~pair, Given(token) = P(i),
             Brackets(token.type, Depth(text, i - 1)) = Brackets(type, Depth(text, i - 1)),
             token.type = "EOL" <=> type = "NEWLINE" /\ Depth(text, i - 1) = 0,
             token.type \notin {"END", "EOF", "IMPORT", "INDENT", "DEDENT"},
             IF type = "WHITESPACE" THEN token = text[i] ELSE token.type # "WHITESPACE",
             type \notin Spacing => token.type \notin {"NONE", "EOL"}
      PROVE  Consumes(text, i, i + m, token)
  <2>1. m = 1 BY <1>1, <1>8
  <2>2. i + 1 \in i + 1 .. Len(text) + 1 /\ (i + 1) - 1 = i /\ i + 1 .. (i + 1) - 1 = {} OBVIOUS
  <2>3. Fresh(text, i + 1) /\ (StartOfLogical(text, i + 1) <=> type = "NEWLINE" /\ Depth(text, i - 1) = 0)
    BY <1>8, NextPiece
  <2> HIDE DEF m, token, pair, S, U, L, P
  <2> QED BY <1>2, <1>3, <1>4, <1>6, <1>8, <2>1, <2>2, <2>3
          DEF Consumes, S, U, L, P, type
<1>9. ASSUME ~pair PROVE Consumes(text, i, i + m, token)
  <2>1. /\ type = "NEWLINE" =>
              ~StartsLine(text, i) /\ (Depth(text, i - 1) = 0 => ~FirstOnLine(text, i))
        /\ type \in {"COMMENT", "CONTINUATION"} => ~StartsLine(text, i)
    BY <1>9, NextPiece
  <2>2. ~(type = "INT_LIT" /\ TypeAt(text, i - 1) = "-") BY DEF Fresh
  <2>3. CASE type = "NEWLINE"
    <3>1. CASE Depth(text, i - 1) = 0
      <4>1. token = Tok("EOL") /\ token.type = "EOL" BY <1>1, <2>3, <3>1 DEF Tok
      <4>2. P(i) = <<Tok("EOL")>> BY <1>2, <2>1, <2>3, <3>1 DEF PieceTokens, Depth
      <4>3. Given(token) = P(i) BY <4>1, <4>2 DEF Given
      <4> HIDE DEF token, P, pair
      <4> QED BY <1>8, <1>9, <2>3, <3>1, <4>1, <4>3 DEF Brackets, Spacing
    <3>2. CASE Depth(text, i - 1) # 0
      <4>1. token = Tok("NONE") /\ token.type = "NONE" BY <1>1, <2>3, <3>2 DEF Tok
      <4>2. P(i) = <<>> BY <1>2, <2>3, <3>2 DEF PieceTokens, Depth
      <4>3. Given(token) = P(i) BY <4>1, <4>2 DEF Given
      <4> HIDE DEF token, P, pair
      <4> QED BY <1>8, <1>9, <2>3, <3>2, <4>1, <4>3 DEF Brackets, Spacing
    <3> QED BY <3>1, <3>2
  <2>4. CASE type \in {"COMMENT", "CONTINUATION"}
    <3>1. token = Tok("NONE") /\ token.type = "NONE" BY <1>1, <2>4 DEF Tok
    <3>2. P(i) = <<>>
      <4>1. /\ text[i].type \in Spacing \ {"NEWLINE"} /\ text[i].type # "-"
            /\ text[i].type # "INT_LIT" /\ text[i].type # "NEWLINE"
        BY <1>2, <2>4 DEF Spacing
      <4> QED BY <4>1 DEF PieceTokens
    <3>3. Given(token) = P(i) BY <3>1, <3>2 DEF Given
    <3> HIDE DEF token, P, pair
    <3> QED BY <1>8, <1>9, <2>4, <3>1, <3>3 DEF Brackets, Spacing
  <2>5. CASE type = "WHITESPACE"
    <3>1. token = text[i] /\ token.type = "WHITESPACE" BY <1>1, <1>2, <1>9, <2>5
    <3>2. P(i) = <<>>
      <4>1. /\ text[i].type \in Spacing \ {"NEWLINE"} /\ text[i].type # "-"
            /\ text[i].type # "INT_LIT" /\ text[i].type # "NEWLINE"
        BY <1>2, <2>5 DEF Spacing
      <4> QED BY <4>1 DEF PieceTokens
    <3>3. Given(token) = P(i) BY <3>1, <3>2 DEF Given
    <3> HIDE DEF token, P, pair
    <3> QED BY <1>8, <1>9, <2>5, <3>1, <3>3 DEF Brackets, Spacing
  <2>6. CASE type \notin Spacing
    <3>1. type \notin {"COMMENT", "CONTINUATION", "NEWLINE", "WHITESPACE"} BY <2>6 DEF Spacing
    <3>2. token = text[i] /\ token.type = type BY <1>1, <1>2, <1>9, <3>1
    <3>3. P(i) = <<text[i]>>
      <4>1. /\ text[i].type = type /\ text[i].type # "NEWLINE" /\ text[i].type \notin Spacing \ {"NEWLINE"}
            /\ ~(text[i].type = "-" /\ TypeAt(text, i + 1) = "INT_LIT")
            /\ ~(text[i].type = "INT_LIT" /\ TypeAt(text, i - 1) = "-")
        BY <1>2, <1>9, <2>2, <2>6, <3>1
      <4> QED BY <4>1 DEF PieceTokens
    <3>4. type \notin {"NONE", "EOL", "END", "EOF", "IMPORT", "INDENT", "DEDENT"} BY <1>2 DEF NotWritten
    <3>5. Given(token) = P(i) BY <3>1, <3>2, <3>3, <3>4 DEF Given
    <3> HIDE DEF token, P, pair
    <3> QED BY <1>8, <1>9, <2>6, <3>1, <3>2, <3>4, <3>5
  <2> QED BY <2>3, <2>4, <2>5, <2>6 DEF Spacing
<1> QED BY <1>7, <1>9

-----------------------------------------------------------------------------
(***************************************************************************)
(* The invariant: until the end is reached, what was given to the parser   *)
(* and what is queued for it are the tokens of the pieces read so far.     *)
(***************************************************************************)
Stream == tokens \o tokenQueue
Place == buffers[1].at

Endings == {"END", "EOF"}

\* The blanks at the head of a line were read, and its first token comes next.
InHead(text) ==
  Place > 1 /\ StartsLine(text, Place - 1) /\ TypeAt(text, Place - 1) = "WHITESPACE"

OneFile(text) ==
  /\ Len(buffers) = 1 /\ buffers = <<At(text, Place)>> /\ Place \in 1 .. Len(text) + 1
  /\ lexerError = FALSE

\* Whether the next token is the first of a line.
AtLine(text) ==
  /\ lastReturnedToken = (IF tokens = <<>> THEN "EOL" ELSE Last(tokens).type)
  /\ IF tokenQueue = <<>> THEN lastToken = "EOL" <=> StartOfLogical(text, Place)
     ELSE Last(tokenQueue).type = "EOL" <=> StartOfLogical(text, Place)
  /\ StartOfLogical(text, Place) => Stream = <<>> \/ Last(Stream).type = "EOL"
  /\ StartOfLogical(text, Place) \/ InHead(text) \/ (Stream # <<>> /\ Last(Stream).type # "EOL")

Reading(text) ==
  /\ OneFile(text)
  /\ unclosedBrackets = Depth(text, Place - 1)
  /\ NestedLevels(indentation) /\ ToSet(indentation) = OpenLevels(text, Place)
  /\ \A i \in BadLines(text) : i >= Place
  /\ Stream = TokensUpTo(text, Place - 1)
  /\ \A i \in DOMAIN Stream : Stream[i].type \notin Endings
  /\ Fresh(text, Place)
  /\ AtLine(text)

Finished(text) ==
  /\ OneFile(text)
  /\ Stream = ExpectedTokens(text)
  /\ Stream # <<>> /\ Last(Stream).type \in Endings
  /\ \A i \in DOMAIN Stream : i # Len(Stream) => Stream[i].type \notin Endings

Lexes(text) ==
  /\ tokens \in Seq(Emitted(text)) /\ tokenQueue \in Seq(Emitted(text))
  /\ Reading(text) \/ Finished(text)

\* The elements of two sequences in one, and its last.
LEMMA Ends ==
  ASSUME NEW S, NEW p \in Seq(S), NEW q \in Seq(S)
  PROVE  /\ p \o q \in Seq(S) /\ p \o <<>> = p /\ <<>> \o p = p
         /\ DOMAIN (p \o q) = 1 .. Len(p) + Len(q) /\ Len(p \o q) = Len(p) + Len(q)
         /\ p # <<>> => Last(p) = p[Len(p)] /\ Len(p) \in DOMAIN p /\ Last(p) \in S
         /\ q # <<>> => Last(p \o q) = Last(q) /\ p \o q # <<>>
         /\ \A i \in DOMAIN (p \o q) :
              \/ i \in DOMAIN p /\ (p \o q)[i] = p[i]
              \/ i - Len(p) \in DOMAIN q /\ (p \o q)[i] = q[i - Len(p)]
         /\ \A i \in DOMAIN p : i \in DOMAIN (p \o q) /\ (p \o q)[i] = p[i]
<1>1. /\ p \o q \in Seq(S) /\ p \o <<>> = p /\ <<>> \o p = p
      /\ DOMAIN (p \o q) = 1 .. Len(p) + Len(q) /\ Len(p \o q) = Len(p) + Len(q)
      /\ DOMAIN p = 1 .. Len(p) /\ DOMAIN q = 1 .. Len(q) /\ Len(p) \in Nat /\ Len(q) \in Nat
      /\ \A i \in 1 .. Len(p) + Len(q) : (p \o q)[i] = IF i <= Len(p) THEN p[i] ELSE q[i - Len(p)]
  OBVIOUS
<1>2. p # <<>> => Last(p) = p[Len(p)] /\ Len(p) \in DOMAIN p /\ Last(p) \in S
  BY DEF Last
<1>3. ASSUME q # <<>> PROVE Last(p \o q) = Last(q) /\ p \o q # <<>>
  <2>1. Len(q) > 0 BY <1>3
  <2>2. Len(p) + Len(q) \in 1 .. Len(p) + Len(q) /\ ~(Len(p) + Len(q) <= Len(p))
        /\ (Len(p) + Len(q)) - Len(p) = Len(q)
    BY <1>1, <2>1
  <2>3. (p \o q)[Len(p) + Len(q)] = q[Len(q)] BY <1>1, <2>2
  <2> QED BY <1>1, <2>1, <2>3 DEF Last
<1>4. ASSUME NEW i \in DOMAIN (p \o q)
      PROVE  \/ i \in DOMAIN p /\ (p \o q)[i] = p[i]
             \/ i - Len(p) \in DOMAIN q /\ (p \o q)[i] = q[i - Len(p)]
  BY <1>1
<1>5. ASSUME NEW i \in DOMAIN p PROVE i \in DOMAIN (p \o q) /\ (p \o q)[i] = p[i]
  BY <1>1
<1> QED BY <1>1, <1>2, <1>3, <1>4, <1>5

\* The head of the queue goes to the end of what was returned.
LEMMA HeadMoved ==
  ASSUME NEW S, NEW p \in Seq(S), NEW q \in Seq(S), q # <<>>
  PROVE  /\ Append(p, Head(q)) \in Seq(S) /\ Tail(q) \in Seq(S)
         /\ Append(p, Head(q)) \o Tail(q) = p \o q
         /\ Append(p, Head(q)) # <<>> /\ Last(Append(p, Head(q))) = Head(q)
         /\ IF Tail(q) = <<>> THEN Head(q) = Last(q) ELSE Last(Tail(q)) = Last(q)
<1>1. /\ Append(p, Head(q)) \in Seq(S) /\ Tail(q) \in Seq(S) /\ Len(q) \in Nat \ {0}
      /\ Append(p, Head(q)) \o Tail(q) = p \o q /\ Append(p, Head(q)) # <<>>
      /\ Len(Tail(q)) = Len(q) - 1 /\ Head(q) = q[1]
      /\ \A i \in 1 .. Len(q) - 1 : Tail(q)[i] = q[i + 1]
  OBVIOUS
<1>2. Last(Append(p, Head(q))) = Head(q) BY DEF Last
<1>3. CASE Tail(q) = <<>>
  <2>1. Len(q) = 1 BY <1>1, <1>3
  <2> QED BY <1>1, <1>2, <1>3, <2>1 DEF Last
<1>4. CASE Tail(q) # <<>>
  <2>1. Len(q) - 1 \in 1 .. Len(q) - 1 /\ (Len(q) - 1) + 1 = Len(q) BY <1>1, <1>4
  <2>2. Last(Tail(q)) = q[Len(q)] BY <1>1, <2>1 DEF Last
  <2> QED BY <1>1, <1>2, <1>4, <2>2 DEF Last
<1> QED BY <1>3, <1>4

\* At the start nothing is read.
LEMMA LexesInit ==
  ASSUME NEW Pieces, Typed(Pieces), NEW text \in Seq(Pieces), Readable(text), NEW importable,
         InitLexer(text, importable)
  PROVE  Lexes(text)
<1> USE DEF InitLexer
<1>1. /\ buffers = <<At(text, 1)>> /\ Place = 1 /\ Len(buffers) = 1
      /\ tokens = <<>> /\ tokenQueue = <<>> /\ Stream = <<>>
  BY DEF Buffer, At, Place, Stream
<1>2. OneFile(text) BY <1>1 DEF OneFile
<1>3. Depth(text, 0) = 0 BY OpenBracketsSteps DEF Depth
<1>4. AfterNewline(text, 1) /\ 1 - 1 = 0 BY DEF AfterNewline
<1>5. StartOfLogical(text, 1) BY <1>3, <1>4 DEF StartOfLogical, Depth
<1>6. NestedLevels(indentation) /\ ToSet(indentation) = {0} BY DEF NestedLevels, ToSet
<1>7. OpenLevels(text, 1) = {0}
  <2>1. 1 .. 1 - 1 = {} OBVIOUS
  <2> QED BY <2>1 DEF OpenLevels
<1>8. \A i \in BadLines(text) : i >= 1 BY DEF BadLines
<1>9. TokensUpTo(text, 0) = <<>> BY TokensUpToEmitted
<1>10. Fresh(text, 1)
  <2>1. TypeAt(text, 1 - 1) = "NOTHING"
    <3>1. 1 - 1 \notin 1 .. Len(text) OBVIOUS
    <3> QED BY <3>1, TypesAre
  <2> QED BY <1>4, <2>1 DEF Fresh
<1>11. AtLine(text) BY <1>1, <1>5 DEF AtLine
<1>12. Reading(text)
  <2>1. Place - 1 = 0 BY <1>1
  <2>2. unclosedBrackets = Depth(text, Place - 1) /\ Stream = TokensUpTo(text, Place - 1)
    BY <1>1, <1>3, <1>9, <2>1
  <2>3. \A i \in DOMAIN Stream : Stream[i].type \notin Endings BY <1>1
  <2>4. ToSet(indentation) = OpenLevels(text, Place) BY <1>1, <1>6, <1>7
  <2>5. (\A i \in BadLines(text) : i >= Place) /\ Fresh(text, Place) BY <1>1, <1>8, <1>10
  <2> QED BY <1>2, <1>6, <1>11, <2>2, <2>3, <2>4, <2>5 DEF Reading
<1>13. <<>> \in Seq(Emitted(text)) OBVIOUS
<1> QED BY <1>1, <1>12, <1>13 DEF Lexes

\* The parser stops when the end was given to it, and not before.
LEMMA EndedWhen ==
  ASSUME NEW text, Lexes(text)
  PROVE  /\ lexerError = FALSE
         /\ Reading(text) => ~LexingEnded
         /\ Finished(text) => (LexingEnded <=> tokenQueue = <<>>)
<1> DEFINE S == Emitted(text)
<1>1. tokens \in Seq(S) /\ tokenQueue \in Seq(S) BY DEF Lexes
<1>2. lexerError = FALSE BY DEF Lexes, Reading, Finished, OneFile
<1>3. LexingEnded <=> tokens # <<>> /\ Last(tokens).type \in Endings BY <1>2 DEF LexingEnded, Endings
<1> HIDE DEF S
<1>4. tokens # <<>> => /\ Len(tokens) \in DOMAIN Stream /\ Last(tokens) = Stream[Len(tokens)]
                       /\ Len(Stream) = Len(tokens) + Len(tokenQueue)
  <2>1. tokens # <<>> => Len(tokens) \in DOMAIN tokens /\ Last(tokens) = tokens[Len(tokens)]
    BY <1>1, Ends
  <2>2. Len(Stream) = Len(tokens) + Len(tokenQueue) BY <1>1, Ends DEF Stream
  <2>3. \A i \in DOMAIN tokens : i \in DOMAIN Stream /\ Stream[i] = tokens[i]
    BY <1>1, Ends DEF Stream
  <2> QED BY <2>1, <2>2, <2>3
<1>5. Reading(text) => ~LexingEnded BY <1>3, <1>4 DEF Reading
<1>6. ASSUME Finished(text), tokenQueue = <<>> PROVE LexingEnded
  <2>1. Stream = tokens BY <1>1, <1>6, Ends DEF Stream
  <2> QED BY <1>3, <1>6, <2>1 DEF Finished
<1>7. ASSUME Finished(text), tokenQueue # <<>> PROVE ~LexingEnded
  <2>1. Len(tokenQueue) \in Nat \ {0} /\ Len(tokens) \in Nat BY <1>1, <1>7
  <2>2. tokens # <<>> => Len(tokens) # Len(Stream) BY <1>4, <2>1
  <2> QED BY <1>3, <1>4, <1>7, <2>2 DEF Finished
<1> QED BY <1>2, <1>5, <1>6, <1>7

\* A token that is returned was in the stream already.
LEMMA LexesReturn ==
  ASSUME NEW text, Lexes(text), ReturnToken
  PROVE  Lexes(text)'
<1> DEFINE S == Emitted(text)
<1> USE DEF ReturnToken
<1>1. tokens \in Seq(S) /\ tokenQueue \in Seq(S) /\ tokenQueue # <<>> BY DEF Lexes
<1> HIDE DEF S
<1>2. /\ tokens' \in Seq(S) /\ tokenQueue' \in Seq(S) /\ Stream' = Stream
      /\ tokens' # <<>> /\ Last(tokens') = Head(tokenQueue)
      /\ IF tokenQueue' = <<>> THEN Head(tokenQueue) = Last(tokenQueue)
         ELSE Last(tokenQueue') = Last(tokenQueue)
  <2> DEFINE p == Append(tokens, Head(tokenQueue))
             q == Tail(tokenQueue)
  <2>1. /\ p \in Seq(S) /\ q \in Seq(S) /\ p \o q = tokens \o tokenQueue
        /\ p # <<>> /\ Last(p) = Head(tokenQueue)
        /\ IF q = <<>> THEN Head(tokenQueue) = Last(tokenQueue) ELSE Last(q) = Last(tokenQueue)
    <3>1. ASSUME NEW a \in Seq(S), NEW b \in Seq(S), b # <<>>
          PROVE  /\ Append(a, Head(b)) \in Seq(S) /\ Tail(b) \in Seq(S)
                 /\ Append(a, Head(b)) \o Tail(b) = a \o b
                 /\ Append(a, Head(b)) # <<>> /\ Last(Append(a, Head(b))) = Head(b)
                 /\ IF Tail(b) = <<>> THEN Head(b) = Last(b) ELSE Last(Tail(b)) = Last(b)
      BY <3>1, HeadMoved
    <3> QED BY <1>1, <3>1
  <2>2. tokens' = p /\ tokenQueue' = q OBVIOUS
  <2> HIDE DEF p, q
  <2> QED BY <2>1, <2>2 DEF Stream
<1>3. Place' = Place /\ OneFile(text)' = OneFile(text) BY DEF Place, OneFile
<1>4. InHead(text)' = InHead(text) BY <1>3 DEF InHead
<1>5. Reading(text) => Reading(text)'
  <2>1. AtLine(text) => AtLine(text)' BY <1>1, <1>2, <1>3, <1>4 DEF AtLine
  <2> QED BY <1>2, <1>3, <1>4, <2>1 DEF Reading
<1>6. Finished(text) => Finished(text)' BY <1>2, <1>3 DEF Finished
<1> QED BY <1>2, <1>5, <1>6 DEF Lexes, S

\* After the blanks of a line comes its first token.
LEMMA InHeadNext ==
  ASSUME NEW Pieces, NEW text \in Seq(Pieces), Readable(text), Place \in 1 .. Len(text) + 1,
         InHead(text)
  PROVE  TokenAt(text, Place)
<1>1. (Place - 1) + 1 = Place OBVIOUS
<1>2. TypeAt(text, Place - 1) \in Spacing BY DEF InHead, Spacing
<1>3. ~TokenAt(text, Place - 1) BY <1>2 DEF TokenAt
<1> QED BY <1>1, <1>3 DEF InHead, StartsLine

\* A step that reads on from the place to piece e and queues q, what the
\* pieces in between come to.
Onward(text, e, q) ==
  /\ tokenQueue = <<>> /\ e \in Place + 1 .. Len(text) + 1 /\ q \in Seq(Emitted(text))
  /\ buffers' = <<At(text, e)>> /\ tokenQueue' = q
  /\ UNCHANGED <<lexerError, tokens, lastReturnedToken>>
  /\ TokensUpTo(text, e - 1) = TokensUpTo(text, Place - 1) \o q
  /\ \A k \in DOMAIN q : q[k].type \notin Endings
  /\ NestedLevels(indentation') /\ ToSet(indentation') = OpenLevels(text, e)
  /\ unclosedBrackets' = Depth(text, e - 1)
  /\ \A j \in Place .. e - 1 : j \notin BadLines(text)
  /\ Fresh(text, e)
  /\ IF q = <<>> THEN lastToken' = "EOL" <=> StartOfLogical(text, e)
     ELSE Last(q).type = "EOL" <=> StartOfLogical(text, e)
  /\ q = <<>> =>
       \/ StartOfLogical(text, e) /\ StartOfLogical(text, Place)
       \/ /\ ~StartOfLogical(text, e)
          /\ \/ StartsLine(text, e - 1) /\ TypeAt(text, e - 1) = "WHITESPACE"
             \/ ~StartOfLogical(text, Place) /\ ~InHead(text)

\* Such a step keeps the invariant.
LEMMA ReadOn ==
  ASSUME NEW Pieces, NEW text \in Seq(Pieces), Readable(text), Lexes(text), Reading(text),
         NEW e, NEW q, Onward(text, e, q)
  PROVE  Lexes(text)'
<1> USE DEF Onward
<1> DEFINE S == Emitted(text)
<1>1. /\ tokens \in Seq(S) /\ q \in Seq(S) /\ <<>> \in Seq(S)
      /\ tokens' = tokens /\ Stream = tokens /\ Stream' = tokens \o q
  <2>1. tokens \in Seq(S) /\ <<>> \in Seq(S) BY DEF Lexes
  <2>2. tokens \o <<>> = tokens BY <2>1, Ends
  <2> QED BY <2>1, <2>2 DEF Stream
<1>2. Place' = e /\ Len(buffers') = 1 BY DEF Place, At
<1>3. OneFile(text)' /\ Place \in 1 .. Len(text) + 1
  <2>1. Place \in 1 .. Len(text) + 1 /\ lexerError = FALSE BY DEF Reading, OneFile
  <2>2. e \in 1 .. Len(text) + 1 BY <2>1
  <2> QED BY <1>2, <2>1, <2>2 DEF OneFile
<1> HIDE DEF S
<1>4. /\ tokens \o q \in Seq(S)
      /\ q # <<>> => Last(tokens \o q) = Last(q) /\ tokens \o q # <<>>
      /\ q = <<>> => tokens \o q = tokens
      /\ \A k \in DOMAIN (tokens \o q) :
           \/ k \in DOMAIN tokens /\ (tokens \o q)[k] = tokens[k]
           \/ k - Len(tokens) \in DOMAIN q /\ (tokens \o q)[k] = q[k - Len(tokens)]
  <2>1. ASSUME NEW a \in Seq(S), NEW b \in Seq(S)
        PROVE  /\ a \o b \in Seq(S) /\ a \o <<>> = a
               /\ b # <<>> => Last(a \o b) = Last(b) /\ a \o b # <<>>
               /\ \A k \in DOMAIN (a \o b) :
                    \/ k \in DOMAIN a /\ (a \o b)[k] = a[k]
                    \/ k - Len(a) \in DOMAIN b /\ (a \o b)[k] = b[k - Len(a)]
    BY <2>1, Ends
  <2> QED BY <1>1, <2>1
<1>5. Stream' = TokensUpTo(text, e - 1) BY <1>1 DEF Reading
<1>6. \A k \in DOMAIN Stream' : Stream'[k].type \notin Endings
  BY <1>1, <1>4 DEF Reading
<1>7. \A i \in BadLines(text) : i >= e
  <2>1. TAKE i \in BadLines(text)
  <2>2. i >= Place /\ i \in 1 .. Len(text) BY DEF Reading, BadLines
  <2>3. i \notin Place .. e - 1 OBVIOUS
  <2> QED BY <1>3, <2>2, <2>3
<1>8. InHead(text)' <=> StartsLine(text, e - 1) /\ TypeAt(text, e - 1) = "WHITESPACE"
  <2>1. e > 1 BY <1>3
  <2> QED BY <1>2, <2>1 DEF InHead
<1>9. AtLine(text)'
  <2>1. AtLine(text) BY DEF Reading
  <2>2. lastReturnedToken' = (IF tokens' = <<>> THEN "EOL" ELSE Last(tokens').type)
    BY <2>1 DEF AtLine
  <2>3. StartOfLogical(text, e) => Stream' = <<>> \/ Last(Stream').type = "EOL"
    BY <1>1, <1>4, <2>1 DEF AtLine
  <2>4. StartOfLogical(text, e) \/ InHead(text)' \/ (Stream' # <<>> /\ Last(Stream').type # "EOL")
    BY <1>1, <1>4, <1>8, <2>1 DEF AtLine
  <2>5. IF tokenQueue' = <<>> THEN lastToken' = "EOL" <=> StartOfLogical(text, e)
        ELSE Last(tokenQueue').type = "EOL" <=> StartOfLogical(text, e)
    OBVIOUS
  <2> QED BY <1>2, <2>2, <2>3, <2>4, <2>5 DEF AtLine
<1>10. Reading(text)' BY <1>2, <1>3, <1>5, <1>6, <1>7, <1>9 DEF Reading
<1> QED BY <1>1, <1>10 DEF Lexes, S

\* What a step of the scanner does while the text is read.
LEMMA Scans ==
  ASSUME NEW Pieces, Typed(Pieces), NEW text \in Seq(Pieces), Readable(text),
         Reading(text), ScanPiece
  PROVE  LET scanned == Scanned(At(text, Place)) IN
         /\ Place \in 1 .. Len(text) /\ Last(buffers) = At(text, Place) /\ tokenQueue = <<>>
         /\ scanned.pieces \in Nat => buffers' = <<At(text, Place + scanned.pieces)>>
         /\ unclosedBrackets' = Brackets(scanned.token.type, unclosedBrackets)
         /\ IF scanned.token.type = "NONE"
            THEN UNCHANGED <<indentation, tokenQueue, lastToken>>
            ELSE IF lastToken = "EOL" THEN StartOfLine(scanned.token) ELSE RestOfLine(scanned.token)
         /\ UNCHANGED <<files, lastReturnedToken, lexerError, tokens>>
<1> DEFINE m == Scanned(At(text, Place)).pieces
           token == Scanned(At(text, Place)).token
<1>1. /\ buffers = <<At(text, Place)>> /\ Len(buffers) = 1 /\ Place \in 1 .. Len(text) + 1
      /\ unclosedBrackets = Depth(text, Place - 1)
  BY DEF Reading, OneFile
<1>2. Last(buffers) = At(text, Place) BY <1>1 DEF Last
<1>3. Place <= Len(text) BY <1>2 DEF ScanPiece, At
<1>4. buffers' = [buffers EXCEPT ![Len(buffers)] = Advanced(@, m)] BY <1>2 DEF ScanPiece
<1>5. m \in Nat => buffers' = <<At(text, Place + m)>>
  <2>1. buffers' = [buffers EXCEPT ![1] = Advanced(buffers[1], m)] BY <1>1, <1>4
  <2>2. buffers[1] = At(text, Place) BY <1>1
  <2>3. Advanced(At(text, Place), m) = At(text, Place + m) BY DEF Advanced, At
  <2> HIDE DEF m
  <2>4. buffers' = [<<At(text, Place)>> EXCEPT ![1] = At(text, Place + m)] BY <1>1, <2>1, <2>2, <2>3
  <2> QED BY <2>4
<1>6. unclosedBrackets' = Brackets(token.type, unclosedBrackets)
  <2>1. unclosedBrackets' = CASE token.type = "[" -> unclosedBrackets + 1
                              [] token.type = "]" /\ unclosedBrackets > 0 -> unclosedBrackets - 1
                              [] OTHER -> unclosedBrackets
    BY <1>2 DEF ScanPiece, CountBrackets
  <2>2. unclosedBrackets \in Nat
    <3>1. CASE Place = 1
      <4>1. Place - 1 = 0 BY <3>1
      <4> QED BY <1>1, <4>1, OpenBracketsSteps DEF Depth
    <3>2. CASE Place # 1
      <4>1. Place - 1 \in 1 .. Len(text) BY <1>1, <3>2
      <4> QED BY <1>1, <4>1, DepthStep
    <3> QED BY <3>1, <3>2
  <2> HIDE DEF token
  <2> QED BY <2>1, <2>2 DEF Brackets
<1> QED BY <1>1, <1>2, <1>3, <1>5, <1>6 DEF ScanPiece

\* A blank or commented line changes nothing.
LEMMA LexesBlank ==
  ASSUME NEW Pieces, Typed(Pieces), NEW text \in Seq(Pieces), Readable(text),
         Lexes(text), Reading(text), ScanPiece, BlankLine(At(text, Place)) > 0
  PROVE  Lexes(text)'
<1> DEFINE i == Place
           e == i + BlankLine(At(text, i))
           S == Emitted(text)
<1>1. i \in 1 .. Len(text) /\ Last(buffers) = At(text, i) /\ tokenQueue = <<>> BY Scans
<1>2. /\ e \in i + 1 .. Len(text) + 1 /\ AfterNewline(text, i) /\ AfterNewline(text, e)
      /\ Passed(text, i, e) /\ ~TokenAt(text, i)
  BY <1>1, BlankLinePassed
<1>3. Scanned(At(text, i)) = [pieces |-> BlankLine(At(text, i)), token |-> Tok("NONE")]
  BY DEF Scanned
<1>4. BlankLine(At(text, i)) \in Nat BY <1>1, BlankLineIs
<1>5. /\ buffers' = <<At(text, e)>>
      /\ UNCHANGED <<indentation, tokenQueue, lastToken, lastReturnedToken, lexerError, tokens>>
      /\ unclosedBrackets' = unclosedBrackets
  <2>1. Scanned(At(text, i)).pieces = BlankLine(At(text, i)) /\ Scanned(At(text, i)).token.type = "NONE"
    BY <1>3 DEF Tok
  <2>2. /\ Scanned(At(text, i)).pieces \in Nat => buffers' = <<At(text, i + Scanned(At(text, i)).pieces)>>
        /\ unclosedBrackets' = Brackets(Scanned(At(text, i)).token.type, unclosedBrackets)
        /\ Scanned(At(text, i)).token.type = "NONE" => UNCHANGED <<indentation, tokenQueue, lastToken>>
        /\ UNCHANGED <<lastReturnedToken, lexerError, tokens>>
    BY Scans
  <2> QED BY <1>4, <2>1, <2>2 DEF Brackets
<1>6. StartOfLogical(text, e) <=> StartOfLogical(text, i)
  BY <1>2 DEF StartOfLogical, Passed, Depth
<1>7. ~InHead(text)
  <2>1. Place \in 1 .. Len(text) + 1 BY <1>1
  <2> QED BY <1>2, <2>1, InHeadNext
<1>8. Fresh(text, e)
  <2>1. e # 1 /\ TypeAt(text, e - 1) = "NEWLINE" BY <1>1, <1>2 DEF AfterNewline
  <2> QED BY <1>2, <2>1 DEF Fresh
<1>9. /\ OpenLevels(text, e) = OpenLevels(text, i) /\ Depth(text, e - 1) = Depth(text, i - 1)
      /\ \A j \in i .. e - 1 : j \notin BadLines(text)
  BY <1>2 DEF Passed, BadLines
<1>10. TokensUpTo(text, e - 1) = TokensUpTo(text, i - 1) \o <<>>
  <2>1. i - 1 \in 0 .. Len(text) BY <1>1
  <2>2. TokensUpTo(text, i - 1) \in Seq(S) BY <2>1, TokensUpToEmitted
  <2>3. TokensUpTo(text, i - 1) \o <<>> = TokensUpTo(text, i - 1) BY <2>2, Ends
  <2> QED BY <1>2, <2>3 DEF Passed
<1>11. /\ lastToken = "EOL" <=> StartOfLogical(text, i)
       /\ NestedLevels(indentation) /\ ToSet(indentation) = OpenLevels(text, i)
       /\ unclosedBrackets = Depth(text, i - 1)
  BY <1>1 DEF Reading, AtLine
<1>12. /\ NestedLevels(indentation') /\ ToSet(indentation') = OpenLevels(text, e)
       /\ unclosedBrackets' = Depth(text, e - 1)
  BY <1>5, <1>9, <1>11
<1>13. <<>> \in Seq(Emitted(text)) OBVIOUS
<1> HIDE DEF e
<1>14. Onward(text, e, <<>>)
  BY <1>1, <1>2, <1>5, <1>6, <1>7, <1>8, <1>9, <1>10, <1>11, <1>12, <1>13 DEF Onward
<1> QED BY <1>14, ReadOn

\* The step of the scanner that consumes the pieces up to e, the line not
\* being blank.
Scanning(text, e, token) ==
  /\ Consumes(text, Place, e, token)
  /\ Place \in 1 .. Len(text) /\ tokenQueue = <<>>
  /\ buffers' = <<At(text, e)>> /\ unclosedBrackets' = Depth(text, e - 1)
  /\ IF token.type = "NONE"
     THEN UNCHANGED <<indentation, tokenQueue, lastToken>>
     ELSE IF lastToken = "EOL" THEN StartOfLine(token) ELSE RestOfLine(token)
  /\ UNCHANGED <<lastReturnedToken, lexerError, tokens>>
  /\ lastToken = "EOL" <=> StartsLine(text, Place)
  /\ \A j \in Place .. e - 1 : j # Place => ~StartsLine(text, j)
  /\ ToSet(indentation) = OpenLevels(text, Place) /\ NestedLevels(indentation)

\* A step of the scanner that is not over a blank line is such a step.
LEMMA Consumed ==
  ASSUME NEW Pieces, Typed(Pieces), NEW text \in Seq(Pieces), Readable(text),
         Lexes(text), Reading(text), ScanPiece, BlankLine(At(text, Place)) = 0
  PROVE  \E e, token : Scanning(text, e, token)
<1> DEFINE i == Place
           m == Scanned(At(text, i)).pieces
           token == Scanned(At(text, i)).token
           e == i + m
<1>1. i \in 1 .. Len(text) /\ tokenQueue = <<>> BY Scans
<1>2. unclosedBrackets = Depth(text, i - 1) /\ Fresh(text, i)
      /\ ToSet(indentation) = OpenLevels(text, i) /\ NestedLevels(indentation)
  BY DEF Reading
<1>3. Consumes(text, i, e, token) BY <1>1, <1>2, OnePiece
<1>4. /\ m \in Nat => buffers' = <<At(text, i + m)>>
      /\ unclosedBrackets' = Brackets(token.type, unclosedBrackets)
      /\ IF token.type = "NONE"
         THEN UNCHANGED <<indentation, tokenQueue, lastToken>>
         ELSE IF lastToken = "EOL" THEN StartOfLine(token) ELSE RestOfLine(token)
      /\ UNCHANGED <<lastReturnedToken, lexerError, tokens>>
  BY Scans
<1>5. m \in Nat BY <1>1, ScannedIs
<1>6. unclosedBrackets' = Depth(text, e - 1) BY <1>2, <1>3, <1>4 DEF Consumes
<1>7. lastToken = "EOL" <=> StartsLine(text, i)
  <2>1. lastToken = "EOL" <=> StartOfLogical(text, i) BY <1>1 DEF Reading, AtLine
  <2>2. StartOfLogical(text, i) => StartsLine(text, i) BY <1>1, LineHasToken
  <2>3. StartsLine(text, i) => StartOfLogical(text, i) BY DEF StartsLine, StartOfLogical
  <2> QED BY <2>1, <2>2, <2>3
<1>8. \A j \in i .. e - 1 : j # i => ~StartsLine(text, j)
  <2>1. /\ e \in i + 1 .. Len(text) + 1
        /\ \A j \in i + 1 .. e - 1 : ~StartsLine(text, j) BY <1>3 DEF Consumes
  <2> HIDE DEF e
  <2> QED BY <1>1, <2>1
<1> HIDE DEF m, token
<1> QED BY <1>1, <1>2, <1>3, <1>4, <1>5, <1>6, <1>7, <1>8 DEF Scanning

\* Within a line the token is passed on, blanks are left out.
LEMMA LexesWithin ==
  ASSUME NEW Pieces, Typed(Pieces), NEW text \in Seq(Pieces), Readable(text),
         Lexes(text), Reading(text), ScanPiece, BlankLine(At(text, Place)) = 0,
         ~StartsLine(text, Place)
  PROVE  Lexes(text)'
<1> DEFINE i == Place
<1>1. PICK e, token : Scanning(text, e, token)
  BY Consumed
<1> USE DEF Scanning
<1> DEFINE q == Given(token)
           S == Emitted(text)
<1>2. tokenQueue' = q /\ UNCHANGED <<indentation, lastToken>>
  BY <1>1 DEF RestOfLine, Given
<1>3. TokensUpTo(text, e - 1) = TokensUpTo(text, i - 1) \o q
  <2>1. LayoutTokens(text, i) = <<>> BY DEF LayoutTokens
  <2>2. TokensUpTo(text, e - 1) = (TokensUpTo(text, i - 1) \o LayoutTokens(text, i)) \o q
    BY <1>1 DEF Consumes
  <2>3. i - 1 \in 0 .. Len(text) BY <1>1
  <2>4. TokensUpTo(text, i - 1) \in Seq(S) BY <2>3, TokensUpToEmitted
  <2>5. TokensUpTo(text, i - 1) \o <<>> = TokensUpTo(text, i - 1) BY <2>4, Ends
  <2> QED BY <2>1, <2>2, <2>5
<1>4. ToSet(indentation') = OpenLevels(text, e)
  <2>1. OpenLevels(text, i + 1) = OpenLevels(text, i) BY <1>1, OpenLevelsStep
  <2> QED BY <1>1, <1>2, <2>1 DEF Consumes
<1>5. NestedLevels(indentation') BY <1>1, <1>2
<1>6. /\ q \in Seq(S) /\ \A k \in DOMAIN q : q[k].type \notin Endings
      /\ q = <<>> \/ Last(q) = token
      /\ q = <<>> => token.type \in {"NONE", "WHITESPACE"}
  BY <1>1 DEF Consumes, Given, Endings, Last
<1>7. ~StartOfLogical(text, i)
  <2>1. StartOfLogical(text, i) => StartsLine(text, i) BY <1>1, LineHasToken
  <2> QED BY <2>1
<1>8. StartOfLogical(text, e) <=> token.type = "EOL" BY <1>1 DEF Consumes
<1>9. q = <<>> => ~StartOfLogical(text, e) /\ ~InHead(text)
  <2>1. SUFFICES ASSUME q = <<>> PROVE ~StartOfLogical(text, e) /\ ~InHead(text) OBVIOUS
  <2>2. token.type \in {"NONE", "WHITESPACE"} BY <1>6, <2>1
  <2>3. ~TokenAt(text, i)
    <3>1. /\ TokenAt(text, i) => token.type \notin {"NONE", "EOL"}
          /\ token.type = "WHITESPACE" => TypeAt(text, i) = "WHITESPACE"
      BY <1>1 DEF Consumes
    <3> QED BY <2>2, <3>1 DEF TokenAt, Spacing
  <2>4. i \in 1 .. Len(text) + 1 BY <1>1
  <2> QED BY <1>8, <2>2, <2>3, <2>4, InHeadNext
<1>10. \A j \in i .. e - 1 : j \notin BadLines(text) BY <1>1 DEF BadLines
<1>11. e \in i + 1 .. Len(text) + 1 /\ Fresh(text, e) BY <1>1 DEF Consumes
<1>12. IF q = <<>> THEN lastToken' = "EOL" <=> StartOfLogical(text, e)
       ELSE Last(q).type = "EOL" <=> StartOfLogical(text, e)
  BY <1>1, <1>2, <1>6, <1>8, <1>9
<1> HIDE DEF q
<1>13. Onward(text, e, q)
  BY <1>1, <1>2, <1>3, <1>4, <1>5, <1>6, <1>7, <1>9, <1>10, <1>11, <1>12 DEF Onward
<1> QED BY <1>13, ReadOn

\* The first token of a line, or the blanks before it: what StartOfLine sees.
LEMMA LineStarts ==
  ASSUME NEW Pieces, Typed(Pieces), NEW text \in Seq(Pieces), Readable(text),
         NEW e, NEW token, Scanning(text, e, token), StartsLine(text, Place)
  PROVE  /\ StartOfLine(token) /\ token.type \notin {"NONE", "EOL", "END", "EOF"}
         /\ Given(token) = IF token.type # "WHITESPACE" THEN <<token>> ELSE <<>>
         /\ Indent(text, Place) = IF token.type = "WHITESPACE" THEN token.value ELSE 0
         /\ Indent(text, Place) \in Nat
         /\ token.type = "WHITESPACE" => TypeAt(text, Place) = "WHITESPACE" /\ e = Place + 1
         /\ ~StartOfLogical(text, e)
<1> DEFINE i == Place
<1>1. i \in 1 .. Len(text) /\ Consumes(text, i, e, token) BY DEF Scanning
<1>2. /\ IF TypeAt(text, i) = "WHITESPACE" THEN token = text[i] ELSE token.type # "WHITESPACE"
      /\ TokenAt(text, i) => token.type \notin {"NONE", "EOL"}
      /\ token.type = "WHITESPACE" => TypeAt(text, i) = "WHITESPACE" /\ e = i + 1
      /\ token.type \notin {"END", "EOF"}
      /\ StartOfLogical(text, e) <=> token.type = "EOL"
  BY <1>1 DEF Consumes
<1>3. TypeAt(text, i) = text[i].type
      /\ (TypeAt(text, i) = "WHITESPACE" => text[i].value \in Nat)
  BY <1>1, TypesAre
<1>4. TokenAt(text, i) \/ TypeAt(text, i) = "WHITESPACE" BY DEF StartsLine
<1>5. token.type \notin {"NONE", "EOL"} BY <1>2, <1>3, <1>4
<1>6. StartOfLine(token) BY <1>5 DEF Scanning
<1>7. Indent(text, i) = IF token.type = "WHITESPACE" THEN token.value ELSE 0
  BY <1>2, <1>3 DEF Indent
<1>8. Indent(text, i) \in Nat BY <1>3 DEF Indent
<1> QED BY <1>2, <1>5, <1>6, <1>7, <1>8 DEF Given

\* A line that fits: blocks open or close, then its first token comes.
LEMMA LexesLine ==
  ASSUME NEW Pieces, Typed(Pieces), NEW text \in Seq(Pieces), Readable(text),
         Lexes(text), Reading(text), NEW e, NEW token, Scanning(text, e, token),
         StartsLine(text, Place), WellIndented(text, Place)
  PROVE  Lexes(text)'
<1> DEFINE i == Place
           level == Indent(text, i)
           S == Emitted(text)
           L == LayoutTokens(text, i)
           q == L \o Given(token)
<1> USE DEF Scanning
<1>1. /\ StartOfLine(token) /\ token.type \notin {"NONE", "EOL", "END", "EOF"}
      /\ Given(token) = IF token.type # "WHITESPACE" THEN <<token>> ELSE <<>>
      /\ level = IF token.type = "WHITESPACE" THEN token.value ELSE 0
      /\ level \in Nat
      /\ token.type = "WHITESPACE" => TypeAt(text, i) = "WHITESPACE" /\ e = i + 1
      /\ ~StartOfLogical(text, e)
  BY LineStarts
<1>2. /\ level > Last(indentation) =>
            /\ L = <<Tok("INDENT")>>
            /\ NestedLevels(Append(indentation, level))
            /\ ToSet(Append(indentation, level)) = OpenLevels(text, i + 1)
      /\ ~(level > Last(indentation)) =>
            /\ level = Last(Surviving(level))
            /\ L = DedentTokens(level)
            /\ NestedLevels(Surviving(level))
            /\ ToSet(Surviving(level)) = OpenLevels(text, i + 1)
  BY LayoutTokensAre
<1>3. L \in Seq(S) /\ Given(token) \in Seq(S)
  <2>1. L \in Seq(S) BY TokensOfEmitted
  <2> QED BY <2>1 DEF Consumes
<1>4. \A k \in DOMAIN L : L[k].type \in {"INDENT", "DEDENT"}
  <2>1. CASE level > Last(indentation)
    <3> HIDE DEF L
    <3> QED BY <1>2, <2>1 DEF Tok
  <2>2. CASE ~(level > Last(indentation))
    <3>1. L = [k \in 1 .. Len(indentation) - Kept(level) |-> Tok("DEDENT")]
      BY <1>2, <2>2 DEF DedentTokens
    <3> HIDE DEF L
    <3> QED BY <3>1 DEF Tok
  <2> QED BY <2>1, <2>2
<1>5. /\ tokenQueue' = q
      /\ NestedLevels(indentation') /\ ToSet(indentation') = OpenLevels(text, i + 1)
      /\ q = <<>> => lastToken' = "WHITESPACE" /\ token.type = "WHITESPACE"
  <2>1. CASE level > Last(indentation)
    <3>1. indentation' = Append(indentation, level) /\ tokenQueue' = <<Tok("INDENT")>>
      BY <1>1, <2>1 DEF StartOfLine
    <3>2. token.type = "WHITESPACE"
      <4>1. indentation \in Seq(Nat) /\ indentation # <<>> BY DEF NestedLevels
      <4>2. Last(indentation) \in Nat BY <4>1 DEF Last
      <4> HIDE DEF level
      <4> QED BY <1>1, <2>1, <4>2
    <3>3. Given(token) = <<>> BY <1>1, <3>2
    <3>4. L \o <<>> = L BY <1>3, Ends
    <3>5. L = <<Tok("INDENT")>> /\ L # <<>>
      <4> HIDE DEF L, level
      <4>1. L = <<Tok("INDENT")>> BY <1>2, <2>1
      <4> QED BY <4>1
    <3>6. q = L BY <3>3, <3>4
    <3> HIDE DEF L, level, q
    <3> QED BY <1>2, <2>1, <3>1, <3>5, <3>6
  <2>2. CASE ~(level > Last(indentation))
    <3>1. /\ indentation' = Surviving(level)
          /\ level = Last(Surviving(level)) =>
               /\ tokenQueue' = DedentTokens(level) \o Given(token)
               /\ lastToken' = IF Given(token) = <<>> THEN "WHITESPACE" ELSE lastToken
      BY <1>1, <2>2 DEF StartOfLine
    <3>2. q = <<>> => Given(token) = <<>>
      <4> HIDE DEF L
      <4> QED BY <1>3
    <3>3. Given(token) = <<>> => token.type = "WHITESPACE" BY <1>1
    <3> HIDE DEF L, level
    <3> QED BY <1>2, <2>2, <3>1, <3>2, <3>3
  <2> QED BY <2>1, <2>2
<1>6. TokensUpTo(text, e - 1) = TokensUpTo(text, i - 1) \o q
  <2>1. TokensUpTo(text, e - 1) = (TokensUpTo(text, i - 1) \o L) \o Given(token) BY DEF Consumes
  <2>2. i - 1 \in 0 .. Len(text) OBVIOUS
  <2>3. TokensUpTo(text, i - 1) \in Seq(S) BY <2>2, TokensUpToEmitted
  <2> HIDE DEF L, S
  <2>4. (TokensUpTo(text, i - 1) \o L) \o Given(token) = TokensUpTo(text, i - 1) \o (L \o Given(token))
    BY <1>3, <2>3, ConcatAssociative, SMTT(60)
  <2> QED BY <2>1, <2>4
<1>7. /\ q \in Seq(S) /\ \A k \in DOMAIN q : q[k].type \notin Endings
      /\ q # <<>> => Last(q).type # "EOL"
  <2>1. ASSUME NEW a \in Seq(S), NEW b \in Seq(S)
        PROVE  /\ a \o b \in Seq(S) /\ a \o <<>> = a
               /\ a # <<>> => Last(a) = a[Len(a)] /\ Len(a) \in DOMAIN a
               /\ b # <<>> => Last(a \o b) = Last(b)
               /\ \A k \in DOMAIN (a \o b) :
                    \/ k \in DOMAIN a /\ (a \o b)[k] = a[k]
                    \/ k - Len(a) \in DOMAIN b /\ (a \o b)[k] = b[k - Len(a)]
    BY <2>1, Ends
  <2>2. /\ \A k \in DOMAIN Given(token) : Given(token)[k] = token
        /\ Given(token) # <<>> => Last(Given(token)) = token
    BY DEF Given, Last
  <2>3. q \in Seq(S) BY <1>3, <2>1
  <2>4. \A k \in DOMAIN q : q[k].type \notin Endings
    <3> HIDE DEF L, S
    <3>1. TAKE k \in DOMAIN q
    <3>2. CASE k \in DOMAIN L /\ q[k] = L[k] BY <1>4, <3>2 DEF Endings
    <3>3. CASE k - Len(L) \in DOMAIN Given(token) /\ q[k] = Given(token)[k - Len(L)]
      <4>1. q[k] = token BY <2>2, <3>3
      <4> QED BY <1>1, <4>1 DEF Endings
    <3> QED BY <1>3, <2>1, <3>2, <3>3
  <2>5. q # <<>> => Last(q).type # "EOL"
    <3> HIDE DEF L, S
    <3>1. CASE Given(token) = <<>>
      <4>1. q = L BY <1>3, <2>1, <3>1
      <4>2. L # <<>> => Last(L).type \in {"INDENT", "DEDENT"} BY <1>3, <1>4, <2>1
      <4> QED BY <4>1, <4>2
    <3>2. CASE Given(token) # <<>>
      <4>1. Last(q) = token BY <1>3, <2>1, <2>2, <3>2
      <4> QED BY <1>1, <4>1
    <3> QED BY <3>1, <3>2
  <2> QED BY <2>3, <2>4, <2>5
<1>8. ToSet(indentation') = OpenLevels(text, e) BY <1>5 DEF Consumes
<1>9. \A j \in i .. e - 1 : j \notin BadLines(text) BY DEF BadLines
<1>10. e \in i + 1 .. Len(text) + 1 /\ Fresh(text, e) BY DEF Consumes
<1>11. IF q = <<>> THEN lastToken' = "EOL" <=> StartOfLogical(text, e)
       ELSE Last(q).type = "EOL" <=> StartOfLogical(text, e)
  BY <1>1, <1>5, <1>7
<1>12. q = <<>> => StartsLine(text, e - 1) /\ TypeAt(text, e - 1) = "WHITESPACE"
  <2>1. (i + 1) - 1 = i OBVIOUS
  <2> QED BY <1>1, <1>5, <2>1
<1> HIDE DEF q
<1>13. Onward(text, e, q)
  BY <1>1, <1>5, <1>6, <1>7, <1>8, <1>9, <1>10, <1>11, <1>12 DEF Onward
<1> QED BY <1>13, ReadOn

\* The end is queued: what a last step of the lexer has to show.
Ending(text, e, q) ==
  /\ tokenQueue = <<>> /\ e \in 1 .. Len(text) + 1 /\ q \in Seq(Emitted(text))
  /\ buffers' = <<At(text, e)>> /\ UNCHANGED <<lexerError, tokens>>
  /\ TokensUpTo(text, Place - 1) \o q = ExpectedTokens(text)
  /\ tokenQueue' = q /\ q # <<>> /\ Last(q).type \in Endings
  /\ \A k \in DOMAIN q : k # Len(q) => q[k].type \notin Endings

\* Such a step finishes the stream.
LEMMA EndQueued ==
  ASSUME NEW text, Lexes(text), Reading(text), NEW e, NEW q, Ending(text, e, q)
  PROVE  Lexes(text)'
<1> DEFINE S == Emitted(text)
<1>1. /\ tokens \in Seq(S) /\ q \in Seq(S) /\ q # <<>>
      /\ tokens' = tokens /\ tokenQueue' = q /\ Stream = tokens /\ Stream' = tokens \o q
  <2>1. tokens \in Seq(S) BY DEF Lexes
  <2>2. tokens \o <<>> = tokens BY <2>1, Ends
  <2> QED BY <2>1, <2>2 DEF Stream, Ending
<1>2. OneFile(text)'
  <2>1. Place' = e /\ Len(buffers') = 1 BY DEF Place, At, Ending
  <2> QED BY <2>1 DEF OneFile, Reading, Ending
<1>3. ASSUME NEW a \in Seq(S), NEW b \in Seq(S)
      PROVE  /\ Len(a \o b) = Len(a) + Len(b) /\ Len(a) \in Nat /\ Len(b) \in Nat
             /\ b # <<>> => Last(a \o b) = Last(b) /\ a \o b # <<>>
             /\ \A k \in DOMAIN (a \o b) :
                  \/ k \in DOMAIN a /\ (a \o b)[k] = a[k]
                  \/ k - Len(a) \in DOMAIN b /\ (a \o b)[k] = b[k - Len(a)]
             /\ \A k \in DOMAIN (a \o b) : k \in Nat
  BY <1>3, Ends
<1> HIDE DEF S
<1>4. Stream' # <<>> /\ Last(Stream').type \in Endings BY <1>1, <1>3 DEF Ending
<1>5. \A k \in DOMAIN Stream' : k # Len(Stream') => Stream'[k].type \notin Endings
  <2>1. TAKE k \in DOMAIN Stream'
  <2>2. CASE k \in DOMAIN tokens /\ Stream'[k] = tokens[k] BY <1>1, <2>2 DEF Reading
  <2>3. CASE k - Len(tokens) \in DOMAIN q /\ Stream'[k] = q[k - Len(tokens)]
    <3>1. k # Len(Stream') => k - Len(tokens) # Len(q)
      <4>1. Len(tokens) \in Nat /\ Len(q) \in Nat /\ k \in Nat /\ Len(Stream') = Len(tokens) + Len(q)
        BY <1>1, <1>3
      <4> QED BY <4>1
    <3> QED BY <2>3, <3>1 DEF Ending
  <2> QED BY <1>1, <1>3, <2>2, <2>3
<1>6. Stream' = ExpectedTokens(text) BY <1>1 DEF Reading, Ending
<1>7. Finished(text)' BY <1>2, <1>4, <1>5, <1>6 DEF Finished
<1> QED BY <1>1, <1>7 DEF Lexes, S, Ending

\* A line that fits no open block ends the stream.
LEMMA LexesBadLine ==
  ASSUME NEW Pieces, Typed(Pieces), NEW text \in Seq(Pieces), Readable(text),
         Lexes(text), Reading(text), NEW e, NEW token, Scanning(text, e, token),
         StartsLine(text, Place), ~WellIndented(text, Place)
  PROVE  Lexes(text)'
<1> DEFINE i == Place
           level == Indent(text, i)
           S == Emitted(text)
           L == LayoutTokens(text, i)
<1> USE DEF Scanning
<1>1. /\ StartOfLine(token)
      /\ Given(token) = IF token.type # "WHITESPACE" THEN <<token>> ELSE <<>>
      /\ level = IF token.type = "WHITESPACE" THEN token.value ELSE 0
      /\ level \in Nat
      /\ token.type = "WHITESPACE" => TypeAt(text, i) = "WHITESPACE" /\ e = i + 1
  BY LineStarts
<1>2. /\ ~(level > Last(indentation)) /\ level # Last(Surviving(level))
      /\ L = Append(DedentTokens(level), Tok("EOF"))
  BY LayoutTokensAre
<1>3. token.type = "WHITESPACE" /\ Given(token) = <<>> /\ e = i + 1
  <2>1. level # 0
    <3>1. 0 \in OpenLevels(text, i) BY DEF OpenLevels
    <3> QED BY <3>1 DEF WellIndented
  <2> QED BY <1>1, <2>1
<1>4. tokenQueue' = L
  <2>1. level # Last(Surviving(level)) /\ ~(level > Last(indentation)) =>
           tokenQueue' = Append(DedentTokens(level), Tok("EOF"))
    BY <1>1 DEF StartOfLine
  <2> HIDE DEF L, level
  <2> QED BY <1>2, <2>1
<1>5. L \in Seq(S) BY TokensOfEmitted
<1>6. /\ L # <<>> /\ Last(L).type \in Endings
      /\ \A k \in DOMAIN L : k # Len(L) => L[k].type \notin Endings
  <2> DEFINE d == DedentTokens(level)
             n == Len(indentation) - Kept(level)
  <2>1. d = [k \in 1 .. n |-> Tok("DEDENT")] BY DEF DedentTokens
  <2>2. n \in Nat
    <3>1. Kept(level) \in 1 .. Len(indentation) BY <1>1, KeptIs
    <3>2. indentation \in Seq(Nat) BY DEF NestedLevels
    <3> HIDE DEF level
    <3> QED BY <3>1, <3>2
  <2>3. L = Append(d, Tok("EOF")) BY <1>2
  <2> HIDE DEF d, n, L
  <2>4. d \in Seq({Tok("DEDENT")}) /\ Len(d) = n BY <2>1, <2>2
  <2>5. /\ DOMAIN L = 1 .. n + 1 /\ Len(L) = n + 1 /\ L[n + 1] = Tok("EOF")
        /\ \A k \in 1 .. n : L[k] = Tok("DEDENT")
    BY <2>1, <2>2, <2>3, <2>4
  <2>6. \A k \in DOMAIN L : k # Len(L) => k \in 1 .. n BY <2>2, <2>5
  <2>7. L # <<>> BY <2>2, <2>5
  <2> QED BY <2>2, <2>5, <2>6, <2>7 DEF Last, Tok, Endings
<1>7. TokensUpTo(text, i) = TokensUpTo(text, i - 1) \o L
  <2>1. TokensUpTo(text, e - 1) = (TokensUpTo(text, i - 1) \o L) \o Given(token) BY DEF Consumes
  <2>2. i - 1 \in 0 .. Len(text) /\ (i + 1) - 1 = i OBVIOUS
  <2>3. TokensUpTo(text, i - 1) \in Seq(S) BY <2>2, TokensUpToEmitted
  <2> HIDE DEF L, S
  <2>4. TokensUpTo(text, i - 1) \o L \in Seq(S) BY <1>5, <2>3
  <2>5. (TokensUpTo(text, i - 1) \o L) \o <<>> = TokensUpTo(text, i - 1) \o L BY <2>4, Ends
  <2> QED BY <1>3, <2>1, <2>2, <2>5
<1>8. ExpectedTokens(text) = TokensUpTo(text, i)
  <2> DEFINE first == CHOOSE k \in BadLines(text) : \A j \in BadLines(text) : k <= j
  <2>1. i \in BadLines(text) BY DEF BadLines
  <2>2. \A j \in BadLines(text) : i <= j /\ j \in 1 .. Len(text) BY DEF Reading, BadLines
  <2>3. first \in BadLines(text) /\ \A j \in BadLines(text) : first <= j
    <3>1. \E k \in BadLines(text) : \A j \in BadLines(text) : k <= j BY <2>1, <2>2
    <3> QED BY <3>1
  <2>4. ExpectedTokens(text) = TokensUpTo(text, first) BY <2>1 DEF ExpectedTokens
  <2> HIDE DEF first
  <2>5. first = i BY <2>1, <2>2, <2>3
  <2> QED BY <2>4, <2>5
<1> HIDE DEF L
<1>9. e \in 1 .. Len(text) + 1 BY <1>3
<1>10. Ending(text, e, L) BY <1>4, <1>5, <1>6, <1>7, <1>8, <1>9 DEF Ending
<1> QED BY <1>10, EndQueued

\* At the end of the text its last line is closed, and all its blocks.
LEMMA LexesEnd ==
  ASSUME NEW Pieces, Typed(Pieces), NEW text \in Seq(Pieces), Readable(text),
         Lexes(text), Reading(text), EndOfFile
  PROVE  Lexes(text)'
<1> DEFINE n == Len(text)
           S == Emitted(text)
           eol == IF StartOfLogical(text, n + 1) THEN <<>> ELSE <<Tok("EOL")>>
           dedents == Repeat("DEDENT", Cardinality(LeftOf(text, n + 1, 0)))
           q == (eol \o dedents) \o <<Tok("END")>>
<1>1. /\ buffers = <<At(text, Place)>> /\ Len(buffers) = 1 /\ Place \in 1 .. n + 1
      /\ tokenQueue = <<>> /\ tokens \in Seq(S)
  BY DEF Reading, OneFile, EndOfFile, Lexes
<1>2. Place = n + 1
  <2>1. Last(buffers) = At(text, Place) BY <1>1 DEF Last
  <2>2. Place > n BY <2>1 DEF EndOfFile, At
  <2> QED BY <1>1, <2>2
<1>3. /\ NestedLevels(indentation) /\ ToSet(indentation) = OpenLevels(text, n + 1)
      /\ \A i \in BadLines(text) : i >= n + 1
      /\ lastReturnedToken = (IF tokens = <<>> THEN "EOL" ELSE Last(tokens).type)
      /\ StartOfLogical(text, n + 1) => tokens = <<>> \/ Last(tokens).type = "EOL"
      /\ StartOfLogical(text, n + 1) \/ InHead(text) \/ (tokens # <<>> /\ Last(tokens).type # "EOL")
      /\ tokens \o <<>> = tokens /\ tokens = TokensUpTo(text, n) /\ Place - 1 = n
  <2>1. tokens \o <<>> = tokens BY <1>1, Ends
  <2>2. Stream = tokens BY <1>1, <2>1 DEF Stream
  <2>3. Place - 1 = n BY <1>2
  <2> QED BY <1>2, <2>1, <2>2, <2>3 DEF Reading, AtLine
<1>4. ~InHead(text)
  <2>1. ~TokenAt(text, n + 1)
    <3>1. n + 1 \notin 1 .. Len(text) OBVIOUS
    <3> QED BY <3>1, TypesAre
  <2> QED BY <1>1, <1>2, <2>1, InHeadNext
<1>5. eol = IF lastReturnedToken # "EOL" THEN <<Tok("EOL")>> ELSE <<>>
  BY <1>3, <1>4
<1>6. DedentTokens(0) = dedents BY <1>3, Popped DEF LeftOf
<1>7. tokenQueue' = q /\ buffers' = buffers /\ UNCHANGED <<lexerError, tokens>>
  <2>1. /\ tokenQueue' = (IF lastReturnedToken # "EOL" THEN <<Tok("EOL")>> ELSE <<>>)
                           \o DedentTokens(0) \o <<Tok("END")>>
        /\ buffers' = buffers /\ UNCHANGED <<lexerError, tokens>>
    BY <1>1 DEF EndOfFile, EndOfInput, Tok
  <2> HIDE DEF eol, dedents
  <2> QED BY <1>5, <1>6, <2>1
<1>8. /\ eol \in Seq({Tok("EOL")}) /\ dedents \in Seq({Tok("DEDENT")})
  <2>1. Cardinality(LeftOf(text, n + 1, 0)) \in Nat
    <3>1. n + 1 \in 1 .. Len(text) + 1 OBVIOUS
    <3> QED BY <3>1, LevelsFinite
  <2>2. dedents \in Seq({Tok("DEDENT")}) BY <2>1 DEF Repeat
  <2>3. eol = <<>> \/ eol = <<Tok("EOL")>> OBVIOUS
  <2>4. ASSUME NEW x PROVE <<>> \in Seq({x}) /\ <<x>> \in Seq({x}) OBVIOUS
  <2>5. <<>> \in Seq({Tok("EOL")}) /\ <<Tok("EOL")>> \in Seq({Tok("EOL")}) BY <2>4
  <2> HIDE DEF eol, dedents
  <2> QED BY <2>2, <2>3, <2>5
<1>9. /\ q \in Seq(S) /\ q # <<>> /\ Last(q).type \in Endings
      /\ \A k \in DOMAIN q : k # Len(q) => q[k].type \notin Endings
  <2> DEFINE T == {Tok("EOL"), Tok("DEDENT")}
             b == eol \o dedents
  <2>1. b \in Seq(T)
    <3> HIDE DEF eol, dedents
    <3>1. eol \in Seq(T) /\ dedents \in Seq(T) BY <1>8
    <3> QED BY <3>1
  <2>2. q = b \o <<Tok("END")>> OBVIOUS
  <2> HIDE DEF b, q
  <2>3. /\ Len(b) \in Nat /\ DOMAIN q = 1 .. Len(b) + 1 /\ Len(q) = Len(b) + 1
        /\ q[Len(b) + 1] = Tok("END") /\ \A k \in 1 .. Len(b) : q[k] \in T
        /\ q \in Seq(T \cup {Tok("END")})
    BY <2>1, <2>2
  <2>4. q \in Seq(S)
    <3>1. T \cup {Tok("END")} \subseteq S BY DEF Emitted
    <3> HIDE DEF T, S
    <3> QED BY <2>3, <3>1
  <2>5. Last(q) = Tok("END") /\ q # <<>> BY <2>3 DEF Last
  <2>6. \A k \in DOMAIN q : k # Len(q) => q[k] \in T BY <2>3
  <2> QED BY <2>4, <2>5, <2>6 DEF Tok, Endings
<1>10. TokensUpTo(text, n) \o q = ExpectedTokens(text)
  <2>1. BadLines(text) = {}
    <3>1. \A i \in BadLines(text) : i \in 1 .. n BY DEF BadLines
    <3> QED BY <1>3, <3>1
  <2>2. ExpectedTokens(text) = ((TokensUpTo(text, n) \o eol) \o dedents) \o <<Tok("END")>>
    BY <2>1 DEF ExpectedTokens
  <2> DEFINE T == {Tok("EOL"), Tok("DEDENT"), Tok("END")} \cup S
             u == TokensUpTo(text, n)
             f == <<Tok("END")>>
  <2>3. u \in Seq(T) /\ eol \in Seq(T) /\ dedents \in Seq(T) /\ f \in Seq(T)
    <3>1. tokens \in Seq(T) BY <1>1
    <3> HIDE DEF eol, dedents
    <3> QED BY <1>3, <1>8, <3>1
  <2> HIDE DEF T, u, f, eol, dedents
  <2>4. eol \o dedents \in Seq(T) BY <2>3
  <2>5. (u \o eol) \o dedents = u \o (eol \o dedents) BY <2>3, ConcatAssociative, SMTT(60)
  <2>6. (u \o (eol \o dedents)) \o f = u \o ((eol \o dedents) \o f)
    BY <2>3, <2>4, ConcatAssociative, SMTT(60)
  <2> QED BY <2>2, <2>5, <2>6 DEF u, f
<1> HIDE DEF q
<1>11. Ending(text, Place, q) BY <1>1, <1>3, <1>7, <1>9, <1>10 DEF Ending
<1> QED BY <1>11, EndQueued

\* Every step of the lexer, and every other step, keeps the invariant.
LEMMA LexesNext ==
  ASSUME NEW Pieces, Typed(Pieces), NEW text \in Seq(Pieces), Readable(text),
         Lexes(text), [Lex]_lexVars
  PROVE  Lexes(text)'
<1>1. CASE UNCHANGED lexVars
  BY <1>1 DEF lexVars, Lexes, Reading, Finished, OneFile, AtLine, InHead, Place, Stream
<1>2. CASE ReturnToken BY <1>2, LexesReturn
<1>3. ASSUME ScanPiece \/ ImportFile \/ EndOfFile PROVE Reading(text) /\ Place \in 1 .. Len(text) + 1
  <2>1. ~LexingEnded /\ tokenQueue = <<>> BY <1>3 DEF ScanPiece, ImportFile, EndOfFile
  <2>2. Reading(text) BY <2>1, EndedWhen DEF Lexes
  <2> QED BY <2>2 DEF Reading, OneFile
<1>4. CASE ScanPiece
  <2>1. Reading(text) BY <1>3, <1>4
  <2>2. Place \in 1 .. Len(text) BY <1>4, <2>1, Scans
  <2>3. BlankLine(At(text, Place)) \in Nat BY <2>2, BlankLineIs
  <2>4. CASE BlankLine(At(text, Place)) > 0 BY <1>4, <2>1, <2>4, LexesBlank
  <2>5. CASE BlankLine(At(text, Place)) = 0
    <3>1. CASE ~StartsLine(text, Place) BY <1>4, <2>1, <2>5, <3>1, LexesWithin
    <3>2. CASE StartsLine(text, Place)
      <4>1. PICK e, token : Scanning(text, e, token) BY <1>4, <2>1, <2>5, Consumed
      <4>2. CASE WellIndented(text, Place) BY <2>1, <3>2, <4>1, <4>2, LexesLine
      <4>3. CASE ~WellIndented(text, Place) BY <2>1, <3>2, <4>1, <4>3, LexesBadLine
      <4> QED BY <4>2, <4>3
    <3> QED BY <3>1, <3>2
  <2> QED BY <2>3, <2>4, <2>5
<1>5. CASE ImportFile
  <2>1. Reading(text) /\ Place \in 1 .. Len(text) + 1 BY <1>3, <1>5
  <2>2. buffers = <<At(text, Place)>> /\ Len(buffers) = 1 BY <2>1 DEF Reading, OneFile
  <2>3. Last(buffers) = At(text, Place) BY <2>2 DEF Last
  <2>4. Piece(At(text, Place), Place).type = "IMPORT" BY <1>5, <2>3 DEF ImportFile, At
  <2>5. Place \in 1 .. Len(text) /\ text[Place].type = "IMPORT"
    BY <2>1, <2>4 DEF Piece, At, Tok
  <2>6. TypeAt(text, Place) = text[Place].type /\ TypeAt(text, Place) \notin NotWritten
    BY <2>5, TypesAre
  <2> QED BY <2>5, <2>6 DEF NotWritten
<1>6. CASE EndOfFile
  <2>1. Reading(text) BY <1>3, <1>6
  <2> QED BY <1>6, <2>1, LexesEnd
<1> QED BY <1>1, <1>2, <1>4, <1>5, <1>6 DEF Lex

-----------------------------------------------------------------------------
(***************************************************************************)
(* The theorem.  Of a text that flex would not cut up in this way nothing  *)
(* is said, but it stays what is read.                                     *)
(***************************************************************************)
StaysAtBottom(text) ==
  /\ \E Files : buffers \in Seq(Files)
  /\ buffers # <<>> /\ buffers[1] = At(text, Place)

LexInv(text) == IF Readable(text) THEN Lexes(text) ELSE StaysAtBottom(text)

\* Reading on in the file on top leaves the first one what it was,
LEMMA BottomMoved ==
  ASSUME NEW text, StaysAtBottom(text), NEW m
  PROVE  LET moved == [buffers EXCEPT ![Len(buffers)] = Advanced(@, m)] IN
         /\ \E Files : moved \in Seq(Files)
         /\ moved # <<>> /\ moved[1] = At(text, moved[1].at)
<1> DEFINE moved == [buffers EXCEPT ![Len(buffers)] = Advanced(buffers[Len(buffers)], m)]
<1>1. PICK Files : buffers \in Seq(Files) BY DEF StaysAtBottom
<1> DEFINE top == Advanced(buffers[Len(buffers)], m)
           More == Files \cup {top}
<1>2. Len(buffers) \in Nat \ {0} /\ DOMAIN buffers = 1 .. Len(buffers)
      /\ buffers[1] = At(text, Place) /\ buffers \in Seq(More)
  BY <1>1 DEF StaysAtBottom
<1>3. moved[1] = At(text, Place) \/ moved[1] = At(text, Place + m)
  <2>1. CASE Len(buffers) = 1
    <3>1. Advanced(At(text, Place), m) = At(text, Place + m) BY DEF Advanced, At
    <3>2. moved[1] = Advanced(buffers[1], m) BY <1>2, <2>1
    <3> QED BY <1>2, <3>1, <3>2
  <2>2. CASE Len(buffers) # 1 BY <1>2, <2>2
  <2> QED BY <2>1, <2>2
<1>4. moved \in Seq(More)
  <2>1. top \in More /\ moved = [buffers EXCEPT ![Len(buffers)] = top] OBVIOUS
  <2> HIDE DEF top, More, moved
  <2> QED BY <1>2, <2>1
<1>5. moved # <<>>
  <2> HIDE DEF top, More
  <2> QED BY <1>2, <1>4
<1> HIDE DEF moved
<1>6. moved[1] = At(text, moved[1].at) BY <1>3 DEF At
<1> QED BY <1>4, <1>5, <1>6 DEF moved

\* and so does every step of the lexer.
LEMMA BottomStays ==
  ASSUME NEW text, StaysAtBottom(text), [Lex]_lexVars
  PROVE  StaysAtBottom(text)'
<1> DEFINE moved(m) == [buffers EXCEPT ![Len(buffers)] = Advanced(@, m)]
<1>1. ASSUME NEW m
      PROVE  /\ \E Files : moved(m) \in Seq(Files)
             /\ moved(m) # <<>> /\ moved(m)[1] = At(text, moved(m)[1].at)
  BY BottomMoved
<1> HIDE DEF moved
<1>2. CASE buffers' = buffers BY <1>2 DEF StaysAtBottom, Place
<1>3. ASSUME NEW m, buffers' = moved(m) PROVE StaysAtBottom(text)'
  BY <1>1, <1>3 DEF StaysAtBottom, Place
<1>4. ASSUME NEW b, buffers' = Append(moved(1), b) PROVE StaysAtBottom(text)'
  <2>1. PICK Files : moved(1) \in Seq(Files) BY <1>1
  <2> DEFINE p == moved(1)
             More == Files \cup {b}
  <2>2. p \in Seq(More) /\ b \in More BY <2>1
  <2>3. p # <<>> /\ p[1] = At(text, p[1].at) BY <1>1
  <2> HIDE DEF p, More
  <2>4. Append(p, b) \in Seq(More) /\ Append(p, b) # <<>> /\ Append(p, b)[1] = p[1] BY <2>2, <2>3
  <2>5. buffers' = Append(p, b) BY <1>4 DEF p
  <2> QED BY <2>3, <2>4, <2>5 DEF StaysAtBottom, Place
<1>5. ASSUME Len(buffers) # 1, buffers' = Front(buffers) PROVE StaysAtBottom(text)'
  <2>1. PICK Files : buffers \in Seq(Files) BY DEF StaysAtBottom
  <2>2. Len(buffers) \in Nat /\ Len(buffers) > 1
    <3>1. buffers # <<>> BY DEF StaysAtBottom
    <3>2. Len(buffers) \in Nat \ {0} BY <2>1, <3>1
    <3>3. ASSUME NEW k \in Nat \ {0}, k # 1 PROVE k > 1 BY <3>3
    <3> QED BY <1>5, <3>2, <3>3
  <2>3. buffers' = SubSeq(buffers, 1, Len(buffers) - 1) BY <1>5 DEF Front
  <2>4. buffers' \in Seq(Files) /\ buffers' # <<>> /\ buffers'[1] = buffers[1]
    <3> DEFINE n == Len(buffers) - 1
               s == SubSeq(buffers, 1, n)
    <3>1. n \in 1 .. Len(buffers) BY <2>2
    <3> HIDE DEF n
    <3>2. s \in Seq(Files) /\ Len(s) = n /\ \A i \in 1 .. n : s[i] = buffers[i]
      BY <2>1, <3>1
    <3>3. 1 \in 1 .. n BY <3>1
    <3>4. buffers' = s BY <2>3 DEF n
    <3> HIDE DEF s
    <3> QED BY <3>1, <3>2, <3>3, <3>4
  <2> QED BY <2>4 DEF StaysAtBottom, Place
<1>6. CASE UNCHANGED lexVars BY <1>2, <1>6 DEF lexVars
<1>7. CASE ReturnToken BY <1>2, <1>7 DEF ReturnToken
<1>8. CASE ScanPiece BY <1>3, <1>8 DEF ScanPiece, moved
<1>9. CASE ImportFile
  <2>1. buffers' = buffers \/ \E b : buffers' = Append(moved(1), b) BY <1>9 DEF ImportFile, moved
  <2> QED BY <1>2, <1>4, <2>1
<1>10. CASE EndOfFile BY <1>2, <1>5, <1>10 DEF EndOfFile
<1> QED BY <1>6, <1>7, <1>8, <1>9, <1>10 DEF Lex

\* The invariant holds before anything is read.
LEMMA LexInvStart ==
  ASSUME NEW Pieces, Typed(Pieces), NEW text \in Seq(Pieces), NEW importable,
         InitLexer(text, importable)
  PROVE  LexInv(text)
<1>1. CASE Readable(text) BY <1>1, LexesInit DEF LexInv
<1>2. CASE ~Readable(text)
  <2>1. buffers = <<At(text, 1)>> BY DEF InitLexer, Buffer, At
  <2>2. buffers \in Seq({At(text, 1)}) /\ buffers # <<>> /\ buffers[1] = At(text, 1) BY <2>1
  <2>3. Place = 1 BY <2>2 DEF Place, At
  <2>4. StaysAtBottom(text) BY <2>2, <2>3 DEF StaysAtBottom
  <2> QED BY <1>2, <2>4 DEF LexInv
<1> QED BY <1>1, <1>2

\* It says what the stream is when the lexer is done.
LEMMA LexInvSuffices ==
  ASSUME NEW text, LexInv(text)
  PROVE  LayoutUnderstood
<1>1. SUFFICES ASSUME LexingEnded, Readable(buffers[1].pieces)
               PROVE  tokens = ExpectedTokens(buffers[1].pieces)
  BY DEF LayoutUnderstood
<1>2. buffers[1].pieces = text
  <2>1. CASE Readable(text)
    <3>1. buffers = <<At(text, Place)>> BY <2>1 DEF LexInv, Lexes, Reading, Finished, OneFile
    <3> QED BY <3>1 DEF At
  <2>2. CASE ~Readable(text)
    <3>1. buffers[1] = At(text, Place) BY <2>2 DEF LexInv, StaysAtBottom
    <3> QED BY <3>1 DEF At
  <2> QED BY <2>1, <2>2
<1>3. Lexes(text) BY <1>1, <1>2 DEF LexInv
<1>4. Finished(text) /\ tokenQueue = <<>> BY <1>1, <1>3, EndedWhen DEF Lexes
<1>5. Stream = tokens
  <2>1. tokens \in Seq(Emitted(text)) BY <1>3 DEF Lexes
  <2>2. tokens \o <<>> = tokens BY <2>1, Ends
  <2> QED BY <1>4, <2>2 DEF Stream
<1> QED BY <1>2, <1>4, <1>5 DEF Finished

\* Whatever pieces a text is made of and whatever files there are to import:
\* when the lexer is done with a text that imports nothing, what it gave to
\* the parser are the tokens of the offside rule (InterpretIndent and yylex of
\* lexer_transform.cpp).
THEOREM LexerFollowsOffsideRule ==
  ASSUME NEW Pieces, Typed(Pieces), NEW text \in Seq(Pieces), NEW importable
  PROVE  Reads(text, importable) => []LayoutUnderstood
<1>1. InitLexer(text, importable) => LexInv(text) BY LexInvStart
<1>2. LexInv(text) /\ [Lex]_lexVars => LexInv(text)'
  <2> SUFFICES ASSUME LexInv(text), [Lex]_lexVars PROVE LexInv(text)' OBVIOUS
  <2>1. CASE Readable(text) BY <2>1, LexesNext DEF LexInv
  <2>2. CASE ~Readable(text) BY <2>2, BottomStays DEF LexInv
  <2> QED BY <2>1, <2>2
<1>3. LexInv(text) => LayoutUnderstood BY LexInvSuffices
<1> QED BY <1>1, <1>2, <1>3, PTL DEF Reads
=============================================================================
