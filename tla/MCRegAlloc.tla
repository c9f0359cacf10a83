----------------------------- MODULE MCRegAlloc -----------------------------
(***************************************************************************)
(* Functions in three-address code for TLC, as ToSSA, ConstantFolding and  *)
(* FromSSA leave them: parameters are loaded, phis are copies.             *)
(***************************************************************************)
EXTENDS RegAlloc

T(t, id) == Operand("temp", t, id)
C(t, value) == Operand("const", t, Low(value, Size(t)))
A(t, id) == Operand("arg", t, id)
G(t, address) == Operand("global", t, address)

I(op, args) == [op |-> op, args |-> args]
To(dest, inst) == [dest |-> dest] @@ inst

Arg(dest, id) == To(dest, I("load", <<A(dest.type, id)>>))
Copy(dest, src) == To(dest, I("copy", <<src>>))
Binary(dest, lhs, operation, rhs) ==
  To(dest, [op |-> "binary", operation |-> operation, args |-> <<lhs, rhs>>])
Call(convention, dest, target, args) ==
  To(dest, [op |-> "call", convention |-> convention, args |-> <<target>> \o args])
Goto(b) == [op |-> "jump", args |-> <<>>, targets |-> <<b>>]
If(lhs, relation, rhs, ifTrue, ifFalse) ==
  [op |-> "condjump", args |-> <<lhs, rhs>>, relation |-> relation, targets |-> <<ifTrue, ifFalse>>]
Return(values) == I("return", values)

Function(blocks, params, result) ==
  [blocks |-> blocks, params |-> params, result |-> result, temps |-> 30]

-----------------------------------------------------------------------------
\* What is called, and a global of each size.
Count == G("Addr", 40)       \* native, (I64) -> I64
Make == G("Addr", 48)        \* native, (Ref, U8, U64) -> Ref
Tick == G("Addr", 56)        \* native, () -> U8
Show == G("Addr", 64)        \* in C, (Ref, I64) -> I64
Collect == G("Addr", 72)     \* of the run time, (U64) -> Ref
GlobalByte == G("U8", 104)
GlobalInt == G("I64", 112)

Callees ==
  (40 :> [params |-> <<"I64">>, result |-> "I64", native |-> TRUE]) @@
  (48 :> [params |-> <<"Ref", "U8", "U64">>, result |-> "Ref", native |-> TRUE]) @@
  (56 :> [params |-> <<>>, result |-> "U8", native |-> TRUE]) @@
  (64 :> [params |-> <<"Ref", "I64">>, result |-> "I64", native |-> FALSE]) @@
  (72 :> [params |-> <<"U64">>, result |-> "Ref", native |-> FALSE])

-----------------------------------------------------------------------------
\* x op y, of two parameters, or with a constant on one side.
Operations == {"+", "-", "*", "/", "%"}

Calculation(t, lhs, operation, rhs) ==
  Function(<<<<Arg(T(t, 1), 1), Arg(T(t, 2), 2), Binary(T(t, 3), lhs, operation, rhs),
               Return(<<T(t, 3)>>)>>>>, <<t, t>>, t)

\* Of every type in types; negative constants are those of I64.
WithParams(types, operations) ==
  {Calculation(t, T(t, 1), o, T(t, 2)) : t \in types, o \in operations}
WithConstant(types, operations, value) ==
  {Calculation(t, T(t, 1), o, C(t, value)) : t \in types, o \in operations}
OfConstant(types, operations, value) ==
  {Calculation(t, C(t, value), o, T(t, 2)) : t \in types, o \in operations}

\* A remainder of bytes, a product of a byte with a constant and a constant
\* too wide for an addition or a product come out wrong.
Calculations ==
  WithParams({"I64", "U64"}, Operations)
    \cup WithParams({"U8"}, Operations \ {"%"})
    \cup WithConstant({"I64", "U64"}, Operations, 7)
    \cup WithConstant({"I64"}, Operations, -3)
    \cup OfConstant({"I64", "U8"}, {"-", "/"}, -3)
    \cup WithConstant({"I64", "U64"}, {"/", "%"}, 700)

-----------------------------------------------------------------------------
\* Comparisons, with constants on the right only: a comparison of a constant
\* with a variable comes out reversed.
Relations == {"==", "!=", ">", "<", ">=", "<="}

Comparison(t, lhs, relation, rhs) ==
  Function(<<<<Arg(T(t, 1), 1), Arg(T(t, 2), 2), If(lhs, relation, rhs, 2, 3)>>,
             <<Return(<<C("U64", 1)>>)>>, <<Return(<<C("U64", 0)>>)>>>>, <<t, t>>, "U64")

Comparisons ==
  {Comparison(t, T(t, 1), r, T(t, 2)) : t \in {"I64", "U64", "U8"}, r \in Relations}
    \cup {Comparison("I64", T("I64", 1), r, C("I64", c)) : r \in {"<", ">="}, c \in {-1, 900}}
    \cup {Comparison("U64", C("U64", 7), r, C("U64", c)) : r \in {"<", ">="}, c \in {7, 900}}

\* if x then ... on a boolean; folded constants, used across blocks.
Conditions ==
  {Function(<<<<Arg(T("U64", 1), 1), Binary(T("U8", 2), C("U8", 5), o, C("U8", 3)),
                [op |-> "jumpif", args |-> <<c>>, targets |-> <<2, 3>>]>>,
              <<Binary(T("U8", 4), T("U8", 2), "+", C("U8", 6)), Copy(T("U64", 5), T("U8", 4)),
                Return(<<T("U64", 5)>>)>>,
              <<Copy(T("U64", 6), T("U8", 2)), Return(<<T("U64", 6)>>)>>>>, <<"U64">>, "U64") :
     o \in Operations, c \in {T("U64", 1), C("U64", 1), C("U64", 0)}}

FoldedSigned ==
  {Function(<<<<Binary(T("I64", 1), C("I64", x), o, C("I64", 2)), Return(<<T("I64", 1)>>)>>>>, <<>>, "I64") :
     x \in {-3, 2047}, o \in Operations}

\* Copies between types, globals of each size, a wide constant and addresses stored.
Moves ==
  {Function(<<<<Arg(T(t, 1), 1), Copy(T(u, 2), T(t, 1)), Return(<<T(u, 2)>>)>>>>, <<t>>, u) :
     t, u \in {"I64", "U64", "U8"}}
    \cup
  {Function(<<<<Arg(T("U8", 1), 1), I("store", <<GlobalByte, T("U8", 1)>>),
                I("store", <<GlobalInt, C("I64", v)>>), To(T("I64", 2), I("load", <<GlobalInt>>)),
                To(T("U8", 3), I("load", <<GlobalByte>>)), Copy(T("I64", 4), T("U8", 3)),
                Call("register", T("Ref", 5), Collect, <<C("U64", 900)>>),
                I("indexedstore", <<T("Ref", 5), C("U64", 8), Count>>),
                I("memset", <<T("Ref", 5), C("U64", 16), C("U64", 3), C(t, 0)>>),
                To(T("Addr", 6), I("indexedload", <<T("Ref", 5), C("U64", 8)>>)),
                Call("native", T("I64", 7), T("Addr", 6), <<T("I64", 4)>>),
                Call("native", T("U8", 8), Tick, <<>>), Copy(T("I64", 9), T("U8", 8)),
                Binary(T("I64", 10), T("I64", 7), "-", T("I64", 9)),
                Binary(T("I64", 11), T("I64", 10), "*", T("I64", 2)),
                Return(<<T("I64", 11)>>)>>>>, <<"U8">>, "I64") :
     v \in {-1, 900}, t \in {"I64", "U8"}}

-----------------------------------------------------------------------------
\* What a line does with two numbers and an object, for a number: temporaries
\* from base up.
Parts == 1 .. 6
Part(k, base, x, y, o) ==
  CASE k = 1 -> <<Call("native", T("I64", base), Count, <<x>>)>>
    [] k = 2 -> <<Call("native", T("Ref", base + 1), Make, <<o, C("U8", 3), C("U64", 900)>>),
                  I("indexedstore", <<o, C("U64", 16), T("Ref", base + 1)>>),
                  Binary(T("I64", base), x, "-", y)>>
    [] k = 3 -> <<Call("ccall", T("I64", base), Show, <<o, x>>)>>
    [] k = 4 -> <<Binary(T("I64", base), y, "*", x)>>
    [] k = 5 -> <<Copy(T("U8", base + 1), x), Copy(T("I64", base), T("U8", base + 1)),
                  Binary(T("I64", base + 2), y, "%", C("I64", 7)),
                  I("store", <<GlobalInt, T("I64", base + 2)>>)>>
    [] k = 6 -> <<I("memset", <<o, C("U64", 16), C("U64", 2), C("I64", 0)>>), Copy(T("I64", base), x)>>

Object == T("Ref", 1)
N(i) == T("I64", i)

\* n more values are kept to the end.
Kept(n) == [i \in 1 .. n |-> Arg(N(23 + i), 3 + i)]
Stored(n) == [i \in 1 .. n |-> I("indexedstore", <<Object, C("U64", 16 + 8 * i), N(23 + i)>>)]
ParamTypes(n) == <<"Ref", "I64", "I64">> \o [i \in 1 .. n |-> "I64"]

Opening(n) == <<Arg(Object, 1), Arg(N(2), 2), Arg(N(3), 3)>> \o Kept(n)
Closing(n, last) ==
  <<I("indexedstore", <<Object, C("U64", 16), N(2)>>)>> \o Stored(n) \o <<Return(<<last>>)>>

Line(p, q, n) ==
  Function(<<Opening(n) \o Part(p, 5, N(2), N(3), Object) \o Part(q, 8, N(3), N(5), Object)
               \o Closing(n, N(8))>>, ParamTypes(n), "I64")

Lines == {Line(p, q, 0) : p, q \in Parts} \cup {Line(p, p, 4) : p \in Parts}

\* A phi of what two branches compute, and one in a loop.
Diamonds ==
  {Function(<<Opening(0) \o <<If(N(2), "<", C("I64", 5), 2, 3)>>,
              Part(p, 5, N(2), N(3), Object) \o <<Copy(N(20), N(5)), Goto(4)>>,
              Part(q, 8, N(3), N(2), Object) \o <<Copy(N(20), N(8)), Goto(4)>>,
              <<Copy(N(21), N(20))>> \o Closing(0, N(21))>>, ParamTypes(0), "I64") :
     p, q \in Parts}

Loop(p, q, n) ==
  Function(<<Opening(n) \o <<Copy(N(20), C("I64", 0)), Goto(2)>>,
             <<Copy(N(21), N(20)), If(N(21), "<", C("I64", 2), 3, 4)>>,
             Part(p, 5, N(21), N(3), Object) \o Part(q, 8, N(2), N(5), Object)
               \o <<Binary(N(22), N(21), "+", C("I64", 1)), Copy(N(20), N(22)), Goto(2)>>,
             Closing(n, N(21))>>, ParamTypes(n), "I64")

Loops == {Loop(p, q, 0) : p, q \in Parts} \cup {Loop(p, p, 2) : p \in Parts}

All == UNION {Calculations, Comparisons, Conditions, FoldedSigned, Moves, Lines, Diamonds, Loops}

\* if c: a = x, b = x, else: a = 1, b = 2; a - b.  N(4) and N(5) are the
\* registers FromSSA makes for the phis of a and b.
SharedSource ==
  {Function(<<<<Arg(N(2), 1), If(N(2), "==", C("I64", 0), 2, 3)>>,
              <<Copy(N(4), N(2)), Copy(N(5), N(2)), Goto(4)>>,
              <<Copy(N(4), C("I64", 1)), Copy(N(5), C("I64", 2)), Goto(4)>>,
              <<Copy(N(6), N(4)), Copy(N(7), N(5)), Binary(N(8), N(6), "-", N(7)),
                Return(<<N(8)>>)>>>>, <<"I64">>, "I64")}

\* The sum of the first two of n parameters that are all read again after it.
SumAmong(n) ==
  Function(<<[i \in 1 .. n |-> Arg(N(i), i)] \o <<Binary(N(n + 1), N(1), "+", N(2))>>
               \o [i \in 1 .. n |-> I("store", <<GlobalInt, N(i)>>)] \o <<Return(<<N(n + 1)>>)>>>>,
           [i \in 1 .. n |-> "I64"], "I64")

SpilledSum == {SumAmong(14)}
=============================================================================
