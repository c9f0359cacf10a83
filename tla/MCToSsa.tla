------------------------------ MODULE MCToSsa ------------------------------
(***************************************************************************)
(* Programs for TLC.  The first families are for the SSA passes: loops and *)
(* branches, whose conditions are left open, around assignments to and     *)
(* reads of two variables.  The last are for the code generator.           *)
(***************************************************************************)
EXTENDS ToSsa

A == <<"local", "a">>
B == <<"local", "b">>
C == <<"local", "c">>
P == <<"param", "p">>

\* Nodes.
Number(n) == [node |-> "Int", value |-> n]
Var(v) == [node |-> "Variable", symbol |-> v]
CallOf(name, args) == [node |-> "Call", name |-> name, args |-> args]
Do(children) == [node |-> "Block", children |-> children]
Set(v, rhs) == [node |-> "Assign", lhs |-> Var(v), rhs |-> rhs]
IfElse(condition, body, elseBody) ==
  [node |-> "IfElse", condition |-> condition, body |-> body, elseBody |-> elseBody]
Absent == [node |-> "Absent"]
While(condition, body) == [node |-> "While", condition |-> condition, body |-> body]
Forever(body) == [node |-> "Forever", body |-> body]
Break == [node |-> "Break"]

\* The condition of a test that may go either way.
Open == Number(1)

Program(params, body) ==
  [kind |-> "function", params |-> params, arguments |-> [i \in DOMAIN params |-> 102],
   body |-> body, lambdas |-> <<>>, calls |-> -1]

-----------------------------------------------------------------------------
Assigned(v) == Set(v, CallOf("read", <<>>))
Read(v) == CallOf("show", <<Var(v)>>)
Move(v, w) == Set(v, Var(w))
Swap == Do(<<Move(C, A), Move(A, B), Move(B, C)>>)
Nothing == Do(<<>>)

\* Statements with two, three or four holes.
Shapes2(x, y) ==
  {IfElse(Open, x, y),
   While(Open, Do(<<x, IfElse(Open, y, Absent)>>)),
   While(Open, Do(<<x, IfElse(Open, Do(<<y, Break>>), Absent)>>)),
   Do(<<IfElse(Open, x, Absent), IfElse(Open, y, Absent)>>),
   Forever(Do(<<x, IfElse(Open, Break, Absent), y>>))}

Shapes1(x) == {IfElse(Open, x, Absent), While(Open, x), Forever(Do(<<x, IfElse(Open, Break, Absent)>>))}

Shapes3(x, y, z) == {While(Open, Do(<<x, While(Open, Do(<<y>>)), z>>)),
                     While(Open, Do(<<x, IfElse(Open, y, Absent), z>>))}

\* A branch that ends in a loop nothing leaves.
DeadJoin(x, y) == IfElse(Open, Forever(x), y)

Wrap(params, first, S, last) == {Program(params, Do(<<first, s, last>>)) : s \in S}

BothAssigned == Do(<<Assigned(A), Assigned(B)>>)
BothRead == Do(<<Read(A), Read(B)>>)

Bodies ==
  {Nothing, Assigned(A), Read(A), Read(B), Move(B, A), Swap, Do(<<Read(A), Assigned(A)>>)}

Shuffles == {Nothing, Move(B, A), Swap}

OverLocals ==
  Wrap(<<>>, BothAssigned,
       UNION {Shapes1(x) : x \in Bodies} \cup UNION {Shapes2(x, y) : x, y \in Bodies}
         \cup UNION {Shapes3(x, y, z) : x, y, z \in Shuffles}
         \cup {DeadJoin(x, y) : x, y \in Bodies},
       BothRead)

\* B is declared in the body of the loop, and is read there only.
InnerLocals ==
  Wrap(<<>>, Assigned(A),
       UNION {Shapes3(x, y, z) : x \in {Nothing, Read(A)},
                                 y \in {Assigned(B), Do(<<Move(B, A), Read(B)>>)},
                                 z \in {Nothing, Move(A, A), Read(A)}},
       Read(A))

ArgumentBodies == {Nothing, Read(P), Assigned(P), Move(A, P), Move(P, A)}

\* The argument is read in the first block, which dominates every other; or
\* it is not read before it is assigned.
OverArguments ==
  Wrap(<<P>>, Do(<<Assigned(A), Read(P)>>),
       UNION {Shapes1(x) : x \in ArgumentBodies} \cup UNION {Shapes2(x, y) : x, y \in ArgumentBodies},
       Do(<<Read(P), Read(A)>>))
  \cup Wrap(<<P>>, Assigned(A),
            UNION {{IfElse(Open, x, y), While(Open, Do(<<x, IfElse(Open, y, Absent)>>)), While(Open, x)} :
                     x, y \in {Nothing, Assigned(P), Move(P, A)}},
            Do(<<Read(P), Read(A)>>))

\* The argument is first read in a branch.
BranchRead == Wrap(<<P>>, Assigned(A), {IfElse(Open, Read(P), Nothing)}, Read(P))

\* Statements after a loop nothing leaves.
DeadCode == Wrap(<<>>, BothAssigned, {Forever(x) : x \in Bodies}, BothRead)

-----------------------------------------------------------------------------
(***************************************************************************)
(* For the code generator: programs that run, with the answers of calls    *)
(* deciding which way they go.                                             *)
(***************************************************************************)
Test == CallOf("test", <<>>)
Not(x) == [node |-> "Not", arg |-> x]
Logical(op, x, y) == [node |-> "Logical", op |-> op, lhs |-> x, rhs |-> y]
Compare(op, x, y) == [node |-> "Comparison", op |-> op, lhs |-> x, rhs |-> y, method |-> FALSE]
Overloaded(op, x, y) == [Compare(op, x, y) EXCEPT !.method = TRUE]
Plus(x, y) == [node |-> "Binop", op |-> "+", lhs |-> x, rhs |-> y]
Member(object, i) == [node |-> "Member", object |-> object, index |-> i]
Matches(object, v) == [node |-> "Matches", body |-> object, tag |-> SomeTag, symbols |-> <<v>>]
Match(expr, arms) == [node |-> "Match", expr |-> expr, arms |-> arms]
Arm(tag, symbols, body) == [tag |-> tag, symbols |-> symbols, body |-> body]
For(v, body) == [node |-> "For", iterable |-> Var(P), symbol |-> v, body |-> body]
SetAt(place, rhs) == [node |-> "Assign", lhs |-> place, rhs |-> rhs]
ReturnWith(x) == [node |-> "Return", expression |-> <<x>>]
Continue == [node |-> "Continue"]
AssertThat(x) == [node |-> "Assert", condition |-> x]
Cast(x) == [node |-> "Cast", arg |-> x]
Note(n) == CallOf("note", <<Number(n)>>)

Runs(p, calls) == [p EXCEPT !.calls = calls]
RunsBody(body, calls) == Runs(Program(<<P>>, body), calls)

Simple == {Test, Not(Test), Compare("<", Test, Number(1)), Overloaded("==", Test, Number(1))}
Compound ==
  UNION {{Logical(op, x, y) : x \in Simple, y \in {Test, Not(Test), Matches(CallOf("next", <<>>), A)}} :
           op \in {"and", "or"}}
    \cup {Not(Logical("or", Test, Logical("and", Test, Not(Test)))),
          Logical("and", Logical("or", Test, Test), Test)}

\* Each condition as one and as a value.
Conditions ==
  {RunsBody(Do(<<Set(A, Number(0)), IfElse(c, Do(<<Note(1), Read(A)>>), Note(2)), Note(3)>>), 3) :
     c \in Simple \cup Compound}
  \cup {RunsBody(Do(<<Set(A, c), CallOf("show", <<Var(A), c>>)>>), 4) :
          c \in Simple \cup {Logical("and", Test, Not(Test)), Logical("or", Test, Compare("!=", Test, Number(0)))}}
  \cup {RunsBody(Do(<<While(c, Note(1)), Note(2)>>), 5) : c \in Simple \cup Compound}

\* How a body may end: it goes on, or leaves.
Ends == {Note(1), Break, Continue, ReturnWith(Number(8)), Do(<<Note(1), Break>>)}

\* Statements in the body of a loop.
InLoop ==
  {Do(<<Note(4), IfElse(Test, x, y)>>) : x \in Ends, y \in Ends \cup {Absent}}
  \cup {Do(<<IfElse(Test, x, Absent), Note(5)>>) : x \in Ends}
  \cup {Match(CallOf("next", <<>>), <<Arm(0, <<>>, x), Arm(SomeTag, <<B>>, y)>>) : x, y \in Ends}
  \cup {Match(CallOf("next", <<>>), <<Arm(CatchAll, <<>>, x), Arm(SomeTag, <<Wildcard>>, Note(6))>>) : x \in Ends}

Loops ==
  {RunsBody(Do(<<loop, Note(3)>>), 4) :
     loop \in UNION {{While(Test, body), Forever(body), For(A, Do(<<Read(A), body>>))} : body \in InLoop}}
  \cup {RunsBody(Do(<<While(Test, Do(<<Forever(Do(<<Note(4), IfElse(Test, x, Absent)>>)), y>>)), Note(3)>>), 5) :
          x \in {Break, ReturnWith(Number(8))}, y \in {Note(5), Break, Continue}}

Objectful ==
  {RunsBody(body, 3) : body \in
    {Do(<<SetAt(Member(Var(P), 2), CallOf("read", <<>>)), CallOf("show", <<Member(Var(P), 2)>>)>>),
     Do(<<SetAt([node |-> "Index", object |-> CallOf("f", <<>>), index |-> Test], CallOf("read", <<>>))>>),
     Do(<<[node |-> "Let", symbols |-> <<A, B>>, body |-> Var(P)], Plus(Var(A), Cast(Var(B)))>>),
     Do(<<AssertThat(Logical("and", Test, Test)), Note(1)>>),
     Do(<<AssertThat(Not(Test)), Plus(Plus(Test, Number(1)), Test)>>)}}
  \cup {[RunsBody(Do(<<[node |-> "SetArray", array |-> Var(P), index |-> Test, element |-> Test],
                       [node |-> "ArrayAt", array |-> Var(P), index |-> Test]>>), 3)
           EXCEPT !.arguments = <<103>>]}

\* A closure keeps what its variables were; P is a reference.
X == <<"param", "x">>
LambdaBodies ==
  {Plus(Var(X), Var(A)), Plus(Member(Var(P), 1), Plus(Var(A), Var(X))), Var(P), Number(7), 
   Logical("or", Var(X), Compare("==", Var(A), Var(B))),
   CallOf("method", <<Var(P), Plus(Var(B), Var(A)), Var(X)>>)}
Closures ==
  {[RunsBody(Do(<<Set(A, CallOf("read", <<>>)), Set(B, Number(1)),
                  Set(C, [node |-> "Lambda", lambda |-> 1]), Set(A, Number(5)), CallOf("keep", <<Var(C)>>),
                  CallOf("show", <<[node |-> "CallClosure", symbol |-> C, args |-> <<Test>>]>>)>>), 4)
      EXCEPT !.lambdas = <<[param |-> X, body |-> body, boxed |-> {P}]>>] : body \in LambdaBodies}

\* Functions the compiler writes itself.
Parameters(n) == [i \in 1 .. n |-> <<"param", i>>]
Constructor(n, boxed) ==
  [kind |-> "constructor", params |-> Parameters(n), tag |-> 3, boxed |-> boxed,
   arguments |-> [i \in 1 .. n |-> IF i \in boxed THEN 102 ELSE i], lambdas |-> <<>>, calls |-> 0]
ArrayOf(n, boxed, zero) ==
  [kind |-> "array", params |-> Parameters(1), arguments |-> <<n>>, boxed |-> boxed, zero |-> zero,
   tag |-> IF boxed = {} THEN UnboxedArrayTag ELSE BoxedArrayTag, lambdas |-> <<>>, calls |-> 0]

Written ==
  {Constructor(3, boxed) : boxed \in SUBSET (1 .. 3)} \cup {Constructor(31, {1, 31})}
    \cup {ArrayOf(n, boxed, zero) : n \in {0, 2}, boxed \in {{}, {1}}, zero \in BOOLEAN}

CodegenPrograms == Conditions \cup Loops \cup Objectful \cup Closures \cup Written

-----------------------------------------------------------------------------
SsaPrograms == CodegenPrograms \cup OverLocals \cup InnerLocals \cup OverArguments \cup DeadCode
=============================================================================
