---------------------------- MODULE MCTypeChecking -----------------------------
(***************************************************************************)
(* A small program for TypeChecking, with the types and the traits of      *)
(* unittests/driver.cpp: 1, 2 and 3 are the open variables 'a, 'b and 'c,  *)
(* S: Iterator<T> and T: Num are what the function is generic in, and the  *)
(* variables from U on belong to instances and questions.                  *)
(***************************************************************************)
EXTENDS TypeChecking

IntType == Base("Int")
BoolType == Base("Bool")
List(t, id) == Compound("constructed", "List", <<t>>, id)
Pair(s, t, id) == Compound("constructed", "Pair", <<s, t>>, id)
Fun(input, output, id) == Compound("function", "", <<input, output>>, id)

OpenA == TypeVariable(1, FALSE)
OpenB == TypeVariable(2, FALSE)
OpenC == TypeVariable(3, FALSE)
S == TypeVariable(4, TRUE)
T == TypeVariable(5, TRUE)
U == TypeVariable(6, TRUE)
V == TypeVariable(7, TRUE)
C == TypeVariable(8, TRUE)
D == TypeVariable(9, TRUE)
W == TypeVariable(10, TRUE)
X == TypeVariable(11, TRUE)

Num == Trait("Num", <<>>, 100)
Iterator(t, id) == Trait("Iterator", <<t>>, id)
Iterable(t, id) == Trait("Iterable", <<t>>, id)

\* impl Iterator<U> for List<U>; impl Iterable<C> for D where D: Iterator<C>
SomeInstances ==
    ("Num" :> <<Instance(IntType, <<>>)>>) @@ ("Show" :> <<>>) @@
    ("Iterator" :> <<Instance(List(U, 200), <<U>>)>>) @@ ("Iterable" :> <<Instance(D, <<C>>)>>)

SomeStart ==
    LET fixed == (4 :> {Iterator(T, 101)}) @@ (5 :> {Num}) @@ (6 :> {}) @@ (7 :> {Num}) @@ (8 :> {})
                 @@ (9 :> {Iterator(C, 102)}) @@ (10 :> {}) @@ (11 :> {Iterator(W, 105)})
        of == {<<{}, {}, {}>>, <<{Num}, {}, {Num}>>, <<{Num}, {Iterator(OpenC, 103)}, {}>>,
               <<{}, {Iterator(OpenC, 103)}, {Num}>>}
    IN  {World(4 .. 11, (1 :> o[1]) @@ (2 :> o[2]) @@ (3 :> o[3]) @@ fixed, SomeInstances, 1000) : o \in of}

\* impl Show for V where V: Num, and instances that may or may not overlap it
SomeImpls ==
    {[trait |-> "Show", instance |-> Instance(V, <<>>)],
     [trait |-> "Show", instance |-> Instance(List(W, 201), <<>>)],
     [trait |-> "Num", instance |-> Instance(List(U, 202), <<>>)]}

SomeEquations ==
    {<<OpenA, OpenB>>, <<OpenB, OpenA>>, <<OpenA, IntType>>, <<OpenA, T>>, <<OpenB, S>>, <<OpenC, BoolType>>,
     <<List(OpenB, 300), OpenA>>, <<List(IntType, 301), OpenB>>,
     <<Pair(OpenA, OpenA, 302), Pair(OpenB, S, 303)>>,
     <<Fun(OpenA, OpenC, 304), Fun(IntType, OpenA, 305)>>}

SomeIterations ==
    {[type |-> t, trait |-> "Iterable"] : t \in {OpenB, S, List(OpenA, 306)}}

SomeQuestions ==
    {<<IntType, V>>, <<BoolType, V>>, <<List(IntType, 310), V>>, <<S, W>>, <<W, V>>, <<S, X>>,
     <<T, V>>, <<List(IntType, 311), X>>, <<List(T, 312), D>>,
     <<Pair(S, S, 313), Pair(W, X, 314)>>, <<Pair(W, X, 315), Pair(V, V, 316)>>}

SomeConcrete ==
    LET L(t) == [tag |-> "constructed", name |-> "List", params |-> <<t>>]
        simple == {IntType, BoolType, S, T}
    IN  simple \cup {L(t) : t \in simple} \cup {L(L(IntType))}
            \cup {[tag |-> "constructed", name |-> "Pair", params |-> <<s, s>>] :
                    s \in {IntType, L(IntType)}}
===============================================================================
