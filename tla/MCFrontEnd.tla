------------------------------ MODULE MCFrontEnd ------------------------------
EXTENDS FrontEnd, Written

(* The trees that are written and read back. *)

Lit(value) == IntNode(value, "", FALSE, FALSE)
X == NullaryNode("x")
Foo == NullaryNode("Foo")
Tp(name) == TypeName(name, <<>>)
Of(name, parameter) == TypeName(name, <<parameter>>)
Call(name, arguments) == FunctionCallNode(name, arguments, NoNode)

Leaves == {X, Foo, Lit(1), IntNode(-2, "", FALSE, TRUE)}

Infix(ls, rs) ==
    {LogicalNode(l, op, r) : l \in ls, op \in {"or", "and"}, r \in rs}
        \cup {ComparisonNode(l, op, r) : l \in ls, op \in {"==", "<"}, r \in rs}
        \cup {BinopNode(l, op, r) : l \in ls, op \in {"+", "-", "*"}, r \in rs}
        \cup {Call("range", <<l, r>>) : l \in ls, r \in rs}

Unary(es) ==
    {BinopNode(Lit(0), "-", e) : e \in es}
        \cup {CastNode(e, Tp("Int")) : e \in es}
        \cup {MemberAccessNode(e, "m") : e \in es}
        \cup {MethodCallNode(e, "m", <<e, X>>) : e \in es}
        \cup {IndexNode(e, X) : e \in es}
        \cup {LambdaNode("x", e) : e \in es}
        \cup {CreateList(<<e>>) : e \in es}

One == Infix({X}, {X}) \cup Unary({X})
Two == Infix(One, Leaves) \cup Infix(Leaves, One) \cup Infix(One, One)
            \cup Unary(One \cup {Foo})

\* An operator on each side of another, two levels down.
Spine == {BinopNode(X, "-", X), ComparisonNode(X, "<", X), LambdaNode("x", X),
          CastNode(X, Tp("Int"))}
Three == {op \in Infix(Infix(Spine, {X}), {X}) \cup Infix({X}, Infix({X}, Spine)) :
            op.kind # "FunctionCall"}

Others == {
    CreateList(<<>>), CreateList(<<X>>), FunctionCallNode("new", <<>>, Tp("Vector")),
    FunctionCallNode("make", <<X, Lit(1)>>, Of("Set", Of("Vector", Tp("Int")))),
    FunctionCallNode("make", <<>>, TypeName("Function", <<Tp("Int"), Tp("Int")>>)),
    Call("f", <<X, LambdaNode("x", X)>>), Call("inclusiveRange", <<X, X>>),
    BoolNode(TRUE), BoolNode(FALSE), StringLiteralNode("text"), IntNode(9, "", TRUE, FALSE),
    ComparisonNode(X, ">", X), ComparisonNode(X, ">=", X), ComparisonNode(X, "<=", X),
    ComparisonNode(X, "!=", X), BinopNode(X, "/", X), BinopNode(X, "%", X),
    CastNode(X, TypeName("Function", <<Tp("Int"), Of("List", Tp("Int")), Tp("Bool")>>)),
    CastNode(X, TypeName("Function", <<Tp("Bool")>>))}

Expressions == Two \cup Three \cup Others

Body == BlockNode(<<PassNode>>)
Nested == BlockNode(<<IfElseNode(X, BlockNode(<<ForeverNode(BlockNode(<<BreakNode>>)), PassNode>>),
                                 Body), ContinueNode>>)
Arrow(from, to) == TypeName("Function", <<from, to>>)
OnT(constraints) == TypeParam("T", constraints)

Statements == {
    <<IfElseNode(X, PassNode, NoNode), PassNode>>,
    <<IfElseNode(X, Nested, IfElseNode(Foo, Body, IfElseNode(X, PassNode, Nested)))>>,
    <<IfElseNode(LetNode("Some", <<"x">>, X, TRUE), Body, Body)>>,
    <<WhileNode(LetNode("Some", <<"x", "y">>, X, TRUE), Nested)>>,
    <<WhileNode(X, AssignNode(X, BinopNode(X, "+", Lit(1))))>>,
    <<ForNode("x", Call("range", <<X, Lit(1)>>), Nested), AssertNode(X)>>,
    <<ForeverNode(Body), ReturnNode(X), ReturnNode(NoNode)>>,
    <<VariableDefNode("x", X), AssignNode(IndexNode(X, X), CreateList(<<X>>))>>,
    <<AssignNode(X, BinopNode(X, "-", X)), AssignNode(X, BinopNode(X, "*", X))>>,
    <<AssignNode(MemberAccessNode(X, "m"), BinopNode(MemberAccessNode(X, "m"), "/", X)),
      AssignNode(X, BinopNode(X, "%", X))>>,
    <<LetNode("Some", <<>>, X, FALSE), CreateList(<<X>>)>>,
    <<MatchNode(X, <<MatchArm("Some", <<"x">>, ReturnNode(X)), MatchArm("None", <<>>, NoNode),
                     MatchArm("Pair", <<"x", "y">>, Nested), MatchArm("Foo", <<>>, X)>>), PassNode>>,
    <<FunctionDefNode("f", Nested, <<OnT(<<Tp("Num")>>), TypeParam("S", <<>>)>>, <<"x", "y">>,
                      TypeName("Function", <<Tp("T"), Tp("S"), Tp("Unit")>>)),
      FunctionDefNode("g", ReturnNode(X), <<>>, <<>>, TypeName("Function", <<Of("Vector", Tp("Int"))>>))>>,
    <<ForeignDeclNode("f", <<"S", "T">>, <<"x">>, Arrow(Of("Vector", Tp("T")), Tp("S"))),
      ForeignDeclNode("g", <<>>, <<>>, TypeName("Function", <<Tp("Unit")>>))>>,
    <<EnumDeclaration("Foo", <<>>, <<ConstructorSpec("Bar", <<Tp("Int"), Tp("Int")>>)>>), PassNode>>,
    <<EnumDeclaration("Option", <<OnT(<<>>)>>, <<ConstructorSpec("Some", <<Tp("T")>>),
                                                 ConstructorSpec("None", <<>>)>>),
      ImplNode(<<>>, Of("Option", Tp("T")),
               <<MethodDefNode("m", Body, <<>>, <<"self", "x">>,
                               TypeName("Function", <<Tp("Self"), Tp("Int"), Tp("T")>>))>>, NoNode),
      PassNode>>,
    <<StructDefNode("Point", <<StructVarNode("m", Tp("T")), StructVarNode("x", Tp("Int"))>>,
                    <<OnT(<<Tp("Num"), Of("Iterator", Tp("S"))>>), TypeParam("S", <<>>)>>,
                    <<TypeParam("S", <<Tp("Num")>>)>>),
      ImplNode(<<>>, TypeName("Point", <<Tp("T"), Tp("S")>>),
               <<MethodDefNode("m", Nested, <<OnT(<<Tp("Hash")>>)>>, <<"self">>,
                               Arrow(Tp("Self"), Tp("Unit"))),
                 MethodDefNode("n", PassNode, <<>>, <<"x">>, Arrow(Tp("Int"), Tp("Unit")))>>, NoNode)>>,
    <<StructDefNode("Empty", <<StructVarNode("x", Arrow(Tp("Int"), Tp("Int")))>>, <<>>, <<>>), PassNode>>,
    <<TypeAliasNode("Name", Of("List", Tp("Int"))), TraitDefNode("Empty", <<>>, <<>>), PassNode>>,
    <<TraitDefNode("Iterable", <<"S", "T">>,
        <<AssociatedTypeNode(TypeParam("Iter", <<Of("Iterator", Tp("S"))>>)),
          AssociatedTypeNode(TypeParam("Elem", <<>>)),
          TraitMethodNode("next", <<"self">>, Arrow(Tp("Self"), Of("Option", Tp("S")))),
          TraitMethodNode("size", <<>>, TypeName("Function", <<Tp("Int")>>))>>), PassNode>>,
    <<ImplNode(<<OnT(<<Tp("Num")>>), TypeParam("S", <<>>)>>, Of("List", Tp("T")),
               <<TypeAliasNode("Iter", Tp("Int")),
                 MethodDefNode("m", Body, <<>>, <<"self">>, Arrow(Tp("Self"), Tp("Unit")))>>,
               Of("Iterable", Tp("T"))), PassNode>>,
    <<ImplNode(<<TypeParam("S", <<>>), OnT(<<Tp("Num"), Tp("Hash")>>)>>, Tp("T"), <<>>, NoNode),
      ImplNode(<<>>, Tp("Int"), <<>>, Tp("Num"))>>,
    <<>>}

\* Functions whose bodies return, or not, in all ways of two statements in a
\* loop or in a branch, alone or inside a further loop.
Block(s) == BlockNode(<<s>>)
Jumps == {ReturnNode(X), Call("panic", <<X>>), PassNode, BreakNode, ContinueNode}
Branches == {IfElseNode(X, Block(s), NoNode) : s \in {ReturnNode(X), BreakNode, ContinueNode}}
                \cup {IfElseNode(X, Block(ReturnNode(X)), Block(s)) : s \in Jumps}
InLoops == {BlockNode(<<s, t>>) : s, t \in Jumps \cup Branches}
Loops(bodies) == {WhileNode(X, b) : b \in bodies} \cup {ForNode("x", X, b) : b \in bodies}
                    \cup {ForeverNode(b) : b \in bodies}
Inner == {WhileNode(X, Block(BreakNode)), ForeverNode(Block(BreakNode)), ForeverNode(Block(PassNode))}
Around == {BlockNode(<<loop, s>>) : loop \in Inner, s \in Jumps}
Plainly == Jumps \ {BreakNode, ContinueNode}
Arms == {MatchNode(X, <<MatchArm("Some", <<"x">>, s), MatchArm("None", <<>>, Block(t))>>) : s, t \in Plainly}
Bodies == {Block(s) : s \in Plainly \cup Arms \cup Loops(InLoops \cup Around)}
            \cup {BlockNode(<<s, t>>) : s \in Arms, t \in Plainly}

Functions == {FunctionDefNode("f", body, <<>>, <<>>, TypeName("Function", <<Tp("Int")>>)) : body \in Bodies}

\* The styles: plain, everything at once, and the last line not ended.
Plain == [width |-> 4, breaks |-> FALSE, blank |-> FALSE, comments |-> FALSE,
          continued |-> FALSE, final |-> TRUE]
Cluttered == [width |-> 2, breaks |-> TRUE, blank |-> TRUE, comments |-> TRUE,
              continued |-> TRUE, final |-> TRUE]
Unended == [Plain EXCEPT !.final = FALSE, !.width = 1]

\* A program, its style, and how many of its statements an imported file holds.
Case(program, style, imported) == [program |-> program, style |-> style, imported |-> imported]

Cases ==
    {Case(<<e>>, Plain, 0) : e \in Expressions \cup Functions}
        \cup {Case(p, style, 0) : p \in Statements, style \in {Plain, Cluttered, Unended}}
        \cup UNION {{Case(p, style, n) : style \in {Cluttered, Unended},
                                         n \in {n \in 1 .. Len(p) :
                                                n < Len(p) => ~OwnImpl(p[n], p[n + 1])}} :
                    p \in Statements}

TreeInit ==
    \E c \in Cases :
        /\ written = [kind |-> "tree", tree |-> ProgramNode(c.program)]
        /\ InitLexer(ProgramPieces(c.program, c.style, c.imported),
                     [name \in {"head"} |->
                        Pieces(SubSeq(c.program, 1, c.imported), c.style)])

Indents == UNION {[1 .. n -> {0, 1, 2, 4}] : n \in 0 .. 4}

LineInit ==
    \E indents \in Indents, style \in {Plain, Cluttered, Unended} :
        LET text == LayOut([k \in DOMAIN indents |-> [depth |-> indents[k], text |-> T("pass")]],
                           [style EXCEPT !.width = 1])
        IN  /\ written = IF BadLines(text) = {} THEN [kind |-> "lines"]
                        ELSE [kind |-> "tree", tree |-> Refused]
            /\ InitLexer(text, <<>>)

LiteralInit ==
    \E digits \in 0 .. 33, negative \in BOOLEAN, suffix \in {"", "i", "u", "u8"} :
        LET literal == [IntLit(digits, suffix) EXCEPT !.value.negative = negative]
        IN  /\ written = [kind |-> "literal", literal |-> literal.value]
            /\ InitLexer(LayOut(<<[depth |-> 0, text |-> <<literal>>]>>, Plain), <<>>)

\* Texts that are refused: an import of a file that is not there, a minus
\* sign without a blank before a number, a last line of blanks only that no
\* newline ends, and an alias in the methods of a type.
Refusals == {
    <<Import("nowhere"), Tok("pass"), Newline>>,
    <<LidentTok("x"), Blanks(1), Tok("-"), IntLit(1, ""), Newline>>,
    <<Tok("pass"), Newline, Blanks(1)>>,
    Pieces(<<ImplNode(<<>>, Tp("Int"), <<TypeAliasNode("Iter", Tp("Int"))>>, NoNode)>>, Plain)}

RefusedInit ==
    \E pieces \in Refusals :
        /\ written = [kind |-> "tree", tree |-> Refused]
        /\ InitLexer(pieces, <<>>)

Init == InitParser /\ (TreeInit \/ LineInit \/ LiteralInit \/ RefusedInit)

Spec == Init /\ [][Next]_vars
===============================================================================
