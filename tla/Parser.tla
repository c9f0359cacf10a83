-------------------------------- MODULE Parser --------------------------------
(***************************************************************************)
(* The recursive-descent parser (src/parser/parser.cpp): one operator per  *)
(* function of the parser.  A function is given the position of the token  *)
(* it starts at and returns the node it builds and the position after it;  *)
(* position 0 is the exception the parser throws at the first token that   *)
(* does not fit (LexerError), and whatever starts at 0 ends at 0.          *)
(*                                                                         *)
(* The functions that call each other in a circle do so through P, the     *)
(* recursive function Parse at the end: P[rule, "", i] is one call of the  *)
(* rule, P[rule, ",", i] a list of its results with a separator, and       *)
(* P[rule, "*", i] the results of a loop that goes on while Starts says.   *)
(***************************************************************************)
EXTENDS Layout, Ast, Integers

CONSTANTS
    WordBits,           \* the width of Int and UInt
    ByteBits            \* the width of UInt8

VARIABLE tree           \* the parsed program, NoNode before it is parsed

(* Two tokens of look-ahead.  The stream ends in END, or in EOF when the   *)
(* lexer gave up, and advance() does not move past that.                   *)
Token(i) == tokens[IF i <= Len(tokens) THEN i ELSE Len(tokens)]
Is(i, type) == i > 0 /\ Token(i).type = type
IsOneOf(i, types) == i > 0 /\ Token(i).type \in types
Value(i) == Token(i).value

Failed == [node |-> NoNode, next |-> 0]
Parsed(node, next) == IF next = 0 THEN Failed ELSE [node |-> node, next |-> next]

\* The position after the given tokens, 0 if other tokens are there.
Expect(i, types) ==
    IF i > 0 /\ \A k \in DOMAIN types : Is(i + k - 1, types[k])
    THEN i + Len(types) ELSE 0

\* accept(): the position after the token if it is there.
Accept(i, type) == IF Is(i, type) THEN i + 1 ELSE i

IdentTypes == {"LIDENT", "UIDENT"}
ExpectIdent(i) == IF IsOneOf(i, IdentTypes) THEN i + 1 ELSE 0

\* The values of the tokens of a comma-separated list of names at i.
RECURSIVE NamesAt(_, _)
NamesAt(i, type) ==
    LET next == Expect(i, <<type>>)
        rest == NamesAt(next + 1, type)
    IN  CASE next = 0 -> Failed
          [] Is(next, ",") -> Parsed(<<Value(i)>> \o rest.node, rest.next)
          [] OTHER -> Parsed(<<Value(i)>>, next)

-------------------------------------------------------------------------------
(* Types. *)

\* What follows a name, in angle brackets or parentheses, if anything does.
Enclosed(P, rule, open, close, i) ==
    IF ~Is(i, open) THEN Parsed(<<>>, i)
    ELSE LET list == P[rule, ",", i + 1]
         IN  Parsed(list.node, Expect(list.next, <<close>>))

SimpleType(P, i) ==
    LET inner == P["type", "", i + 1]
    IN  IF IsOneOf(i, IdentTypes) THEN Parsed(TypeName(Value(i), <<>>), i + 1)
        ELSE IF Is(i, "[")
        THEN Parsed(TypeName("Vector", <<inner.node>>), Expect(inner.next, <<"]">>))
        ELSE Failed

TraitName(P, i) ==
    LET parameters == Enclosed(P, "type", "<", ">", Expect(i, <<"UIDENT">>))
    IN  Parsed(TypeName(Value(i), parameters.node), parameters.next)

ConstructedType(P, i) ==
    IF Is(i, "UIDENT") THEN P["trait_name", "", i] ELSE P["simple_type", "", i]

ArrowType(P, i) ==
    LET from == P["constructed_type", "", i]
        to == P["constructed_type", "", from.next + 1]
    IN  IF Is(from.next, "->")
        THEN Parsed(TypeName("Function", <<from.node, to.node>>), to.next)
        ELSE from

Type(P, i) ==
    LET from == IF Is(i + 1, "|") THEN Parsed(<<>>, i + 1) ELSE P["arrow_type", ",", i + 1]
        to == P["constructed_type", "", Expect(from.next, <<"|", "->">>)]
    IN  IF Is(i, "|")
        THEN Parsed(TypeName("Function", Append(from.node, to.node)), to.next)
        ELSE P["arrow_type", "", i]

ConstrainedTypeParam(P, i) ==
    LET name == Expect(i, <<"UIDENT">>)
        constraints == P["trait_name", "+", name + 1]
    IN  IF Is(name, ":")
        THEN Parsed(TypeParam(Value(i), constraints.node), constraints.next)
        ELSE Parsed(TypeParam(Value(i), <<>>), name)

WhereClause(P, i) ==
    IF Is(i, "where") THEN P["constrained_type_param", ",", i + 1] ELSE Parsed(<<>>, i)

ConstrainedTypeParams(P, i) == Enclosed(P, "constrained_type_param", "<", ">", i)

TypeParams(i) ==
    LET names == NamesAt(i + 1, "UIDENT")
    IN  IF Is(i, "<") THEN Parsed(names.node, Expect(names.next, <<">">>))
        ELSE Parsed(<<>>, i)

ConstructorSpecRule(P, i) ==
    LET members == Enclosed(P, "type", "(", ")", Expect(i, <<"UIDENT">>))
    IN  Parsed(ConstructorSpec(Value(i), members.node), Expect(members.next, <<"EOL">>))

ParamAndType(P, i) ==
    LET type == P["type", "", Expect(i, <<"LIDENT", ":">>)]
    IN  Parsed([name |-> Value(i), type |-> type.node], type.next)

\* The parameters, with the function type they make; a method may leave out
\* the type of its first parameter, which is then Self.
ParamsAndTypes(P, i, isMethod) ==
    LET first == Expect(i, <<"(">>)
        selfOnly == isMethod /\ Is(first, "LIDENT") /\ ~Is(first + 1, ":")
        self == [name |-> Value(first), type |-> TypeName("Self", <<>>)]
        rest == P["param_and_type", ",", first + 2]
        params == CASE ~Is(first, "LIDENT") -> Parsed(<<>>, first)
                    [] selfOnly /\ Is(first + 1, ",") ->
                            Parsed(<<self>> \o rest.node, rest.next)
                    [] selfOnly -> Parsed(<<self>>, first + 1)
                    [] OTHER -> P["param_and_type", ",", first]
        close == Expect(params.next, <<")">>)
        result == IF Is(close, "->") THEN P["type", "", close + 1]
                  ELSE Parsed(TypeName("Unit", <<>>), close)
    IN  Parsed([params |-> [k \in DOMAIN params.node |-> params.node[k].name],
                type |-> TypeName("Function",
                            Append([k \in DOMAIN params.node |-> params.node[k].type],
                                   result.node))],
               result.next)

\* The names a pattern binds.
Parameters(i) ==
    LET names == NamesAt(i + 1, "LIDENT")
    IN  IF Is(i, "(") THEN Parsed(names.node, Expect(names.next, <<")">>))
        ELSE Parsed(<<>>, i)

-------------------------------------------------------------------------------
(* Literals. *)

\* A mutant: the least Int is taken to be out of range.
IntegerLiteralNarrow(i) ==
    LET literal == Value(i)
        value == IF literal.negative THEN -literal.digits ELSE literal.digits
        half == 2 ^ (WordBits - 1)
        signed == literal.suffix = "i" \/ (literal.suffix = "" /\ literal.negative)
        fits == IF signed THEN value \in 1 - half .. half - 1
                ELSE /\ ~literal.negative
                     /\ value < 2 * half
                     /\ literal.suffix = "u8" => value < 2 ^ ByteBits
        suffix == IF literal.suffix = "" /\ value >= half THEN "u" ELSE literal.suffix
    IN  Parsed(IntNode(IF value >= half THEN value - 2 * half ELSE value, suffix,
                   FALSE, literal.negative),
               IF fits THEN i + 1 ELSE 0)

(* A literal has to fit the type its suffix, or its sign, gives it; one    *)
(* without either that is too large for Int becomes a UInt.  The node      *)
(* holds the bits, read as a signed word.                                  *)
IntegerLiteral(i) ==
    LET literal == Value(i)
        value == IF literal.negative THEN -literal.digits ELSE literal.digits
        half == 2 ^ (WordBits - 1)
        signed == literal.suffix = "i" \/ (literal.suffix = "" /\ literal.negative)
        fits == IF signed THEN value \in -half .. half - 1
                ELSE /\ ~literal.negative
                     /\ value < 2 * half
                     /\ literal.suffix = "u8" => value < 2 ^ ByteBits
        suffix == IF literal.suffix = "" /\ value >= half THEN "u" ELSE literal.suffix
    IN  Parsed(IntNode(IF value >= half THEN value - 2 * half ELSE value, suffix,
                   FALSE, literal.negative),
               IF fits THEN i + 1 ELSE 0)

CharacterLiteral(i) == Parsed(IntNode(Value(i), "", TRUE, FALSE), i + 1)

-------------------------------------------------------------------------------
(* Expressions, from the tightest binding to the loosest. *)

ListLiteral(P, i) ==
    LET elements == P["expression", ",", i + 1]
    IN  IF Is(i + 1, "]")
        THEN Parsed(FunctionCallNode("new", <<>>, TypeName("Vector", <<>>)), i + 2)
        ELSE Parsed(CreateList(elements.node), Expect(elements.next, <<"]">>))

UnaryExpression(P, i) ==
    LET interior == P["expression", "", i + 1]
    IN  CASE Is(i, "(") -> Parsed(interior.node, Expect(interior.next, <<")">>))
          [] Is(i, "True") -> Parsed(BoolNode(TRUE), i + 1)
          [] Is(i, "False") -> Parsed(BoolNode(FALSE), i + 1)
          [] Is(i, "[") -> ListLiteral(P, i)
          [] Is(i, "INT_LIT") -> IntegerLiteral(i)
          [] Is(i, "CHAR_LIT") -> CharacterLiteral(i)
          [] Is(i, "STRING_LIT") -> Parsed(StringLiteralNode(Value(i)), i + 1)
          [] IsOneOf(i, IdentTypes) -> Parsed(NullaryNode(Value(i)), i + 1)
          [] OTHER -> Failed

LambdaExpression(P, i) ==
    LET body == P["expression", "", i + 2]
    IN  IF Is(i, "LIDENT") /\ Is(i + 1, "->")
        THEN Parsed(LambdaNode(Value(i), body.node), body.next)
        ELSE P["unary_expression", "", i]

\* ( expressions ), or $ expression
Arguments(P, i) ==
    LET applied == P["expression", "", i + 1]
        list == P["expression", ",", i + 1]
    IN  CASE Is(i, "$") -> Parsed(<<applied.node>>, applied.next)
          [] Is(i, "(") /\ Is(i + 1, ")") -> Parsed(<<>>, i + 2)
          [] Is(i, "(") -> Parsed(list.node, Expect(list.next, <<")">>))
          [] OTHER -> Failed

\* The list type [T] is not tried here: it would be taken for a list literal.
StaticFunctionCallExpression(P, i) ==
    LET type == P["type", "", i]
        name == Expect(type.next, <<"::", "LIDENT">>)
        arguments == Arguments(P, name)
    IN  IF \/ Is(i, "UIDENT") /\ IsOneOf(i + 1, {"<", "::"})
           \/ Is(i, "|")
        THEN Parsed(FunctionCallNode(Value(name - 1), arguments.node, type.node),
                    arguments.next)
        ELSE P["lambda_expression", "", i]

FuncCallExpression(P, i) ==
    LET arguments == Arguments(P, i + 1)
    IN  IF IsOneOf(i, IdentTypes) /\ IsOneOf(i + 1, {"(", "$"})
        THEN Parsed(FunctionCallNode(Value(i), arguments.node, NoNode), arguments.next)
        ELSE P["static_function_call_expression", "", i]

\* One round of the loop over what may follow an operand: .name, .name(...),
\* .name $ ..., or [index]; the node is a function of the object.
PostfixRule(P, i) ==
    LET name == Expect(i, <<".", "LIDENT">>)
        arguments == Arguments(P, name)
        index == P["expression", "", i + 1]
    IN  CASE Is(i, "[") ->
                Parsed([kind |-> "Index", index |-> index.node],
                       Expect(index.next, <<"]">>))
          [] IsOneOf(name, {"(", "$"}) ->
                Parsed([kind |-> "MethodCall", methodName |-> Value(name - 1),
                        arguments |-> arguments.node], arguments.next)
          [] OTHER ->
                Parsed([kind |-> "MemberAccess", memberName |-> Value(name - 1)], name)

MethodMemberIdxExpression(P, i) ==
    LET first == P["func_call_expression", "", i]
        rest == P["postfix", "*", first.next]
    IN  Parsed(FoldLeft(LAMBDA object, postfix :
                            CASE postfix.kind = "Index" -> IndexNode(object, postfix.index)
                              [] postfix.kind = "MethodCall" ->
                                    MethodCallNode(object, postfix.methodName, postfix.arguments)
                              [] OTHER -> MemberAccessNode(object, postfix.memberName),
                        first.node, rest.node),
               rest.next)

CastExpression(P, i) ==
    LET expr == P["method_member_idx_expression", "", i]
        type == P["type", "", expr.next + 1]
    IN  IF Is(expr.next, "as") THEN Parsed(CastNode(expr.node, type.node), type.next) ELSE expr

NegationExpression(P, i) ==
    LET operand == P["cast_expression", "", i + 1]
    IN  IF Is(i, "-")
        THEN Parsed(BinopNode(IntNode(0, "", FALSE, FALSE), "-", operand.node), operand.next)
        ELSE P["cast_expression", "", i]

\* One round of the loop of a left-associative operator.
OperatorRule(P, operand, i) ==
    LET rhs == P[operand, "", i + 1]
    IN  Parsed([op |-> Token(i).type, rhs |-> rhs.node], rhs.next)

LeftAssociative(first, rest) ==
    Parsed(FoldLeft(LAMBDA lhs, operation : BinopNode(lhs, operation.op, operation.rhs),
                    first.node, rest.node),
           rest.next)

MultiplicativeExpression(P, i) ==
    LET first == P["negation_expression", "", i]
    IN  LeftAssociative(first, P["multiplicative_operator", "*", first.next])

AdditiveExpression(P, i) ==
    LET first == P["multiplicative_expression", "", i]
    IN  LeftAssociative(first, P["additive_operator", "*", first.next])

RangeExpression(P, i) ==
    LET lhs == P["additive_expression", "", i]
        rhs == P["additive_expression", "", lhs.next + 1]
        CallTo(function) == Parsed(FunctionCallNode(function, <<lhs.node, rhs.node>>, NoNode),
                                  rhs.next)
    IN  CASE Is(lhs.next, "to") -> CallTo("inclusiveRange")
          [] Is(lhs.next, "til") -> CallTo("range")
          [] OTHER -> lhs

\* A comparison of the results of two calls of a rule, or the first alone.
Compared(lhs, rhs, operators) ==
    IF IsOneOf(lhs.next, operators)
    THEN Parsed(ComparisonNode(lhs.node, Token(lhs.next).type, rhs.node), rhs.next)
    ELSE lhs

RelationalExpression(P, i) ==
    LET lhs == P["range_expression", "", i]
    IN  Compared(lhs, P["range_expression", "", lhs.next + 1], {">", "<", ">=", "<="})

EqualityExpression(P, i) ==
    LET lhs == P["relational_expression", "", i]
    IN  Compared(lhs, P["relational_expression", "", lhs.next + 1], {"==", "!="})

\* A mutant: what follows an "and" is read as a whole expression.
AndExpressionLoose(P, i) ==
    LET lhs == P["equality_expression", "", i]
        rhs == P["expression", "", lhs.next + 1]
    IN  IF Is(lhs.next, "and")
        THEN Parsed(LogicalNode(lhs.node, "and", rhs.node), rhs.next) ELSE lhs

AndExpression(P, i) ==
    LET lhs == P["equality_expression", "", i]
        rhs == P["and_expression", "", lhs.next + 1]
    IN  IF Is(lhs.next, "and")
        THEN Parsed(LogicalNode(lhs.node, "and", rhs.node), rhs.next) ELSE lhs

Expression(P, i) ==
    LET lhs == P["and_expression", "", i]
        rhs == P["expression", "", lhs.next + 1]
    IN  IF Is(lhs.next, "or")
        THEN Parsed(LogicalNode(lhs.node, "or", rhs.node), rhs.next) ELSE lhs

-------------------------------------------------------------------------------
(* Statements.  The rule for a statement returns a sequence of nodes:      *)
(* empty for an empty line, and two for a type declared with its methods.  *)

Line(node, i) == Parsed(node, Expect(i, <<"EOL">>))

StatementList(P, i) ==
    LET list == P["statement", "*", i]
    IN  Parsed(FlattenSeq(list.node), list.next)

IndentedBlock(P, i) ==
    LET body == P["statement_list", "", Expect(i, <<"EOL", "INDENT">>)]
    IN  Parsed(BlockNode(body.node), Expect(body.next, <<"DEDENT">>))

\* The body of a compound statement.  After a colon an empty line gives a
\* null pointer.
Suite(P, i) ==
    LET body == P["statement", "", Expect(i, <<":">>)]
    IN  IF Is(i, "EOL") THEN P["indented_block", "", i]
        ELSE Parsed(CASE Len(body.node) = 0 -> NoNode
                      [] Len(body.node) = 1 -> body.node[1]
                      [] OTHER -> BlockNode(body.node),
                    body.next)

LetExpression(P, i) ==
    LET params == Parameters(Expect(i, <<"let", "UIDENT">>))
        body == P["expression", "", Expect(params.next, <<":=">>)]
    IN  Parsed(LetNode(Value(i + 1), params.node, body.node, TRUE), body.next)

Condition(P, i) == IF Is(i, "let") THEN P["let_expression", "", i] ELSE P["expression", "", i]

PassStatement(i) == Parsed(PassNode, Expect(i, <<"pass", "EOL">>))
BreakStatement(i) == Parsed(BreakNode, Expect(i, <<"break", "EOL">>))
ContinueStatement(i) == Parsed(ContinueNode, Expect(i, <<"continue", "EOL">>))

IfHelper(P, i) ==
    LET condition == P["condition", "", i]
        body == P["suite", "", condition.next]
        elseBody == CASE Is(body.next, "elif") -> P["if_helper", "", body.next + 1]
                      [] Is(body.next, "else") -> P["suite", "", body.next + 1]
                      [] OTHER -> Parsed(NoNode, body.next)
    IN  Parsed(IfElseNode(condition.node, body.node, elseBody.node), elseBody.next)

IfStatement(P, i) == P["if_helper", "", Expect(i, <<"if">>)]

AssertStatement(P, i) ==
    LET condition == P["expression", "", Expect(i, <<"assert">>)]
    IN  Line(AssertNode(condition.node), condition.next)

TypeAlias(P, i) ==
    LET type == P["type", "", Expect(i, <<"type", "UIDENT", "=">>)]
    IN  Line(TypeAliasNode(Value(i + 1), type.node), type.next)

FunctionDefinition(P, i) ==
    LET signature == ParamsAndTypes(P, ExpectIdent(Expect(i, <<"def">>)), FALSE)
        typeParams == P["where_clause", "", signature.next]
        body == P["suite", "", typeParams.next]
    IN  Parsed(FunctionDefNode(Value(i + 1), body.node, typeParams.node,
                           signature.node.params, signature.node.type), body.next)

MethodDefinition(P, i) ==
    LET signature == ParamsAndTypes(P, ExpectIdent(Expect(i, <<"def">>)), TRUE)
        typeParams == P["where_clause", "", signature.next]
        body == P["suite", "", typeParams.next]
    IN  Parsed(MethodDefNode(Value(i + 1), body.node, typeParams.node,
                         signature.node.params, signature.node.type), body.next)

ForStatement(P, i) ==
    LET iterable == P["expression", "", Expect(i, <<"for", "LIDENT", "in">>)]
        body == P["suite", "", iterable.next]
    IN  Parsed(ForNode(Value(i + 1), iterable.node, body.node), body.next)

ForeignDeclaration(P, i) ==
    LET typeParams == TypeParams(ExpectIdent(Expect(i, <<"foreign">>)))
        signature == ParamsAndTypes(P, typeParams.next, FALSE)
    IN  Line(ForeignDeclNode(Value(i + 1), typeParams.node, signature.node.params,
                            signature.node.type), signature.next)

ForeverStatement(P, i) ==
    LET body == P["suite", "", Expect(i, <<"forever">>)]
    IN  Parsed(ForeverNode(body.node), body.next)

WhileStatement(P, i) ==
    LET condition == P["condition", "", Expect(i, <<"while">>)]
        body == P["suite", "", condition.next]
    IN  Parsed(WhileNode(condition.node, body.node), body.next)

LetStatement(P, i) ==
    LET let == P["let_expression", "", i]
    IN  Line([let.node EXCEPT !.isExpression = FALSE], let.next)

\* The body of an arm after => is one statement, or none.
MatchArmRule(P, i) ==
    LET params == Parameters(Expect(i, <<"UIDENT">>))
        body == P["statement", "", Expect(params.next, <<"=>">>)]
        block == P["indented_block", "", params.next]
    IN  IF Is(params.next, "EOL")
        THEN Parsed(MatchArm(Value(i), params.node, block.node), block.next)
        ELSE Parsed(MatchArm(Value(i), params.node,
                             IF body.node = <<>> THEN NoNode ELSE body.node[1]),
                    IF body.next > 0 /\ Len(body.node) > 1 THEN 0 ELSE body.next)

MatchStatement(P, i) ==
    LET expr == P["expression", "", Expect(i, <<"match">>)]
        arms == P["match_arm", "*", Expect(expr.next, <<"EOL", "INDENT">>)]
    IN  Parsed(MatchNode(expr.node, arms.node), Expect(arms.next, <<"DEDENT">>))

ReturnStatement(P, i) ==
    LET value == P["expression", "", i + 1]
    IN  IF Is(i + 1, "EOL") THEN Parsed(ReturnNode(NoNode), i + 2)
        ELSE Line(ReturnNode(value.node), value.next)

VariableDeclaration(P, i) ==
    LET value == P["expression", "", Expect(i, <<"LIDENT", ":=">>)]
    IN  Line(VariableDefNode(Value(i), value.node), value.next)

OperatorOf(type) ==
    CASE type = "+=" -> "+" [] type = "-=" -> "-" [] type = "*=" -> "*"
      [] type = "/=" -> "/" [] type = "%=" -> "%"

\* x += e is x = x + e: the node for x stands on both sides.
AssignOrExpr(P, i) ==
    LET lhs == P["expression", "", i]
        rhs == P["expression", "", lhs.next + 1]
        type == Token(lhs.next).type
    IN  CASE Is(lhs.next, "=") -> Line(AssignNode(lhs.node, rhs.node), rhs.next)
          [] IsOneOf(lhs.next, {"+=", "-=", "*=", "/=", "%="}) ->
                Line(AssignNode(lhs.node, BinopNode(lhs.node, OperatorOf(type), rhs.node)),
                     rhs.next)
          [] OTHER -> Line(lhs.node, lhs.next)

-------------------------------------------------------------------------------
(* Declarations of types, traits and their implementations. *)

\* What impl_body has read, and whether it stopped at an alias that does not
\* belong there.
ImplBody(P, i, allowTypes) ==
    LET members == P["impl_member", "*", i]
        types == \E k \in DOMAIN members.node : members.node[k].kind = "TypeAlias"
    IN  Parsed(members.node,
               IF members.next > 0 /\ types /\ ~allowTypes THEN 0 ELSE members.next)

ImplMember(P, i) == IF Is(i, "def") THEN P["method_definition", "", i] ELSE P["type_alias", "", i]

\* The declaration of a type, and the methods that may follow it in its block
\* as an impl of the type with its own parameters.
WithMethods(P, declaration, name, typeParams, i) ==
    LET members == ImplBody(P, i, FALSE)
        selfType == TypeName(name, [k \in DOMAIN typeParams |->
                                        TypeName(typeParams[k].name, <<>>)])
    IN  IF Is(i, "def")
        THEN Parsed(<<declaration, ImplNode(<<>>, selfType, members.node, NoNode)>>,
                    Expect(members.next, <<"DEDENT">>))
        ELSE Parsed(<<declaration>>, Expect(i, <<"DEDENT">>))

EnumDeclarationRule(P, i) ==
    LET typeParams == P["constrained_type_params", "", Expect(i, <<"enum", "UIDENT">>)]
        only == P["constructor_spec", "", typeParams.next + 1]
        first == Expect(typeParams.next, <<"EOL", "INDENT">>)
        specs == P["constructor_spec", "*", first]
    IN  IF Is(typeParams.next, "=")
        THEN Parsed(<<EnumDeclaration(Value(i + 1), typeParams.node, <<only.node>>)>>, only.next)
        ELSE IF ~Is(first, "UIDENT") THEN Failed
        ELSE WithMethods(P, EnumDeclaration(Value(i + 1), typeParams.node, specs.node),
                         Value(i + 1), typeParams.node, specs.next)

StructVar(P, i) ==
    LET type == P["type", "", Expect(i, <<"LIDENT", ":">>)]
    IN  Line(StructVarNode(Value(i), type.node), type.next)

StructDeclaration(P, i) ==
    LET typeParams == P["constrained_type_params", "", Expect(i, <<"struct", "UIDENT">>)]
        where == P["where_clause", "", typeParams.next]
        members == P["struct_var", "*", Expect(where.next, <<"EOL", "INDENT">>)]
    IN  WithMethods(P, StructDefNode(Value(i + 1), members.node, typeParams.node, where.node),
                    Value(i + 1), typeParams.node, members.next)

(* impl T: A + B is impl T where T: A + B, for a type variable T, which is *)
(* recognised by its one-letter name.                                      *)
ImplementationBlock(P, i) ==
    LET first == P["type", "", Expect(i, <<"impl">>)]
        second == P["type", "", first.next + 1]
        isTrait == Is(first.next, "for")
        type == IF isTrait THEN second ELSE first
        implicit == P["trait_name", "+", type.next + 1]
        isImplicit == Is(type.next, ":")
        isVariable == type.node.parameters = <<>> /\ Len(type.node.name) = 1
        where == P["where_clause", "", CASE ~isImplicit -> type.next
                                  [] isVariable -> implicit.next
                                  [] OTHER -> 0]
        typeParams == where.node \o (IF isImplicit
                                     THEN <<TypeParam(type.node.name, implicit.node)>>
                                     ELSE <<>>)
        eol == Expect(where.next, <<"EOL">>)
        members == IF Is(eol, "INDENT") THEN ImplBody(P, eol + 1, isTrait)
                   ELSE Parsed(<<>>, eol)
    IN  Parsed(ImplNode(typeParams, type.node, members.node,
                    IF isTrait THEN first.node ELSE NoNode),
               IF Is(eol, "INDENT") THEN Expect(members.next, <<"DEDENT">>)
               ELSE members.next)

TraitMethod(P, i) ==
    LET signature == ParamsAndTypes(P, Expect(i, <<"def", "LIDENT">>), TRUE)
    IN  Line(TraitMethodNode(Value(i + 1), signature.node.params, signature.node.type),
             signature.next)

AssociatedType(P, i) ==
    LET param == P["constrained_type_param", "", Expect(i, <<"type">>)]
    IN  Line(AssociatedTypeNode(param.node), param.next)

TraitMember(P, i) == IF Is(i, "def") THEN P["trait_method", "", i] ELSE P["associated_type", "", i]

TraitDefinition(P, i) ==
    LET typeParams == TypeParams(Expect(i, <<"trait", "UIDENT">>))
        eol == Expect(typeParams.next, <<"EOL">>)
        members == P["trait_member", "*", eol + 1]
    IN  IF Is(eol, "INDENT")
        THEN Parsed(TraitDefNode(Value(i + 1), typeParams.node, members.node),
                    Expect(members.next, <<"DEDENT">>))
        ELSE Parsed(TraitDefNode(Value(i + 1), typeParams.node, <<>>), eol)

SimpleStatement(P, i) ==
    LET type == Token(i).type
    IN  CASE type = "pass" -> PassStatement(i)
          [] type = "if" -> P["if_statement", "", i]
          [] type = "assert" -> P["assert_statement", "", i]
          [] type = "type" -> P["type_alias", "", i]
          [] type = "def" -> P["function_definition", "", i]
          [] type = "for" -> P["for_statement", "", i]
          [] type = "foreign" -> P["foreign_declaration", "", i]
          [] type = "forever" -> P["forever_statement", "", i]
          [] type = "let" -> P["let_statement", "", i]
          [] type = "match" -> P["match_statement", "", i]
          [] type = "return" -> P["return_statement", "", i]
          [] type = "while" -> P["while_statement", "", i]
          [] type = "break" -> BreakStatement(i)
          [] type = "continue" -> ContinueStatement(i)
          [] type = "impl" -> P["implementation_block", "", i]
          [] type = "trait" -> P["trait_definition", "", i]
          [] type = "LIDENT" /\ IsOneOf(i + 1, {":=", ":"}) -> P["variable_declaration", "", i]
          [] OTHER -> P["assign_or_expr", "", i]

Statement(P, i) ==
    LET simple == P["simple_statement", "", i]
    IN  CASE Is(i, "EOL") -> Parsed(<<>>, i + 1)
          [] Is(i, "enum") -> P["enum_declaration", "", i]
          [] Is(i, "struct") -> P["struct_declaration", "", i]
          [] OTHER -> Parsed(<<simple.node>>, simple.next)

ProgramRule(P, i) ==
    LET children == P["statement_list", "", i]
    IN  Parsed(ProgramNode(children.node), Expect(children.next, <<"END">>))

-------------------------------------------------------------------------------
(* The rules by name, and the loops over them. *)

Rule(P, rule, i) ==
    CASE rule = "statement" -> Statement(P, i)
      [] rule = "simple_statement" -> SimpleStatement(P, i)
      [] rule = "trait_definition" -> TraitDefinition(P, i)
      [] rule = "trait_member" -> TraitMember(P, i)
      [] rule = "associated_type" -> AssociatedType(P, i)
      [] rule = "trait_method" -> TraitMethod(P, i)
      [] rule = "implementation_block" -> ImplementationBlock(P, i)
      [] rule = "struct_declaration" -> StructDeclaration(P, i)
      [] rule = "struct_var" -> StructVar(P, i)
      [] rule = "enum_declaration" -> EnumDeclarationRule(P, i)
      [] rule = "impl_member" -> ImplMember(P, i)
      [] rule = "assign_or_expr" -> AssignOrExpr(P, i)
      [] rule = "variable_declaration" -> VariableDeclaration(P, i)
      [] rule = "return_statement" -> ReturnStatement(P, i)
      [] rule = "match_statement" -> MatchStatement(P, i)
      [] rule = "match_arm" -> MatchArmRule(P, i)
      [] rule = "let_statement" -> LetStatement(P, i)
      [] rule = "while_statement" -> WhileStatement(P, i)
      [] rule = "forever_statement" -> ForeverStatement(P, i)
      [] rule = "foreign_declaration" -> ForeignDeclaration(P, i)
      [] rule = "for_statement" -> ForStatement(P, i)
      [] rule = "method_definition" -> MethodDefinition(P, i)
      [] rule = "function_definition" -> FunctionDefinition(P, i)
      [] rule = "type_alias" -> TypeAlias(P, i)
      [] rule = "assert_statement" -> AssertStatement(P, i)
      [] rule = "if_statement" -> IfStatement(P, i)
      [] rule = "if_helper" -> IfHelper(P, i)
      [] rule = "condition" -> Condition(P, i)
      [] rule = "let_expression" -> LetExpression(P, i)
      [] rule = "suite" -> Suite(P, i)
      [] rule = "indented_block" -> IndentedBlock(P, i)
      [] rule = "statement_list" -> StatementList(P, i)
      [] rule = "expression" -> Expression(P, i)
      [] rule = "and_expression" -> AndExpression(P, i)
      [] rule = "equality_expression" -> EqualityExpression(P, i)
      [] rule = "relational_expression" -> RelationalExpression(P, i)
      [] rule = "range_expression" -> RangeExpression(P, i)
      [] rule = "additive_expression" -> AdditiveExpression(P, i)
      [] rule = "multiplicative_expression" -> MultiplicativeExpression(P, i)
      [] rule = "negation_expression" -> NegationExpression(P, i)
      [] rule = "cast_expression" -> CastExpression(P, i)
      [] rule = "method_member_idx_expression" -> MethodMemberIdxExpression(P, i)
      [] rule = "postfix" -> PostfixRule(P, i)
      [] rule = "func_call_expression" -> FuncCallExpression(P, i)
      [] rule = "static_function_call_expression" -> StaticFunctionCallExpression(P, i)
      [] rule = "lambda_expression" -> LambdaExpression(P, i)
      [] rule = "unary_expression" -> UnaryExpression(P, i)
      [] rule = "param_and_type" -> ParamAndType(P, i)
      [] rule = "constructor_spec" -> ConstructorSpecRule(P, i)
      [] rule = "constrained_type_params" -> ConstrainedTypeParams(P, i)
      [] rule = "where_clause" -> WhereClause(P, i)
      [] rule = "constrained_type_param" -> ConstrainedTypeParam(P, i)
      [] rule = "type" -> Type(P, i)
      [] rule = "arrow_type" -> ArrowType(P, i)
      [] rule = "constructed_type" -> ConstructedType(P, i)
      [] rule = "trait_name" -> TraitName(P, i)
      [] rule = "simple_type" -> SimpleType(P, i)
      [] rule = "additive_operator" -> OperatorRule(P, "multiplicative_expression", i)
      [] rule = "multiplicative_operator" -> OperatorRule(P, "negation_expression", i)

\* Whether the loop over a rule goes on at this token.
Starts(rule, i) ==
    CASE rule = "additive_operator" -> IsOneOf(i, {"+", "-"})
      [] rule = "multiplicative_operator" -> IsOneOf(i, {"*", "/", "%"})
      [] rule = "postfix" -> IsOneOf(i, {".", "["})
      [] rule = "constructor_spec" -> Is(i, "UIDENT")
      [] rule = "struct_var" -> Is(i, "LIDENT")
      [] rule = "impl_member" -> IsOneOf(i, {"def", "type"})
      [] OTHER -> ~IsOneOf(i, {"DEDENT", "END"})

Listed(P, rule, separator, i) ==
    LET item == P[rule, "", i]
        repeated == P[rule, "*", item.next]
        separated == P[rule, separator, item.next + 1]
        Together(rest) == Parsed(<<item.node>> \o rest.node, rest.next)
    IN  CASE separator = "*" /\ ~Starts(rule, i) -> Parsed(<<>>, i)
          [] separator = "*" -> Together(repeated)
          [] Is(item.next, separator) -> Together(separated)
          [] OTHER -> Parsed(<<item.node>>, item.next)

Parse[rule \in STRING, separator \in STRING, i \in Nat] ==
    IF i = 0 THEN Failed
    ELSE IF separator = "" THEN Rule(Parse, rule, i)
    ELSE Listed(Parse, rule, separator, i)

-------------------------------------------------------------------------------
parseVars == <<lexVars, tree>>

InitParser == tree = NoNode

\* What is known of a program that was refused: LexerError was thrown.
Refused == [kind |-> "Error"]

\* The parser takes the tokens one by one as it needs them; what it makes of
\* them depends on the tokens only, so it is run when they are all there.
ParseProgram ==
    LET program == ProgramRule(Parse, 1)
    IN  /\ LexingEnded
        /\ tree = NoNode
        /\ tree' = IF lexerError \/ program.next = 0 THEN Refused ELSE program.node
        /\ UNCHANGED lexVars
===============================================================================
