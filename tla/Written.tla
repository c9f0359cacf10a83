------------------------------- MODULE Written -------------------------------
(***************************************************************************)
(* The written form of a syntax tree, after docs/grammar.y: what the       *)
(* parser has to read back as that tree.  An expression is written with    *)
(* the parentheses that the precedence of its operators asks for, and      *)
(* no others; a block is indented below its header, or follows it after a  *)
(* colon.  The style of a text is how it is laid out: how wide a level is, *)
(* where comments, blank lines and line breaks are, and what is imported.  *)
(***************************************************************************)
EXTENDS Layout, Ast, Integers

LidentTok(name) == [type |-> "LIDENT", value |-> name]
UidentTok(name) == [type |-> "UIDENT", value |-> name]
T(type) == <<Tok(type)>>

\* Names as tokens: those of types, constructors and traits are capitalised.
Lident(name) == <<LidentTok(name)>>
Uident(name) == <<UidentTok(name)>>

\* What is written for a node is a sequence of tokens and of parts that are
\* yet to be written: a node, the level of the grammar that is expected in
\* its place, whether nothing of the enclosing expression follows it, and
\* whether a < does.
Part(node, level, ends, less) ==
    <<[node |-> node, level |-> level, ends |-> ends, less |-> less]>>
N(node) == Part(node, 0, TRUE, FALSE)
Parts(nodes) == [k \in DOMAIN nodes |-> N(nodes[k])]

Parens(text) == T("(") \o text \o T(")")

\* The texts, with the separator between them.
SeparatedBy(texts, separator) ==
    FlattenSeq([k \in DOMAIN texts |->
        IF k = 1 THEN texts[k] ELSE T(separator) \o texts[k]])

CommaList(open, nodes, close) ==
    IF nodes = <<>> THEN <<>> ELSE T(open) \o SeparatedBy(Parts(nodes), ",") \o T(close)

NamesList(open, names, close) ==
    IF names = <<>> THEN <<>> ELSE T(open) \o SeparatedBy(names, ",") \o T(close)

Uidents(names) == [k \in DOMAIN names |-> Uident(names[k])]
Lidents(names) == [k \in DOMAIN names |-> Lident(names[k])]

-------------------------------------------------------------------------------
(* Types and signatures. *)

TypeTemplate(type) ==
    LET parameters == type.parameters
    IN  IF type.name = "Function"
        THEN T("|") \o SeparatedBy(Parts(Front(parameters)), ",") \o T("|") \o T("->")
                \o N(Last(parameters))
        ELSE IF type.name = "Vector" /\ parameters # <<>>
        THEN T("[") \o N(parameters[1]) \o T("]")
        ELSE Uident(type.name) \o CommaList("<", parameters, ">")

ParamTemplate(param) ==
    Uident(param.name)
        \o (IF param.constraints = <<>> THEN <<>>
            ELSE T(":") \o SeparatedBy(Parts(param.constraints), "+"))

ParamTemplates(params) == [k \in DOMAIN params |-> ParamTemplate(params[k])]

Where(params) ==
    IF params = <<>> THEN <<>> ELSE T("where") \o SeparatedBy(ParamTemplates(params), ",")

Signature(params, type) ==
    LET result == Last(type.parameters)
        Param(k) == IF type.parameters[k] = TypeName("Self", <<>>) THEN Lident(params[k])
                    ELSE Lident(params[k]) \o T(":") \o N(type.parameters[k])
    IN  Parens(SeparatedBy([k \in DOMAIN params |-> Param(k)], ","))
            \o (IF result = TypeName("Unit", <<>>) THEN <<>> ELSE T("->") \o N(result))

-------------------------------------------------------------------------------
(* Expressions and statements of one line. *)

IsRange(e) == e.kind = "FunctionCall" /\ e.target \in {"range", "inclusiveRange"}
IsNegation(e) == e.kind = "Binop" /\ e.op = "-" /\ e.lhs = IntNode(0, "", FALSE, FALSE)

\* The rule of the grammar an expression is written by, loosest first.
Level(e) ==
    CASE e.kind = "Logical" -> IF e.op = "or" THEN 1 ELSE 2
      [] e.kind = "Comparison" -> IF e.op \in {"==", "!="} THEN 3 ELSE 4
      [] e.kind = "FunctionCall" -> IF IsRange(e) THEN 5 ELSE 11
      [] e.kind = "Binop" -> IF IsNegation(e) THEN 8 ELSE IF e.op \in {"+", "-"} THEN 6 ELSE 7
      [] e.kind = "Cast" -> 9
      [] e.kind \in {"MethodCall", "MemberAccess", "Index"} -> 10
      [] OTHER -> 11

InfixTemplate(e, op, left, right, last) ==
    Part(e.lhs, left, FALSE, op = "<") \o T(op) \o Part(e.rhs, right, last, FALSE)

Literal(e) ==
    CASE e.character -> <<[type |-> "CHAR_LIT", value |-> e.value]>>
      [] e.negative -> <<[IntLit(-e.value, e.suffix) EXCEPT !.value.negative = TRUE]>>
      [] OTHER -> <<IntLit(e.value, e.suffix)>>

CallTemplate(e, last) ==
    CASE IsRange(e) -> Part(e.arguments[1], 6, FALSE, FALSE)
                          \o T(IF e.target = "range" THEN "til" ELSE "to")
                          \o Part(e.arguments[2], 6, last, FALSE)
      [] e.target = "Cons" /\ e.arguments[2] = CreateList(<<>>) ->
            T("[") \o N(e.arguments[1]) \o T("]")
      [] e.target \in {"Cons", "Nil"} ->
            Uident(e.target) \o Parens(SeparatedBy(Parts(e.arguments), ","))
      [] e.typeName = TypeName("Vector", <<>>) -> T("[") \o T("]")
      [] OTHER -> (IF e.typeName = NoNode THEN <<>> ELSE N(e.typeName) \o T("::"))
                    \o Lident(e.target) \o Parens(SeparatedBy(Parts(e.arguments), ","))

ExpressionTemplate(e, last) ==
    LET level == Level(e)
        object == Part(e.object, 10, FALSE, FALSE)
    IN  CASE e.kind = "Logical" -> InfixTemplate(e, e.op, level + 1, level, last)
          [] e.kind = "Comparison" -> InfixTemplate(e, e.op, level + 1, level + 1, last)
          [] e.kind = "Binop" -> IF IsNegation(e) THEN T("-") \o Part(e.rhs, 9, last, FALSE)
                                 ELSE InfixTemplate(e, e.op, level, level + 1, last)
          [] e.kind = "Cast" -> Part(e.lhs, 10, FALSE, FALSE) \o T("as") \o N(e.typeName)
          [] e.kind = "MethodCall" -> object \o T(".") \o Lident(e.methodName)
                                        \o Parens(SeparatedBy(Parts(e.arguments), ","))
          [] e.kind = "MemberAccess" -> object \o T(".") \o Lident(e.memberName)
          [] e.kind = "Index" -> object \o T("[") \o N(e.index) \o T("]")
          [] e.kind = "Lambda" -> Lident(e.varName) \o T("->") \o N(e.body)
          [] e.kind = "FunctionCall" -> CallTemplate(e, last)
          [] e.kind = "Int" -> Literal(e)
          [] e.kind = "Bool" -> T(IF e.value THEN "True" ELSE "False")
          [] e.kind = "StringLiteral" -> <<[type |-> "STRING_LIT", value |-> e.content]>>
          [] e.kind = "Let" -> T("let") \o Uident(e.constructor)
                                 \o NamesList("(", Lidents(e.params), ")") \o T(":=") \o N(e.body)
          [] e.kind = "Nullary" -> IF e.name = "Foo" THEN Uident(e.name) ELSE Lident(e.name)

\* x = x + e is written x += e.
AssignTemplate(s) ==
    IF s.rhs.kind = "Binop" /\ s.rhs.lhs = s.lhs
    THEN N(s.lhs) \o T(CASE s.rhs.op = "+" -> "+=" [] s.rhs.op = "-" -> "-="
                         [] s.rhs.op = "*" -> "*=" [] s.rhs.op = "/" -> "/="
                         [] s.rhs.op = "%" -> "%=") \o N(s.rhs.rhs)
    ELSE N(s.lhs) \o T("=") \o N(s.rhs)

Template(s, last) ==
    CASE s.kind = "None" -> <<>>
      [] s.kind = "TypeName" -> TypeTemplate(s)
      [] s.kind = "Pass" -> T("pass")
      [] s.kind = "Break" -> T("break")
      [] s.kind = "Continue" -> T("continue")
      [] s.kind = "Assert" -> T("assert") \o N(s.condition)
      [] s.kind = "Return" -> T("return") \o N(s.expression)
      [] s.kind = "VariableDef" -> Lident(s.target) \o T(":=") \o N(s.rhs)
      [] s.kind = "Assign" -> AssignTemplate(s)
      [] s.kind = "TypeAlias" -> T("type") \o Uident(s.name) \o T("=") \o N(s.underlying)
      [] s.kind = "ForeignDecl" ->
            T("foreign") \o Lident(s.name) \o NamesList("<", Uidents(s.typeParams), ">")
                \o Signature(s.params, s.typeName)
      [] s.kind = "TraitMethod" -> T("def") \o Lident(s.name) \o Signature(s.params, s.typeName)
      [] s.kind = "AssociatedType" -> T("type") \o ParamTemplate(s.typeParam)
      [] s.kind = "StructVar" -> Lident(s.name) \o T(":") \o N(s.typeName)
      [] s.kind = "ConstructorSpec" -> Uident(s.name) \o CommaList("(", s.members, ")")
      [] OTHER -> ExpressionTemplate(s, last)

(* A part is in parentheses where the grammar expects a higher level, and  *)
(* a lambda, which reaches as far to the right as it can, unless it ends   *)
(* the expression.  After a capitalised name a < would open the parameters *)
(* of a type.                                                              *)
RECURSIVE Text(_)
Text(template) ==
    LET Open(part) == Level(part.node) >= part.level /\ (part.node.kind = "Lambda" => part.ends)
        Enclose(text, part, open) ==
            IF ~open \/ (part.less /\ Last(text).type = "UIDENT") THEN Parens(text) ELSE text
        Written(part) ==
            Enclose(Text(Template(part.node, part.ends \/ ~Open(part))), part, Open(part))
    IN  FlattenSeq([k \in DOMAIN template |->
                        IF "node" \in DOMAIN template[k] THEN Written(template[k])
                        ELSE <<template[k]>>])

-------------------------------------------------------------------------------
(* Statements, as lines of a depth. *)

\* A declaration of a type and the impl of its own methods are written together.
OwnImpl(declaration, s) ==
    /\ declaration.kind \in {"EnumDeclaration", "StructDef"}
    /\ s.kind = "Impl"
    /\ s.typeParams = <<>> /\ s.traitName = NoNode
    /\ s.typeName = TypeName(declaration.name,
                        [k \in DOMAIN declaration.typeParams |->
                            TypeName(declaration.typeParams[k].name, <<>>)])

\* A header and the list that is indented below it.
Section(head, list) == <<[head |-> head, list |-> list]>>

\* A header and its body, indented or after a colon.
Bodied(head, body) ==
    IF body.kind = "Block" THEN Section(head, body.children)
    ELSE Section(head \o T(":") \o N(body), <<>>)

ImplHead(s) ==
    LET implicit == /\ s.typeParams # <<>> /\ s.traitName = NoNode
                    /\ s.typeName = TypeName("T", <<>>)
                    /\ Last(s.typeParams).name = "T"
    IN  T("impl")
        \o (IF s.traitName = NoNode THEN <<>> ELSE N(s.traitName) \o T("for"))
        \o (IF implicit
            THEN ParamTemplate(Last(s.typeParams)) \o Where(Front(s.typeParams))
            ELSE N(s.typeName) \o Where(s.typeParams))

TypeHead(keyword, s) ==
    T(keyword) \o Uident(s.name) \o NamesList("<", ParamTemplates(s.typeParams), ">")

RECURSIVE Sections(_, _)
Sections(s, keyword) ==
    CASE s.kind = "IfElse" ->
            Bodied(T(keyword) \o N(s.condition), s.body)
                \o (IF s.elseBody = NoNode THEN <<>> ELSE Sections(s.elseBody, "elif"))
      [] keyword = "elif" -> Bodied(T("else"), s)
      [] s.kind = "While" -> Bodied(T("while") \o N(s.condition), s.body)
      [] s.kind = "For" -> Bodied(T("for") \o Lident(s.varName) \o T("in") \o N(s.iterable), s.body)
      [] s.kind = "Forever" -> Bodied(T("forever"), s.body)
      [] s.kind \in {"FunctionDef", "MethodDef"} ->
            Bodied(T("def") \o Lident(s.name) \o Signature(s.params, s.typeName)
                    \o Where(s.typeParams), s.body)
      [] s.kind = "Match" -> Section(T("match") \o N(s.expr), s.arms)
      [] s.kind = "MatchArm" ->
            LET head == Uident(s.constructor) \o NamesList("(", Lidents(s.params), ")")
            IN  IF s.body.kind = "Block" THEN Section(head, s.body.children)
                ELSE Section(head \o T("=>") \o N(s.body), <<>>)
      [] s.kind = "EnumDeclaration" ->
            IF Len(s.specs) = 1
            THEN Section(TypeHead("enum", s) \o T("=") \o N(s.specs[1]), <<>>)
            ELSE Section(TypeHead("enum", s), s.specs)
      [] s.kind = "StructDef" -> Section(TypeHead("struct", s) \o Where(s.whereClause), s.members)
      [] s.kind = "TraitDef" ->
            Section(T("trait") \o Uident(s.name) \o NamesList("<", Uidents(s.typeParams), ">"),
                    s.members)
      [] s.kind = "Impl" -> Section(ImplHead(s), s.members)
      [] OTHER -> Section(N(s), <<>>)

RECURSIVE Lines(_, _)
Lines(list, depth) ==
    LET SectionLines(section) ==
            <<[depth |-> depth, text |-> Text(section.head)]>> \o Lines(section.list, depth + 1)
        StatementLines(sections) ==
            FlattenSeq([k \in DOMAIN sections |-> SectionLines(sections[k])])
        Joined(lines, own) == IF own THEN Tail(lines) ELSE lines
    IN  FlattenSeq([k \in DOMAIN list |->
            Joined(StatementLines(Sections(list[k], "if")),
                   k > 1 /\ OwnImpl(list[k - 1], list[k]))])

-------------------------------------------------------------------------------
(* The text of the lines. *)

(* A style: width, the blanks of a level; breaks, a line break after each  *)
(* [ and before each ]; blank, an indented comment line before each line;  *)
(* comments, a comment at the end of each line; continued, a continuation  *)
(* in the middle of each line; final, whether the last line is ended.      *)
LinePieces(line, style) ==
    LET k == Len(line.text) \div 2
        Glued(token) == IF token.type = "INT_LIT" /\ token.value.negative
                        THEN <<Tok("-"), [token EXCEPT !.value.negative = FALSE]>>
                        ELSE <<token>>
        Spaced(i) ==
            (CASE i = 1 -> <<>>
               [] style.continued /\ i = k + 1 -> <<Blanks(1), Continuation>>
               [] style.breaks /\ line.text[i].type = "]" -> <<Newline, Blanks(3)>>
               [] OTHER -> <<Blanks(1)>>)
            \o Glued(line.text[i])
            \o (IF style.breaks /\ line.text[i].type = "["
                THEN <<Blanks(1), Comment, Newline>> ELSE <<>>)
    IN  (IF style.blank THEN <<Blanks(5), Comment, Newline, Newline>> ELSE <<>>)
        \o (IF line.depth > 0 THEN <<Blanks(line.depth * style.width)>> ELSE <<>>)
        \o FlattenSeq([i \in DOMAIN line.text |-> Spaced(i)])
        \o (IF style.comments THEN <<Blanks(2), Comment>> ELSE <<>>)

LayOut(lines, style) ==
    LET text == FlattenSeq([k \in DOMAIN lines |->
                                Append(LinePieces(lines[k], style), Newline)])
    IN  IF style.final \/ text = <<>> THEN text ELSE Front(text)

Pieces(list, style) == LayOut(Lines(list, 0), style)

\* The pieces of the program when its head is in a file of its own.
ProgramPieces(list, style, imported) ==
    (IF imported > 0 THEN <<Import("head")>> ELSE <<>>)
        \o Pieces(SubSeq(list, imported + 1, Len(list)), style)
=============================================================================
