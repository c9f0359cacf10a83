--------------------------------- MODULE Ast ---------------------------------
(***************************************************************************)
(* The nodes of the syntax tree (src/ast/ast.hpp), as records: what a      *)
(* constructor is given is kept.  Source locations, which only serve error *)
(* messages, and the annotations that semantic analysis adds are left out. *)
(***************************************************************************)
EXTENDS Naturals, Sequences, SequencesExt

\* A null pointer to a node.
NoNode == [kind |-> "None"]

TypeName(name, parameters) ==
    [kind |-> "TypeName", name |-> name, parameters |-> parameters]

\* A type variable and the traits it is constrained to.
TypeParam(name, constraints) == [name |-> name, constraints |-> constraints]

ConstructorSpec(name, members) ==
    [kind |-> "ConstructorSpec", name |-> name, members |-> members]

ProgramNode(children) == [kind |-> "Program", children |-> children]

BlockNode(children) == [kind |-> "Block", children |-> children]

LogicalNode(lhs, op, rhs) == [kind |-> "Logical", lhs |-> lhs, op |-> op, rhs |-> rhs]

ComparisonNode(lhs, op, rhs) ==
    [kind |-> "Comparison", lhs |-> lhs, op |-> op, rhs |-> rhs]

BinopNode(lhs, op, rhs) == [kind |-> "Binop", lhs |-> lhs, op |-> op, rhs |-> rhs]

NullaryNode(name) == [kind |-> "Nullary", name |-> name]

IntNode(value, suffix, character, negative) ==
    [kind |-> "Int", value |-> value, suffix |-> suffix, character |-> character,
     negative |-> negative]

BoolNode(value) == [kind |-> "Bool", value |-> value]

StringLiteralNode(content) == [kind |-> "StringLiteral", content |-> content]

FunctionCallNode(target, arguments, typeName) ==
    [kind |-> "FunctionCall", target |-> target, arguments |-> arguments,
     typeName |-> typeName]

MethodCallNode(object, methodName, arguments) ==
    [kind |-> "MethodCall", object |-> object, methodName |-> methodName,
     arguments |-> arguments]

MemberAccessNode(object, memberName) ==
    [kind |-> "MemberAccess", object |-> object, memberName |-> memberName]

IndexNode(object, index) == [kind |-> "Index", object |-> object, index |-> index]

CastNode(lhs, typeName) == [kind |-> "Cast", lhs |-> lhs, typeName |-> typeName]

LambdaNode(varName, body) == [kind |-> "Lambda", varName |-> varName, body |-> body]

LetNode(constructor, params, body, isExpression) ==
    [kind |-> "Let", constructor |-> constructor, params |-> params, body |-> body,
     isExpression |-> isExpression]

PassNode == [kind |-> "Pass"]

BreakNode == [kind |-> "Break"]

ContinueNode == [kind |-> "Continue"]

IfElseNode(condition, body, elseBody) ==
    [kind |-> "IfElse", condition |-> condition, body |-> body, elseBody |-> elseBody]

AssertNode(condition) == [kind |-> "Assert", condition |-> condition]

WhileNode(condition, body) == [kind |-> "While", condition |-> condition, body |-> body]

ForNode(varName, iterable, body) ==
    [kind |-> "For", varName |-> varName, iterable |-> iterable, body |-> body]

ForeverNode(body) == [kind |-> "Forever", body |-> body]

AssignNode(lhs, rhs) == [kind |-> "Assign", lhs |-> lhs, rhs |-> rhs]

VariableDefNode(target, rhs) == [kind |-> "VariableDef", target |-> target, rhs |-> rhs]

ReturnNode(expression) == [kind |-> "Return", expression |-> expression]

FunctionDefNode(name, body, typeParams, params, typeName) ==
    [kind |-> "FunctionDef", name |-> name, body |-> body, typeParams |-> typeParams,
     params |-> params, typeName |-> typeName]

MethodDefNode(name, body, typeParams, params, typeName) ==
    [FunctionDefNode(name, body, typeParams, params, typeName) EXCEPT !.kind = "MethodDef"]

TypeAliasNode(name, underlying) ==
    [kind |-> "TypeAlias", name |-> name, underlying |-> underlying]

ImplNode(typeParams, typeName, members, traitName) ==
    [kind |-> "Impl", typeParams |-> typeParams, typeName |-> typeName,
     members |-> members, traitName |-> traitName]

TraitMethodNode(name, params, typeName) ==
    [kind |-> "TraitMethod", name |-> name, params |-> params, typeName |-> typeName]

AssociatedTypeNode(typeParam) == [kind |-> "AssociatedType", typeParam |-> typeParam]

TraitDefNode(name, typeParams, members) ==
    [kind |-> "TraitDef", name |-> name, typeParams |-> typeParams, members |-> members]

MatchArm(constructor, params, body) ==
    [kind |-> "MatchArm", constructor |-> constructor, params |-> params, body |-> body]

MatchNode(expr, arms) == [kind |-> "Match", expr |-> expr, arms |-> arms]

EnumDeclaration(name, typeParams, specs) ==
    [kind |-> "EnumDeclaration", name |-> name, typeParams |-> typeParams,
     specs |-> specs]

ForeignDeclNode(name, typeParams, params, typeName) ==
    [kind |-> "ForeignDecl", name |-> name, typeParams |-> typeParams,
     params |-> params, typeName |-> typeName]

StructVarNode(name, typeName) ==
    [kind |-> "StructVar", name |-> name, typeName |-> typeName]

StructDefNode(name, members, typeParams, whereClause) ==
    [kind |-> "StructDef", name |-> name, members |-> members,
     typeParams |-> typeParams, whereClause |-> whereClause]

\* A list literal is sugar for a chain of Cons cells that ends in Nil.
CreateList(elements) ==
    FoldRight(LAMBDA element, list : FunctionCallNode("Cons", <<element, list>>, NoNode),
              elements, FunctionCallNode("Nil", <<>>, NoNode))
=============================================================================
