--------------------------- MODULE TreeSemantics ---------------------------
(***************************************************************************)
(* What the body of a function means, as a run over its syntax tree        *)
(* (ast/ast.hpp): the reference for the code generator.  The language has  *)
(* no other definition; this one evaluates operands from left to right,    *)
(* the right-hand side of an assignment first, and conditions no further   *)
(* than needed.                                                            *)
(*                                                                         *)
(* A node is a record with a field "node" and its children.  Values are    *)
(* numbers: references from FirstObject on, functions from FirstFunction.  *)
(* An object is [tag, fields].  What other functions return is input: a    *)
(* run ends when it asks for more than it was given.  A run is             *)
(*   vars    the variables                                                 *)
(*   heap    the objects                                                   *)
(*   trace   the calls made: the function and its arguments                *)
(*   inputs  what calls will return                                        *)
(*   value   of the last expression                                        *)
(*   signal  "next", "break", "continue", "return", or "end" of the run    *)
(***************************************************************************)
EXTENDS Passes

FirstFunction == 50
FirstObject == 100
FirstNew == 200        \* the first object the run itself allocates

OptionNone == 100
OptionSome == 101
SomeTag == 1
Wildcard == <<"_">>    \* a pattern that binds nothing
CatchAll == -1         \* the tag of a catch-all arm

Apply(operation, a, b) ==
  CASE operation = "+" -> a + b
    [] operation = "-" -> a - b
    [] operation = "*" -> a * b

Holds(relation, a, b) ==
  CASE relation = "==" -> a = b
    [] relation = "!=" -> a # b
    [] relation = "<"  -> a < b
    [] relation = ">"  -> a > b
    [] relation = "<=" -> a <= b
    [] relation = ">=" -> a >= b

Bit(condition) == IF condition THEN 1 ELSE 0

-----------------------------------------------------------------------------
Yield(s, v) == [s EXCEPT !.value = v]

Then(s, continue(_)) == IF s.signal = "next" THEN continue(s) ELSE s

\* Objects the run allocated are not told apart.
Seen(v) == IF v \in Nat /\ v >= FirstNew THEN FirstNew ELSE v

Answer(name, input) ==
  IF name = "next" THEN <<OptionNone, OptionSome>>[input + 1] ELSE input

\* A call of another function.  panic does not return.
CallOut(s, name, args) ==
  LET called == [s EXCEPT !.trace = Append(@, <<name, [i \in DOMAIN args |-> Seen(args[i])]>>)]
  IN  IF name = "panic" \/ s.inputs = <<>> THEN [called EXCEPT !.signal = "end"]
      ELSE [called EXCEPT !.value = Answer(name, Head(s.inputs)), !.inputs = Tail(@)]

Bind(s, symbol, v) == IF symbol = Wildcard THEN s ELSE [s EXCEPT !.vars = (symbol :> v) @@ @]

BindFields(s, symbols, object) ==
  LET Upto[i \in 0 .. Len(symbols)] ==
        IF i = 0 THEN s ELSE Bind(Upto[i - 1], symbols[i], s.heap[object].fields[i])
  IN  Upto[Len(symbols)]

\* A new object.
Make(s, object) ==
  LET address == FirstNew + Cardinality({a \in DOMAIN s.heap : a >= FirstNew})
  IN  [s EXCEPT !.heap = (address :> object) @@ @, !.value = address]

\* What a loop makes of the signal its body ended with.
AfterBody(s) == [s EXCEPT !.signal = IF @ = "continue" THEN "next" ELSE @]
AfterLoop(s) ==
  IF s.signal \in {"next", "break"} THEN [s EXCEPT !.signal = "next", !.value = None] ELSE s

-----------------------------------------------------------------------------
(***************************************************************************)
(* p.lambdas are the lambda expressions of the program, [param, body]: the *)
(* value of one keeps the variables as they are where it is written.       *)
(***************************************************************************)
RECURSIVE Eval(_, _, _), EvalArgs(_, _, _, _), Loop(_, _, _, _)

\* The values of es after those in values, as a sequence in s.value.
EvalArgs(p, es, s, values) ==
  IF Len(values) = Len(es) THEN Yield(s, values)
  ELSE Then(Eval(p, es[Len(values) + 1], s), LAMBDA t : EvalArgs(p, es, t, Append(values, t.value)))

CallLambda(p, s, closure, args) ==
  LET object == s.heap[closure]
      lambda == p.lambdas[object.function]
      inner == Eval(p, lambda.body, [s EXCEPT !.vars = (lambda.param :> args[1]) @@ object.saved])
  IN  [inner EXCEPT !.vars = s.vars]

EvalAssign(p, n, s) ==
  Then(Eval(p, n.rhs, s), LAMBDA t :
    LET v == t.value
    IN  CASE n.lhs.node = "Variable" -> Yield(Bind(t, n.lhs.symbol, v), None)
          [] n.lhs.node = "Member" ->
               Then(Eval(p, n.lhs.object, t), LAMBDA u :
                 Yield([u EXCEPT !.heap[u.value].fields[n.lhs.index] = v], None))
          [] n.lhs.node = "Index" ->
               Then(EvalArgs(p, <<n.lhs.object, n.lhs.index>>, t, <<>>), LAMBDA u :
                 Then(CallOut(u, "set", u.value \o <<v>>), LAMBDA w : Yield(w, None))))

EvalLogical(p, n, s) ==
  Then(Eval(p, n.lhs, s), LAMBDA t :
    IF (n.op = "and") = (t.value # 0) THEN Eval(p, n.rhs, t) ELSE t)

EvalMatch(p, n, s) ==
  Then(Eval(p, n.expr, s), LAMBDA t :
    LET tag == t.heap[t.value].tag
        fits == {i \in DOMAIN n.arms : n.arms[i].tag = tag}
        arm == n.arms[CHOOSE i \in DOMAIN n.arms :
                        IF fits = {} THEN n.arms[i].tag = CatchAll ELSE i \in fits]
        bound == IF arm.tag = CatchAll THEN t ELSE BindFields(t, arm.symbols, t.value)
    IN  Then(Eval(p, arm.body, bound), LAMBDA u : Yield(u, None)))

EvalBlock(p, n, s) ==
  LET Upto[i \in 0 .. Len(n.children)] ==
        IF i = 0 THEN Yield(s, None) ELSE Then(Upto[i - 1], LAMBDA t : Eval(p, n.children[i], t))
  IN  Upto[Len(n.children)]

\* The rest of a loop, its iterable evaluated.
Loop(p, n, s, iterator) ==
  LET again(t) == IF AfterBody(t).signal = "next" THEN Loop(p, n, AfterBody(t), iterator)
                  ELSE AfterLoop(t)
      body(t) == again(Eval(p, n.body, t))
  IN  CASE n.node = "While" ->
             Then(Eval(p, n.condition, s), LAMBDA t : IF t.value = 0 THEN AfterLoop(t) ELSE body(t))
        [] n.node = "Forever" -> body(s)
        [] n.node = "For" ->
             Then(CallOut(s, "next", <<iterator>>), LAMBDA t :
               IF t.heap[t.value].tag # SomeTag THEN AfterLoop(t)
               ELSE body(BindFields(t, <<n.symbol>>, t.value)))

Eval(p, n, s) ==
  CASE n.node = "Int"      -> Yield(s, n.value)
    [] n.node = "Variable" -> Yield(s, s.vars[n.symbol])
    [] n.node = "Call" ->
         Then(EvalArgs(p, n.args, s, <<>>), LAMBDA t : CallOut(t, n.name, t.value))
    [] n.node = "CallClosure" ->
         Then(EvalArgs(p, n.args, s, <<>>), LAMBDA t : CallLambda(p, t, t.vars[n.symbol], t.value))
    [] n.node = "Not"  -> Then(Eval(p, n.arg, s), LAMBDA t : Yield(t, 1 - t.value))
    [] n.node = "Cast" -> Eval(p, n.arg, s)
    [] n.node = "Binop" ->
         Then(EvalArgs(p, <<n.lhs, n.rhs>>, s, <<>>), LAMBDA t :
           Yield(t, Apply(n.op, t.value[1], t.value[2])))
    [] n.node = "Comparison" ->
         Then(EvalArgs(p, <<n.lhs, n.rhs>>, s, <<>>), LAMBDA t :
           IF n.method THEN CallOut(t, n.op, t.value)
           ELSE Yield(t, Bit(Holds(n.op, t.value[1], t.value[2]))))
    [] n.node = "Logical" -> EvalLogical(p, n, s)
    [] n.node = "Member" ->
         Then(Eval(p, n.object, s), LAMBDA t : Yield(t, t.heap[t.value].fields[n.index]))
    [] n.node = "Lambda" -> Make(s, [tag |-> 0, function |-> n.lambda, saved |-> s.vars])
    [] n.node = "Matches" ->      \* let, as an expression
         Then(Eval(p, n.body, s), LAMBDA t :
           IF t.heap[t.value].tag = n.tag THEN Yield(BindFields(t, n.symbols, t.value), 1)
           ELSE Yield(t, 0))
    [] n.node = "Let" ->
         Then(Eval(p, n.body, s), LAMBDA t : Yield(BindFields(t, n.symbols, t.value), None))
    [] n.node = "Assign" -> EvalAssign(p, n, s)
    [] n.node = "Block"  -> EvalBlock(p, n, s)
    [] n.node = "IfElse" ->
         Then(Eval(p, n.condition, s), LAMBDA t :
           Then(Eval(p, IF t.value # 0 THEN n.body ELSE n.elseBody, t), LAMBDA u : Yield(u, None)))
    [] n.node = "Assert" ->
         Then(Eval(p, n.condition, s), LAMBDA t :
           IF t.value # 0 THEN Yield(t, None) ELSE CallOut(t, "panic", <<>>))
    [] n.node \in {"While", "Forever"} -> Loop(p, n, s, None)
    [] n.node = "For" ->
         Then(Eval(p, n.iterable, s), LAMBDA t :
           Then(CallOut(t, "iter", <<t.value>>), LAMBDA u : Loop(p, n, u, u.value)))
    [] n.node = "Match"    -> EvalMatch(p, n, s)
    [] n.node = "Break"    -> [s EXCEPT !.signal = "break"]
    [] n.node = "Continue" -> [s EXCEPT !.signal = "continue"]
    [] n.node = "Return" ->
         Then(IF n.expression = <<>> THEN Yield(s, None) ELSE Eval(p, n.expression[1], s), LAMBDA t :
           [t EXCEPT !.signal = "return"])
    [] n.node = "ArrayAt" ->
         Then(EvalArgs(p, <<n.array, n.index>>, s, <<>>), LAMBDA t :
           Yield(t, t.heap[t.value[1]].fields[t.value[2] + 1]))
    [] n.node = "SetArray" ->
         Then(EvalArgs(p, <<n.array, n.index, n.element>>, s, <<>>), LAMBDA t :
           Yield([t EXCEPT !.heap[t.value[1]].fields[t.value[2] + 1] = t.value[3]], None))
    [] n.node \in {"Pass", "Absent"} -> Yield(s, None)

-----------------------------------------------------------------------------
(***************************************************************************)
(* A program p is a function to run, of a kind:                            *)
(*   "function"     with a body, which returns or ends with an expression  *)
(*   "constructor"  makes an object of its arguments                       *)
(*   "array"        makes an array of a given size                         *)
(***************************************************************************)
Returned(s) == [s EXCEPT !.signal = "return"]

RunTree(p, s) ==
  CASE p.kind = "function" ->
         LET done == Eval(p, p.body, s) IN IF done.signal = "next" THEN Returned(done) ELSE done
    [] p.kind = "constructor" ->
         Returned(Make(s, [tag |-> p.tag, fields |-> [i \in DOMAIN p.params |-> s.vars[p.params[i]]]]))
    [] p.kind = "array" ->
         Returned(Make(s, [tag |-> p.tag, fields |-> [i \in 1 .. s.vars[p.params[1]] |-> 0]]))
=============================================================================
