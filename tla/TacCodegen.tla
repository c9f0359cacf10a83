----------------------------- MODULE TacCodegen -----------------------------
(***************************************************************************)
(* The translation of one function from its syntax tree to three-address   *)
(* code (ir/tac_codegen.cpp), and a machine for that code.                 *)
(*                                                                         *)
(* A block is a sequence of instructions, records with a field "op":       *)
(*   load, store, copy      [dest, src]                                    *)
(*   call                   [dest, args], the function first               *)
(*   binary                 [dest, operation, args]                        *)
(*   indexedload            [dest, args], an object and an offset          *)
(*   indexedstore           [args], an object, an offset and a value       *)
(*   memset                 [args], an object, a number of elements        *)
(*   phi                    [dest, sources], pairs of a block and a value  *)
(*   jump, jumpif, condjump [args, targets, relation]                      *)
(*   return, unreachable    [args]                                         *)
(* An operand is <<"t", n>>, a temporary; <<"const", n>>; <<"bits", S>>, a *)
(* constant given by the bits that are set; <<"function", name>>;          *)
(* <<"lambda", i>>; or a variable, whose tuple starts with "local",        *)
(* "param" or "global".                                                    *)
(* <<"capture", i>> is a symbol only.                                      *)
(***************************************************************************)
EXTENDS TreeSemantics

Const(n) == <<"const", n>>
Env == <<"param", "_">>

TagOffset == 0
MaskOffset == 8
HeaderSize == 16
FieldOffset(i) == HeaderSize + 8 * (i - 1)    \* fields are counted from 1

UnboxedArrayTag == -1
BoxedArrayTag == -2

-----------------------------------------------------------------------------
(***************************************************************************)
(* BasicBlock.  An instruction is appended to the current block, which     *)
(* must have no jump yet (assert in BasicBlock::append).                   *)
(***************************************************************************)
Targets(code) ==
  FlattenSeq([i \in DOMAIN code |-> IF "targets" \in DOMAIN code[i] THEN code[i].targets ELSE <<>>])

Terminators == {"jump", "jumpif", "condjump", "return", "unreachable"}

isTerminated(cg) ==
  cg.code[cg.block] # <<>> /\ Last(cg.code[cg.block]).op \in Terminators

Emit(cg, inst) ==
  [cg EXCEPT !.code[cg.block] = Append(@, inst),
             !.asserts = @ /\ Targets(cg.code[cg.block]) = <<>>]

\* Into a new temporary, which is the value of the node.
Compute(cg, inst) ==
  LET dest == <<"t", cg.temps>>
  IN  [Emit(cg, [dest |-> dest] @@ inst) EXCEPT !.temps = @ + 1, !.value = dest]

createBlocks(cg, count) == [cg EXCEPT !.code = @ \o [i \in 1 .. count |-> <<>>]]

\* The blocks the next call of createBlocks makes.
NewBlock(cg, i) == Len(cg.code) + i

setBlock(cg, block) == [cg EXCEPT !.block = block]

Jump(cg, block) == Emit(cg, [op |-> "jump", args |-> <<>>, targets |-> <<block>>])

\* Mutant of JumpUnlessTerminated: a jump after a jump.
JumpAlways(cg, block) == Jump(cg, block)

JumpUnlessTerminated(cg, block) == IF isTerminated(cg) THEN cg ELSE Jump(cg, block)

JumpIf(cg, value, ifTrue, ifFalse) ==
  Emit(cg, [op |-> "jumpif", args |-> <<value>>, targets |-> <<ifTrue, ifFalse>>])

CondJump(cg, lhs, relation, rhs, ifTrue, ifFalse) ==
  Emit(cg, [op |-> "condjump", args |-> <<lhs, rhs>>, relation |-> relation,
            targets |-> <<ifTrue, ifFalse>>])

IndexedLoad(cg, object, offset) ==
  Compute(cg, [op |-> "indexedload", args |-> <<object, Const(offset)>>])

IndexedStore(cg, object, offset, value) ==
  Emit(cg, [op |-> "indexedstore", args |-> <<object, Const(offset), value>>])

NoValue(cg) == [cg EXCEPT !.value = <<>>]

-----------------------------------------------------------------------------
Captured(symbol) == symbol[1] = "capture"

\* getValue: locals are listed when they are first met.
getValue(cg, symbol) ==
  IF symbol[1] = "local" THEN [cg EXCEPT !.locals = @ \cup {symbol}] ELSE cg

load(cg, symbol) ==
  IF Captured(symbol)
    THEN LET env == Compute(cg, [op |-> "load", src |-> Env])
         IN  IndexedLoad(env, env.value, FieldOffset(symbol[2]))
    ELSE Compute(getValue(cg, symbol), [op |-> "load", src |-> symbol])

store(cg, symbol, value) ==
  Emit(getValue(cg, symbol), [op |-> "store", dest |-> symbol, src |-> value])

\* The members of a constructor pattern (letHelper, and MatchArm).
storeMember(cg, symbol, object, i) ==
  LET bind(c) == store(c, symbol, c.value)
  IN  IF symbol = Wildcard THEN cg ELSE bind(IndexedLoad(cg, object, FieldOffset(i)))

storeMembers(cg, symbols, object) ==
  Through(LAMBDA c, i : storeMember(c, symbols[i], object, i), cg, [i \in DOMAIN symbols |-> i])

gcAllocate(cg, size) ==
  Compute(cg, [op |-> "call", args |-> <<<<"function", "gcAllocate">>, size>>])

\* 1 << i in a word of 64 bits, the 1 being an int: what x86 makes of it.
Shifted(i) == IF i = 31 THEN 31 .. 63 ELSE {i % 32}

refMask(boxed) == UNION {Shifted(i - 1) : i \in boxed}

writeHeader(cg, object, tag, mask) ==
  IndexedStore(IndexedStore(cg, object, TagOffset, Const(tag)), object, MaskOffset, <<"bits", mask>>)

\* cg.value is the environment; the symbol becomes its field i.
FillCapture(cg, i, symbol) ==
  LET keep(c) == IndexedStore(c, cg.value, FieldOffset(i), c.value)
  IN  [keep(load(cg, symbol)) EXCEPT !.value = cg.value]

\* captures is a sequence of symbols; boxed the set of those with references.
createEnvironment(cg, captures, boxed) ==
  LET mask == refMask({i \in DOMAIN captures : captures[i] \in boxed})
      env == gcAllocate(cg, Const(HeaderSize + 8 * Len(captures)))
  IN  Through(LAMBDA c, i : FillCapture(c, i, captures[i]), writeHeader(env, env.value, 0, mask),
              [i \in DOMAIN captures |-> i])

\* cg.value is the closure.
FillClosure(cg, function, env) ==
  LET headed == writeHeader(cg, cg.value, 0, {1})
      filled == IndexedStore(headed, cg.value, FieldOffset(1), <<"lambda", function>>)
  IN  IndexedStore(filled, cg.value, FieldOffset(2), env)

createClosure(cg, function, captures, boxed) ==
  LET allocate(c) == FillClosure(gcAllocate(c, Const(HeaderSize + 16)), function, c.value)
  IN  allocate(IF captures = <<>> THEN [cg EXCEPT !.value = Const(0)]
               ELSE createEnvironment(cg, captures, boxed))

-----------------------------------------------------------------------------
(***************************************************************************)
(* EnvironmentCapture (semantic.cpp): the free variables of a lambda's     *)
(* body in the order they are met, which become its captures.              *)
(***************************************************************************)
RECURSIVE FreeVariables(_, _)
FreeVariables(n, bound) ==
  CASE n.node = "Variable" -> IF n.symbol = bound THEN <<>> ELSE <<n.symbol>>
    [] n.node \in {"Binop", "Comparison", "Logical"} ->
         FreeVariables(n.lhs, bound) \o FreeVariables(n.rhs, bound)
    [] n.node = "Member" -> FreeVariables(n.object, bound)
    [] n.node = "Call" ->     \* of a method
         FlattenSeq([i \in DOMAIN n.args |-> FreeVariables(n.args[i], bound)])
    [] OTHER -> <<>>

Captures(lambda) ==
  LET free == FreeVariables(lambda.body, lambda.param)
  IN  SelectSeq([i \in DOMAIN free |-> IF \E j \in 1 .. i - 1 : free[j] = free[i] THEN <<>> ELSE free[i]],
                LAMBDA v : v # <<>>)

RECURSIVE Replaced(_, _)
Replaced(n, captures) ==
  CASE n.node = "Variable" ->
         IF \E i \in DOMAIN captures : captures[i] = n.symbol
           THEN [n EXCEPT !.symbol = <<"capture", CHOOSE i \in DOMAIN captures : captures[i] = n.symbol>>]
           ELSE n
    [] n.node \in {"Binop", "Comparison", "Logical"} ->
         [n EXCEPT !.lhs = Replaced(@, captures), !.rhs = Replaced(@, captures)]
    [] n.node = "Member" -> [n EXCEPT !.object = Replaced(@, captures)]
    [] n.node = "Call" ->
         [n EXCEPT !.args = [i \in DOMAIN @ |-> Replaced(@[i], captures)]]
    [] OTHER -> n

-----------------------------------------------------------------------------
(***************************************************************************)
(* Conditions (TACConditionalCodeGen): code that jumps to one of two       *)
(* blocks.                                                                 *)
(***************************************************************************)
RECURSIVE visit(_, _), visitCondition(_, _, _, _)

\* The values of the nodes es, as a sequence in cg.value.
Collected(one, values) == [one EXCEPT !.value = Append(values, one.value)]

visitAll(cg, es) ==
  Through(LAMBDA c, e : Collected(visit(c, e), c.value), [cg EXCEPT !.value = <<>>], es)

Call(cg, callee, args) == Compute(cg, [op |-> "call", args |-> <<callee>> \o args])

CallMethod(operands, n) == Call(operands, <<"function", n.op>>, operands.value)

JumpIfValue(cg, ifTrue, ifFalse) == JumpIf(cg, cg.value, ifTrue, ifFalse)

Compared(operands, n, ifTrue, ifFalse) ==
  CondJump(operands, operands.value[1], n.op, operands.value[2], ifTrue, ifFalse)

ConditionComparison(operands, n, ifTrue, ifFalse) ==
  IF n.method THEN JumpIfValue(CallMethod(operands, n), ifTrue, ifFalse)
  ELSE Compared(operands, n, ifTrue, ifFalse)

\* Mutant of ConditionLogical: "or" goes on to its right side when it holds.
ConditionSwapped(cg, n, ifTrue, ifFalse) ==
  LET second == NewBlock(cg, 1)
      first == visitCondition(createBlocks(cg, 1), n.lhs, second, ifFalse)
  IN  visitCondition(setBlock(first, second), n.rhs, ifTrue, ifFalse)

ConditionLogical(cg, n, ifTrue, ifFalse) ==
  LET second == NewBlock(cg, 1)
      first == IF n.op = "and" THEN visitCondition(createBlocks(cg, 1), n.lhs, second, ifFalse)
               ELSE visitCondition(createBlocks(cg, 1), n.lhs, ifTrue, second)
  IN  visitCondition(setBlock(first, second), n.rhs, ifTrue, ifFalse)

\* object has been evaluated; cg.value is its tag.
TestTag(cg, n, object, ifTrue, ifFalse) ==
  LET setup == NewBlock(cg, 1)
      tested == CondJump(createBlocks(cg, 1), cg.value, "==", Const(n.tag), setup, ifFalse)
  IN  Jump(storeMembers(setBlock(tested, setup), n.symbols, object), ifTrue)

ConditionMatches(cg, n, ifTrue, ifFalse) ==
  TestTag(IndexedLoad(cg, cg.value, TagOffset), n, cg.value, ifTrue, ifFalse)

visitCondition(cg, n, ifTrue, ifFalse) ==
  CASE n.node = "Comparison" -> ConditionComparison(visitAll(cg, <<n.lhs, n.rhs>>), n, ifTrue, ifFalse)
    [] n.node = "Logical"    -> ConditionLogical(cg, n, ifTrue, ifFalse)
    [] n.node = "Matches"    -> ConditionMatches(visit(cg, n.body), n, ifTrue, ifFalse)
    [] n.node = "Not"        -> visitCondition(cg, n.arg, ifFalse, ifTrue)
    [] OTHER                 -> JumpIfValue(visit(cg, n), ifTrue, ifFalse)

-----------------------------------------------------------------------------
(***************************************************************************)
(* Expressions.                                                            *)
(***************************************************************************)
\* Both branches meet in a block that starts with a phi.
Meet(cg, ifTrue, ifFalse, continueAt, valueIfTrue) ==
  LET jumps == Jump(setBlock(Jump(setBlock(cg, ifFalse), continueAt), ifTrue), continueAt)
  IN  Compute(setBlock(jumps, continueAt),
              [op |-> "phi", sources |-> {<<ifFalse, Const(1 - valueIfTrue)>>, <<ifTrue, Const(valueIfTrue)>>}])

\* The operands have been evaluated.
visitComparison(cg, n) ==
  LET new(i) == NewBlock(cg, i)
  IN  IF n.method THEN CallMethod(cg, n)
      ELSE Meet(Compared(createBlocks(cg, 3), n, new(1), new(2)), new(1), new(2), new(3), 1)

visitLogical(cg, n) ==
  LET continueAt == NewBlock(cg, 1)
      testSecond == NewBlock(cg, 2)
      trueBranch == NewBlock(cg, 3)
      falseBranch == NewBlock(cg, 4)
      first == IF n.op = "and" THEN JumpIfValue(visit(createBlocks(cg, 4), n.lhs), testSecond, falseBranch)
               ELSE JumpIfValue(visit(createBlocks(cg, 4), n.lhs), trueBranch, testSecond)
      second == JumpIfValue(visit(setBlock(first, testSecond), n.rhs), trueBranch, falseBranch)
  IN  Meet(second, trueBranch, falseBranch, continueAt, 1)

\* The argument has been evaluated.
visitNot(cg) ==
  LET new(i) == NewBlock(cg, i)
  IN  Meet(JumpIfValue(createBlocks(cg, 3), new(1), new(2)), new(1), new(2), new(3), 0)

Binary(cg, lhs, operation, rhs) ==
  Compute(cg, [op |-> "binary", operation |-> operation, args |-> <<lhs, rhs>>])

AddHeader(cg) == Binary(cg, cg.value, "+", Const(HeaderSize))

ElementOffset(cg, index) == AddHeader(Binary(cg, index, "*", Const(8)))

\* cg.value was the arguments, args.
LoadElement(cg, args) == Compute(cg, [op |-> "indexedload", args |-> <<args[1], cg.value>>])
visitArrayAt(cg) == LoadElement(ElementOffset(cg, cg.value[2]), cg.value)

StoreElement(cg, args) == Emit(cg, [op |-> "indexedstore", args |-> <<args[1], cg.value, args[3]>>])
visitSetArray(cg) == NoValue(StoreElement(ElementOffset(cg, cg.value[2]), cg.value))

\* cg.value is the closure: its function, and its environment as an argument.
CallWithEnvironment(cg, fn, args) == Call(cg, fn, Append(args, cg.value))
CallFunctionOf(cg, closure, args) ==
  CallWithEnvironment(IndexedLoad(cg, closure, FieldOffset(2)), cg.value, args)
CallLoaded(cg, args) == CallFunctionOf(IndexedLoad(cg, cg.value, FieldOffset(1)), cg.value, args)
visitCallClosure(cg, n) == CallLoaded(load(cg, n.symbol), cg.value)

\* lambdas are those of the program.
visitLambda(cg, n) ==
  LET lambda == cg.lambdas[n.lambda]
  IN  createClosure(cg, n.lambda, Captures(lambda), lambda.boxed)

-----------------------------------------------------------------------------
(***************************************************************************)
(* Statements.                                                             *)
(***************************************************************************)
\* Where rhs goes; cg has evaluated it.
assignTo(cg, place, rhs) ==
  LET setMember(c) == IndexedStore(c, c.value, FieldOffset(place.index), rhs)
      callSet(c) == Call(c, <<"function", "set">>, Append(c.value, rhs))
  IN  CASE place.node = "Variable" -> IF place.symbol = Wildcard THEN cg ELSE store(cg, place.symbol, rhs)
        [] place.node = "Member"   -> setMember(visit(cg, place.object))
        [] place.node = "Index"    -> callSet(visitAll(cg, <<place.object, place.index>>))

visitAssign(cg, n) ==
  LET assign(c) == assignTo(c, n.lhs, c.value) IN NoValue(assign(visit(cg, n.rhs)))

visitBlock(cg, n) == Through(LAMBDA c, child : visit(NoValue(c), child), NoValue(cg), n.children)

\* What comes after both branches: cg is at the end of the second.  after is
\* where the first one jumped, unless it ended in a jump of its own.
JoinBranches(cg, firstLeft, after) ==
  LET own == NewBlock(cg, 1)
  IN  CASE isTerminated(cg) /\ firstLeft   -> cg
        [] isTerminated(cg) /\ ~firstLeft  -> setBlock(cg, after)
        [] ~isTerminated(cg) /\ firstLeft  -> setBlock(Jump(createBlocks(cg, 1), own), own)
        [] ~isTerminated(cg) /\ ~firstLeft -> setBlock(Jump(cg, after), after)

\* cg is at the end of the first branch.
visitElse(cg, n, falseBranch) ==
  LET after == NewBlock(cg, 1)
      left == IF isTerminated(cg) THEN cg ELSE Jump(createBlocks(cg, 1), after)
  IN  IF n.elseBody.node = "Absent"
        THEN setBlock(JumpUnlessTerminated(cg, falseBranch), falseBranch)
        ELSE JoinBranches(visit(setBlock(left, falseBranch), n.elseBody), isTerminated(cg), after)

visitIfElse(cg, n) ==
  LET trueBranch == NewBlock(cg, 1)
      falseBranch == NewBlock(cg, 2)
      tested == visitCondition(createBlocks(cg, 2), n.condition, trueBranch, falseBranch)
  IN  NoValue(visitElse(visit(setBlock(tested, trueBranch), n.body), n, falseBranch))

visitAssert(cg, n) ==
  LET falseBranch == NewBlock(cg, 1)
      continueAt == NewBlock(cg, 2)
      tested == visitCondition(createBlocks(cg, 2), n.condition, continueAt, falseBranch)
      panics == Call(setBlock(tested, falseBranch), <<"function", "panic">>, <<>>)
  IN  NoValue(setBlock(Jump(panics, continueAt), continueAt))

\* The body of a loop, and the block after it.
CloseLoop(cg, around, entry, exit) ==
  setBlock([JumpUnlessTerminated(cg, entry) EXCEPT !.entry = around.entry, !.exit = around.exit], exit)

visitLoopBody(cg, n, entry, exit) ==
  NoValue(CloseLoop(visit([cg EXCEPT !.entry = entry, !.exit = exit], n.body), cg, entry, exit))

visitWhile(cg, n) ==
  LET loopBegin == NewBlock(cg, 1)
      loopExit == NewBlock(cg, 2)
      loopBody == NewBlock(cg, 3)
      begun == setBlock(Jump(createBlocks(cg, 3), loopBegin), loopBegin)
      tested == visitCondition(begun, n.condition, loopBody, loopExit)
  IN  visitLoopBody(setBlock(tested, loopBody), n, loopBegin, loopExit)

visitForever(cg, n) ==
  LET loopBody == NewBlock(cg, 1)
      loopExit == NewBlock(cg, 2)
  IN  visitLoopBody(setBlock(Jump(createBlocks(cg, 2), loopBody), loopBody), n, loopBody, loopExit)

\* cg is after the call of next; cg.value is what it returned.
ForElement(cg, n, option, isSome, loopExit) ==
  LET tested == CondJump(cg, cg.value, "==", Const(SomeTag), isSome, loopExit)
  IN  storeMembers(setBlock(tested, isSome), <<n.symbol>>, option)

ForTest(cg, n, isSome, loopExit) ==
  ForElement(IndexedLoad(cg, cg.value, TagOffset), n, cg.value, isSome, loopExit)

ForNext(cg, loopBegin) ==
  Call(setBlock(Jump(cg, loopBegin), loopBegin), <<"function", "next">>, <<cg.value>>)

\* The iterable has been evaluated.
visitFor(cg, n) ==
  LET loopBegin == NewBlock(cg, 1)
      loopExit == NewBlock(cg, 2)
      isSome == NewBlock(cg, 3)
      iterator == Call(createBlocks(cg, 3), <<"function", "iter">>, <<cg.value>>)
  IN  visitLoopBody(ForTest(ForNext(iterator, loopBegin), n, isSome, loopExit), n, loopBegin, loopExit)

\* The tests of the arms, one after the other.  The order is that of a hash
\* table; arms have different tags.  first is the block of the first arm.
TestArm(cg, n, tag, i, first) ==
  LET next == NewBlock(cg, 1)
  IN  IF n.arms[i].tag = CatchAll THEN cg
      ELSE setBlock(CondJump(createBlocks(cg, 1), tag, "==", Const(n.arms[i].tag), first + i - 1, next), next)

LastTest(cg, n, first) ==
  LET catch == {i \in DOMAIN n.arms : n.arms[i].tag = CatchAll}
  IN  IF catch = {} THEN Emit(cg, [op |-> "unreachable", args |-> <<>>])
      ELSE Jump(cg, first + (CHOOSE i \in catch : TRUE) - 1)

visitArm(cg, arm, block, object, continueAt) ==
  JumpUnlessTerminated(visit(storeMembers(setBlock(cg, block), arm.symbols, object), arm.body), continueAt)

\* Nothing comes after a match whose arms all leave.
AfterMatch(cg) ==
  IF \E code \in ToSet(cg.code) : cg.block \in ToSet(Targets(code)) THEN cg
  ELSE Emit(cg, [op |-> "unreachable", args |-> <<>>])

visitArms(cg, n, object, first) ==
  LET numbers == [i \in DOMAIN n.arms |-> i]
      continueAt == first + Len(n.arms)
      tests == Through(LAMBDA c, i : TestArm(c, n, cg.value, i, first), cg, numbers)
      arms == Through(LAMBDA c, i : visitArm(c, n.arms[i], first + i - 1, object, continueAt),
                      LastTest(tests, n, first), numbers)
  IN  NoValue(AfterMatch(setBlock(arms, continueAt)))

visitMatch(cg, n, first) == visitArms(IndexedLoad(cg, cg.value, TagOffset), n, cg.value, first)

\* In these, cg has evaluated the operands.
visitReturn(cg) == NoValue(Emit(cg, [op |-> "return", args |-> cg.value]))
visitCall(cg, n) == Call(cg, <<"function", n.name>>, cg.value)
visitCast(cg) == Compute(cg, [op |-> "copy", src |-> cg.value])
visitBinop(cg, n) == Binary(cg, cg.value[1], n.op, cg.value[2])
visitMember(cg, n) == IndexedLoad(cg, cg.value, FieldOffset(n.index))
visitLet(cg, n) == NoValue(storeMembers(cg, n.symbols, cg.value))

visit(cg, n) ==
  CASE n.node = "Int"         -> [cg EXCEPT !.value = Const(n.value)]
    [] n.node = "Variable"    -> load(cg, n.symbol)
    [] n.node = "Call"        -> visitCall(visitAll(cg, n.args), n)
    [] n.node = "CallClosure" -> visitCallClosure(visitAll(cg, n.args), n)
    [] n.node = "Not"         -> visitNot(visit(cg, n.arg))
    [] n.node = "Cast"        -> visitCast(visit(cg, n.arg))
    [] n.node = "Binop"       -> visitBinop(visitAll(cg, <<n.lhs, n.rhs>>), n)
    [] n.node = "Comparison"  -> visitComparison(visitAll(cg, <<n.lhs, n.rhs>>), n)
    [] n.node = "Logical"     -> visitLogical(cg, n)
    [] n.node = "Member"      -> visitMember(visit(cg, n.object), n)
    [] n.node = "ArrayAt"     -> visitArrayAt(visitAll(cg, <<n.array, n.index>>))
    [] n.node = "SetArray"    -> visitSetArray(visitAll(cg, <<n.array, n.index, n.element>>))
    [] n.node = "Lambda"      -> visitLambda(cg, n)
    [] n.node = "Let"         -> visitLet(visit(cg, n.body), n)
    [] n.node = "Assign"      -> visitAssign(cg, n)
    [] n.node = "Block"       -> visitBlock(cg, n)
    [] n.node = "IfElse"      -> visitIfElse(cg, n)
    [] n.node = "Assert"      -> visitAssert(cg, n)
    [] n.node = "While"       -> visitWhile(cg, n)
    [] n.node = "Forever"     -> visitForever(cg, n)
    [] n.node = "For"         -> visitFor(visit(cg, n.iterable), n)
    [] n.node = "Match"       -> visitMatch(visit(createBlocks(cg, Len(n.arms) + 1), n.expr), n,
                                            NewBlock(cg, 1))
    [] n.node = "Break"       -> NoValue(Jump(cg, cg.exit))
    [] n.node = "Continue"    -> NoValue(Jump(cg, cg.entry))
    [] n.node = "Return"      -> visitReturn(visitAll(cg, n.expression))
    [] n.node = "Pass"        -> NoValue(cg)

-----------------------------------------------------------------------------
(***************************************************************************)
(* Functions.                                                              *)
(***************************************************************************)
Fresh(p) ==
  [code |-> <<<<>>>>, block |-> 1, temps |-> 0, value |-> <<>>, locals |-> {},
   entry |-> None, exit |-> None, asserts |-> TRUE, lambdas |-> p.lambdas]

Function(cg, params) ==
  [succ |-> [b \in DOMAIN cg.code |-> Targets(cg.code[b])], code |-> cg.code,
   locals |-> cg.locals, params |-> params, asserts |-> cg.asserts]

Return(cg, value) ==
  Emit(cg, [op |-> "return", args |-> IF value = <<>> THEN <<>> ELSE <<value>>])

ReturnValue(cg, params) == Function(Return(cg, cg.value), params)

visitFunction(p) ==
  LET implicit(cg) == IF isTerminated(cg) THEN Function(cg, p.params) ELSE ReturnValue(cg, p.params)
  IN  implicit(visit(Fresh(p), p.body))

lambdaFunction(p, lambda) ==
  ReturnValue(visit(Fresh(p), Replaced(lambda.body, Captures(lambda))), <<lambda.param, Env>>)

\* cg.value is the object; parameter i becomes its field i.
FillMember(cg, i, param) ==
  LET fill(c) == IndexedStore(c, cg.value, FieldOffset(i), c.value)
  IN  [fill(Compute(cg, [op |-> "load", src |-> param])) EXCEPT !.value = cg.value]

\* p.boxed are the indices of the parameters that are references.
createConstructor(p) ==
  LET allocated == gcAllocate(Fresh(p), Const(HeaderSize + 8 * Len(p.params)))
      headed == writeHeader(allocated, allocated.value, p.tag, refMask(p.boxed))
  IN  ReturnValue(Through(LAMBDA cg, i : FillMember(cg, i, p.params[i]), headed,
                          [i \in DOMAIN p.params |-> i]),
                  p.params)

\* cg.value is the array, count its number of elements.
writeArray(cg, p, count) ==
  LET tag == IF p.boxed = {} THEN UnboxedArrayTag ELSE BoxedArrayTag
      tagged == IndexedStore(cg, cg.value, TagOffset, Const(tag))
      headed == Emit(tagged, [op |-> "indexedstore", args |-> <<cg.value, Const(MaskOffset), count>>])
  IN  IF p.zero THEN Emit(headed, [op |-> "memset", args |-> <<cg.value, count>>]) ELSE headed

makeArray(p) ==
  LET sized(cg) == ElementOffset(cg, cg.value)
      allocate(cg) == gcAllocate(cg, cg.value)
      count == Compute(Fresh(p), [op |-> "load", src |-> p.params[1]])
  IN  ReturnValue(writeArray(allocate(sized(count)), p, count.value), p.params)

CodeGen(p) ==
  [main    |-> CASE p.kind = "function"    -> visitFunction(p)
                 [] p.kind = "constructor" -> createConstructor(p)
                 [] p.kind = "array"       -> makeArray(p),
   lambdas |-> [i \in DOMAIN p.lambdas |-> lambdaFunction(p, p.lambdas[i])]]

-----------------------------------------------------------------------------
(***************************************************************************)
(* TACValidator: what must hold of the code the generator produced.        *)
(***************************************************************************)
blocksTerminated(f) ==
  \A b \in DOMAIN f.code : f.code[b] # <<>> /\ Last(f.code[b]).op \in Terminators

InstructionsOf(f) == UNION {ToSet(f.code[b]) : b \in DOMAIN f.code}

OperandsOf(inst) ==
  (IF "args" \in DOMAIN inst THEN ToSet(inst.args) ELSE {})
    \cup (IF "src" \in DOMAIN inst THEN {inst.src} ELSE {})
    \cup (IF "sources" \in DOMAIN inst THEN {s[2] : s \in inst.sources} ELSE {})

localsGood(f) ==
  \A inst \in InstructionsOf(f) :
    inst.op \notin {"load", "store"} => OperandsOf(inst) \cap f.locals = {}

tempsDefined(f) ==
  \A inst \in InstructionsOf(f) : \A x \in OperandsOf(inst) :
    x[1] = "t" => \E definer \in InstructionsOf(f) : "dest" \in DOMAIN definer /\ definer.dest = x

isValid(f) == blocksTerminated(f) /\ localsGood(f) /\ tempsDefined(f)

-----------------------------------------------------------------------------
(***************************************************************************)
(* A machine for the code.  Its heap holds objects as the collector sees   *)
(* them, [tag, mask, fields]; vars holds the temporaries too.              *)
(***************************************************************************)
ValueOf(s, x) ==
  CASE x[1] \in {"const", "bits"} -> x[2]
    [] x[1] = "lambda" -> FirstFunction + x[2]
    [] OTHER -> s.vars[x]

Assign(s, dest, v) == [s EXCEPT !.vars = (dest :> v) @@ @]

ReadWord(object, offset) ==
  CASE offset = TagOffset  -> object.tag
    [] offset = MaskOffset -> object.mask
    [] OTHER -> object.fields[(offset - HeaderSize) \div 8 + 1]

WriteWord(object, offset, v) ==
  CASE offset = TagOffset  -> [object EXCEPT !.tag = v]
    [] offset = MaskOffset -> [object EXCEPT !.mask = v]
    [] OTHER -> [object EXCEPT !.fields[(offset - HeaderSize) \div 8 + 1] = v]

RECURSIVE RunFunction(_, _, _, _), RunBlocks(_, _, _, _, _)

PerformCall(fs, s, inst) ==
  LET callee == inst.args[1]
      args == [i \in 1 .. Len(inst.args) - 1 |-> ValueOf(s, inst.args[i + 1])]
      done == IF callee = <<"function", "gcAllocate">>
                THEN Make(s, [tag |-> None, mask |-> {},
                              fields |-> [i \in 1 .. (args[1] - HeaderSize) \div 8 |-> 0]])
              ELSE IF callee[1] = "function" THEN CallOut(s, callee[2], args)
              ELSE RunFunction(fs, fs.lambdas[ValueOf(s, callee) - FirstFunction], args, s)
  IN  Then(done, LAMBDA t : Assign(t, inst.dest, t.value))

\* came is the block control comes from.
Perform(fs, came, s, inst) ==
  LET args == IF "args" \in DOMAIN inst THEN inst.args ELSE <<>>
      arg(i) == ValueOf(s, args[i])
      goto(b) == [s EXCEPT !.signal = "jump", !.value = b]
  IN  CASE inst.op \in {"load", "store", "copy"} -> Assign(s, inst.dest, ValueOf(s, inst.src))
        [] inst.op = "call" -> PerformCall(fs, s, inst)
        [] inst.op = "binary" -> Assign(s, inst.dest, Apply(inst.operation, arg(1), arg(2)))
        [] inst.op = "indexedload" -> Assign(s, inst.dest, ReadWord(s.heap[arg(1)], arg(2)))
        [] inst.op = "indexedstore" -> [s EXCEPT !.heap[arg(1)] = WriteWord(@, arg(2), arg(3))]
        [] inst.op = "memset" -> [s EXCEPT !.heap[arg(1)].fields = [i \in 1 .. arg(2) |-> 0]]
        [] inst.op = "phi" ->
             Assign(s, inst.dest, ValueOf(s, (CHOOSE x \in inst.sources : x[1] = came)[2]))
        [] inst.op = "jump" -> goto(inst.targets[1])
        [] inst.op = "jumpif" -> goto(inst.targets[IF arg(1) # 0 THEN 1 ELSE 2])
        [] inst.op = "condjump" -> goto(inst.targets[IF Holds(inst.relation, arg(1), arg(2)) THEN 1 ELSE 2])
        [] inst.op = "return" ->
             [s EXCEPT !.signal = "return", !.value = IF args = <<>> THEN None ELSE arg(1)]
        [] inst.op = "unreachable" -> [s EXCEPT !.signal = "unreachable"]

RunBlocks(fs, f, came, b, s) ==
  LET perform(t, inst) == Then(t, LAMBDA u : Perform(fs, came, u, inst))
      done == Through(perform, s, f.code[b])
  IN  IF done.signal = "jump" THEN RunBlocks(fs, f, b, done.value, [done EXCEPT !.signal = "next"])
      ELSE done

\* A call of f: s goes on after a return.
RunFunction(fs, f, args, s) ==
  LET parameters == [x \in ToSet(f.params) |-> args[CHOOSE i \in DOMAIN f.params : f.params[i] = x]]
      done == RunBlocks(fs, f, None, 1, [s EXCEPT !.vars = parameters])
  IN  IF done.signal = "return" THEN [done EXCEPT !.signal = "next", !.vars = s.vars] ELSE done

\* s has the arguments.
RunCode(fs, s) == RunBlocks(fs, fs.main, None, 1, s)

-----------------------------------------------------------------------------
(***************************************************************************)
(* The code against the tree: from the same arguments, given the same      *)
(* answers, both make the same calls, end in the same way and leave the    *)
(* same values in the objects there were; and every object the code        *)
(* allocated has a header that tells the collector which fields are        *)
(* references.                                                             *)
(***************************************************************************)
Objects ==
  (OptionNone :> [tag |-> 0, mask |-> {}, fields |-> <<>>])
  @@ (OptionSome :> [tag |-> SomeTag, mask |-> {}, fields |-> <<3>>])
  @@ (102 :> [tag |-> 0, mask |-> {}, fields |-> <<4, 5>>])
  @@ (103 :> [tag |-> UnboxedArrayTag, mask |-> 2, fields |-> <<6, 7>>])

Start(p, inputs) ==
  [vars   |-> [x \in ToSet(p.params) |-> p.arguments[CHOOSE i \in DOMAIN p.params : p.params[i] = x]],
   heap   |-> Objects,
   trace  |-> <<>>,
   inputs |-> inputs,
   value  |-> None,
   signal |-> "next"]

\* An object a program is told of: an old one, or the one it returns.
Contents(s, a) == [tag |-> s.heap[a].tag, fields |-> s.heap[a].fields]

SameRun(tree, code) ==
  /\ tree.trace = code.trace
  /\ tree.signal = code.signal
  /\ \A a \in DOMAIN Objects : Contents(tree, a) = Contents(code, a)
  /\ tree.signal = "return" =>
       /\ Seen(tree.value) = Seen(code.value)
       /\ tree.value \in DOMAIN tree.heap /\ "fields" \in DOMAIN tree.heap[tree.value] =>
            Contents(tree, tree.value) = Contents(code, code.value)

IsReference(v) == v >= FirstObject

HeaderTells(object) ==
  object.tag \notin {BoxedArrayTag, UnboxedArrayTag} =>
    \A i \in DOMAIN object.fields :
      IF i - 1 \in object.mask THEN IsReference(object.fields[i]) \/ object.fields[i] = 0
      ELSE ~IsReference(object.fields[i])

\* code is what the generator makes of p.
FollowsTree(p, code, inputs) ==
  LET done == RunCode(code, Start(p, inputs))
  IN  /\ SameRun(RunTree(p, Start(p, inputs)), done)
      /\ \A a \in DOMAIN done.heap : HeaderTells(done.heap[a])
=============================================================================
