----------------------------- MODULE MachineCode -----------------------------
(***************************************************************************)
(* From three-address code out of SSA form to instructions of the machine: *)
(* constant folding (ir/constant_folding.cpp), instruction selection       *)
(* (codegen/machine_codegen.cpp), the frame (codegen/stack_alloc.cpp) and  *)
(* the operands the printer writes (codegen/asm_printer.cpp).              *)
(*                                                                         *)
(* Numbers have the width of their type; ByteBits, WordBits and            *)
(* ImmediateBits stand for 8, 64 and 32.  A function is [blocks, temps,    *)
(* params]; its instructions are those of TacCodegen with typed operands.  *)
(***************************************************************************)
EXTENDS Passes

CONSTANTS
  ByteBits, ImmediateBits, WordBits

ASSUME WidthsAssumption ==
  /\ {ByteBits, ImmediateBits, WordBits} \subseteq Nat \ {0}
  /\ ByteBits < ImmediateBits /\ ImmediateBits < WordBits /\ 2 * ByteBits < WordBits

-----------------------------------------------------------------------------
(***************************************************************************)
(* Types: "I64", "U64", "U8", "Ref", "Addr" and, in the machine, "U16".    *)
(***************************************************************************)
Size(type) ==
  CASE type = "U8"  -> ByteBits
    [] type = "U16" -> 2 * ByteBits
    [] OTHER        -> WordBits

isSigned(type) == type = "I64"

Low(x, bits) == x % 2^bits
Signed(x, bits) == IF x >= 2^(bits - 1) THEN x - 2^bits ELSE x

\* Towards zero.
Absolute(x) == IF x < 0 THEN -x ELSE x
Quotient(x, y) ==
  LET q == Absolute(x) \div Absolute(y) IN IF (x < 0) = (y < 0) THEN q ELSE -q
Remainder(x, y) == x - y * Quotient(x, y)

\* The id of a constant is the number, of a global its address.
Operand(kind, type, id) == [kind |-> kind, type |-> type, id |-> id]

-----------------------------------------------------------------------------
(***************************************************************************)
(* ConstantFolding.  Constants have 64 bits here, whatever their type, and *)
(* the result is narrowed.  A division of a constant by zero is refused by *)
(* an assertion: no function given to this module has one.                 *)
(***************************************************************************)
IsConst(v) == v.kind = "const"

\* Mutant of FoldedValue: the result keeps its 64 bits.
FoldedWide(operation, type, x, y) ==
  Low(CASE operation = "+" -> x + y
        [] operation = "-" -> x - y
        [] operation = "*" -> x * y
        [] operation = "/" -> IF isSigned(type) THEN Quotient(Signed(x, WordBits), Signed(y, WordBits))
                              ELSE x \div y
        [] operation = "%" -> IF isSigned(type) THEN Remainder(Signed(x, WordBits), Signed(y, WordBits))
                              ELSE x % y, WordBits)

FoldedValue(operation, type, x, y) ==
  Low(CASE operation = "+" -> x + y
        [] operation = "-" -> x - y
        [] operation = "*" -> x * y
        [] operation = "/" -> IF isSigned(type) THEN Quotient(Signed(x, WordBits), Signed(y, WordBits))
                              ELSE x \div y
        [] operation = "%" -> IF isSigned(type) THEN Remainder(Signed(x, WordBits), Signed(y, WordBits))
                              ELSE x % y, Size(type))

IsFolded(inst) == inst.op = "binary" /\ IsConst(inst.args[1]) /\ IsConst(inst.args[2])

\* replaceReferences: r gives the constants of temporaries.
ReplacedIn(r, inst) ==
  [inst EXCEPT !.args = [i \in DOMAIN @ |->
     IF @[i].kind = "temp" /\ @[i].id \in DOMAIN r THEN r[@[i].id] ELSE @[i]]]

\* A walk is [known, done].
FoldInto(walk, inst) ==
  IF IsFolded(inst)
    THEN [walk EXCEPT !.known =
            (inst.dest.id :> Operand("const", inst.args[1].type,
               FoldedValue(inst.operation, inst.args[1].type, inst.args[1].id, inst.args[2].id))) @@ @]
    ELSE [walk EXCEPT !.done = Append(@, inst)]

FoldBlock(walk, block) ==
  LET folded == Through(LAMBDA w, inst : FoldInto(w, ReplacedIn(w.known, inst)),
                        [known |-> walk.known, done |-> <<>>], block)
  IN  [known |-> folded.known, blocks |-> Append(walk.blocks, folded.done)]

\* What comes before its definition, as in a loop, is replaced too.
ReplacedEverywhere(walk) ==
  [b \in DOMAIN walk.blocks |-> [i \in DOMAIN walk.blocks[b] |->
     ReplacedIn(walk.known, walk.blocks[b][i])]]

ConstantFolding(blocks) ==
  ReplacedEverywhere(Through(FoldBlock, [known |-> [t \in {} |-> 0], blocks |-> <<>>], blocks))

-----------------------------------------------------------------------------
(***************************************************************************)
(* MachineCodeGen.  An instruction is [opcode, outs, ins]; mc is [code,    *)
(* fresh], the current block's instructions and the next virtual register. *)
(***************************************************************************)
rax == 0    rcx == 2    rdx == 3    rsi == 4    rdi == 5    r8 == 6    r9 == 7
rbp == 14   rsp == 15

Hreg(hreg, type) == Operand("hreg", type, hreg)
Imm(type, value) == Operand("imm", type, value)
Label(block) == Operand("label", "Addr", block)
vrsp == Hreg(rsp, "Addr")
vrbp == Hreg(rbp, "Addr")

isRegister(o) == o.kind \in {"vreg", "hreg"}

getOperand(v) ==
  [v EXCEPT !.kind = CASE @ = "const" -> "imm" [] @ = "temp" -> "vreg"
                       [] @ = "arg" -> "slot" [] @ = "global" -> "address"]

emit(mc, opcode, outs, ins) ==
  [mc EXCEPT !.code = Append(@, [opcode |-> opcode, outs |-> outs, ins |-> ins])]

NewVreg(mc, type) == Operand("vreg", type, mc.fresh)

emitMovrd(mc, dest, src) ==
  CASE src.kind = "address" -> emit(mc, "LEA", <<dest>>, <<src>>)
    [] isRegister(src) ->      \* what is narrower than a word is unsigned
         emit(mc, IF Size(dest.type) <= Size(src.type) THEN "MOVrd" ELSE "MOVZXrr", <<dest>>, <<src>>)
    [] src.kind = "imm" ->
         emit(mc, "MOVrd", <<dest>>,
              <<[src EXCEPT !.id = IF Size(dest.type) < Size(src.type) THEN Low(@, Size(dest.type)) ELSE @]>>)

\* Into NewVreg(mc, src.type).
InVreg(mc, src) == emitMovrd([mc EXCEPT !.fresh = @ + 1], NewVreg(mc, src.type), src)

is32Bit(value) == Signed(value, WordBits) \in -(2^(ImmediateBits - 1)) .. 2^(ImmediateBits - 1) - 1

WideImmediate(o) == o.kind = "imm" /\ ~is32Bit(o.id)

emitMovmd(mc, base, src, offset) ==
  IF src.kind = "address" \/ WideImmediate(src)
    THEN emit(InVreg(mc, src), "MOVmd", <<>>, <<base, NewVreg(mc, src.type)>> \o offset)
    ELSE emit(mc, "MOVmd", <<>>, <<base, src>> \o offset)

-----------------------------------------------------------------------------
\* The bit operations and shifts of this handler have no use: TACCodeGen
\* makes none.
TwoOperand(mc, opcode, dest, lhs, rhs) ==
  emit(emitMovrd(mc, dest, lhs), opcode, <<dest>>, <<dest, rhs>>)

Multiply(mc, dest, lhs, rhs) ==
  LET al == Hreg(rax, dest.type)
  IN  IF Size(dest.type) = ByteBits
        THEN emitMovrd(TwoOperand(mc, "IMUL", al, lhs, rhs), dest, al)
        ELSE TwoOperand(mc, "IMUL", dest, lhs, rhs)

\* Mutant of ExtendDividend: zeros, whatever the sign.
ExtendWithZeros(mc, vrdx, vrax) == emitMovrd(mc, vrdx, Imm(vrax.type, 0))

ExtendDividend(mc, vrdx, vrax) ==
  IF isSigned(vrax.type) THEN emit(mc, "CQO", <<vrdx>>, <<vrax>>)
  ELSE emitMovrd(mc, vrdx, Imm(vrax.type, 0))

DivideWide(mc, operation, dest, lhs, rhs, vrdx, vrax) ==
  emitMovrd(emit(ExtendDividend(emitMovrd(mc, vrax, lhs), vrdx, vrax),
                 IF isSigned(dest.type) THEN "IDIV" ELSE "DIV",
                 <<vrdx, vrax>>, <<vrdx, vrax, rhs>>),
            dest, IF operation = "/" THEN vrax ELSE vrdx)

\* The only type of this size is unsigned.
DivideByte(mc, operation, dest, lhs, rhs) ==
  LET ax == Hreg(rax, "U16")
      al == Hreg(rax, dest.type)
      divided == emit(emitMovrd(mc, ax, lhs), "DIV", <<IF operation = "/" THEN al ELSE ax>>, <<ax, rhs>>)
  IN  emitMovrd(IF operation = "/" THEN divided
                ELSE emit(divided, "SAR", <<al>>, <<ax, Imm("U8", ByteBits)>>), dest, al)

DivideBy(mc, operation, dest, lhs, rhs) ==
  IF Size(dest.type) = ByteBits THEN DivideByte(mc, operation, dest, lhs, rhs)
  ELSE DivideWide(mc, operation, dest, lhs, rhs, Hreg(rdx, dest.type), Hreg(rax, dest.type))

visitBinaryOperation(mc, operation, dest, lhs, rhs) ==
  CASE operation = "+" -> TwoOperand(mc, "ADD", dest, lhs, rhs)
    [] operation = "-" -> TwoOperand(mc, "SUB", dest, lhs, rhs)
    [] operation = "*" -> Multiply(mc, dest, lhs, rhs)
    [] operation \in {"/", "%"} /\ rhs.kind = "imm" ->
         DivideBy(InVreg(mc, rhs), operation, dest, lhs, NewVreg(mc, dest.type))
    [] operation \in {"/", "%"} /\ rhs.kind # "imm" -> DivideBy(mc, operation, dest, lhs, rhs)

\* Arguments for C are in registers, for the rest on the stack, the last first.
registerArgs == <<rdi, rsi, rdx, rcx, r8, r9>>
ccall == 1     \* its address

PassParams(mc, args) ==
  Through(LAMBDA c, i : emitMovrd(c, Hreg(registerArgs[i], args[i].type), args[i]), mc,
          [i \in DOMAIN args |-> i])

ParamRegisters(args) == [i \in DOMAIN args |-> Hreg(registerArgs[i], args[i].type)]

\* To C on its own stack, through ccall; or to a routine of the run time.
RegisterCall(mc, viaC, vrax, dest, target, args) ==
  emitMovrd(IF viaC
              THEN emit(emitMovrd(PassParams(mc, args), Hreg(rax, "Addr"), target), "CALL",
                        <<vrax>>, <<Operand("address", "Addr", ccall)>> \o ParamRegisters(args))
              ELSE emit(PassParams(mc, args), "CALL", <<vrax>>, <<target>> \o ParamRegisters(args)),
            dest, vrax)

PushParam(mc, param) ==
  IF param.kind = "address" \/ (WideImmediate(param) /\ Size(param.type) = WordBits)
    THEN emit(InVreg(mc, param), "PUSHQ", <<>>, <<NewVreg(mc, param.type)>>)
    ELSE emit(mc, "PUSHQ", <<>>, <<param>>)

\* Mutant of Padded: the stack is not kept aligned.
NotPadded(mc, args) == mc

Padded(mc, args) ==
  IF Len(args) % 2 = 1 THEN emit(mc, "PUSHQ", <<>>, <<Imm("U64", 0)>>) ELSE mc

NativeCall(mc, vrax, dest, target, args) ==
  LET pushed == Through(PushParam, Padded(mc, args), Reverse(args))
      returned == emitMovrd(emit(pushed, "CALL", <<vrax>>, <<target>>), dest, vrax)
      paramsOnStack == Len(args) + (Len(args) % 2)
  IN  IF args = <<>> THEN returned
      ELSE emit(returned, "ADD", <<vrsp>>, <<vrsp, Imm("U64", 8 * paramsOnStack)>>)

visitCall(mc, convention, dest, args) ==
  IF convention = "native" THEN NativeCall(mc, Hreg(rax, dest.type), dest, args[1], Tail(args))
  ELSE RegisterCall(mc, convention = "ccall", Hreg(rax, dest.type), dest, args[1], Tail(args))

-----------------------------------------------------------------------------
JumpOpcode(relation, sign) ==
  CASE relation = "==" -> "JE"
    [] relation = "!=" -> "JNE"
    [] relation = ">"  -> IF sign THEN "JG" ELSE "JA"
    [] relation = "<"  -> IF sign THEN "JL" ELSE "JB"
    [] relation = ">=" -> IF sign THEN "JGE" ELSE "JAE"
    [] relation = "<=" -> IF sign THEN "JLE" ELSE "JBE"

JumpsTo(mc, opcode, targets) ==
  emit(emit(mc, opcode, <<>>, <<Label(targets[1])>>), "JMP", <<>>, <<Label(targets[2])>>)

Compare(mc, lhs, rhs) ==
  IF WideImmediate(rhs) /\ Size(rhs.type) = WordBits
    THEN emit(InVreg(mc, rhs), "CMP", <<>>, <<lhs, NewVreg(mc, rhs.type)>>)
    ELSE emit(mc, "CMP", <<>>, <<lhs, rhs>>)

\* A constant on the left changes places with the right side; the relation
\* stays.
CompareOperands(mc, lhs, rhs) ==
  CASE lhs.kind = "imm" /\ rhs.kind = "imm" -> Compare(InVreg(mc, lhs), NewVreg(mc, lhs.type), rhs)
    [] lhs.kind = "imm" /\ rhs.kind # "imm" -> Compare(mc, rhs, lhs)
    [] lhs.kind # "imm"                     -> Compare(mc, lhs, rhs)

visitConditionalJump(mc, lhs, rhs, relation, targets) ==
  JumpsTo(CompareOperands(mc, lhs, rhs), JumpOpcode(relation, isSigned(lhs.type)), targets)

visitJumpIf(mc, condition, targets) ==
  IF condition.kind = "imm"
    THEN emit(mc, "JMP", <<>>, <<Label(IF condition.id = 1 THEN targets[1] ELSE targets[2])>>)
    ELSE JumpsTo(emit(mc, "CMP", <<>>, <<condition, Imm("U64", 1)>>), "JE", targets)

LeaveFrame(mc, result) ==
  emit(emit(emitMovrd(mc, vrsp, vrbp), "POP", <<vrbp>>, <<>>), "RET", <<>>, result)

visitReturn(mc, args) ==
  IF args = <<>> THEN LeaveFrame(mc, <<>>)
  ELSE LeaveFrame(emitMovrd(mc, Hreg(rax, args[1].type), args[1]), <<Hreg(rax, args[1].type)>>)

visitMemset(mc, dest, offset, count, value) ==
  LET vrdi == Hreg(rdi, "U64")
      vrcx == Hreg(rcx, "U64")
      vrax == Hreg(rax, value.type)
      pointed == emit(emitMovrd(mc, vrdi, dest), "ADD", <<vrdi>>, <<vrdi, offset>>)
  IN  emit(emitMovrd(emitMovrd(pointed, vrcx, count), vrax, value), "REP_STOS", <<>>, <<vrdi, vrcx, vrax>>)

\* With its operands translated.
visitWith(mc, inst, dest, args) ==
  CASE inst.op = "binary"       -> visitBinaryOperation(mc, inst.operation, dest, args[1], args[2])
    [] inst.op = "copy"         -> emitMovrd(mc, dest, args[1])
    [] inst.op = "call"         -> visitCall(mc, inst.convention, dest, args)
    [] inst.op \in {"load", "indexedload"} -> emit(mc, "MOVrm", <<dest>>, args)
    [] inst.op = "store"        -> emitMovmd(mc, args[1], args[2], <<>>)
    [] inst.op = "indexedstore" -> emitMovmd(mc, args[1], args[3], <<args[2]>>)
    [] inst.op = "memset"       -> visitMemset(mc, args[1], args[2], args[3], args[4])
    [] inst.op = "condjump"     -> visitConditionalJump(mc, args[1], args[2], inst.relation, inst.targets)
    [] inst.op = "jumpif"       -> visitJumpIf(mc, args[1], inst.targets)
    [] inst.op = "jump"         -> emit(mc, "JMP", <<>>, <<Label(inst.targets[1])>>)
    [] inst.op = "return"       -> visitReturn(mc, args)
    [] inst.op = "unreachable"  -> mc

visit(mc, inst) ==
  visitWith(mc, inst, IF "dest" \in DOMAIN inst THEN getOperand(inst.dest) ELSE <<>>,
            [i \in DOMAIN inst.args |-> getOperand(inst.args[i])])

Prologue(mc) == emitMovrd(emit(mc, "PUSHQ", <<>>, <<vrbp>>), vrbp, vrsp)

SelectBlock(walk, block) ==
  LET mc == [code |-> <<>>, fresh |-> walk.fresh]
      done == Through(visit, IF walk.blocks = <<>> THEN Prologue(mc) ELSE mc, block)
  IN  [blocks |-> Append(walk.blocks, done.code), fresh |-> done.fresh]

\* temps are numbered up to function.temps.
MachineCodeGen(function) ==
  Through(SelectBlock, [blocks |-> <<>>, fresh |-> function.temps + 1], function.blocks).blocks

\* Between the two, out of SSA form: the functions are already out of it.
Selected(function) == MachineCodeGen([function EXCEPT !.blocks = ConstantFolding(@)])

\* MachineBB::successors: the jumps a block ends in, the last first.
JumpOpcodes == {JumpOpcode(r, s) : r \in {"==", "!=", ">", "<", ">=", "<="}, s \in BOOLEAN} \cup {"JMP"}
isJump(inst) == inst.opcode \in JumpOpcodes

successors(code) ==
  LET jumps == {i \in DOMAIN code : \A j \in i .. Len(code) : isJump(code[j])}
  IN  [k \in 1 .. Cardinality(jumps) |-> code[Len(code) + 1 - k].ins[1].id]

\* StackAlloc: room after the two instructions of the prologue.
StackAlloc(blocks, stackVariables) ==
  LET neededRoom == 16 * ((stackVariables + 1) \div 2)
      room == [opcode |-> "ADD", outs |-> <<vrsp>>, ins |-> <<vrsp, Imm("I64", Low(-neededRoom, WordBits))>>]
  IN  IF neededRoom = 0 THEN blocks
      ELSE [blocks EXCEPT ![1] = SubSeq(@, 1, 2) \o <<room>> \o SubSeq(@, 3, Len(@))]

-----------------------------------------------------------------------------
(***************************************************************************)
(* AsmPrinter: [name, ops], each operand with the size it is written with. *)
(***************************************************************************)
Sized(o, size) == [kind |-> o.kind, id |-> o.id, size |-> size]
Plain(o) == Sized(o, Size(o.type))

\* Parameters are above the saved rbp and the return address.
Memory(base, offset, size) ==
  IF base.kind = "slot"
    THEN [kind |-> "mem", size |-> size, base |-> Plain(vrbp),
          offset |-> <<Plain(Imm("I64", 16 + 8 * (base.id - 1)))>>]
    ELSE [kind |-> "mem", size |-> size, base |-> Plain(base),
          offset |-> [i \in DOMAIN offset |-> Plain(offset[i])]]

As(name, ops) == [name |-> name, ops |-> ops]

\* A product of bytes is imul r/m8, with al implied.
printArithmetic(inst) ==
  IF inst.opcode = "IMUL" /\ Size(inst.ins[1].type) = ByteBits
    THEN As("IMUL", <<Plain(inst.ins[2])>>)
    ELSE As(inst.opcode, <<Plain(inst.outs[1]), Plain(inst.ins[2])>>)

printJump(inst) == As(inst.opcode, <<Sized(inst.ins[1], WordBits)>>)

printMovrm(inst) ==
  As("MOV", <<Plain(inst.outs[1]),
              Memory(inst.ins[1], Tail(inst.ins),
                     Size(IF Len(inst.ins) = 1 THEN inst.ins[1].type ELSE inst.outs[1].type))>>)

printMovmd(inst) ==
  As("MOV", <<Memory(inst.ins[1], SubSeq(inst.ins, 3, Len(inst.ins)), Size(inst.ins[2].type)),
              Plain(inst.ins[2])>>)

printMiscellaneous(inst) ==
  CASE inst.opcode = "REP_STOS" -> As("REP_STOS", <<Plain(inst.ins[3])>>)
    [] inst.opcode = "MOVrd"    -> As("MOV", <<Plain(inst.outs[1]), Sized(inst.ins[1], Size(inst.outs[1].type))>>)
    [] inst.opcode = "MOVZXrr"  -> As("MOVZX", <<Plain(inst.outs[1]), Plain(inst.ins[1])>>)
    [] inst.opcode = "LEA"      -> As("LEA", <<Plain(inst.outs[1]), Plain(inst.ins[1])>>)
    [] inst.opcode = "CALL"     -> As("CALL", <<Plain(inst.ins[1])>>)
    [] inst.opcode = "CMP"      -> As("CMP", <<Plain(inst.ins[1]), Plain(inst.ins[2])>>)
    [] inst.opcode \in {"CQO", "RET"} -> As(inst.opcode, <<>>)
    [] inst.opcode \in {"DIV", "IDIV"} -> As(inst.opcode, <<Plain(Last(inst.ins))>>)
    [] inst.opcode = "POP"      -> As("POP", <<Plain(inst.outs[1])>>)
    [] inst.opcode = "PUSHQ"    -> As("PUSH", <<Sized(inst.ins[1], WordBits)>>)

printInstruction(inst) ==
  CASE inst.opcode \in {"ADD", "SUB", "SAR", "IMUL"} -> printArithmetic(inst)
    [] inst.opcode \in JumpOpcodes -> printJump(inst)
    [] inst.opcode = "MOVrm"       -> printMovrm(inst)
    [] inst.opcode = "MOVmd"       -> printMovmd(inst)
    [] OTHER                       -> printMiscellaneous(inst)
=============================================================================
