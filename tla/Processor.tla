------------------------------ MODULE Processor ------------------------------
(***************************************************************************)
(* Machines for the two kinds of code of MachineCode: one for three-       *)
(* address code, with the types it gives, and an x86-64 for what the       *)
(* printer writes, with the sizes it writes.                               *)
(***************************************************************************)
EXTENDS MachineCode

CONSTANTS
  StackTop,      \* where the return address is
  Signatures     \* of what is called, by address: [params, result, native]

ASSUME StackAssumption == StackTop \in 0 .. 2^WordBits - 1 /\ StackTop % 16 = 8

\* A cell of memory is what one address is used for, a word or a byte in the
\* low end of one.  Garbage has bits set above a byte and in it.
Garbage == 2^(WordBits - 1) + 2^(ByteBits + 1) - 1
CellAt(mem, address) == IF address \in DOMAIN mem THEN mem[address] ELSE Garbage
Merged(word, x, bits) == word - Low(word, bits) + x
StoreCell(mem, address, x, bits) == (address :> Merged(CellAt(mem, address), x, bits)) @@ mem
StoreCells(mem, address, x, bits, count) ==
  Through(LAMBDA m, k : StoreCell(m, address + (bits \div ByteBits) * (k - 1), x, bits), mem,
          [k \in 1 .. count |-> k])

-----------------------------------------------------------------------------
(***************************************************************************)
(* What both kinds of code do: the calls made, with the arguments the      *)
(* callee finds, the memory of the program and the value returned.         *)
(* A state of either has a status: "runs", "returned", "trapped" by a      *)
(* division, "ended" without an instruction to go on with, or "refused".   *)
(***************************************************************************)
Answer(calls, type) == Low(2^(WordBits - 1) + 2^(ByteBits - 1) + 5 * Len(calls), Size(type))
RecordCall(s, target, args) == [s EXCEPT !.calls = Append(@, <<target, args>>)]

GoTo(s, block) == [s EXCEPT !.at = <<block, 1>>]
Ahead(s) == [s EXCEPT !.at = <<@[1], @[2] + 1>>]
Trap(s) == [s EXCEPT !.status = "trapped"]

Related(relation, x, y) ==
  CASE relation = "==" -> x = y
    [] relation = "!=" -> x # y
    [] relation = ">"  -> x > y
    [] relation = "<"  -> x < y
    [] relation = ">=" -> x >= y
    [] relation = "<=" -> x <= y

\* The program's own memory, below the part of the stack in use.
Observed(s, value) ==
  [status |-> s.status, calls |-> s.calls, value |-> value,
   mem |-> [a \in {a \in DOMAIN s.mem : a < StackTop - 256} |-> s.mem[a]]]

\* At most Fuel * Fuel steps, Fuel at a time to spare the checker's stack.
Fuel == 10
StepsOf(step(_), s) ==
  Through(LAMBDA r, k : IF r.status = "runs" THEN step(r) ELSE r, s, [k \in 1 .. Fuel |-> k])
RunOf(step(_), s) ==
  Through(LAMBDA r, k : IF r.status = "runs" THEN StepsOf(step, r) ELSE r, s, [k \in 1 .. Fuel |-> k])

-----------------------------------------------------------------------------
(***************************************************************************)
(* Three-address code.                                                     *)
(***************************************************************************)
Meaning(tac, o) == IF o.kind = "temp" THEN tac.temps[o.id] ELSE o.id
SetTemp(tac, dest, x) == [tac EXCEPT !.temps = (dest.id :> Low(x, Size(dest.type))) @@ @]

\* As a number.
Number(type, x) == IF isSigned(type) THEN Signed(x, WordBits) ELSE x

Divides(type, x, y) ==
  y # 0 /\ ~(isSigned(type) /\ y = -1 /\ x = -(2^(WordBits - 1)))

Calculated(operation, x, y) ==
  CASE operation = "+" -> x + y
    [] operation = "-" -> x - y
    [] operation = "*" -> x * y
    [] operation = "/" -> Quotient(x, y)
    [] operation = "%" -> Remainder(x, y)

Calculate(tac, operation, dest, x, y) ==
  IF operation \in {"/", "%"} /\ ~Divides(dest.type, x, y) THEN Trap(tac)
  ELSE SetTemp(tac, dest, Calculated(operation, x, y))

Load(tac, dest, src) ==
  SetTemp(tac, dest, IF src.kind = "arg" THEN tac.params[src.id] ELSE CellAt(tac.mem, src.id))

StoreAt(tac, address, src) ==
  [tac EXCEPT !.mem = StoreCell(@, address, Meaning(tac, src), Size(src.type))]

TacCall(tac, dest, target, args) ==
  SetTemp(RecordCall(tac, target, args), dest, Answer(tac.calls, dest.type))

Branch(tac, holds, targets) == GoTo(tac, IF holds THEN targets[1] ELSE targets[2])

\* With the values of its arguments.
TacExecute(tac, inst, x) ==
  CASE inst.op = "binary" ->
         Ahead(Calculate(tac, inst.operation, inst.dest,
                         Number(inst.dest.type, x[1]), Number(inst.dest.type, x[2])))
    [] inst.op = "copy" -> Ahead(SetTemp(tac, inst.dest, Number(inst.args[1].type, x[1])))
    [] inst.op = "load" -> Ahead(Load(tac, inst.dest, inst.args[1]))
    [] inst.op = "indexedload" ->
         Ahead(SetTemp(tac, inst.dest, CellAt(tac.mem, x[1] + x[2])))
    [] inst.op = "store" -> Ahead(StoreAt(tac, x[1], inst.args[2]))
    [] inst.op = "indexedstore" -> Ahead(StoreAt(tac, x[1] + x[2], inst.args[3]))
    [] inst.op = "memset" ->
         Ahead([tac EXCEPT !.mem = StoreCells(@, x[1] + x[2], x[4], Size(inst.args[4].type), x[3])])
    [] inst.op = "call" -> Ahead(TacCall(tac, inst.dest, x[1], Tail(x)))
    [] inst.op = "condjump" ->
         Branch(tac, Related(inst.relation, Number(inst.args[1].type, x[1]),
                             Number(inst.args[1].type, x[2])), inst.targets)
    [] inst.op = "jumpif" -> Branch(tac, x[1] = 1, inst.targets)
    [] inst.op = "jump" -> GoTo(tac, inst.targets[1])
    [] inst.op = "return" -> [tac EXCEPT !.status = "returned", !.result = x]
    [] inst.op = "unreachable" -> [tac EXCEPT !.status = "ended"]

TacStep(tac, inst) ==
  TacExecute(tac, inst, [i \in DOMAIN inst.args |->
    IF inst.op = "load" THEN 0 ELSE Meaning(tac, inst.args[i])])

NoCells == [a \in {} |-> 0]

TacRun(blocks, params) ==
  RunOf(LAMBDA tac : TacStep(tac, blocks[tac.at[1]][tac.at[2]]),
        [temps |-> NoCells, mem |-> NoCells, params |-> params, calls |-> <<>>, at |-> <<1, 1>>,
         status |-> "runs", result |-> <<>>])

Promised(function, params) ==
  LET tac == TacRun(function.blocks, params) IN Observed(tac, tac.result)

-----------------------------------------------------------------------------
(***************************************************************************)
(* The processor, with as many registers as the code names.  A call loses  *)
(* all but rbp and rsp; what is in the upper part of a register is kept    *)
(* when a byte of it is written.                                           *)
(***************************************************************************)
Reg(cpu, hreg) == IF <<"hreg", hreg>> \in DOMAIN cpu.regs THEN cpu.regs[<<"hreg", hreg>>] ELSE Garbage
RegOf(cpu, o) == IF <<o.kind, o.id>> \in DOMAIN cpu.regs THEN cpu.regs[<<o.kind, o.id>>] ELSE Garbage

SetReg(cpu, o, x) ==
  [cpu EXCEPT !.regs = (<<o.kind, o.id>> :>
     IF o.size = WordBits THEN x ELSE Merged(RegOf(cpu, o), x, o.size)) @@ @]

SetHreg(cpu, hreg, x, size) == SetReg(cpu, [kind |-> "hreg", id |-> hreg, size |-> size], x)

\* An instruction has room for ImmediateBits, sign-extended.
Encoded(value, size) ==
  IF size < ImmediateBits THEN Low(value, size)
  ELSE Low(Signed(Low(value, ImmediateBits), ImmediateBits), size)

DirectValue(cpu, o) ==
  CASE isRegister(o) -> Low(RegOf(cpu, o), o.size)
    [] o.kind = "imm" -> Encoded(o.id, o.size)
    [] o.kind = "address" -> o.id

AddressOf(cpu, m) ==
  Low(DirectValue(cpu, m.base) + (IF m.offset = <<>> THEN 0 ELSE DirectValue(cpu, m.offset[1])), WordBits)

ValueOf(cpu, o) ==
  IF o.kind = "mem" THEN Low(CellAt(cpu.mem, AddressOf(cpu, o)), o.size) ELSE DirectValue(cpu, o)

Put(cpu, o, x) ==
  IF o.kind = "mem" THEN [cpu EXCEPT !.mem = StoreCell(@, AddressOf(cpu, o), x, o.size)]
  ELSE SetReg(cpu, o, x)

\* imul has no form with a lone constant; a move to a register alone can
\* have a constant of a whole word.
HasEncoding(p) ==
  CASE p.name \in {"ADD", "SUB", "SAR", "CMP"} \/ (p.name = "IMUL" /\ Len(p.ops) = 2) ->
         isRegister(p.ops[1]) /\ (p.ops[2].kind = "imm" \/ p.ops[1].size = p.ops[2].size)
    [] p.name \in {"DIV", "IDIV"} \/ (p.name = "IMUL" /\ Len(p.ops) = 1) -> isRegister(p.ops[1])
    [] p.name = "MOV" -> p.ops[1].size = p.ops[2].size \/ p.ops[2].kind = "imm"
    [] p.name = "LEA" -> p.ops[1].size = WordBits /\ p.ops[2].kind = "address"
    [] p.name = "PUSH" -> p.ops[1].kind # "address"
    [] OTHER -> TRUE

MoveValue(cpu, to, from) ==
  IF isRegister(to) /\ from.kind = "imm" THEN Low(from.id, to.size) ELSE ValueOf(cpu, from)

Arithmetic(name, x, y, size) ==
  Low(CASE name = "ADD"  -> x + y
        [] name = "SUB"  -> x - y
        [] name = "IMUL" -> x * y
        [] name = "SAR"  -> Signed(x, size) \div 2^y, size)

\* On double words: dividend and divisor are numbers.
Divided(cpu, dividend, divisor, least, most) ==
  IF divisor = 0 \/ Quotient(dividend, divisor) \notin least .. most THEN Trap(cpu)
  ELSE SetHreg(SetHreg(cpu, rax, Low(Quotient(dividend, divisor), WordBits), WordBits),
               rdx, Low(Remainder(dividend, divisor), WordBits), WordBits)

\* On ax: the remainder goes to ah.
DividedByte(cpu, ax, divisor) ==
  IF divisor = 0 \/ ax \div divisor >= 2^ByteBits THEN Trap(cpu)
  ELSE SetHreg(cpu, rax, ax \div divisor + (ax % divisor) * 2^ByteBits, 2 * ByteBits)

Divide(cpu, name, o) ==
  CASE o.size = ByteBits -> DividedByte(cpu, Low(Reg(cpu, rax), 2 * ByteBits), ValueOf(cpu, o))
    [] name = "DIV" /\ o.size = WordBits ->
         Divided(cpu, Reg(cpu, rdx) * 2^WordBits + Reg(cpu, rax), ValueOf(cpu, o), 0, 2^WordBits - 1)
    [] name = "IDIV" /\ o.size = WordBits ->
         Divided(cpu, Signed(Reg(cpu, rdx), WordBits) * 2^WordBits + Reg(cpu, rax),
                 Signed(ValueOf(cpu, o), WordBits), -(2^(WordBits - 1)), 2^(WordBits - 1) - 1)

ReturnAddress == 2
CallerFrame == StackTop + 64

Push(cpu, x) ==
  [SetHreg(cpu, rsp, Low(Reg(cpu, rsp) - 8, WordBits), WordBits) EXCEPT
     !.mem = StoreCell(@, Low(Reg(cpu, rsp) - 8, WordBits), x, WordBits)]

Pop(cpu, o) ==
  SetReg(SetHreg(cpu, rsp, Low(Reg(cpu, rsp) + 8, WordBits), WordBits), o,
         CellAt(cpu.mem, Reg(cpu, rsp)))

\* Where the callee, in its convention, finds its arguments.
Passed(cpu, signature) ==
  [i \in DOMAIN signature.params |->
     Low(IF signature.native THEN CellAt(cpu.mem, Reg(cpu, rsp) + 8 * (i - 1))
         ELSE Reg(cpu, registerArgs[i]), Size(signature.params[i]))]

Returned(cpu, signature) ==
  SetHreg([cpu EXCEPT !.regs = [r \in {r \in DOMAIN @ : r[1] = "vreg" \/ r[2] \in {rbp, rsp}} |-> @[r]]],
          rax, Answer(cpu.calls, signature.result), Size(signature.result))

CallTo(cpu, target) ==
  IF target \notin DOMAIN Signatures THEN [cpu EXCEPT !.status = "refused"]
  ELSE RecordCall([Returned(cpu, Signatures[target]) EXCEPT
                     !.frames = Append(@, <<Reg(cpu, rsp), Reg(cpu, rbp)>>)],
                  target, Passed(cpu, Signatures[target]))

Condition(name, flags) ==
  \E r \in {"==", "!=", ">", "<", ">=", "<="}, s \in BOOLEAN :
    /\ JumpOpcode(r, s) = name
    /\ IF s THEN Related(r, Signed(flags.x, flags.size), Signed(flags.y, flags.size))
       ELSE Related(r, flags.x, flags.y)

CpuExecute(cpu, p) ==
  CASE p.name \in {"ADD", "SUB", "SAR"} \/ (p.name = "IMUL" /\ Len(p.ops) = 2) ->
         Ahead(Put(cpu, p.ops[1],
                   Arithmetic(p.name, ValueOf(cpu, p.ops[1]), ValueOf(cpu, p.ops[2]), p.ops[1].size)))
    [] p.name = "IMUL" /\ Len(p.ops) = 1 ->
         Ahead(SetHreg(cpu, rax, Low(Signed(Low(Reg(cpu, rax), ByteBits), ByteBits)
                                       * Signed(ValueOf(cpu, p.ops[1]), ByteBits), 2 * ByteBits),
                       2 * ByteBits))
    [] p.name \in {"DIV", "IDIV"} -> Ahead(Divide(cpu, p.name, p.ops[1]))
    [] p.name = "CQO" ->
         Ahead(SetHreg(cpu, rdx, IF Signed(Reg(cpu, rax), WordBits) < 0 THEN 2^WordBits - 1 ELSE 0, WordBits))
    [] p.name = "MOV" -> Ahead(Put(cpu, p.ops[1], MoveValue(cpu, p.ops[1], p.ops[2])))
    [] p.name \in {"MOVZX", "LEA"} -> Ahead(Put(cpu, p.ops[1], ValueOf(cpu, p.ops[2])))
    [] p.name = "PUSH" -> Ahead(Push(cpu, ValueOf(cpu, p.ops[1])))
    [] p.name = "POP" -> Ahead(Pop(cpu, p.ops[1]))
    [] p.name = "REP_STOS" ->
         Ahead([cpu EXCEPT !.mem = StoreCells(@, Reg(cpu, rdi), ValueOf(cpu, p.ops[1]), p.ops[1].size,
                                              Reg(cpu, rcx))])
    [] p.name = "CMP" ->
         Ahead([cpu EXCEPT !.flags = [x |-> ValueOf(cpu, p.ops[1]), y |-> ValueOf(cpu, p.ops[2]),
                                      size |-> p.ops[1].size]])
    [] p.name = "CALL" ->
         Ahead(CallTo(cpu, IF p.ops[1].id = ccall /\ p.ops[1].kind = "address" THEN Reg(cpu, rax)
                           ELSE ValueOf(cpu, p.ops[1])))
    [] p.name = "JMP" -> GoTo(cpu, p.ops[1].id)
    [] p.name \in JumpOpcodes \ {"JMP"} ->
         IF Condition(p.name, cpu.flags) THEN GoTo(cpu, p.ops[1].id) ELSE Ahead(cpu)
    [] p.name = "RET" ->
         [SetHreg(cpu, rsp, Reg(cpu, rsp) + 8, WordBits) EXCEPT
            !.status = IF CellAt(cpu.mem, Reg(cpu, rsp)) = ReturnAddress THEN "returned" ELSE "refused"]

CpuStep(cpu, code) ==
  IF cpu.at[2] > Len(code) THEN [cpu EXCEPT !.status = "ended"]
  ELSE IF ~HasEncoding(printInstruction(code[cpu.at[2]])) THEN [cpu EXCEPT !.status = "refused"]
  ELSE CpuExecute(cpu, printInstruction(code[cpu.at[2]]))

\* Pushed by a caller that works with whole words, of which a byte is a part.
Entered(params, types) ==
  [regs   |-> (<<"hreg", rsp>> :> StackTop) @@ (<<"hreg", rbp>> :> CallerFrame),
   mem    |-> (StackTop :> ReturnAddress) @@
              [a \in {StackTop + 8 * i : i \in DOMAIN params} |->
                 Merged(Garbage, params[(a - StackTop) \div 8], Size(types[(a - StackTop) \div 8]))],
   flags  |-> <<>>, calls |-> <<>>, frames |-> <<>>, at |-> <<1, 1>>, status |-> "runs"]

CpuRun(blocks, params, types) ==
  RunOf(LAMBDA cpu : CpuStep(cpu, blocks[cpu.at[1]]), Entered(params, types))

Delivered(cpu, result) ==
  Observed(cpu, IF cpu.status = "returned" /\ result # "none" THEN <<Low(Reg(cpu, rax), Size(result))>> ELSE <<>>)

-----------------------------------------------------------------------------
(***************************************************************************)
(* What the passes promise for one function and its arguments.             *)
(***************************************************************************)
FoldingKeeps(function, params) ==
  Promised([function EXCEPT !.blocks = ConstantFolding(@)], params) = Promised(function, params)

FrameLeft(cpu) ==
  cpu.status = "returned" => Reg(cpu, rsp) = StackTop + 8 /\ Reg(cpu, rbp) = CallerFrame

SelectionKeeps(function, params) ==
  LET cpu == CpuRun(Selected(function), params, function.params)
  IN  Delivered(cpu, function.result) = Promised(function, params) /\ FrameLeft(cpu)

\* With any number of variables in the frame.
FrameKept(function, params, stackVariables) ==
  LET cpu == CpuRun(StackAlloc(Selected(function), stackVariables), params, function.params)
  IN  /\ FrameLeft(cpu)
      /\ \A i \in DOMAIN cpu.frames :
           cpu.frames[i][1] % 16 = 0 /\ cpu.frames[i][1] <= cpu.frames[i][2] - 8 * stackVariables
=============================================================================
