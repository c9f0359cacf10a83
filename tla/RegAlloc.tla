------------------------------ MODULE RegAlloc ------------------------------
(***************************************************************************)
(* From virtual registers to machine registers and a stack frame           *)
(* (codegen/reg_alloc.cpp, stack_alloc.cpp, stack_map.cpp,                 *)
(* redundant_moves.cpp), then the code they start from and the code they   *)
(* produce run side by side.                                               *)
(*                                                                         *)
(* A machine function is [succ, code, type, fixed, params, source]: the    *)
(* successors and the instructions of each block, the type of each virtual *)
(* register, the colours of the precolored ones, the types of parameters   *)
(* and the function in three-address code that it was selected from.       *)
(* A colour is the number of a hardware register; rbp is live in the whole *)
(* function and never allocated; rsp, which no instruction reads but       *)
(* through the frame, is left out.  An instruction is                      *)
(*   [op |-> "op", in, out]   reads registers and gives others new values  *)
(*   [op |-> "tied", in, out] likewise, and writes what it reads first: ADD, *)
(*                            SUB and IMUL have one operand for both       *)
(*   [op |-> "mov", in, out]  MOVrd from register to register of one size  *)
(*   [op |-> "narrow", in, out]  or to a narrower one                      *)
(*   [op |-> "call", in, out] every register but rbp is lost, and objects  *)
(*                            may move                                     *)
(*   [op |-> "load", in, out, slot] and [op |-> "save", in, out, slot]     *)
(*                            MOVrm and MOVmd on a slot of the frame       *)
(* where in and out are sequences of registers.  Slots below zero hold the *)
(* parameters.                                                             *)
(***************************************************************************)
EXTENDS Processor

CONSTANTS
  Functions,  \* three-address code, as in MachineCode
  Colors,     \* AVAILABLE_COLORS
  Hashes,     \* what orders the hash table of the graph
  MaxSlots    \* bound on spills, for model checking

ASSUME ColorsAssumption == Colors \in Nat \ {0} /\ MaxSlots \in Nat /\ Hashes \subseteq Nat

VARIABLES
  machine,    \* the function
  code,       \* its instructions now
  type,       \* of registers, those that spilling made included
  slotType,   \* of the stack variables
  igraph,     \* _igraph
  hash,       \* this round's order of its vertices
  stack,      \* the vertices taken off the graph, top first
  coloring,   \* _coloring
  pc,         \* "coalesce", "simplify", "select", "run", "aborted"
  block,      \* the block about to run, 0 after a return
  regs,       \* the registers of the run of machine.code
  hregs,      \* the registers of the run of the final code
  frame,      \* its stack variables and parameters
  same,       \* both runs have read the same values so far
  sound       \* every slot listed for the collector held a reference

allocation == <<igraph, hash, stack, coloring>>
execution == <<block, regs, hregs, frame, same, sound>>
vars == <<machine, code, type, slotType, allocation, pc, execution>>

fixed == machine.fixed          \* _precolored
Frame == rbp
Blocks == DOMAIN machine.succ
Ins(inst) == ToSet(inst.in)
Outs(inst) == ToSet(inst.out)

-----------------------------------------------------------------------------
(***************************************************************************)
(* Liveness and interference.                                              *)
(***************************************************************************)
Defined(insts) == UNION {Outs(insts[i]) : i \in DOMAIN insts}

\* Mutant of UsedFirst: what the block itself has defined is not excluded.
UsedAtAll(insts) == UNION {Ins(insts[i]) : i \in DOMAIN insts}

UsedFirst(insts) ==
  UNION {Ins(insts[i]) \ Defined(SubSeq(insts, 1, i - 1)) : i \in DOMAIN insts}

\* _live
computeLiveness(c) ==
  LiveIn(machine.succ, [b \in Blocks |-> UsedFirst(c[b])], [b \in Blocks |-> Defined(c[b])])

Before(inst, live) == (live \ Outs(inst)) \cup Ins(inst)

\* What is live after each of a block's instructions, out after the last.
LiveAfter(insts, out) ==
  LET before[i \in 1 .. Len(insts) + 1] ==
        IF i = Len(insts) + 1 THEN out ELSE Before(insts[i], before[i + 1])
  IN  [i \in DOMAIN insts |-> before[i + 1]]

LiveAfterIn(c, live, b) == LiveAfter(c[b], LiveOut(machine.succ, live, b))

\* The source of a move and its destination do not interfere for that.
Clashes(inst, live) ==
  {{o, l} : o \in Outs(inst), l \in IF inst.op \in {"mov", "narrow"} THEN live \ Ins(inst) ELSE live}

Edges(c) ==
  LET live == computeLiveness(c)
      after == [b \in Blocks |-> LiveAfterIn(c, live, b)]
      inBlock(b) == UNION {Clashes(c[b][i], after[b][i]) : i \in DOMAIN c[b]}
  IN  {e \in UNION {inBlock(b) : b \in Blocks} : Cardinality(e) = 2}
        \cup UNION {{{v, w} : w \in {w \in DOMAIN fixed : fixed[v] # fixed[w]}} : v \in DOMAIN fixed}

\* Precolored registers all have an edge, to rsp if to no other.
computeInterference(c) ==
  LET edges == Edges(c)
      vertices == DOMAIN fixed \cup UNION edges
  IN  [v \in vertices |-> {w \in vertices : v # w /\ {v, w} \in edges}]

-----------------------------------------------------------------------------
(***************************************************************************)
(* coalesceMoves: every move between registers that do not interfere gives *)
(* a replacement, all of them found on one graph; a later move to the same *)
(* register overrides an earlier.                                          *)
(***************************************************************************)
Coalescable(c, graph, inst) ==
  /\ inst.op = "mov"
  /\ inst.in[1] \notin DOMAIN fixed /\ inst.out[1] \notin DOMAIN fixed
  /\ inst.in[1] # inst.out[1]
  /\ inst.out[1] \notin graph[inst.in[1]]

Replacements(c, graph) ==
  LET add(r, inst) ==
        IF Coalescable(c, graph, inst) THEN (inst.out[1] :> inst.in[1]) @@ r ELSE r
  IN  Through(LAMBDA r, b : Through(add, r, c[b]), [v \in {} |-> v], [b \in Blocks |-> b])

Renamed(r, vs) == [i \in DOMAIN vs |-> IF vs[i] \in DOMAIN r THEN r[vs[i]] ELSE vs[i]]

\* Mutant of coalesceMoves: interference is not asked for.
CoalesceAll(c) ==
  LET r == Replacements(c, [v \in DOMAIN type |-> {}])
  IN  [b \in Blocks |-> [i \in DOMAIN c[b] |->
         [c[b][i] EXCEPT !.in = Renamed(r, @), !.out = Renamed(r, @)]]]

coalesceMoves(c) ==
  LET r == Replacements(c, computeInterference(c))
  IN  [b \in Blocks |-> [i \in DOMAIN c[b] |->
         [c[b][i] EXCEPT !.in = Renamed(r, @), !.out = Renamed(r, @)]]]

-----------------------------------------------------------------------------
(***************************************************************************)
(* spillVariable: a load into a fresh register before each use, a store of *)
(* a fresh register after each definition.  A walk is [done, fresh].       *)
(***************************************************************************)
LoadOf(v, slot) == [op |-> "load", in |-> <<>>, out |-> <<v>>, slot |-> slot]
SaveOf(v, slot) == [op |-> "save", in |-> <<v>>, out |-> <<>>, slot |-> slot]

SpillIn(reg, slot, walk, inst) ==
  LET used == reg \in Ins(inst)
      defined == reg \in Outs(inst)
      new == walk.fresh
      new2 == IF used THEN new + 1 ELSE new
      spilled == [inst EXCEPT !.in = Renamed(reg :> new, @), !.out = Renamed(reg :> new2, @)]
  IN  [done  |-> walk.done \o (IF used THEN <<LoadOf(new, slot)>> ELSE <<>>)
                   \o <<spilled>> \o (IF defined THEN <<SaveOf(new2, slot)>> ELSE <<>>),
       fresh |-> IF defined THEN new2 + 1 ELSE new2]

SpillInBlock(reg, slot, fresh, insts) ==
  Through(LAMBDA walk, inst : SpillIn(reg, slot, walk, inst), [done |-> <<>>, fresh |-> fresh], insts)

\* The blocks in turn: [blocks, fresh].
spillVariable(c, reg, slot, fresh) ==
  LET inBlock(walk, b) ==
        LET w == SpillInBlock(reg, slot, walk.fresh, c[b])
        IN  [blocks |-> Append(walk.blocks, w.done), fresh |-> w.fresh]
  IN  Through(inBlock, [blocks |-> <<>>, fresh |-> fresh], [b \in Blocks |-> b])

-----------------------------------------------------------------------------
(***************************************************************************)
(* spillAroundCalls, with the registers assigned: what is live after a     *)
(* call is saved before it and restored after, each register in a slot of  *)
(* its own.                                                                *)
(***************************************************************************)
\* assignRegs; a register with no edge has the default colour.
ColorOf(v) == IF v \in DOMAIN coloring THEN coloring[v] ELSE 0

SavedAt(inst, live) ==
  {v \in live : /\ ColorOf(v) # Frame
                /\ ~(inst.out # <<>> /\ ColorOf(v) = 0)}

\* [done, types]: the instructions so far, and the type of each new slot.
SaveAround(walk, inst, live) ==
  LET saved == IF inst.op = "call" THEN SetToSeq(SavedAt(inst, live)) ELSE <<>>
      slot(k) == Len(walk.types) + k
  IN  [done  |-> walk.done \o [k \in DOMAIN saved |-> SaveOf(saved[k], slot(k))]
                   \o <<inst>> \o [k \in DOMAIN saved |-> LoadOf(saved[k], slot(k))],
       types |-> walk.types \o [k \in DOMAIN saved |-> type[saved[k]]]]

SaveInBlock(types, insts, after) ==
  Through(LAMBDA walk, i : SaveAround(walk, insts[i], after[i]),
          [done |-> <<>>, types |-> types], [i \in DOMAIN insts |-> i])

spillAroundCalls(c) ==
  LET live == computeLiveness(c)
      inBlock(walk, b) ==
        LET w == SaveInBlock(walk.types, c[b], LiveAfterIn(c, live, b))
        IN  [blocks |-> Append(walk.blocks, w.done), types |-> w.types]
  IN  Through(inBlock, [blocks |-> <<>>, types |-> slotType], [b \in Blocks |-> b])

-----------------------------------------------------------------------------
(***************************************************************************)
(* StackMap: the slots of type Reference that are read after a call before *)
(* they are written.  RedundantMoves: a move within one register goes.     *)
(***************************************************************************)
IsReference(types, slot) ==
  IF slot < 0 THEN machine.params[-slot] = "ref" ELSE types[slot] = "ref"

\* Mutant of SlotsOf: a store does not end what is live in the slot.
SlotsOfLoads(types, inst) ==
  [op  |-> inst.op,
   in  |-> IF inst.op = "load" /\ IsReference(types, inst.slot) THEN <<inst.slot>> ELSE <<>>,
   out |-> <<>>]

\* What an instruction does to these slots, as one that reads and writes them.
SlotsOf(types, inst) ==
  LET used == IF IsReference(types, inst.slot) THEN <<inst.slot>> ELSE <<>>
  IN  [op  |-> inst.op,
       in  |-> IF inst.op = "load" THEN used ELSE <<>>,
       out |-> IF inst.op = "save" THEN used ELSE <<>>]

SlotCode(types, c) ==
  [b \in Blocks |-> [i \in DOMAIN c[b] |-> SlotsOf(types, c[b][i])]]

\* Every call with the slots listed for it.
Mapped(insts, live) ==
  [i \in DOMAIN insts |->
     IF insts[i].op = "call"
       THEN [op |-> "call", in |-> insts[i].in, out |-> insts[i].out, map |-> live[i]]
       ELSE insts[i]]

Parameters == {-i : i \in DOMAIN machine.params}

StackMap(types, c) ==
  LET slots == SlotCode(types, c)
      defined == [b \in Blocks |-> Defined(slots[b]) \cup IF b = 1 THEN Parameters ELSE {}]
      live == LiveIn(machine.succ, [b \in Blocks |-> UsedFirst(slots[b])], defined)
  IN  [b \in Blocks |-> Mapped(c[b], LiveAfterIn(slots, live, b))]

RedundantMoves(c) ==
  LET needed(inst) == ~(inst.op = "mov" /\ ColorOf(inst.in[1]) = ColorOf(inst.out[1]))
  IN  [b \in Blocks |-> SelectSeq(c[b], needed)]

-----------------------------------------------------------------------------
(***************************************************************************)
(* The allocation, in steps.  Vertices come off the graph in the order of  *)
(* an unordered_map keyed by addresses, some order that can be another in  *)
(* each round.                                                             *)
(***************************************************************************)
Remaining == (DOMAIN igraph \ DOMAIN fixed) \ ToSet(stack)
Degree(v) == Cardinality(igraph[v] \ ToSet(stack))

Rank(v) == (v * hash) % 61
FirstOf(v, vs) == v \in vs /\ \A w \in vs : Rank(v) <= Rank(w)

NoGraph == [v \in {} |-> {}]
NoColors == [v \in {} |-> 0]

\* One round of colorGraph up to tryColorGraph.
Coalesce ==
  /\ pc = "coalesce"
  /\ code' = coalesceMoves(code)
  /\ igraph' = computeInterference(coalesceMoves(code))
  /\ hash' \in Hashes
  /\ pc' = "simplify"
  /\ UNCHANGED <<machine, type, slotType, stack, coloring, execution>>

RemoveVertex ==
  /\ pc = "simplify"
  /\ \E v \in Remaining :
       /\ FirstOf(v, {w \in Remaining : Degree(w) < Colors})
       /\ stack' = <<v>> \o stack
  /\ UNCHANGED <<machine, code, type, slotType, igraph, hash, coloring, pc, execution>>

\* No vertex is sure to get a colour: one is put on the stack anyway.
RemoveBlocked ==
  /\ pc = "simplify"
  /\ \A v \in Remaining : Degree(v) >= Colors
  /\ \E v \in Remaining : FirstOf(v, Remaining) /\ stack' = <<v>> \o stack
  /\ UNCHANGED <<machine, code, type, slotType, igraph, hash, coloring, pc, execution>>

\* Precolored vertices come last on the stack, and so first off it.
ColorFixed ==
  /\ pc = "simplify"
  /\ Remaining = {}
  /\ coloring' = fixed
  /\ pc' = "select"
  /\ UNCHANGED <<machine, code, type, slotType, igraph, hash, stack, execution>>

\* Mutant of UsedColors: precolored neighbours are not looked at.
UsedUnfixed(v) == {coloring[w] : w \in (igraph[v] \cap DOMAIN coloring) \ DOMAIN fixed}

UsedColors(v) == {coloring[w] : w \in igraph[v] \cap DOMAIN coloring}

HasColor(used) == Cardinality(used) < Colors

LeastUnused(used) == CHOOSE c \in 0 .. Colors - 1 : c \notin used /\ \A d \in 0 .. c - 1 : d \in used

findColorFor ==
  /\ pc = "select"
  /\ stack # <<>>
  /\ HasColor(UsedColors(Head(stack)))
  /\ coloring' = [v \in DOMAIN coloring \cup {Head(stack)} |->
                    IF v = Head(stack) THEN LeastUnused(UsedColors(v)) ELSE coloring[v]]
  /\ stack' = Tail(stack)
  /\ UNCHANGED <<machine, code, type, slotType, igraph, hash, pc, execution>>

Spill ==
  /\ pc = "select"
  /\ stack # <<>>
  /\ ~HasColor(UsedColors(Head(stack)))
  /\ Len(slotType) < MaxSlots
  /\ LET reg == Head(stack)
         done == spillVariable(code, reg, Len(slotType) + 1, Len(type) + 1)
     IN  /\ code' = done.blocks
         /\ type' = type \o [k \in 1 .. done.fresh - Len(type) - 1 |-> type[reg]]
         /\ slotType' = Append(slotType, type[reg])
  /\ igraph' = NoGraph /\ hash' = 0 /\ stack' = <<>> /\ coloring' = NoColors
  /\ pc' = "coalesce"
  /\ UNCHANGED <<machine, execution>>

\* The assertions of the printer: a spill gives what an instruction reads and
\* what it writes two registers, tied or not.
Printable(c) ==
  \A b \in Blocks : \A i \in DOMAIN c[b] :
    c[b][i].op = "tied" => c[b][i].out[1] = c[b][i].in[1]

\* Every register is assigned: the passes that follow, the frame and the printer,
\* where the compiler may abort.
Assign ==
  /\ pc = "select"
  /\ stack = <<>>
  /\ LET saved == spillAroundCalls(code)
         final == RedundantMoves(StackMap(saved.types, saved.blocks))
     IN  /\ code' = final
         /\ slotType' = saved.types
         /\ pc' = IF Printable(final) THEN "run" ELSE "aborted"
  /\ igraph' = NoGraph /\ hash' = 0
  /\ UNCHANGED <<machine, type, stack, coloring, execution>>

-----------------------------------------------------------------------------
(***************************************************************************)
(* Both programs run block by block.  A run is [at, slots, seen, inputs,   *)
(* sound]: the locations, the frame, what was read, what the definitions   *)
(* to come receive.  An object reference is a number above 100; the        *)
(* collector, which may run in any call, leaves Stale in every slot with a *)
(* reference that its map does not list.                                   *)
(***************************************************************************)
Lost == 0
Stale == -1
IsRef(x) == x > 100

Where(v, color(_)) == IF color(v) = -1 THEN <<"v", v>> ELSE <<"h", color(v)>>
SourceColor(v) == IF v \in DOMAIN fixed THEN fixed[v] ELSE -1

ValueAt(run, l) == IF l \in DOMAIN run.at THEN run.at[l] ELSE Lost

Give(run, v, color(_)) ==
  [run EXCEPT !.at = (Where(v, color) :> Head(run.inputs)) @@ @, !.inputs = Tail(@)]

\* The callee and the collector.
Called(run, map) ==
  [run EXCEPT
     !.at = [l \in DOMAIN @ |-> IF l[1] = "h" /\ l[2] # Frame THEN Lost ELSE @[l]],
     !.slots = [s \in DOMAIN @ |-> IF IsRef(@[s]) /\ s \notin map THEN Stale ELSE @[s]],
     !.sound = @ /\ \A s \in map : s \in DOMAIN run.slots /\ IsRef(run.slots[s])]

Execute(run, inst, color(_)) ==
  LET read(i) == ValueAt(run, Where(inst.in[i], color))
      saw == [run EXCEPT !.seen = @ \o [i \in DOMAIN inst.in |-> read(i)]]
      give(r, v) == Give(r, v, color)
  IN  CASE inst.op \in {"op", "tied"} -> Through(give, saw, inst.out)
        [] inst.op = "call" ->
             Through(give, Called(saw, IF "map" \in DOMAIN inst THEN inst.map ELSE DOMAIN run.slots),
                     inst.out)
        [] inst.op \in {"mov", "narrow"} -> [run EXCEPT !.at = (Where(inst.out[1], color) :> read(1)) @@ @]
        [] inst.op = "load" ->
             [run EXCEPT !.at = (Where(inst.out[1], color) :>
                (IF inst.slot \in DOMAIN run.slots THEN run.slots[inst.slot] ELSE Lost)) @@ @]
        [] inst.op = "save" -> [run EXCEPT !.slots = (inst.slot :> read(1)) @@ @]

RunBlock(insts, at, slots, inputs, color(_)) ==
  Through(LAMBDA run, inst : Execute(run, inst, color),
          [at |-> at, slots |-> slots, seen |-> <<>>, inputs |-> inputs, sound |-> TRUE], insts)

\* The registers a block of the source gives new values to, in order.
Given(insts) ==
  Through(LAMBDA s, inst : IF inst.op \in {"op", "tied", "call"} THEN s \o inst.out ELSE s, <<>>, insts)

\* All different, and one of two each time: values are only passed on.
InputsOf(insts) ==
  LET given == Given(insts)
  IN  {[k \in DOMAIN given |-> 2 * k + c + (IF machine.type[given[k]] = "ref" THEN 100 ELSE 0)] :
         c \in {0, 1}}

\* Parameters are on the stack; rbp has some value.
Arguments(m) ==
  [s \in {-i : i \in DOMAIN m.params} |-> IF m.params[-s] = "ref" THEN 101 ELSE 1]
Start == <<"h", Frame>> :> 7

Step ==
  /\ pc = "run"
  /\ block # 0
  /\ \E inputs \in InputsOf(machine.code[block]) :
       LET source == RunBlock(machine.code[block], regs, Arguments(machine), inputs, SourceColor)
           final == RunBlock(code[block], hregs, frame, inputs, ColorOf)
       IN  /\ regs' = source.at
           /\ hregs' = final.at
           /\ frame' = final.slots
           /\ same' = (same /\ source.seen = final.seen)
           /\ sound' = (sound /\ final.sound)
  /\ \/ machine.succ[block] = <<>> /\ block' = 0
     \/ block' \in ToSet(machine.succ[block])
  /\ UNCHANGED <<machine, code, type, slotType, allocation, pc>>

-----------------------------------------------------------------------------
(***************************************************************************)
(* The selected code as a machine function: its registers are numbered,    *)
(* virtual ones as they are and precolored ones after them, and what the   *)
(* instructions do with the values read is left to MachineCode.  Each      *)
(* handler makes precolored registers of its own; here those of one        *)
(* hardware register and type are one.  They are never live together: what *)
(* differs is how many neighbours count in a degree.                       *)
(***************************************************************************)
RegistersIn(operands) ==
  SelectSeq(operands, LAMBDA o : isRegister(o) /\ ~(o.kind = "hreg" /\ o.id = rsp))

RegistersOf(insts) ==
  UNION {ToSet(RegistersIn(insts[i].ins \o insts[i].outs)) : i \in DOMAIN insts}

Kind(inst, in, out) ==
  CASE inst.opcode = "CALL" -> "call"
    [] inst.opcode = "MOVrm" /\ inst.ins[1].kind = "slot" -> "load"
    [] inst.opcode = "MOVrd" /\ in # <<>> /\ out # <<>> ->
         IF Size(in[1].type) = Size(out[1].type) THEN "mov" ELSE "narrow"
    [] inst.opcode \in {"ADD", "SUB", "IMUL"} -> "tied"
    [] OTHER -> "op"

TypeOf(o) == IF o.type = "Ref" THEN "ref" ELSE "int"

\* Instructions without registers, and those that make and leave the frame,
\* have no part in the allocation.
Allocated(inst) ==
  \/ inst.opcode = "CALL"
  \/ /\ RegistersIn(inst.ins \o inst.outs) # <<>>
     /\ \A i \in DOMAIN inst.outs : inst.outs[i] # vrbp

LoweredInst(numbered(_), inst) ==
  LET in == RegistersIn(inst.ins)
      out == RegistersIn(inst.outs)
      numbers(s) == [i \in DOMAIN s |-> numbered(s[i])]
      lowered == [op |-> Kind(inst, in, out), in |-> numbers(in), out |-> numbers(out)]
  IN  IF lowered.op = "load" THEN lowered @@ [slot |-> -inst.ins[1].id] ELSE lowered

Numbered(vregs, precolored, o) ==
  IF o.kind = "vreg" THEN o.id ELSE vregs + (CHOOSE i \in DOMAIN precolored : precolored[i] = o)

LoweredTo(function, selected, registers, vregs, precolored) ==
  [succ   |-> [b \in DOMAIN selected |-> successors(selected[b])],
   code   |-> [b \in DOMAIN selected |->
                 [i \in DOMAIN SelectSeq(selected[b], Allocated) |->
                    LoweredInst(LAMBDA o : Numbered(vregs, precolored, o),
                                SelectSeq(selected[b], Allocated)[i])]],
   type   |-> [v \in 1 .. vregs + Len(precolored) |->
                 IF \E o \in registers : Numbered(vregs, precolored, o) = v
                   THEN TypeOf(CHOOSE o \in registers : Numbered(vregs, precolored, o) = v)
                   ELSE "int"],
   fixed  |-> [v \in {vregs + i : i \in DOMAIN precolored} |-> precolored[v - vregs].id],
   params |-> [i \in DOMAIN function.params |-> IF function.params[i] = "Ref" THEN "ref" ELSE "int"],
   source |-> function]

Lowered(function) ==
  LET selected == Selected(function)
      registers == UNION {RegistersOf(selected[b]) : b \in DOMAIN selected}
      vregs == {o.id : o \in {o \in registers : o.kind = "vreg"}}
  IN  LoweredTo(function, selected, registers, Max(vregs \cup {function.temps}),
                InSomeOrder({o \in registers : o.kind = "hreg"}))

\* What the passes before this one make of every function: at least one block,
\* whose successors are blocks but not the first, and finitely many precolored
\* registers and operands of each instruction.
ASSUME MachinesAssumption ==
  \A f \in Functions :
    LET m == Lowered(f)
    IN  /\ m.succ \in Seq(Seq(1 .. Len(m.succ))) \ {<<>>}
        /\ DOMAIN m.code = DOMAIN m.succ
        /\ \A b \in DOMAIN m.succ : 1 \notin ToSet(m.succ[b])
        /\ \A b \in DOMAIN m.code : m.code[b] \in Seq(ToSet(m.code[b]))
        /\ \A b \in DOMAIN m.code : \A inst \in ToSet(m.code[b]) :
             "in" \in DOMAIN inst /\ IsFiniteSet(DOMAIN inst.in)
        /\ IsFiniteSet(DOMAIN m.fixed)

-----------------------------------------------------------------------------
Init ==
  /\ machine \in {Lowered(f) : f \in Functions}
  /\ code = machine.code
  /\ type = machine.type
  /\ slotType = <<>>
  /\ igraph = NoGraph /\ hash = 0 /\ stack = <<>> /\ coloring = NoColors
  /\ pc = "coalesce"
  /\ block = 1
  /\ regs = Start /\ hregs = Start
  /\ frame = Arguments(machine)
  /\ same = TRUE /\ sound = TRUE

Next ==
  \/ Coalesce
  \/ RemoveVertex \/ RemoveBlocked \/ ColorFixed
  \/ findColorFor \/ Spill \/ Assign
  \/ Step

Spec == Init /\ [][Next]_vars

-----------------------------------------------------------------------------
(***************************************************************************)
(* Properties.                                                             *)
(***************************************************************************)
(***************************************************************************)
(* Whatever order vertices were taken in and whatever was spilled, every   *)
(* instruction of the final code reads the values the code before          *)
(* allocation reads, across calls that lose all registers and collections  *)
(* that move every object (RegAlloc, StackMap, RedundantMoves together).   *)
(* Code the printer refuses does not run.                                  *)
(***************************************************************************)
SameValues == same

(***************************************************************************)
(* Every slot StackMap lists for a call holds a reference when the call is *)
(* made: the collector would follow anything else.                         *)
(***************************************************************************)
StackMapSound == sound

(***************************************************************************)
(* What ADD, SUB and IMUL read first is still what they write when they    *)
(* are printed: "assert(inst->outputs[0] == inst->inputs[0])"              *)
(* (asm_printer.cpp:319, 348 and 355).  spillVariable loads the value of a *)
(* register and stores its new one through two registers.                  *)
(***************************************************************************)
OperandsTied == pc # "aborted"

\* The blocks of through that one of bs follows, and the blocks from which a path
\* through such blocks leads to one of first.
PassesOn(through, bs) == {b \in through : ToSet(machine.succ[b]) \cap bs # {}}
OrPassOn(through, bs) == bs \cup PassesOn(through, bs)

LeadTo(through, first) ==
  LET Within[n \in 0 .. Len(machine.succ)] ==
        IF n = 0 THEN first ELSE OrPassOn(through, Within[n - 1])
  IN  Within[Len(machine.succ)]

\* The blocks that read v before they write it, those that do not write it, and
\* those from which a path reads it before it writes it.
ReadsFirst(c, v) ==
  {b \in Blocks : \E i \in DOMAIN c[b] :
     v \in Ins(c[b][i]) /\ \A j \in 1 .. i - 1 : v \notin Outs(c[b][j])}
Keeping(c, v) == {b \in Blocks : \A i \in DOMAIN c[b] : v \notin Outs(c[b][i])}
ReadFirstFrom(c, v) == LeadTo(Keeping(c, v), ReadsFirst(c, v))

\* A path from after instruction i of block b reads v before it writes it.
ReadAfter(c, v, b, i) ==
  \/ \E j \in i + 1 .. Len(c[b]) :
       v \in Ins(c[b][j]) /\ \A k \in i + 1 .. j - 1 : v \notin Outs(c[b][k])
  \/ /\ \A k \in i + 1 .. Len(c[b]) : v \notin Outs(c[b][k])
     /\ \E s \in ToSet(machine.succ[b]) : s \in ReadFirstFrom(c, v)

\* computeLiveness, and the walk back through each block in computeInterference.
RegistersExact ==
  pc = "coalesce" =>
    LET live == computeLiveness(code)
    IN  /\ \A v \in DOMAIN type : {b \in Blocks : v \in live[b]} = ReadFirstFrom(code, v)
        /\ \A b \in Blocks : \A i \in DOMAIN code[b] :
             LiveAfterIn(code, live, b)[i] \cap DOMAIN type = {v \in DOMAIN type : ReadAfter(code, v, b, i)}

\* For a call StackMap lists the slots with references, parameters included.
StackMapsExact ==
  pc = "select" /\ stack = <<>> =>
    LET saved == spillAroundCalls(code)
        mapped == StackMap(saved.types, saved.blocks)
        slots == SlotCode(saved.types, saved.blocks)
    IN  \A b \in Blocks : \A i \in DOMAIN mapped[b] :
          mapped[b][i].op = "call" =>
            \A s \in Parameters \cup DOMAIN saved.types :
              s \in mapped[b][i].map <=> ReadAfter(slots, s, b, i)

(***************************************************************************)
(* Liveness is exact, on code with spills in it too: a register is live on *)
(* entry to a block or after an instruction, and a slot is listed for a    *)
(* call, exactly when some path from there reads it before writing it.     *)
(* The collector does not update a slot that is left out.                  *)
(***************************************************************************)
LivenessExact == RegistersExact /\ StackMapsExact

\* The value v has is read after instruction i of block b, which is no copy of it.
Needed(c, v, b, i) ==
  ReadAfter(c, v, b, i) /\ ~(c[b][i].op \in {"mov", "narrow"} /\ v \in Ins(c[b][i]))

(***************************************************************************)
(* "no two registers which interfere are assigned the same color"          *)
(* (reg_alloc.hpp:57), for what it is good for: once every register has    *)
(* its colour, no instruction writes the hardware register that another    *)
(* register shares and whose value some path still reads.  The precolored  *)
(* ones are included, and those without an edge, which get colour 0.       *)
(***************************************************************************)
NothingOverwritten ==
  pc = "select" /\ stack = <<>> =>
    \A b \in Blocks : \A i \in DOMAIN code[b] : \A o \in Outs(code[b][i]) :
      \A v \in DOMAIN type \ {o} : ColorOf(v) = ColorOf(o) => ~Needed(code, v, b, i)

-----------------------------------------------------------------------------
(***************************************************************************)
(* The passes before this one, asked for when their result arrives.        *)
(***************************************************************************)
Arrived == pc = "coalesce" /\ slotType = <<>>

\* The least and the greatest number of either sign, in all pairs; an object
\* is at some address.
Extreme(bits) == (0 :> 0) @@ (1 :> 2^(bits - 1) - 1) @@ (2 :> 2^(bits - 1)) @@ (3 :> 2^bits - 1)
ArgumentsOf(types) ==
  {[i \in DOMAIN types |-> IF types[i] = "Ref" THEN StackTop \div 2
                           ELSE Extreme(Size(types[i]))[(c + i * d) % 4]] : c, d \in 0 .. 3}

(***************************************************************************)
(* Constants are computed with 64 bits and narrowed: ConstantFolding must  *)
(* give what the instruction would have given with its own type.           *)
(***************************************************************************)
FoldingRight ==
  Arrived => \A p \in ArgumentsOf(machine.source.params) : FoldingKeeps(machine.source, p)

(***************************************************************************)
(* The instructions selected, as printed, make the processor do what the   *)
(* three-address code says: the same calls with the same arguments where   *)
(* each convention puts them, the same stores, the same result, and rsp    *)
(* and rbp as they were.                                                   *)
(***************************************************************************)
SelectionRight ==
  Arrived => \A p \in ArgumentsOf(machine.source.params) : SelectionKeeps(machine.source, p)

(***************************************************************************)
(* With any number of variables in the frame, rsp is a multiple of 16 at   *)
(* every call ("Keep 16-byte alignment", machine_codegen.cpp:413), and     *)
(* below all of them, so that neither arguments nor callee overwrite one.  *)
(***************************************************************************)
CallsKeepFrame ==
  Arrived =>
    \A p \in ArgumentsOf(machine.source.params), n \in 0 .. 3 : FrameKept(machine.source, p, n)
=============================================================================
