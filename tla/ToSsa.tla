------------------------------- MODULE ToSsa -------------------------------
(***************************************************************************)
(* The passes over one function in SSA form (ir/to_ssa.cpp, the removals   *)
(* of ir/kill_dead_values.cpp, ir/from_ssa.cpp), and a machine that runs   *)
(* the three-address code they start from and the code they produce side   *)
(* by side.                                                                *)
(*                                                                         *)
(* The function is what TacCodegen makes of a program.  Block 1 is the     *)
(* entry.  Which successor a block takes is the environment's choice, and  *)
(* so is what a call returns or an object holds.                           *)
(***************************************************************************)
EXTENDS TacCodegen, PhiPlacement

CONSTANT Programs    \* the programs to compile

VARIABLES
  program,    \* the program being run
  ssa,        \* what the passes made of it
  block,      \* the block about to run, 0 after a return
  variables,  \* the variables of the source run
  temps,      \* the temporaries of the compiled run
  same        \* every value observed so far was the same in both runs

vars == <<program, function, ssa, block, came, variables, temps, same>>

-----------------------------------------------------------------------------
(***************************************************************************)
(* Renaming.  The state of the walk:                                       *)
(*   visited  the blocks visited                                           *)
(*   names    _phiStack: for each variable, its values, latest last        *)
(*   code     the instructions kept so far                                 *)
(*   replaced the temporaries replaced so far, and by what                 *)
(*   sources  of each phi, as <<block, variable, predecessor, value>>      *)
(***************************************************************************)
PhiName(v, b) == <<"phi", v, b>>

Operand(st, t) == IF t \in DOMAIN st.replaced THEN st.replaced[t] ELSE t

PushName(st, v, value) == [st EXCEPT !.names[v] = Append(@, value)]

Keep(st, b, inst) == [st EXCEPT !.code[b] = Append(@, inst)]

RenameLoad(f, st, b, inst) ==
  IF inst.src \notin Variables(f)       \* a global
    THEN Keep(st, b, inst)
  ELSE IF st.names[inst.src] # <<>>
    THEN [st EXCEPT !.replaced = (inst.dest :> Last(st.names[inst.src])) @@ @]
  ELSE IF inst.src \in ToSet(f.params)
    THEN Keep(PushName(st, inst.src, inst.dest), b, inst)
  ELSE Keep(st, b, inst)

RenameInstruction(f, st, b, inst) ==
  CASE inst.op = "load" -> RenameLoad(f, st, b, inst)
    [] inst.op = "store" /\ inst.dest \in Variables(f) ->
         PushName(st, inst.dest, Operand(st, inst.src))
    [] OTHER -> Keep(st, b, inst)

\* The value each phi of the successor has when control comes from b.
FixPhis(st, phis, b, next) ==
  [st EXCEPT !.sources = @ \cup
     {<<next, v, b, IF st.names[v] = <<>> THEN <<"none">> ELSE Last(st.names[v])>> :
        v \in phis[next]}]

\* A walk of the control-flow graph: a block is renamed when it is first met.
RECURSIVE rename(_, _, _, _)
rename(f, phis, b, st) ==
  IF b \in st.visited THEN st
  ELSE LET named     == [st EXCEPT !.visited = @ \cup {b},
                                   !.names = [v \in DOMAIN @ |->
                                      IF v \in phis[b] THEN Append(@[v], PhiName(v, b)) ELSE @[v]]]
           rewritten == Through(LAMBDA s, inst : RenameInstruction(f, s, b, inst), named, f.code[b])
           fixed     == Through(LAMBDA s, next : FixPhis(s, phis, b, next), rewritten, f.succ[b])
           walked    == Through(LAMBDA s, next : rename(f, phis, next, s), fixed, f.succ[b])
       IN  [walked EXCEPT !.names = st.names]

InitialWalk(f) ==
  [visited  |-> {},
   names    |-> [v \in Variables(f) |-> <<>>],
   code     |-> [b \in Blocks(f) |-> <<>>],
   replaced |-> [t \in {} |-> t],
   sources  |-> {}]

\* Every instruction that replaceReferences changed.
Substituted(st, inst) ==
  [field \in DOMAIN inst |->
     CASE field = "src"     -> Operand(st, inst.src)
       [] field = "args"    -> [i \in DOMAIN inst.args |-> Operand(st, inst.args[i])]
       [] field = "sources" -> {<<s[1], Operand(st, s[2])>> : s \in inst.sources}
       [] OTHER -> inst[field]]

\* A block the walk did not meet keeps its instructions.
RenamedCode(f, st) ==
  [b \in Blocks(f) |->
     LET code == IF b \in st.visited THEN st.code[b] ELSE f.code[b]
     IN  [i \in DOMAIN code |-> Substituted(st, code[i])]]

\* The phis there were are apart from the other instructions from now on.
WithoutPhis(code) == [b \in DOMAIN code |-> SelectSeq(code[b], LAMBDA inst : inst.op # "phi")]

OwnPhis(code) ==
  UNION {{[block |-> b, dest |-> inst.dest, sources |-> inst.sources] :
            inst \in {i \in ToSet(code[b]) : i.op = "phi"}} : b \in DOMAIN code}

InsertedPhis(sources) ==
  {[block |-> s[1], dest |-> PhiName(s[2], s[1]),
    sources |-> {<<m[3], m[4]>> : m \in {t \in sources : t[1] = s[1] /\ t[2] = s[2]}}] : s \in sources}

\* What is inserted at the end of a block goes before its jump.
BeforeLast(code, new) == Front(code) \o new \o <<Last(code)>>

\* Mutant: the missing values are left as they are.
LeaveMissing(f, st) ==
  LET code == RenamedCode(f, st)
  IN  [code |-> WithoutPhis(code), phis |-> OwnPhis(code) \cup InsertedPhis(st.sources)]

\* insertPhis: an argument with no name yet is loaded at the end of the
\* predecessor; a local with none is undefined there, and null.
ArgumentTemp(s) == <<"arg", s[1], s[2], s[3]>>

insertPhis(f, st) ==
  LET code == RenamedCode(f, st)
      missing == {s \in st.sources : s[4] = <<"none">>}
      loads(b) == InSomeOrder({[op |-> "load", dest |-> ArgumentTemp(s), src |-> s[2]] :
                              s \in {m \in missing : m[3] = b /\ m[2] \in ToSet(f.params)}})
      value(s) == IF s \notin missing THEN s[4]
                  ELSE IF s[2] \in ToSet(f.params) THEN ArgumentTemp(s) ELSE Const(0)
  IN  [code |-> [b \in Blocks(f) |-> BeforeLast(WithoutPhis(code)[b], loads(b))],
       phis |-> OwnPhis(code) \cup
                  InsertedPhis({<<s[1], s[2], s[3], value(s)>> : s \in st.sources})]

ToSSA(f) ==
  LET phis == PhiNodes(f)
  IN  insertPhis(f, rename(f, phis, Entry, InitialWalk(f)))

-----------------------------------------------------------------------------
(***************************************************************************)
(* killDeadPhis, then KillDeadValues: phis and computations whose result   *)
(* nothing uses are removed until none is left.                            *)
(***************************************************************************)
Instructions(form) == UNION {ToSet(form.code[b]) : b \in DOMAIN form.code}

Used(form) ==
  UNION {OperandsOf(inst) : inst \in Instructions(form)}
    \cup UNION {{s[2] : s \in phi.sources} : phi \in form.phis}

Computations == {"load", "copy", "binary", "indexedload"}

RECURSIVE KillDead(_)
KillDead(form) ==
  LET used == Used(form)
      live(inst) == inst.op \in Computations => inst.dest \in used
      kept == [code |-> [b \in DOMAIN form.code |-> SelectSeq(form.code[b], live)],
               phis |-> {phi \in form.phis : phi.dest \in used}]
  IN  IF kept = form THEN form ELSE KillDead(kept)

\* FromSSA: each predecessor copies its value into a temporary of the phi, at
\* its end, and the phi becomes a copy from it.
PhiTemp(phi) == <<"copy", phi.dest, phi.block>>

\* Mutant: each predecessor copies its value straight into the phi's result.
OneCopy(form) ==
  [b \in DOMAIN form.code |->
     BeforeLast(form.code[b],
       InSomeOrder(UNION {{[op |-> "copy", dest |-> phi.dest, src |-> s[2]] :
                             s \in {t \in phi.sources : t[1] = b}} : phi \in form.phis}))]

FromSSA(form) ==
  [b \in DOMAIN form.code |->
     LET own  == {phi \in form.phis : phi.block = b}
         into == UNION {{[op |-> "copy", dest |-> PhiTemp(phi), src |-> s[2]] :
                           s \in {t \in phi.sources : t[1] = b}} : phi \in form.phis}
     IN  InSomeOrder({[op |-> "copy", dest |-> phi.dest, src |-> PhiTemp(phi)] : phi \in own})
           \o BeforeLast(form.code[b], InSomeOrder(into))]

Compile(f) == FromSSA(KillDead(ToSSA(f)))

-----------------------------------------------------------------------------
(***************************************************************************)
(* Both programs run block by block.  A run of a block is a record         *)
(*   [env, seen]: what is stored, and what was observed, which is what     *)
(* calls, stores to memory, jumps and returns are given.                   *)
(* inputs says what each call and each load from an object yields.         *)
(***************************************************************************)
Inputs == {1, 2}
ArgumentValue == 3
Undefined == 9       \* the bits of a temporary nothing was assigned to

ValueIn(env, x) ==
  IF x[1] = "const" THEN x[2]
  ELSE IF x[1] \in {"function", "lambda", "bits"} THEN None
  ELSE IF x \in DOMAIN env THEN env[x] ELSE Undefined

Execute(run, inst, inputs, from) ==
  LET values == IF "args" \in DOMAIN inst
                  THEN [i \in DOMAIN inst.args |-> ValueIn(run.env, inst.args[i])] ELSE <<>>
      into(v) == [run EXCEPT !.env = (inst.dest :> v) @@ @]
      observed == [run EXCEPT !.seen = Append(@, values)]
  IN  CASE inst.op \in {"load", "store", "copy"} -> into(ValueIn(run.env, inst.src))
        [] inst.op = "phi" -> into(ValueIn(run.env, (CHOOSE s \in inst.sources : s[1] = from)[2]))
        [] inst.op = "binary" -> into((values[1] + 2 * values[2]) % 4)
        [] inst.op = "indexedload" -> into((values[1] + inputs[inst.dest]) % 4)
        [] inst.op = "call" -> [observed EXCEPT !.env = (inst.dest :> inputs[inst.dest]) @@ @]
        [] OTHER -> observed

\* Nothing is executed after a return.
UpToReturn(code) ==
  LET returns == {i \in DOMAIN code : code[i].op = "return"}
  IN  IF returns = {} THEN code ELSE SubSeq(code, 1, CHOOSE i \in returns : \A j \in returns : i <= j)

RunBlock(code, env, inputs, from) ==
  Through(LAMBDA run, inst : Execute(run, inst, inputs, from), [env |-> env, seen |-> <<>>],
          UpToReturn(code))

\* The temporaries of a block that receive an input.
Receivers(code) ==
  {inst.dest : inst \in {i \in ToSet(code) : i.op \in {"call", "indexedload"}}}

Arguments(f) == [p \in ToSet(f.params) |-> ArgumentValue]

Init ==
  /\ program \in Programs
  /\ function = CodeGen(program).main
  /\ ssa = Compile(function)
  /\ block = Entry
  /\ came = None
  /\ variables = Arguments(function)
  /\ temps = Arguments(function)
  /\ same = TRUE

Step ==
  /\ block # None
  /\ \E inputs \in [Receivers(function.code[block]) -> Inputs] :
       LET source   == RunBlock(function.code[block], variables, inputs, came)
           compiled == RunBlock(ssa[block], temps, inputs, came)
       IN  /\ variables' = source.env
           /\ temps' = compiled.env
           /\ same' = (same /\ source.seen = compiled.seen)
  /\ \/ /\ function.succ[block] = <<>> \/ UpToReturn(function.code[block]) # function.code[block]
        /\ block' = None
     \/ /\ UpToReturn(function.code[block]) = function.code[block]
        /\ \E i \in DOMAIN function.succ[block] : block' = function.succ[block][i]
  /\ came' = block
  /\ UNCHANGED <<program, function, ssa>>

Next == Step

Spec == Init /\ [][Next]_vars

-----------------------------------------------------------------------------
(* Properties, and the reference definitions they need. *)

\* What is asserted of the generated code, and of every lambda.
WellFormed ==
  \A f \in {function} \cup ToSet(CodeGen(program).lambdas) : f.asserts /\ isValid(f) /\ IsControlFlowGraph(f)

\* A load or store of a local variable.
OverLocal(inst) ==
  \/ inst.op = "load" /\ inst.src \in function.locals
  \/ inst.op = "store" /\ inst.dest \in function.locals

(***************************************************************************)
(* The type invariant, with the assertions of the passes.  The generated   *)
(* code is well formed: the assertions of simplec.cpp:95, of the validator *)
(* and of BasicBlock::append.  No operand is nullptr, and nothing loads or *)
(* stores a local variable once FromSSA begins (from_ssa.cpp:15): here     *)
(* only of the blocks control can come to, for rename does not visit the   *)
(* others, and their loads and stores stay.                                *)
(***************************************************************************)
TypeOK ==
  /\ block \in Blocks(function) \cup {None}
  /\ \A t \in DOMAIN temps : temps[t] \in Nat
  /\ DOMAIN ssa = Blocks(function)
  /\ came = None =>
       /\ WellFormed
       /\ \A b \in DOMAIN ssa : \A inst \in ToSet(ssa[b]) :
            inst.op # "phi" /\ <<"none">> \notin OperandsOf(inst)
       /\ \A b \in ReachableBlocks(function) : \A inst \in ToSet(ssa[b]) : ~OverLocal(inst)

(***************************************************************************)
(* Every value the compiled code observes (stores, passes, returns) is the *)
(* one the source observes there, whatever path control takes.             *)
(***************************************************************************)
SameValues == same

(***************************************************************************)
(* No temporary of the compiled code ever receives bits that nothing wrote:*)
(* a variable a path does not define is null there ("It's dangerous to     *)
(* have undefined values floating around in the garbage collector",        *)
(* to_ssa.cpp:416).                                                        *)
(***************************************************************************)
NothingUndefined == \A t \in DOMAIN temps : temps[t] # Undefined

(***************************************************************************)
(* The code generator: the code does what the tree means (FollowsTree),    *)
(* for every answer calls may give.                                        *)
(***************************************************************************)
CodegenFollowsTree ==
  came = None /\ program.calls >= 0 =>
    LET code == CodeGen(program)
    IN  \A inputs \in [1 .. program.calls -> {0, 1}] : FollowsTree(program, code, inputs)

=============================================================================
