# Enceladus in TLA+

Enceladus compiles a small functional language to x86-64 assembly (`src/src`, C++)
and gives the programs it compiles a run time (`src/lib`): a garbage-collected heap in
C and assembly, and a library written in the language itself.  The compiler is one
process that runs a fixed pipeline once; a compiled program runs on one thread, on a
stack that the collector walks by means of a map from call sites to live slots.

This directory models the parts of both whose errors are silent.  In the run time that is the
collector, which moves objects under a running program.  In the compiler it is whatever
must leave a program's meaning alone, or vouches for it: a tree that is not the one
written, a type taken to satisfy a constraint it does not, a phi node too few or a
reference missing from a stack map each give a program that is wrong now and then.

## The system

| part | state | operations | what is hard | what makes it correct |
|---|---|---|---|---|
| heap and collector (`lib/library.c`, `lib/gc.asm`) | two semispaces, `heapPointer`, `additionalRoots`, the program's stack | `try_mymalloc`, `gcCollect` (`gcCopyRoots`, `gcScan`, `gcCopy`), `expandHeap`, `equalizeHeaps`, `addRoot`, `removeRoots`, `ccall` | references change under the program; the two semispaces differ in size after a swap; a failed request is retried; C code must register what it holds | the program's object graph is the same before and after; nothing reachable is lost, nothing unreachable kept; a request is met, or the process stops |
| SSA passes (`ir/to_ssa.cpp`, `ir/from_ssa.cpp`) | control-flow graph, phi nodes, a stack of names per variable | dominators, dominance frontiers, phi placement, renaming, removal of dead phis, copies for phis | joins, loops, order of the walk over the graph | every read sees the value the source program would have |
| code generator (`ir/tac_codegen.cpp`, `tac_validator.cpp`) | current block, entry and exit of the loop, locals, temporaries, captures | one handler per kind of node, once as a value and once as a condition; constructors, arrays, closures | short circuits, branches that leave the block they are in, object layouts | the code does what the tree says, and tells the collector which fields are references |
| other IR passes (`ir/constant_folding.cpp`, `kill_dead_values.cpp`, `demote_globals.cpp`) | instruction lists, uses | folding, removal | fixed-width arithmetic | the same values |
| instruction selection (`codegen/machine_codegen.cpp`) | virtual registers | one handler per instruction | registers with fixed roles, operand widths | the same values |
| register and stack allocation (`codegen/reg_alloc.cpp`, `stack_alloc.cpp`, `stack_map.cpp`, `redundant_moves.cpp`) | liveness, interference graph, colours, spill slots, stack maps | coalescing, colouring, spilling, saving around calls, maps | facts used after the code they describe was rewritten; hash-table order | every read yields the virtual register's value; each map lists the references read later, and no other word |
| lexer (`lexer/`) | stack of open files, stack of indentation levels, unclosed brackets, token queue | `yylex`, `lex_transform` | tokens that stand for indentation; lines joined by brackets or backslashes; a file that ends inside blocks | the tokens are those of the offside rule |
| parser, AST (`parser/`, `ast/`) | two tokens of lookahead | one function per construct, one constructor per node | precedence, sugar, casts and parameters both written with `<`, widths of literals | the tree is the one written |
| return check (`semantic/return_checker.cpp`) | | one walk over a body, one over the loops in it | loops that are left early | no function that is accepted falls off its end |
| types (`semantic/types.cpp`, `type_functions.cpp`, `subtype.cpp`, `unify_trait.cpp`) | bindings and constraints of variables, instances of traits | `unify`, `bindVariable`, `isSubtype`, `overlap`, `findMatchingInstance`, instantiation, substitution | bindings made before a unification fails or ends; constraints on variables that later become equal; instances declared after they are used | what was unified stays equal; a constraint holds of what is bound; no type has two instances of a trait |
| rest of semantic analysis (`semantic/semantic.cpp`, `symbol_table.cpp`) | scopes, annotations of the tree | name and method resolution, what each expression asks of types | shadowing, order of declarations | each use means its declaration |
| driver (`simplec.cpp`) | | runs the passes in order | | |
| library (`lib/*.enc`) | hash tables, lists, strings | insert, remove, resize | probing past removed entries, resizing | tables behave as maps and sets |

How they meet: the parser asks the lexer for two tokens ahead, and the analyser walks the
tree it makes, asking for types to be unified as it goes.  `simplec.cpp` then hands one
function at a time from pass to pass: TAC code,
`ToSSA`, folding and dead-value removal, `FromSSA`, `MachineCodeGen`, `RegAlloc`,
`StackAlloc`, `StackMap`, `RedundantMoves`, the printer.  The printer writes the stack maps
into the program as a table from return addresses to slots.  At run time compiled code
calls `gcAllocate`; a collection looks up every return address on the stack in that
table.  So a compiler pass and the collector share one contract: at each call the
map lists exactly the slots with references that are read again.  `RegAlloc` checks
the compiler's side of it (`LivenessExact`, `StackMapSound`, and `SameValues` with a collector that
spoils each reference not listed), `CheneyGc` the run time's side (it keeps the slots listed,
and a program may read only those).

## The modules

`Ast` -- the nodes, as records, one operator per constructor of `ast.hpp`.

`Layout` -- the lexer.  A file is a sequence of pieces: tokens, runs of blanks with their
width, comments, newlines, a backslash before a newline, an import.  One call of `yylex`
takes several steps: `ScanPiece` applies one rule of the scanner to the file on top and hands
the token to the indentation machine, `ImportFile` and `EndOfFile` open and close
a file, `ReturnToken` takes one token from the queue.

`OffsideRule` -- what the tokens of a text that imports nothing have to be, by the places of its
pieces and not by running over them: a logical line starts after a newline outside all brackets, if a token is on
it; the levels open before it are those of the earlier lines that no line in between is left of; it
opens a block, closes the blocks it is left of, or fits none, where the stream ends.  `Readable` says
what is taken for granted of a text, besides what flex makes true of every one (runs of blanks are taken together,
a comment goes on to the end of its line): a last line without a token is ended by a newline, and a
backslash is followed by a line that starts with a token, and outside brackets comes after one on its own line.
`LayoutUnderstood` compares the two, and `LayoutProofs` proves it.

`Parser` -- one operator per function of `parser.cpp`, from a position among the tokens to a
node and the position after it.  The functions call each other through one recursive
function `P`.  `ParseProgram` is the action.  An error is position 0, as an exception
ends the parse.

`Written` -- the way back, after `docs/grammar.y`: the text of a tree, with the parentheses its
operators need and no others, in a style (width of a level, comments, blank lines, lines
broken in brackets or continued).  It is ours, and knows nothing of the parser.

`ReturnChecker` -- `ReturnChecker` and `LoopEscapeChecker` as two recursive operators, beside
`Outcomes`, the ways in which a statement can be left when any condition may be either.

`FrontEnd` -- the lexer, the parser and the return check one after the other on one text, with
what the tree must be.

`Types` -- types and traits, with the functions of `type_functions.cpp`, `subtype.cpp` and
`unify_trait.cpp`.  A function takes a world (bindings, constraints, instances,
quantified variables, the members of the object at work) and returns one with a value, so
that bindings made on the way to a failure are there; `Call` is the operator they
recurse through.  Types have ids where the code compares addresses.

`TypeMeaning` -- what a type is the set of: the concrete types that choices for its variables
make of it, where a choice has to satisfy the constraints (rules 1 to 4 in `subtype.hpp`).
It is computed by matching, without any function of `Types` that decides.

`TypeChecking` -- the analysis as requests in any order: `DeclareInstance` is
`visit(ImplNode*)`, `UnifyTypes` is `unify`, `UnifyWithTrait` what `visit(ForNode*)` asks of
the type it iterates over, `Finish` is `checkTraitCoherence`.  The first failure ends
it, as a semantic error ends the compiler.

`HeapSizing` -- sizes only.  `used` is `heapPointer - heapStart`, `heapSize` and
`otherSize` the two semispaces, `pc` the point `gcAllocate` or
`gcCollectAndAllocate` has reached.  One action per outcome of each step: `Allocate`,
`AllocateFails`, `Collect` (what survives is any number of words up to what was there),
`Expand`, `Equalize`, `MapFails`, `Retry`, `RetryFails`, `Recollect`, `LastTry`,
`LastTryFails`, `EqualizeAfter`.  A failed attempt leaves `heapPointer` past the end,
as in the code.

`CheneyGc` -- the heap, block by block, with the program that uses it.  Addresses
are `<<semispace, offset>>`; `mem` holds each block with its header (a size, or a forwarding
address), layout and fields.  A collection is a sequence of actions: `StartCollection`,
`CopyRoot` for each slot of each frame and each additional root, `ScanField` and
`ScanNext` for each field, then `Swap` and `Resize`.  The program (`Load`, `Store`, `Call`,
`Return`, `CallC`, allocation, globals) is external: any sequence of the steps compiled
code takes.  Object names in blocks are auxiliary; the code has only addresses.
Every step of `CheneyGc` is a step of `HeapSizing` or a stutter (`FollowsSizing`).

`ObjectStore` -- what the heap promises: objects with identity, reached from variables,
that only the program changes.  `CheneyGc` implements it under a mapping that reads
references by the names of the objects they lead to (`CollectionInvisible`): to a
program a collection is a stutter.

`TreeSemantics` -- what a syntax tree means, as a run: the variables, the objects, the
calls made so far.  The language has no definition apart from its compiler, so this one
is ours: operands from left to right, the right side of an assignment first, `and` and
`or` no further than needed, a lambda keeping what its variables were.

`TacCodegen` -- the handlers of `tac_codegen.cpp`, one operator each, from a tree to blocks of
three-address instructions: `visit` for values and statements, `visitCondition` for
`TACConditionalCodeGen`, `storeMembers` for patterns, `createClosure` with the captures
`EnvironmentCapture` finds, `createConstructor`, `makeArray`.  `cg` is the state of the
generator: the blocks, the current one, the loop's entry and exit, the locals met.
`Emit` remembers whether the assertion of `BasicBlock::append` held.  The validator
(`isValid`) and a machine that runs the code (`RunCode`) are here too; `FollowsTree`
compares such a run with that of the tree, and the header of each object with its
fields.  Types are resolved before: an operation is either built in or a call, a test
against a constructor is one against a tag, and every element has eight bytes.

`PhiPlacement` -- the first half of `to_ssa.cpp`, on the control-flow graph alone: dominators,
immediate dominators, dominance frontiers, and the blocks that get a phi for a variable,
beside the definitions of these things by paths.  Loops of the code that run until nothing
changes are recursive functions of the number of rounds.

`ToSsa` -- the SSA passes and the removal of dead values as operators on what
`TacCodegen` makes of a program, one per function of `to_ssa.cpp` (with `PhiPlacement`),
`kill_dead_values.cpp` and `from_ssa.cpp`, composed in `Compile` in the order of `simplec.cpp` (without constant
folding).  Then the generated code and the result run in lock-step, block by block, along
any path: `SameValues` compares what calls, stores to memory, jumps and returns are given.

`Passes` -- folds over a block's instructions, and the backward data-flow iteration
that `RegAlloc` and `StackMap` both contain.

`MachineCode` -- from three-address code to what the printer writes, one operator per function of
the source: `ConstantFolding`, the handlers of `machine_codegen.cpp` (`visitBinaryOperation`,
`visitCall`, `visitConditionalJump`, ...), `StackAlloc`, `MachineBB::successors`, and
`printInstruction` reduced to the name of the instruction and, for each operand, the size it is
written with.  `Selected` composes them.  The bit operations and shifts of folding and
selection are left out: no part of the compiler makes one.

`Processor` -- two machines to compare on: `TacStep` runs three-address code with the
arithmetic its types give, `CpuStep` an x86-64 with sized registers, flags, a stack and both
calling conventions, which refuses what has no encoding.  Both record the calls made with
the arguments their callee finds, what is stored in the program's memory, and the result.
They are ours, not the repository's; `ccall` is a call with its target in `rax`.

`RegAlloc` -- the allocation in steps (`Coalesce`, `RemoveVertex`, `RemoveBlocked`,
`ColorFixed`, `findColorFor`, `Spill`, `Assign`).  It starts from `Lowered`, the code
`MachineCode` selects for a function, reduced to what the allocator sees: what each
instruction reads, writes, copies or calls.  When a function arrives, `FoldingRight`,
`SelectionRight` and `CallsKeepFrame` judge the passes before.  `Assign`
includes the passes after it (saving around calls, stack maps, redundant moves) and the printer's
assertion on instructions with one operand for what they read first and what they write: where a spill has
separated the two the compiler aborts, and there is nothing to run.  Otherwise
both programs run in lock-step.  A call loses every register but rbp and may collect:
a reference in a slot its map does not list becomes `Stale`.  rbp is live everywhere
and never given; rsp is left out here; `StackAlloc`'s offsets are one
distinct slot per stack variable.  The stack map is the liveness of what the code does to slots with
references (`SlotCode`), as `LivenessExact` has it: a register is live, and a slot listed, exactly when
a path (`ReadAfter`) reads it before writing it.  Precolored registers of one hardware register and
type are one, where the code makes a new one each time.

`HashTable` -- the tables of `Dict.enc` and `Set.enc`, which are one algorithm written twice.
A table is `[contents, size, capacity]`; the linear probe is the set of distances
at which it would stop, and its end the least of them.  `insert`, `resize`, `get` and
`contains` are functions of the table; `Insert`, `delete`, `pop`, `iter` and `next` are
the actions, with the ways a call can fail to return as actions of their own
(`DeletePanics`, `DeleteHangs`, `DeleteDivides`, `PopPanics`).  `resize` is a recursive function,
`Reinserted`, of the slots whose entries were inserted again.  Overwriting a key counts in
`size` again, so it can resize the table under an iterator (`rehashed`).  Until something
is deleted it implements `FiniteMap`, a map with `Insert` and `Remove`.

`HeapSizingProofs`, `CheneyGcProofs`, `CheneyGcStoreProofs`, `HashTableProofs`, `LayoutProofs`,
`PhiPlacementProofs` and `RegAllocProofs` hold the theorems about the modules they are named after,
`CommonLemmas` facts that several use.  The `MC` modules give the constants values.

## What TLC checks

| run | instance | what it shows |
|---|---|---|
| `front_end` | the texts of all expressions with two operators and some with four, of each statement and declaration, in up to three styles and with any first part of them imported; up to four lines with any indentation; literals of every suffix around the limits of their types; the bodies of functions with two statements in a loop, a branch or a loop in a loop | `ParsesAsWritten`: the tree is the one that was written, and a text with a line that fits no block is refused; `LayoutUnderstood`: the tokens of each of these texts that imports nothing are those of the offside rule; `LiteralsDenote`: a literal has its value or is refused; `ReturnsChecked`: what the return check accepts cannot fall off its end, outside the two cases below |
| `types` | three open variables with four sets of constraints, ten equations, three iterations and three instances that may be declared, up to three requests in any order; eleven questions about subtypes | `UnifiedStaySame`: what was unified stays equal; `ConstraintsHold`: constraints hold of what is bound; `RefusedUnsolvable`: what is refused has no solution; `OneInstancePerType`: no type of an accepted program has two instances of a trait; `SubtypeIsSubset`: what is taken for a subtype stands for a subset of the types the other stands for (not the converse); `TypeOK`: with it, no assertion of the type functions fails and no variable is bound to itself |
| `heap_sizing` | semispaces of 12 to 64 words, pages of 4, requests around every rounding boundary | `ToSpaceFits`: the asserts of `gcCopy` hold; `OnlyExactFitFails`: a request fails only when it would end exactly at `heapEnd`; `GrowthBounded`, `AtMostHalfFull`: the policy; `AllocationEnds` |
| `gc_graphs` | three blocks, each with a raw field that holds the bits of an address and a boxed one, in any graph under a stack slot and a global | each collection preserves the graph (`CollectionInvisible`), keeps what is reachable and nothing else (`ExactlyReachableKept`), leaves no from-space address behind (`NoStaleReference`), sizes the heap as `HeapSizing` says (`FollowsSizing`), and ends (`CollectionEnds`) |
| `gc_roots` | two frames and a C function with two variables it may register; boxed arrays, and unboxed ones allocated by C, in a heap small enough for retries, expansions and refusals of mmap | roots of every kind are found, and what C registered survives its allocations; unboxed arrays are left alone |
| `ssa` | 857 functions: two locals, or a local and an argument, in every shape of `if`, `while`, `forever`, `break` and one nesting; every kind of condition as a condition, as a value and in a loop; every way to leave a branch, an arm or a body inside each loop; closures, constructors, arrays | `SameValues`, `NothingUndefined`: each read sees the source's value; `DominatorsRight`: the iteration computes dominators and frontiers as defined by paths; `PhisWhereDefinitionsMeet`: a block has a phi exactly when values from two blocks come to it; `CodegenFollowsTree`: for all answers of three to five calls, code and tree make the same calls and end alike; `TypeOK`: the assertions of the generator, the validator and the passes hold |
| `ssa_branch_read` | an argument first read in one branch | **violated**: `SameValues` |
| `reg_alloc` | 221 functions: every operation on every type with variables and constants, every comparison, conversions, globals and memory, the three conventions of call, lines of any two of six sequences, diamonds and loops with calls; six colours, two hash orders, six spills | `FoldingRight`, `SelectionRight`: the folded, selected and printed code does what the three-address code says; `CallsKeepFrame`: alignment and room at calls; `SameValues`, `StackMapSound`, `NothingOverwritten`, `LivenessExact` (registers on entry to blocks and after instructions, slots at calls) for what the allocator makes of it |
| `reg_alloc_two_operands` | a sum of two of fourteen parameters, all read again after it; fourteen colours | **violated**: `OperandsTied` |
| `reg_alloc_shared_source` | two phis that take one value | **violated**: `SameValues` |
| `hash_tables` | three keys with hashes 0 or 2, tables of 1, 3 and 6 slots | `ActsAsMap`: until a deletion the table is the map; `ProbesEnd`: no insertion goes round for ever; `IterationExact`: an iteration that sees no resizing yields every key once |
| `set_delete` | two keys that collide | **violated**: `DeletePanicsOnlyIfAbsent` |

Why the bounds are enough.  Whether an expression needs parentheses is decided between an
operator and the one it is an operand of; the rules of the parser pass no more down, but for the
`<` after a cast, and the expressions with four operators put three levels between.  Four
lines open three levels, close several at once and miss one.  A width of four bits (three for
bytes) leaves literals that fit the signed type, only the unsigned, or none, with the limits and
their neighbours among them.  Two statements around a jump, under one more loop, give a
return before and after each way out.  Of types, two open variables can be bound to each
other in both directions and a third carries what a constraint says of one of them; three
requests bind two of them and then ask for what agrees with that or does not; the deepest type is a
list of lists.  Some inputs are left out of
`types` because the code goes wrong on them, as told below: constraints whose parameter can
come to contain the variable itself, a constraint to `Iterator<Int>` on a variable that meets
`S: Iterator<T>`, conditional instances that overlap a quantified one, and traits of two
parameters.  A collector error needs a shared object, a cycle, an object
reached from two roots or a chain longer than the scan: three objects give each.  Sizes
matter by their remainders and by the order of a few comparisons, and the requests
chosen hit both sides of each; the proofs then remove the bound.  Two variables are
the least that can be swapped or confused by a phi, and four to six blocks hold each
kind of join the language can produce, and a loop in a loop.  The programs that run call
something at each point where they may go either way, so the answers choose the path, and
the calls made tell paths apart; a loop asks once per iteration, so three to five answers
give two iterations and a way out.  Six colours are the
first six of `MachineContext::hregs`, the registers with a fixed role up to four
arguments among them; with three live values and a call's fixed registers they make spilling happen
without making it the only thing that happens, and a spill's temporaries and several rounds
occur.  The vertices hash to ascending numbers (`Hashes` 1) or to descending ones (60), and every
round of an allocation chooses again, so that orders mix; up to six slots are reached, the most
`MaxSlots` allows.  Words of 12 bits, constants of 8 and bytes of 3 stand for 64, 32 and 8: each
relation between them that a handler tests has both outcomes, and arguments are the
least and greatest numbers of either sign in all combinations.  `StackTop` is where the
return address is, 8 below a multiple of 16, as after a call.
Three keys that
hash to two slots collide, displace one another and wrap around the end of
the table; `MaxCapacity` 6 allows two resizings with entries to move, and an iteration is
given up at a deletion.  `MaxSlots`, `MaxWords`, `MaxFrames` are bounds of the instance: at `MaxWords` `mmap` fails,
which the code handles by exiting; at `MaxSlots` the allocation stops.

Deadlock is not checked: a program ends or panics, the process exits after a failed `mmap`, and the
compiler ends after its last pass.

Fairness.  `AllocationEnds` and `CollectionEnds` assume weak fairness of the collector's own
steps only: `gcAllocate` is a sequential function, which nothing can preempt for
ever.  The program is not assumed fair: it may stop.

## Where the code and its comments differ

1. *Argument read first in a branch* (`ir/to_ssa.cpp:303`, run `ssa_branch_read`).  Renaming
   keeps the first load of an argument for "any node dominated by this one", but walks
   the flow graph: the join after an `if` is visited from the first branch, with the load
   of that branch on the stack.  Along the other branch the value is undefined.
2. *Two moves from one register* (`codegen/reg_alloc.cpp:632`, run `reg_alloc_shared_source`).
   Coalescing finds all replacements on one graph.  Two registers that each may share
   with a third, but not with each other, are merged.
3. *Spilled results* (`codegen/reg_alloc.cpp:592`, run `reg_alloc_two_operands`).  `ADD`, `SUB` and
   `IMUL` have one operand to read first and to write, and are selected with one register in both
   places.  When that register is spilled, `spillVariable` loads into one fresh register and
   stores from another, and the printer's `assert(inst->outputs[0] == inst->inputs[0])`
   (`asm_printer.cpp:319`, 348, 355) stops the compiler; the build files do not turn
   assertions off.  The run has the fourteen registers of the processor.  What the other runs say of
   spilled code is said of the functions whose spilled registers are not of this kind.
4. *Holes in a set* (`lib/Set.enc:48`, run `set_delete`).  `Set::delete` empties the slot of
   its key, and a probe stops at an empty slot: what was placed further on because of
   that key is no longer found, and deleting it panics with "key not found" (`Set.enc:51`).
   `delete` also leaves `size` as it was, so `pop` can reach its panic "Unreachable"; on a
   set without slots it divides by zero, and on a set of one slot that holds another
   key it never returns.  These are actions of `HashTable`; nothing in the source
   denies them.

More follows from the models and has no run of its own.

*Exact fit.*  `gcCollectAndAllocate` (`lib/library.c:466`) expands
when `freeSize < bytesNeeded / 8`, but `try_mymalloc` (line 231) refuses a block that would end
exactly at `heapEnd`.  When just the words needed are free, nothing expands, both
attempts fail and `assert(result)` (line 492) does not hold, though the comment above it says the
expansion "should have guaranteed that we have enough space".  `heap_sizing` reaches this (the
action `LastTryFails`); `OnlyExactFitFails` shows there, and `FailureIsExactFit` proves, that it is the
only way to fail.  What follows is left out by the instances.

*Selection.*  The remainder of two bytes is lost: `DIV` leaves
it in `ah`, and `SAR {al}, {ax, 8}` (`machine_codegen.cpp:340`) is printed with the size of its first
operand, `sar al, 8`.  (`testing/u8-4.enc` divides 150 by 10, whose remainder is 0, as is
what is printed.)  A byte times a constant becomes `imul` with a constant alone, which has no
encoding; a constant of more than 32 bits in an addition, a subtraction or a product is
given to an instruction that has no room for it.  `CMP` takes a constant second only, so
with one on the left the operands change places, but the jump is still that of the relation
as written (`machine_codegen.cpp:475`): `1u < x` is compiled as `x < 1u`.  Two constants
(`testing/uint4.enc`) come out right.

*Code generation.*  The mask of the references in an object is built with `1 << i`, an `int`
(`tac_codegen.cpp:413`, and 958 for closures): of a constructor with more than 32
members, whose limit is 64 in the check above it, bit 32 becomes bit 0.  Statements after a `forever`
loop that nothing leaves go into a block no jump reaches; `rename` does not visit it, and the
assertion of `from_ssa.cpp:15` that no local is left fails (`TypeOK` is about the
other blocks; the programs `DeadCode` are among those checked).  A statement after
`break` or `continue` in one block trips the assertion of `BasicBlock::append`.

*Parsing.*  `x as Int < y` is refused: after a cast the parser takes `<` for the start of the type's
parameters (`parser.cpp:985`), where `docs/grammar.y:215` and 231 derive a comparison.

*Return check.*  A `while` or `for` statement is taken to return when its body does, though the body
may not run, and a `forever` one whose body returns though a `break` comes before
(`return_checker.cpp:27`, 46 and 73): such a function is accepted, and falls off its end.  The
message for the ones refused is "not every path through function returns a value"
(`semantic.cpp:695`).  A `break` nothing reaches makes it refuse a body that cannot be left
otherwise.

*Types.*
- A variable constrained to `Iterator<Int>` is accepted for `S: Iterator<T>`: the
  constraints of two variables are compared in the wrong direction (`type_functions.cpp:165`).
  Likewise one constrained to `Iterable<'c>` is accepted for `S: Iterator<T>` by way of
  `isSubtype` (line 199), which does not bind `'c`.  With `impl Show for List<W>` where
  `W: Show`, a variable constrained to `Show` and then bound to `List<'b>` says nothing of `'b`.
- Iterating over an open variable without constraints decides for the first instance of the
  trait and leaves the instance's own quantified parameter in it (`unify_trait.cpp:53`);
  unifications that have solutions are then refused.  `OnlyKnownIterated` says when.
- `tryUnify` of two traits takes parameter 0 each time (`unify_trait.cpp:13`), so the second
  parameters of two constraints, which `Index` and `IndexSet` have, are never unified.
- With `'b: Iterator<'c>`, binding `'c` to a list of `'b` makes a constraint contain its own
  variable, and `occurs` recurses for ever.
- Two instances of a trait that match one type are accepted when one of them is conditional
  or narrower than the type asked about (`docs/method_resolution.txt`: "For any given
  concrete type, there can be only one matching instance").  `overlap` also depends on the order
  of its arguments when variables repeat.
- Where a quantified variable repeats, `isSubtype` compares what it stands for by address:
  `Pair<List<Int>, List<Int>>` is not below `Pair<T, T>` (`subtype.cpp:296`).  In other
  combinations of repeated variables it says yes where no choice for them exists.
- `fullySubstitute` of a trait has a loop with its test inverted (`type_functions.cpp:507`) and would
  not end; `imposeConstraint` (`semantic.cpp:73`) is never used.

## What is proved

`HeapSizingProofs` proves, for all sizes, page sizes, limits and sets of requests, from
`SizesAssumption` alone (sizes and pages are positive, requests are natural numbers):

| theorem | property |
|---|---|
| `TypeCorrect` | sizes are naturals, semispaces never empty |
| `ToSpaceAlwaysFits` | when a collection starts the spare semispace holds all of the current one, so the asserts in `gcCopy` hold |
| `FailureIsExactFit` | a request fails only on an exact fit |
| `GrowthIsBounded` | no semispace outgrows 5/2 of the largest demand and a page (or the initial size) |
| `ExpandedHeapHalfFull` | after an expansion and a second copy the heap is at most half full |
| `HeapKeepsGrowing` | a collection never gives the program a smaller heap |

None of these is inductive.  The invariant is `IInv`, in four parts: `PointerInv` says
where `heapPointer` stands relative to what was carved (past it after a failed attempt, on it
otherwise); `SpacesInv` orders the two sizes at each `pc` (the spare one may be the smaller
only between the swap and the resizing); `SecuredInv` says what the resizing has secured
for the retry (room for the request, or exactly the request); `PeakInv` bounds both
sizes by the demand seen so far.  There is one lemma per action, over three lemmas on
the arithmetic of `RoundUp`, `BlockWords` and `ExpandedSize`.

`HashTableProofs` proves what the run `hash_tables` checks, and one thing more, for every set of keys and values, every hash function and tables of any size, from
`HashTableAssumption` alone (hashes and `MaxCapacity` are natural numbers):

| theorem | property |
|---|---|
| `TypeCorrect` | slots hold entries or nothing, and `size` is never less than the number of entries |
| `ProbesAlwaysEnd` | every probe that `insert` begins ends, also after deletions |
| `ResizeNeverNests` | the insertions `resize` makes never resize the table again, so the model may leave that call out |
| `EntriesAtHome` | until something is deleted, the probe for the key of an entry ends at that entry |
| `ImplementsMap` | until something is deleted, a table implements `FiniteMap` |
| `IterationsExact` | an iteration without deletion and resizing returns each key that was there once |

`IInv` says that the table is one, that `size` is not too low and that an iterator is not
past the end.  That is inductive, and enough for probes to end: a table whose `size` is
below two thirds of its capacity has a free slot, and `ProbeReaches` says that a linear
probe comes to every slot (the lemmas on `%` before it are proved from division).  It is not enough
for lookups: `HomeInv` adds that, until a deletion, the probe for each entry's key ends at that entry.
Deletion is where it breaks, which is what the run `set_delete` shows.  `PlaceHome`
is the heart of the proof: a new entry goes to a slot that was free, so no other probe
ended there unless its key is absent.  `ReinsertedMaps` follows it through a resizing; it
speaks of the entries of the first `i` slots, and is proved by taking the least `i` for
which it fails (`Least`), since the induction theorems of the library take an operator.  `IterInv`
adds that the keys returned are those of the slots passed, which an insertion keeps
because it moves no entry.

`CheneyGcProofs` proves `NoDangling`, that is `NoStaleReference`, for every set of objects, stack
slots, globals and C variables, stacks of any depth and objects of any shape, from `NamesAssumption`
(names are finite in number and told apart) and `ShapesAssumption` (a shape says of each field whether
it holds a reference).  `NoStaleReference` speaks of the moments the program runs; `IInv`, which
`Invariance` proves, is about every step.  Outside a collection the spare semispace
is empty and everything live refers to a block of the current one (`Settled`).  During one:

- the copies lie end to end up to `allocPtr`, and `scanPtr` is the start of one or `allocPtr` (`Tiled`,
  `Copying`), which is why `gcScan` finds every copy by adding sizes;
- a block left behind holds its size or the address of a copy (`FromInv`), so what `gcCopy` returns
  is a copy or lies outside the heap (`CopyFacts`);
- fields before `scanPtr`, and those of that block before `scanField`, refer to copies; the others to
  copies or to blocks left (`ToInv`);
- a live variable refers to a copy or is still in `todo` (`RootsInv`);
- what C reads after an allocation is in `additionalRoots` (`CallInv`): the model lets C read a variable
  it did not register only until it allocates, which is the contract of `addRoot`.

When `scanPtr` meets `allocPtr` with no root left, the four together say that nothing refers to the
semispace that `Swap` leaves.  The recursion of `ReachableBlocks` is a function, and a claim about it
is proved by the least depth at which it fails (`Least`, in `CommonLemmas`, which also says what
`SetToSeq` and `FlattenSeq`, which list the roots, contain).

`CheneyGcStoreProofs` goes on from there, from the same assumptions:

| theorem | property |
|---|---|
| `Invisible` | `CollectionInvisible`: the collector with the program that uses it implements `ObjectStore`, a store with no collector |
| `ExactlyReachable` | `ExactlyReachableKept`: what a collection keeps is what was reachable, once each |

`IInv` says where references may lead and not which object they lead to.  `StoreInv`, which
`StoreInvariance` proves, adds the names: every block has one of `Ids`; no two reachable blocks have
the same; a copy has the name of the block it was made from, and is reached by the program; until the next
allocation everything a collection has kept is reachable; a request reads only variables its frame
keeps.  The first half of the proof is about `ReachableBlocks`, a chain of `Cardinality(Ids)` steps.  Because names of
reachable blocks are distinct the chain cannot grow longer than that (`ChainStops`), so it is the
least set closed under references (`ReachableClosed`, `ReachableSmallest`).  The second half is a map
for each step.  A step of the collector moves at most one block, and takes the reachable blocks before
it one to one to those after it, with their names and fields (`MovesReach`); hence the store that the
program sees is unchanged (`MovesView`).  A step of the program is the store's step of the same
name, with the same arguments.  The names of `NamesAssumption` are only in the model: it asks that `null`
and the static object are not names of objects.

The second half of `CheneyGcStoreProofs` proves the rest of what the runs check of `CheneyGc`, with `LimitsAssumption`
as well (sizes and pages are positive, and the initial semispaces were granted):

| theorem | property |
|---|---|
| `SizingFollowed` | `FollowsSizing`: seen as sizes only, the collector implements `HeapSizing` |
| `CollectorSizes` | so the theorems on `HeapSizing` hold of it: the asserts of `gcCopy`, failure only on an exact fit, bounded growth |
| `CopiesFit` | `gcCopy` never writes past the end of the semispace it copies into |
| `TypeCorrect` | `TypeOK`: addresses stay within the semispaces and unboxed fields keep their bits |

`HeapSizing` lets a collection keep any number of words up to `filled`, and has the second collection of
a request keep all of them.  That the copies of a graph add up to such a number is `SizeInv`: outside a
collection blocks lie end to end up to `filled`; during one, the words of the blocks that were not moved
and `allocPtr` add up to `filled` (`Measured`, by the cardinality of a set of words, which `ForwardMeasured`
shrinks by exactly one block); and during a second collection every block of the old semispace leads to
a reachable one, since the first kept nothing else and the program did not run in between.  At
the end nothing reachable is left (`MovedAll`), so in the second collection nothing is left at all.
`HeapSizingProofs` is then instantiated with the collector's variables (`Policy`), its assumption
proved of them, and its theorems used as they stand.  `TypeOK` comes last, because an address is within
`MaxWords` only when copies fit.

`RegAllocProofs` proves two of the properties of `RegAlloc`, and what they rest on, for every set of
functions, number of colours and order of the hash table, from `ColorsAssumption` and
`MachinesAssumption` (a function has a block, its successors are blocks but not the first, its blocks are
sequences of instructions that read finitely many registers, and its precolored registers are finite in
number: no jump of the code generator leads back to the entry, and the rest is the type of a
`MachineFunction`):

| theorem | property |
|---|---|
| `LiveWhereRead` | `LivenessExact`: what `computeLiveness`, the walk back through each block and `StackMap` find is what the paths of the function say, however much was spilled |
| `EdgesWhereNeeded` | `InterferenceExact`: the graph has an edge exactly between two registers of which some instruction, no move between them, writes one while the other is to be read, and between precolored ones of different colours |
| `NeighboursApart` | `ProperColoring`: no two registers that interfere get one colour, and virtual ones get colours there are, given `FixedApart` |
| `ValuesKept` | `NothingOverwritten`: no instruction writes the hardware register of a value that a path still reads, given `FixedApart` |
| `AllocationInvariance` | `AllocationInv`, from which the others follow |

`FixedApart` says that no instruction writes a precolored register while another one of the same hardware
register is still to be read.  Whether one does is decided by instruction selection, before any colour
is given: `findColorFor` asserts it, nothing in the allocator could mend it, and the run `reg_alloc`, which
checks `NothingOverwritten` without that condition, shows it of the code that is selected for 221 functions.

For liveness, what `n` rounds of the data-flow equation find live is what a path of fewer than `n`
steps reads first (`RoundsFollowPaths`); the sets of blocks grow, so that after as many rounds as there
are blocks nothing is added (`LastStepAddsNothing`), and where a round changes nothing, as in the code's
loop, no later one does (`LiveInIsExact`, of any sets of uses and definitions).  Within a block the walk back
from the last instruction finds what the rest of the block reads first (`LiveAfterReads`).  The
stack map is the same computation on `SlotCode`, but that it has the first block define the
parameters; that changes nothing after any call because no jump leads to that block (`LeadToApart`,
`StackMapIsExact`).  A pair is an edge when one of its registers is written where the other is live
(`EdgesAreExact`), which liveness then turns into the statement about paths.

`AllocationInv` puts together what has to hold between steps.  `Machines`: renaming and spilling
leave the code a function from blocks to sequences of instructions (`CoalescedBlocks`, `SpilledBlocks`, and
`SavedBlocks` for what is saved around calls), on which `gatherUseDef` is the same as "read before written"
(`UsedFirstReads`); the registers to save are finite in number, as each of them is read somewhere
(`LiveIsRead`).  `Current`: while there is a graph it is that of the present code, and what it has is
coloured or on the stack, so that at the end everything is coloured.  `ColoringInv`: the graph has an edge from
both of its ends and none from a register to itself, the stack holds vertices that are not precolored,
and every register coloured so far differs from all its coloured neighbours; that `findColorFor` then
finds a colour at all is counting (`LeastUnusedIsFree`).  All this is about the code as coalescing left it:
that coalescing itself keeps values is what the run `reg_alloc_shared_source` refutes.

`PhiPlacementProofs` proves, of every control-flow graph and every placement of stores in it, with no
assumption on a constant:

| theorem | property |
|---|---|
| `DominatorsAreRight` | `DominatorsRight`: `findDominators` ends with the dominators as paths define them; every block but the entry has one immediate dominator, so the `assert(false)` of `getImmediateDominators` is never met; the runners that climb from the predecessors of joins find all of each dominance frontier and nothing else |
| `PhisAreExact` | `PhisWhereDefinitionsMeet`: a block gets a phi for a variable exactly when values from two blocks come to it |

Both ask for `IsControlFlowGraph` (jumps lead to blocks, and none to the entry), which `TypeOK` checks of
every function of the run, and speak of functions all of whose blocks can be reached; the code makes others
only after a `forever` that nothing leaves, and `rename` does not visit those blocks.  The first half rests on
`ReachableAvoiding` being a least closed set (`Avoiding`), from which follow that dominance is an order, that the
dominators of a block form a chain, and that a block is dominated by what dominates all its predecessors
(`DominatesAfterAll`).  The rounds of `findDominators` only ever drop pairs and never a true one
(`RoundsKeepDominators`); after a round that drops nothing no false one is left (`StableRound`); and there is such
a round (`RoundsSettle`), because what `n` rounds have dropped for `d` are the
blocks reachable without it in `n` jumps, sets that stop growing after as many steps as there are blocks.  The
second half is about `Settled`: the blocks given a phi are the frontiers of the defining ones, themselves
included, which is what the work list comes to.  Then to a block without a phi comes only the value of the last
block that defines above it (`OneComes`), though `rename` walks the control-flow graph and not the dominator tree;
and to a block in the frontier of `x` come one value from among the blocks that `x` dominates and one
from elsewhere, since jumps between the two regions lead to `x` or to a block with a phi (`TwoCome`).

`LayoutProofs` proves, of every text that imports nothing, of any length, over any pieces
(`Typed`: each has a type, as a token has), and whatever files there are:

| theorem | property |
|---|---|
| `LexerFollowsOffsideRule` | `LayoutUnderstood`: when the lexer is done, what it gave to the parser is what `OffsideRule` expects |

It is about the lexer by itself (`Reads`); in `FrontEnd` each step is a step of the lexer or leaves its
variables alone.  The invariant, `Lexes`, says that until the end is queued what was returned and what is queued
are together the tokens of the pieces read (`Stream`), that the stack of levels is strictly increasing and
holds exactly the levels that are open (`OpenLevels`), that `unclosedBrackets` is the number of open
brackets, and that `lastToken` says whether the next token is the first of a line (`AtLine`).  The last
is the difficult part: the lexer takes a line for started when the token before it was a newline, while the rule looks
for a newline outside brackets in the text, with blank and commented lines, continued lines, and blanks at the head in
between; `Fresh` carries what the scanner knows at a piece of the pieces before it.  Then each rule of the scanner
consumes the pieces its token comes from (`OnePiece`, `BlankLinePassed`), popping the stack is keeping the levels the
line is not left of, one DEDENT for each of the others (`Popped`, by cardinality), and a step over them keeps
the invariant (`ReadOn`), or queues the end (`EndQueued`).  The invariant itself was checked by TLC on the texts of
`front_end` before it was proved.

Only model-checked: the parser, the return check and the types, which are recursive operators over
trees, as far as they are algorithms; liveness (`AllocationEnds`, `CollectionEnds`); what the compiler passes do to
the values of a program (`SameValues`, `StackMapSound`, and the properties of folding, selection and
`ToSsa`; that renaming follows the phis is of this kind), which would be inductions over the instructions of a
block; and of the hash tables, `set_delete`,
which is a counterexample.

## What is not modelled

- Strings, files and input in `library.c`; the `enccall` trampolines, which nothing in the
  repository calls.  Nothing there calls `addRoot` and `removeRoots` either, which `library.h`
  exports: the C functions of `CheneyGc`, which do, stand for extensions.
- In `asm_printer.cpp`: the text, static data and the table of stack maps; `simplec.cpp` is
  the order in which the modules are composed.
- In the code generator: the work list of instantiations, trait methods, literals out of range, the
  top-level program; statements after `break` and `continue`; lambdas that call named
  functions (`EnvironmentCapture` captures the function, and the generator asserts).
- In the lexer and the parser: the regular expressions of single tokens, locations, the wording of
  errors, the table of strings.
- In semantic analysis: scopes, the resolution of names and of methods, `Self` and associated
  types, and what each kind of expression asks of the types of its parts: `TypeChecking` takes
  its requests from a set, in any order.  Of types, the `Has` traits that stand for
  fields, value constructors and the printing of types.
- `demote_globals.cpp` and the containers of the IR: one pass over a list.
- The rest of the library (`List.enc`, `String.enc`, `BigInt.enc`, ...), sequential code in the
  language itself.

## Plan

1. Scopes and the symbol table, then method resolution on top of `Types`, so that the requests of
   `TypeChecking` come from a tree that `FrontEnd` read.
2. The work list of instantiations and `DemoteGlobals`, which complete the path from a
   checked program to the input of `ToSsa`.
3. A proof that a colouring ends: a measure over spills, which no run needs yet.

Each joins a run that exists, in front of the module it feeds, where it can, so that
the composition is checked and not only the part.
