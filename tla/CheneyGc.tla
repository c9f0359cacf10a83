----------------------------- MODULE CheneyGc ------------------------------
(***************************************************************************)
(* The copying collector of the run time (lib/library.c, lib/gc.asm) with  *)
(* the program that uses it.  Blocks lie at word offsets in one of two     *)
(* semispaces; references are addresses, which a collection changes.       *)
(*                                                                         *)
(* The program is external to the collector: any sequence of the steps     *)
(* compiled code takes.  A step that may collect keeps, in each stack      *)
(* frame, only the slots its call site has in the stack map; the others    *)
(* keep their bits but are not read again before they are written.         *)
(***************************************************************************)
EXTENDS Integers, SequencesExt

CONSTANTS
  Ids,           \* names for objects (auxiliary: the code has only addresses)
  Slots, Globals, CVars,
  Shapes,        \* layouts of the objects the program allocates
  Raw,           \* bits of an unboxed field; may look like an address
  CShapes,       \* layouts C functions allocate
  MaxFrames,     \* bound: depth of the stack
  MaxFramesInC,  \* bound: frames below a C function
  InitialWords, PageWords, MaxWords

ASSUME NamesAssumption ==
  /\ IsFiniteSet(Ids) /\ IsFiniteSet(Slots) /\ IsFiniteSet(Globals)
  /\ Slots \cap CVars = {}
  /\ "null" \notin Slots \cup CVars
  /\ <<>> \notin Ids /\ <<"static">> \notin Ids

ASSUME ShapesAssumption ==
  \A shape \in Shapes \cup CShapes :
    /\ shape.tag \in {"struct", "boxedArray", "unboxedArray"}
    /\ shape.refs \in Seq(BOOLEAN)

\* initializeHeap maps the semispaces, or the program has not begun.
ASSUME LimitsAssumption ==
  /\ InitialWords \in Nat \ {0}
  /\ PageWords \in Nat \ {0}
  /\ MaxWords \in Nat
  /\ InitialWords <= MaxWords

VARIABLES
  mem,              \* mem[s]: the blocks of semispace s, by offset
  size,             \* size[s]: the words of semispace s
  cur,              \* the semispace heapStart points to
  heapPointer,      \* heapPointer - heapStart
  stack,            \* frames, innermost last: slot values, and the live slots
  globals,
  cvars, clive,     \* variables of the running C function, and the readable ones
  inC,              \* a C function is running
  additionalRoots,  \* the roots C code has added, latest first, then the globals
  pc, request,      \* the allocation in progress
  todo,             \* roots gcCopyRoots has not copied yet
  allocPtr, scanPtr, scanField,
  filled, peak      \* history, as in HeapSizing

collector == <<todo, allocPtr, scanPtr, scanField>>
program == <<stack, globals, cvars, clive, inC, additionalRoots>>
history == <<filled, peak>>
vars == <<mem, size, cur, heapPointer, program, pc, request, collector, history>>

(***************************************************************************)
(* Values and blocks.  An address is <<semispace, offset>>.  A header is a *)
(* size <<n>> (the tagged word) or, in a block that was moved, the address *)
(* of the copy.                                                            *)
(***************************************************************************)
Null == <<>>
Static == <<"static">>

IsAddress(v) == Len(v) = 2
ToSpace == 1 - cur

\* block < heapStart || block >= heapEnd, and the null test, of gcCopy.
InHeap(v) == IsAddress(v) /\ v[1] = cur

BlockAt(v) == mem[v[1]][v[2]]
IsForwarded(block) == IsAddress(block.header)
Words(block) == block.header[1] + 1

\* The semispace with this block at the offset.
Put(space, offset, block) ==
  [o \in DOMAIN space \cup {offset} |-> IF o = offset THEN block ELSE space[o]]

\* sizeof(SplObject) + 8 * members
Bytes(shape) == 16 + 8 * Len(shape.refs)

\* Mutant of ScannedFields: the tag of unboxed arrays is not tested.
ScannedWithoutTag(shape) ==
  IF shape.tag = "struct" THEN {i \in DOMAIN shape.refs : shape.refs[i]} ELSE DOMAIN shape.refs

\* The fields gcScan visits.
ScannedFields(shape) ==
  CASE shape.tag = "boxedArray"   -> DOMAIN shape.refs
    [] shape.tag = "unboxedArray" -> {}
    [] shape.tag = "struct"       -> {i \in DOMAIN shape.refs : shape.refs[i]}


NoRequest == [bytes |-> 0]

AllShapes == Shapes \cup CShapes

HS == INSTANCE HeapSizing WITH
        heapSize <- size[cur], used <- heapPointer, otherSize <- size[ToSpace],
        request <- request.bytes, Requests <- {Bytes(shape) : shape \in AllShapes}

EmptySpace == [offset \in {} |-> [header |-> <<0>>]]

Init ==
  /\ mem = [s \in {0, 1} |-> EmptySpace]
  /\ size = [s \in {0, 1} |-> InitialWords]
  /\ cur = 0
  /\ heapPointer = 0
  /\ stack = <<[values |-> [s \in Slots |-> Null], live |-> {}]>>
  /\ globals = [g \in Globals |-> Null]
  /\ cvars = [c \in CVars |-> Null]
  /\ clive = {}
  /\ inC = FALSE
  /\ additionalRoots = <<>>
  /\ pc = "run"
  /\ request = NoRequest
  /\ todo = <<>>
  /\ allocPtr = 0
  /\ scanPtr = 0
  /\ scanField = 1
  /\ filled = 0
  /\ peak = 0

-----------------------------------------------------------------------------
(***************************************************************************)
(* The program.                                                            *)
(***************************************************************************)
top == Len(stack)
frame == stack[top]
Value(s) == frame.values[s]

Running == pc = "run" /\ ~inC

SetTop(s, v) ==
  stack' = [stack EXCEPT ![top].values[s] = v, ![top].live = @ \cup {s}]

UnchangedHeap == UNCHANGED <<mem, size, cur, heapPointer, pc, request, collector, history>>

Load ==
  /\ Running
  /\ \E p \in frame.live, dest \in Slots :
       /\ InHeap(Value(p))
       /\ \E i \in ScannedFields(BlockAt(Value(p)).shape) :
            SetTop(dest, BlockAt(Value(p)).fields[i])
  /\ UNCHANGED <<globals, cvars, clive, inC, additionalRoots>> /\ UnchangedHeap

Store ==
  /\ Running
  /\ \E p, q \in frame.live :
       /\ InHeap(Value(p))
       /\ \E i \in ScannedFields(BlockAt(Value(p)).shape) :
            mem' = [mem EXCEPT ![cur][Value(p)[2]].fields[i] = Value(q)]
  /\ UNCHANGED <<size, cur, heapPointer, program, pc, request, collector, history>>

SetConstant ==
  /\ Running
  /\ \E dest \in Slots, v \in {Null, Static} : SetTop(dest, v)
  /\ UNCHANGED <<globals, cvars, clive, inC, additionalRoots>> /\ UnchangedHeap

GlobalAccess ==
  /\ Running
  /\ \E g \in Globals :
       \/ \E s \in frame.live : globals' = [globals EXCEPT ![g] = Value(s)] /\ UNCHANGED stack
       \/ \E s \in Slots : SetTop(s, globals[g]) /\ UNCHANGED globals
  /\ UNCHANGED <<cvars, clive, inC, additionalRoots>> /\ UnchangedHeap

Call ==
  /\ Running
  /\ top < MaxFrames
  /\ \E live \in SUBSET frame.live, s \in frame.live, param \in Slots :
       stack' = Append([stack EXCEPT ![top].live = live],
                       [values |-> [t \in Slots |-> IF t = param THEN Value(s) ELSE Null],
                        live   |-> {param}])
  /\ UNCHANGED <<globals, cvars, clive, inC, additionalRoots>> /\ UnchangedHeap

Return ==
  /\ Running
  /\ top > 1
  /\ \E s \in frame.live, dest \in Slots :
       stack' = [Front(stack) EXCEPT ![top - 1].values[dest] = Value(s),
                                     ![top - 1].live = @ \cup {dest}]
  /\ UNCHANGED <<globals, cvars, clive, inC, additionalRoots>> /\ UnchangedHeap

(***************************************************************************)
(* C functions, called through ccall, which records the frame the          *)
(* collector starts from.  A C variable survives an allocation only while  *)
(* it is one of the additional roots.                                      *)
(***************************************************************************)
CallC ==
  /\ Running
  /\ top <= MaxFramesInC
  /\ \E live \in SUBSET frame.live, s \in frame.live, c \in CVars :
       /\ stack' = [stack EXCEPT ![top].live = live]
       /\ cvars' = [cvars EXCEPT ![c] = Value(s)]
       /\ clive' = {c}
  /\ inC' = TRUE
  /\ UNCHANGED <<globals, additionalRoots>> /\ UnchangedHeap

addRoot ==
  /\ pc = "run" /\ inC
  /\ \E c \in clive \ ToSet(additionalRoots) : additionalRoots' = <<c>> \o additionalRoots
  /\ UNCHANGED <<stack, globals, cvars, clive, inC>> /\ UnchangedHeap

\* The entry's link becomes the head of the list: entries added after it go too.
removeRoots ==
  /\ pc = "run" /\ inC
  /\ \E i \in DOMAIN additionalRoots :
       additionalRoots' = SubSeq(additionalRoots, i + 1, Len(additionalRoots))
  /\ UNCHANGED <<stack, globals, cvars, clive, inC>> /\ UnchangedHeap

ReturnFromC ==
  /\ pc = "run" /\ inC
  /\ additionalRoots = <<>>
  /\ \E c \in clive, dest \in Slots : SetTop(dest, cvars[c])
  /\ cvars' = [c \in CVars |-> Null]
  /\ clive' = {}
  /\ inC' = FALSE
  /\ UNCHANGED <<globals, additionalRoots>> /\ UnchangedHeap

-----------------------------------------------------------------------------
(***************************************************************************)
(* The program's view of memory: the objects its live variables reach, by  *)
(* name.  While a collection runs, an object that was moved is its copy.   *)
(***************************************************************************)
Collecting == pc \in {"collect", "recollect"}

HasBlock(v) == IsAddress(v) /\ v[2] \in DOMAIN mem[v[1]]

Resolve(v) ==
  IF Collecting /\ InHeap(v) /\ HasBlock(v) /\ IsForwarded(BlockAt(v))
    THEN BlockAt(v).header ELSE v

LiveValues ==
  (UNION {{stack[i].values[s] : s \in stack[i].live} : i \in DOMAIN stack})
    \cup Range(globals) \cup {cvars[c] : c \in clive}

BlocksAt(values) == {v \in {Resolve(w) : w \in values} : HasBlock(v)}

References(address) ==
  {BlockAt(address).fields[i] : i \in ScannedFields(BlockAt(address).shape)}

ReachableBlocks ==
  LET Within[n \in 0 .. Cardinality(Ids)] ==
        IF n = 0 THEN BlocksAt(LiveValues)
        ELSE Within[n - 1] \cup BlocksAt(UNION {References(a) : a \in Within[n - 1]})
  IN  Within[Cardinality(Ids)]

Name(v) ==
  CASE ~IsAddress(v)                                  -> v
    [] HasBlock(v) /\ (Collecting \/ v[1] = cur)      -> BlockAt(v).id
    [] OTHER                                          -> <<"dangling">>

Object(block) ==
  [shape  |-> block.shape,
   fields |-> [i \in DOMAIN block.fields |->
                 IF i \in ScannedFields(block.shape) THEN Name(block.fields[i])
                                                     ELSE block.fields[i]]]

Objects ==
  [id \in {BlockAt(a).id : a \in ReachableBlocks} |->
     Object(BlockAt(CHOOSE a \in ReachableBlocks : BlockAt(a).id = id))]

-----------------------------------------------------------------------------
(***************************************************************************)
(* Allocation: gcAllocate, gcAllocateFromC and gcCollectAndAllocate.       *)
(***************************************************************************)

\* The object wanted, the variable that receives it, and the variable (or
\* null) that the compiled code then fills its reference fields from.
Want(shape, dest, init) ==
  [bytes |-> Bytes(shape), shape |-> shape, dest |-> dest, init |-> init]

InitValue(init) ==
  CASE init = "null"  -> Null
    [] init \in Slots -> Value(init)
    [] init \in CVars -> cvars[init]

NewBlock(id, want) ==
  [id |-> id, shape |-> want.shape, header |-> <<HS!SizeInWords(want.bytes)>>,
   fields |-> [i \in DOMAIN want.shape.refs |->
                 IF i \in ScannedFields(want.shape) THEN InitValue(want.init) ELSE Raw]]

\* try_mymalloc succeeds, the object is initialised and assigned.  Nothing can
\* collect in between.
Deliver(want, frames, live) ==
  /\ HS!Fits(want.bytes)
  /\ \E id \in Ids \ DOMAIN Objects :
       mem' = [mem EXCEPT ![cur] = Put(@, heapPointer, NewBlock(id, want))]
  /\ HS!Carve(want.bytes)
  /\ IF want.dest \in Slots
       THEN /\ stack' = [frames EXCEPT ![top].values[want.dest] = <<cur, heapPointer>>,
                                       ![top].live = @ \cup {want.dest}]
            /\ UNCHANGED <<cvars, clive>>
       ELSE /\ cvars' = [cvars EXCEPT ![want.dest] = <<cur, heapPointer>>]
            /\ clive' = live \cup {want.dest}
            /\ stack' = frames
  /\ UNCHANGED <<size, cur, globals, inC, additionalRoots, collector, peak>>

\* The roots of a collection: the stack map's slots from the innermost frame
\* out to stackBottom, then the list of additional roots, the globals last.
InOrder(names) == SetToSeq(names)

\* Mutant of StackRoots: the walk stops before the frame at stackBottom.
StackRootsAboveBottom(frames) ==
  FlattenSeq([k \in 1 .. Len(frames) - 1 |->
    LET i == Len(frames) + 1 - k
        names == InOrder(frames[i].live)
    IN  [n \in DOMAIN names |-> [kind |-> "stack", frame |-> i, name |-> names[n]]]])

StackRoots(frames) ==
  FlattenSeq([k \in DOMAIN frames |->
    LET i == Len(frames) + 1 - k
        names == InOrder(frames[i].live)
    IN  [n \in DOMAIN names |-> [kind |-> "stack", frame |-> i, name |-> names[n]]]])

CRoots == [n \in DOMAIN additionalRoots |-> [kind |-> "c", name |-> additionalRoots[n]]]

GlobalRoots ==
  LET names == InOrder(Globals)
  IN  [n \in DOMAIN names |-> [kind |-> "global", name |-> names[n]]]

\* try_mymalloc fails and gcCollect begins, in the first call or the retry.
StartCollection(want, frames, live, next) ==
  /\ ~HS!Fits(want.bytes)
  /\ HS!Overrun(want.bytes)
  /\ todo' = StackRoots(frames) \o CRoots \o GlobalRoots
  /\ allocPtr' = 0
  /\ scanPtr' = 0
  /\ scanField' = 1
  /\ stack' = frames
  /\ clive' = live
  /\ pc' = next
  /\ UNCHANGED <<mem, size, cur, globals, cvars, inC, additionalRoots, peak>>

\* One of Ids is always left for the new object.
MayAllocate == pc = "run" /\ DOMAIN Objects # Ids

FirstTry(want, frames, live) ==
  \/ Deliver(want, frames, live) /\ UNCHANGED <<pc, request>>
  \/ StartCollection(want, frames, live, "collect") /\ request' = want

gcAllocate ==
  /\ MayAllocate /\ ~inC
  /\ \E shape \in Shapes, dest \in Slots, live \in SUBSET frame.live :
       \E init \in {"null"} \cup live :
         FirstTry(Want(shape, dest, init), [stack EXCEPT ![top].live = live], clive)

gcAllocateFromC ==
  /\ MayAllocate /\ inC
  /\ \E shape \in CShapes, dest \in CVars :
       LET rooted == ToSet(additionalRoots)
       IN  \E init \in {"null"} \cup (rooted \cap clive) :
             FirstTry(Want(shape, dest, init), stack, rooted \cap clive)

-----------------------------------------------------------------------------
(***************************************************************************)
(* gcCopy.  Memory, and what the reference becomes, once v was copied.     *)
(***************************************************************************)
MustCopy(v) == InHeap(v) /\ ~IsForwarded(BlockAt(v))

\* Mutants of Copied: a moved object is not looked up; the new reference is to
\* the block header.
CopiedOnce(v) == IF MustCopy(v) THEN <<ToSpace, allocPtr>> ELSE v

CopiedHeader(v) ==
  CASE ~InHeap(v)                                  -> v
    [] InHeap(v) /\ IsForwarded(BlockAt(v))        -> BlockAt(v).header
    [] MustCopy(v)                                 -> <<ToSpace, allocPtr - 1>>

Copied(v) ==
  CASE ~InHeap(v)                                  -> v
    [] InHeap(v) /\ IsForwarded(BlockAt(v))        -> BlockAt(v).header
    [] MustCopy(v)                                 -> <<ToSpace, allocPtr>>

\* Mutant of MemoryAfter: no forwarding address is left.
MemoryWithoutForwarding(v) ==
  IF MustCopy(v) THEN [mem EXCEPT ![ToSpace] = Put(@, allocPtr, BlockAt(v))] ELSE mem

MemoryAfter(v) ==
  IF MustCopy(v)
    THEN [mem EXCEPT ![ToSpace] = Put(@, allocPtr, BlockAt(v)),
                     ![cur][v[2]].header = <<ToSpace, allocPtr>>]
    ELSE mem

gcCopy(v) == allocPtr' = IF MustCopy(v) THEN allocPtr + Words(BlockAt(v)) ELSE allocPtr

\* gcCopyRoots, for one root.
CopyRoot ==
  /\ Collecting
  /\ todo # <<>>
  /\ LET root == Head(todo)
         v == CASE root.kind = "stack"  -> stack[root.frame].values[root.name]
                [] root.kind = "c"      -> cvars[root.name]
                [] root.kind = "global" -> globals[root.name]
     IN  /\ gcCopy(v)
         /\ mem' = MemoryAfter(v)
         /\ stack' = IF root.kind = "stack"
                       THEN [stack EXCEPT ![root.frame].values[root.name] = Copied(v)] ELSE stack
         /\ cvars' = IF root.kind = "c" THEN [cvars EXCEPT ![root.name] = Copied(v)] ELSE cvars
         /\ globals' = IF root.kind = "global"
                         THEN [globals EXCEPT ![root.name] = Copied(v)] ELSE globals
  /\ todo' = Tail(todo)
  /\ UNCHANGED <<size, cur, heapPointer, clive, inC, additionalRoots, pc, request, scanPtr,
                 scanField, history>>

\* gcScan, for one field of the object at scanPtr.
Scanning == Collecting /\ todo = <<>> /\ scanPtr < allocPtr

Scanned == mem[ToSpace][scanPtr]

ScanField ==
  /\ Scanning
  /\ scanField \in DOMAIN Scanned.shape.refs
  /\ LET v == Scanned.fields[scanField]
     IN  IF scanField \in ScannedFields(Scanned.shape)
           THEN /\ gcCopy(v)
                /\ mem' = [MemoryAfter(v) EXCEPT ![ToSpace][scanPtr].fields[scanField] = Copied(v)]
           ELSE UNCHANGED <<mem, allocPtr>>
  /\ scanField' = scanField + 1
  /\ UNCHANGED <<size, cur, heapPointer, program, pc, request, todo, scanPtr, history>>

ScanNext ==
  /\ Scanning
  /\ scanField > Len(Scanned.shape.refs)
  /\ scanPtr' = scanPtr + Words(Scanned)
  /\ scanField' = 1
  /\ UNCHANGED <<mem, size, cur, heapPointer, program, pc, request, todo, allocPtr, history>>

\* The end of gcCollect.  The blocks left behind are never read again: the next
\* copy overwrites them.
Swap ==
  /\ Collecting
  /\ todo = <<>>
  /\ scanPtr = allocPtr
  /\ cur' = ToSpace
  /\ heapPointer' = allocPtr
  /\ filled' = allocPtr
  /\ mem' = [mem EXCEPT ![cur] = EmptySpace]
  /\ IF pc = "collect"
       THEN /\ pc' = "resize"
            /\ LET demand == allocPtr + HS!BlockWords(request.bytes)
               IN  peak' = IF demand > peak THEN demand ELSE peak
       ELSE pc' = "last" /\ UNCHANGED peak
  /\ UNCHANGED <<size, program, request, collector>>

\* expandHeap or equalizeHeaps; mmap grants at most MaxWords.
Resize ==
  /\ pc = "resize"
  /\ LET words == IF HS!MustExpand THEN HS!ExpandedSize ELSE HS!EqualizedSize
     IN  /\ words <= MaxWords
         /\ size' = [size EXCEPT ![ToSpace] = words]
  /\ pc' = "retry"
  /\ UNCHANGED <<mem, cur, heapPointer, program, request, collector, history>>

\* Mutant of Retry: a failed retry starts over.
RetryForever ==
  /\ pc = "retry"
  /\ \/ Deliver(request, stack, clive) /\ pc' = "run" /\ request' = NoRequest
     \/ StartCollection(request, stack, clive, "collect") /\ UNCHANGED request

Retry ==
  /\ pc = "retry"
  /\ \/ Deliver(request, stack, clive) /\ pc' = "run" /\ request' = NoRequest
     \/ StartCollection(request, stack, clive, "recollect") /\ UNCHANGED request

LastTry ==
  /\ pc = "last"
  /\ Deliver(request, stack, clive)
  /\ pc' = "equalize"
  /\ UNCHANGED request

\* The assertion on the result fails.
LastTryFails ==
  /\ pc = "last"
  /\ ~HS!Fits(request.bytes)
  /\ HS!Overrun(request.bytes)
  /\ pc' = "noResult"
  /\ UNCHANGED <<mem, size, cur, program, request, collector, peak>>

EqualizeAfter ==
  /\ pc = "equalize"
  /\ size' = [size EXCEPT ![ToSpace] = HS!EqualizedSize]
  /\ pc' = "run"
  /\ request' = NoRequest
  /\ UNCHANGED <<mem, cur, heapPointer, program, collector, history>>

\* mmap fails: the process exits.
MapFails ==
  /\ UNCHANGED <<mem, size, cur, heapPointer, program, request, collector, history>>
  /\ HS!MapFails

ProgramStep ==
  \/ Load \/ Store \/ SetConstant \/ GlobalAccess \/ Call \/ Return
  \/ CallC \/ addRoot \/ removeRoots \/ ReturnFromC
  \/ gcAllocate \/ gcAllocateFromC

CollectorStep ==
  \/ CopyRoot \/ ScanField \/ ScanNext \/ Swap \/ Resize \/ Retry
  \/ LastTry \/ LastTryFails \/ EqualizeAfter \/ MapFails

Next == ProgramStep \/ CollectorStep

Spec == Init /\ [][Next]_vars

\* The collector runs on the program's thread, within the allocation.
FairSpec == Spec /\ WF_vars(CollectorStep)

-----------------------------------------------------------------------------
(***************************************************************************)
(* Properties.                                                             *)
(***************************************************************************)
Addresses == {0, 1} \X (0 .. MaxWords)

TypeOK ==
  /\ DOMAIN mem = {0, 1}
  /\ \A s \in {0, 1} : \A offset \in DOMAIN mem[s] :
       /\ offset \in 0 .. MaxWords
       /\ mem[s][offset].id \in Ids
       /\ \A i \in DOMAIN mem[s][offset].fields :
            mem[s][offset].fields[i] \in Addresses \cup {Null, Static, Raw}
  /\ \A v \in LiveValues : v \in Addresses \cup {Null, Static}
  /\ cur \in {0, 1}
  /\ size \in [{0, 1} -> Nat]
  /\ clive \subseteq CVars
  /\ pc \in HS!PCs

(***************************************************************************)
(* A collection is invisible: the program sees an object graph with no     *)
(* collector at all, whatever moves, is forwarded or is reclaimed, and     *)
(* every step of a collection, taken alone, leaves that graph as it is.    *)
(***************************************************************************)
FramesView == [i \in DOMAIN stack |-> [s \in stack[i].live |-> Name(stack[i].values[s])]]
GlobalsView == [g \in Globals |-> Name(globals[g])]
CFrameView == [c \in clive |-> Name(cvars[c])]

Store0 == INSTANCE ObjectStore WITH
  frames  <- FramesView,
  globals <- GlobalsView,
  cframe  <- CFrameView,
  objects <- Objects,
  Shapes  <- AllShapes

CollectionInvisible == Store0!Spec

(***************************************************************************)
(* The collector, seen as sizes only, follows the sizing policy; a second  *)
(* collection of one request keeps exactly what the first one kept.        *)
(***************************************************************************)
FollowsSizing == HS!Spec

(***************************************************************************)
(* Between collections no live variable or reachable object refers to the  *)
(* semispace the program has left, and references name whole blocks.       *)
(***************************************************************************)
NoStaleReference ==
  pc = "run" =>
    \A v \in LiveValues \cup UNION {References(a) : a \in ReachableBlocks} :
      IsAddress(v) => InHeap(v) /\ HasBlock(v)

(***************************************************************************)
(* A collection keeps the reachable objects and nothing else, one copy     *)
(* each: garbage is reclaimed at once, cycles included, and shared objects *)
(* stay shared.                                                            *)
(***************************************************************************)
ExactlyReachableKept ==
  pc \in {"resize", "retry", "last"} =>
    /\ {<<cur, offset>> : offset \in DOMAIN mem[cur]} = ReachableBlocks
    /\ \A a, b \in ReachableBlocks : BlockAt(a).id = BlockAt(b).id => a = b

(***************************************************************************)
(* Every allocation that collects ends, on cyclic graphs too.              *)
(***************************************************************************)
CollectionEnds == Collecting ~> pc \in {"run", "noResult", "exited"}
=============================================================================
