-------------------------- MODULE CheneyGcProofs --------------------------
(***************************************************************************)
(* No dangling references, whatever the sizes of heaps, stacks and         *)
(* objects: after a collection everything the program can still read       *)
(* refers to a block of the semispace it goes on with.                     *)
(***************************************************************************)
EXTENDS CheneyGc, CommonLemmas

-----------------------------------------------------------------------------
(***************************************************************************)
(* The inductive invariant.                                                *)
(***************************************************************************)

\* What a reference may hold, at any time.
AnyRef == {Null, Static} \cup ({0, 1} \X Nat)

Frames == [values : [Slots -> AnyRef], live : SUBSET Slots]

\* The references to the blocks of a semispace, and out of the heap.
Refs(m, s) == {Null, Static} \cup {<<s, o>> : o \in DOMAIN m[s]}

HasSize(block) == block.header = <<block.header[1]>> /\ block.header[1] \in Nat

IsBlock(block) ==
  /\ block = [id |-> block.id, shape |-> block.shape, header |-> block.header,
              fields |-> block.fields]
  /\ block.shape \in AllShapes
  /\ block.fields = [i \in DOMAIN block.shape.refs |-> block.fields[i]]

IsMemory(m) ==
  /\ m = [s \in {0, 1} |-> m[s]]
  /\ \A s \in {0, 1} :
       /\ m[s] = [o \in DOMAIN m[s] |-> m[s][o]]
       /\ DOMAIN m[s] \subseteq Nat
       /\ \A o \in DOMAIN m[s] : IsBlock(m[s][o])

\* The fields the collector looks at.
FieldsIn(block, S) == \A i \in ScannedFields(block.shape) : block.fields[i] \in S

\* The variables that are read again.
FramesIn(frames, S) ==
  \A i \in DOMAIN frames : \A n \in frames[i].live : frames[i].values[n] \in S

LiveIn(frames, gs, cs, live, S) ==
  /\ FramesIn(frames, S)
  /\ \A g \in Globals : gs[g] \in S
  /\ \A c \in live : cs[c] \in S

\* An allocation is in progress.
Allocating == pc \in {"collect", "recollect", "resize", "retry", "last"}

TypeInv ==
  /\ IsMemory(mem)
  /\ cur \in {0, 1}
  /\ heapPointer \in Nat
  /\ stack \in Seq(Frames)
  /\ stack # <<>>
  /\ globals \in [Globals -> AnyRef]
  /\ cvars \in [CVars -> AnyRef]
  /\ clive \subseteq CVars
  /\ additionalRoots \in Seq(CVars)
  /\ inC \in BOOLEAN
  /\ pc \in HS!PCs

\* The variables of C, and the allocation in progress.  A variable of C that is
\* read after the allocation is a root.
CallInv ==
  /\ ToSet(additionalRoots) \subseteq clive
  /\ ~inC => clive = {}
  /\ Allocating =>
       /\ clive \subseteq ToSet(additionalRoots)
       /\ request.bytes \in Nat
       /\ request.shape \in AllShapes
       /\ request.dest \in Slots \cup CVars
       /\ request.dest \in CVars => inC
       /\ request.init \in {"null"} \cup frame.live \cup clive

\* Outside a collection there is one semispace.
Settled ==
  /\ LiveIn(stack, globals, cvars, clive, Refs(mem, cur))
  /\ \A o \in DOMAIN mem[cur] :
       HasSize(mem[cur][o]) /\ FieldsIn(mem[cur][o], Refs(mem, cur))
  /\ DOMAIN mem[ToSpace] = {}

\* The blocks of a semispace lie end to end, up to a limit.
Tiled(space, limit) ==
  /\ 0 \in DOMAIN space \cup {limit}
  /\ \A o \in DOMAIN space :
       /\ HasSize(space[o])
       /\ o + Words(space[o]) <= limit
       /\ o + Words(space[o]) \in DOMAIN space \cup {limit}
       /\ \A p \in DOMAIN space : o < p => o + Words(space[o]) <= p

\* During a collection the blocks left are as they were, but for their headers.
FromInv(m, from, to) ==
  \A o \in DOMAIN m[from] :
    /\ HasSize(m[from][o]) \/ m[from][o].header \in {<<to, p>> : p \in DOMAIN m[to]}
    /\ FieldsIn(m[from][o], Refs(m, from))

\* The copies before the one being scanned, and its fields that have been, refer
\* to copies.
ToInv(m, from, to, pointer, field) ==
  \A o \in DOMAIN m[to] :
    \A i \in ScannedFields(m[to][o].shape) :
      /\ m[to][o].fields[i] \in Refs(m, from) \cup Refs(m, to)
      /\ o < pointer \/ (o = pointer /\ i < field) => m[to][o].fields[i] \in Refs(m, to)

StackRoot(i, n) == [kind |-> "stack", frame |-> i, name |-> n]
CRoot(c) == [kind |-> "c", name |-> c]
GlobalRoot(g) == [kind |-> "global", name |-> g]

Root(i) ==
  \/ /\ todo[i].kind = "stack"
     /\ todo[i].frame \in DOMAIN stack
     /\ todo[i].name \in stack[todo[i].frame].live
  \/ todo[i].kind = "c" /\ todo[i].name \in clive
  \/ todo[i].kind = "global" /\ todo[i].name \in Globals

\* A live variable refers to a block, and if it is not to be copied any more to a
\* copy.
RootInv(m, from, to, pending, root, v) ==
  /\ v \in Refs(m, from) \cup Refs(m, to)
  /\ v \in Refs(m, to) \/ root \in ToSet(pending)

RootsInv ==
  /\ todo = [i \in 1 .. Len(todo) |-> todo[i]] /\ Len(todo) \in Nat
  /\ \A i \in DOMAIN todo : Root(i)
  /\ \A i \in DOMAIN stack : \A n \in stack[i].live :
       RootInv(mem, cur, ToSpace, todo, StackRoot(i, n), stack[i].values[n])
  /\ \A g \in Globals : RootInv(mem, cur, ToSpace, todo, GlobalRoot(g), globals[g])
  /\ \A c \in clive : RootInv(mem, cur, ToSpace, todo, CRoot(c), cvars[c])

Copying ==
  /\ allocPtr \in Nat
  /\ scanPtr \in Nat
  /\ scanField \in Nat \ {0}
  /\ scanPtr \in DOMAIN mem[ToSpace] \cup {allocPtr}
  /\ scanPtr = allocPtr => scanField = 1
  /\ Tiled(mem[ToSpace], allocPtr)
  /\ FromInv(mem, cur, ToSpace)
  /\ ToInv(mem, cur, ToSpace, scanPtr, scanField)
  /\ RootsInv

IInv ==
  /\ TypeInv
  /\ CallInv
  /\ IF Collecting THEN Copying ELSE Settled
-----------------------------------------------------------------------------
(***************************************************************************)
(* Values, blocks and memories.                                            *)
(***************************************************************************)

\* The fields that are scanned are fields.
LEMMA ShapeFacts ==
  ASSUME NEW shape \in AllShapes
  PROVE  /\ Len(shape.refs) \in Nat /\ DOMAIN shape.refs = 1 .. Len(shape.refs)
         /\ ScannedFields(shape) \subseteq DOMAIN shape.refs
         /\ Bytes(shape) \in Nat
<1>1. shape.tag \in {"struct", "boxedArray", "unboxedArray"} /\ shape.refs \in Seq(BOOLEAN)
  BY ShapesAssumption DEF AllShapes
<1>2. Len(shape.refs) \in Nat /\ DOMAIN shape.refs = 1 .. Len(shape.refs)
  BY <1>1
<1>3. Bytes(shape) \in Nat
  BY <1>2 DEF Bytes
<1>4. ScannedFields(shape) \subseteq DOMAIN shape.refs
  BY <1>1 DEF ScannedFields
<1> QED BY <1>2, <1>3, <1>4

\* A size in words is a natural number.
LEMMA SizeFacts ==
  ASSUME NEW bytes \in Nat
  PROVE  HS!SizeInWords(bytes) \in Nat /\ HS!BlockWords(bytes) \in Nat
BY DEF HS!SizeInWords, HS!BlockWords

\* A header that is a size is not a forwarding address.
LEMMA SizeHeader ==
  ASSUME NEW block, HasSize(block)
  PROVE  ~IsForwarded(block) /\ Words(block) \in Nat \ {0}
<1>1. PICK n \in Nat : block.header = <<n>> /\ block.header[1] = n
  BY DEF HasSize
<1>2. Len(block.header) = 1
  BY <1>1
<1> QED BY <1>1, <1>2 DEF IsForwarded, IsAddress, Words

\* What a reference to a semispace is.
LEMMA RefFacts ==
  ASSUME NEW m, IsMemory(m), NEW s \in {0, 1}, NEW v \in Refs(m, s)
  PROVE  /\ v \in AnyRef
         /\ IsAddress(v) => v = <<s, v[2]>> /\ v[1] = s /\ v[2] \in DOMAIN m[s]
<1>1. CASE v = Null
  <2>1. Len(v) = 0 BY <1>1 DEF Null
  <2> QED BY <1>1, <2>1 DEF AnyRef, IsAddress
<1>2. CASE v = Static
  <2>1. Len(v) = 1 BY <1>2 DEF Static
  <2> QED BY <1>2, <2>1 DEF AnyRef, IsAddress
<1>3. ASSUME NEW o \in DOMAIN m[s], v = <<s, o>>
      PROVE  v \in AnyRef /\ v = <<s, v[2]>> /\ v[1] = s /\ v[2] = o
  <2>1. o \in Nat BY DEF IsMemory
  <2> QED BY <1>3, <2>1 DEF AnyRef
<1> QED BY <1>1, <1>2, <1>3 DEF Refs

\* An address is one.
LEMMA AddressFacts ==
  ASSUME NEW s, NEW o
  PROVE  /\ IsAddress(<<s, o>>) /\ <<s, o>>[1] = s /\ <<s, o>>[2] = o
         /\ ~IsAddress(Null) /\ ~IsAddress(Static)
BY DEF IsAddress, Null, Static

-----------------------------------------------------------------------------
(***************************************************************************)
(* gcCopy.                                                                 *)
(***************************************************************************)

\* What a collection needs of the two semispaces, apart from the roots.
HeapInv(m, from, to, limit, pointer, field) ==
  /\ IsMemory(m)
  /\ limit \in Nat
  /\ pointer \in DOMAIN m[to] \cup {limit}
  /\ pointer = limit => field = 1
  /\ Tiled(m[to], limit)
  /\ FromInv(m, from, to)
  /\ ToInv(m, from, to, pointer, field)

\* A block added at the end of the copies.
LEMMA AddCopy ==
  ASSUME NEW space, NEW limit \in Nat, Tiled(space, limit), DOMAIN space \subseteq Nat,
         NEW block, HasSize(block)
  PROVE  /\ limit \notin DOMAIN space
         /\ limit + Words(block) \in Nat
         /\ Tiled(Put(space, limit, block), limit + Words(block))
<1> DEFINE w == Words(block)
           new == Put(space, limit, block)
<1>1. w \in Nat \ {0}
  BY SizeHeader
<1>2. \A o \in DOMAIN space : Words(space[o]) \in Nat \ {0}
  BY SizeHeader DEF Tiled
<1>3. limit \notin DOMAIN space /\ \A o \in DOMAIN space : o < limit
  BY <1>2 DEF Tiled
<1>4. /\ DOMAIN new = DOMAIN space \cup {limit} /\ new[limit] = block
      /\ \A o \in DOMAIN space : new[o] = space[o]
  BY <1>3 DEF Put
<1> HIDE DEF w, new
<1>5. 0 \in DOMAIN new \cup {limit + w}
  BY <1>4 DEF Tiled
<1>6. ASSUME NEW o \in DOMAIN space
      PROVE  /\ HasSize(new[o])
             /\ o + Words(new[o]) <= limit + w
             /\ o + Words(new[o]) \in DOMAIN new \cup {limit + w}
             /\ \A p \in DOMAIN new : o < p => o + Words(new[o]) <= p
  <2>1. o \in Nat /\ Words(space[o]) \in Nat BY <1>2
  <2>2. o + Words(space[o]) <= limit BY DEF Tiled
  <2>3. o + Words(new[o]) <= limit + w BY <1>1, <1>4, <2>1, <2>2
  <2> QED BY <1>4, <2>2, <2>3 DEF Tiled
<1>7. /\ HasSize(new[limit])
      /\ limit + Words(new[limit]) = limit + w
      /\ \A p \in DOMAIN new : ~(limit < p)
  BY <1>1, <1>3, <1>4 DEF w
<1>8. Tiled(new, limit + w)
  <2>1. limit + w <= limit + w BY <1>1
  <2> QED BY <1>4, <1>5, <1>6, <1>7, <2>1 DEF Tiled
<1> QED BY <1>1, <1>3, <1>8 DEF w, new

\* A semispace and the other one.
LEMMA Spaces ==
  ASSUME cur \in {0, 1}
  PROVE  ToSpace \in {0, 1} /\ ToSpace # cur /\ {0, 1} = {cur, ToSpace}
BY DEF ToSpace

\* The copy is made, and the old block forwards to it.
LEMMA CopyNew ==
  ASSUME cur \in {0, 1}, NEW pointer, NEW field,
         HeapInv(mem, cur, ToSpace, allocPtr, pointer, field),
         NEW o \in DOMAIN mem[cur], NEW v, v = <<cur, o>>, MustCopy(v)
  PROVE  LET m == MemoryAfter(v)
             limit == allocPtr + Words(BlockAt(v))
         IN  /\ HeapInv(m, cur, ToSpace, limit, pointer, field)
             /\ <<ToSpace, allocPtr>> \in Refs(m, ToSpace)
             /\ DOMAIN m[cur] = DOMAIN mem[cur]
             /\ DOMAIN m[ToSpace] = DOMAIN mem[ToSpace] \cup {allocPtr}
             /\ limit \in Nat /\ allocPtr < limit
             /\ \A p \in DOMAIN mem[ToSpace] : m[ToSpace][p] = mem[ToSpace][p]
             /\ allocPtr \notin DOMAIN mem[ToSpace] /\ m[ToSpace][allocPtr] = mem[cur][o]
             /\ \A p \in DOMAIN mem[cur] : p # o => m[cur][p] = mem[cur][p]
             /\ m[cur][o].header = <<ToSpace, allocPtr>> /\ m[cur][o].id = mem[cur][o].id
             /\ m[cur][o].shape = mem[cur][o].shape /\ m[cur][o].fields = mem[cur][o].fields
<1> DEFINE m == MemoryAfter(v)
           b == mem[cur][o]
           limit == allocPtr + Words(b)
<1>1. BlockAt(v) = b /\ v[1] = cur /\ v[2] = o
  BY DEF BlockAt
<1>2. HasSize(b)
  <2>1. ~IsForwarded(b) BY <1>1 DEF MustCopy
  <2>2. ASSUME NEW p, b.header = <<ToSpace, p>> PROVE FALSE
    BY <2>1, <2>2, AddressFacts DEF IsForwarded
  <2> QED BY <2>2 DEF HeapInv, FromInv
<1>3. /\ m = [mem EXCEPT ![ToSpace] = Put(@, allocPtr, b), ![cur][o].header = <<ToSpace, allocPtr>>]
  BY <1>1, Zenon DEF MemoryAfter
<1> HIDE DEF m, b
<1>4. /\ m = [s \in {0, 1} |-> m[s]]
      /\ m[ToSpace] = Put(mem[ToSpace], allocPtr, b)
      /\ m[cur] = [mem[cur] EXCEPT ![o].header = <<ToSpace, allocPtr>>]
  <2>1. mem = [s \in {0, 1} |-> mem[s]] BY DEF HeapInv, IsMemory
  <2> QED BY <1>3, <2>1, Spaces
<1>5. IsBlock(b) /\ DOMAIN mem[ToSpace] \subseteq Nat
  BY Spaces DEF HeapInv, IsMemory, b
<1>6. /\ allocPtr \notin DOMAIN mem[ToSpace]
      /\ limit \in Nat
      /\ Tiled(m[ToSpace], limit)
  BY <1>2, <1>4, <1>5, AddCopy DEF HeapInv
<1>7. allocPtr \in Nat /\ Words(b) \in Nat \ {0} /\ allocPtr < limit
  BY <1>2, SizeHeader DEF HeapInv
<1>8. /\ DOMAIN m[ToSpace] = DOMAIN mem[ToSpace] \cup {allocPtr}
      /\ m[ToSpace][allocPtr] = b
      /\ \A p \in DOMAIN mem[ToSpace] : m[ToSpace][p] = mem[ToSpace][p]
      /\ m[ToSpace] = [p \in DOMAIN m[ToSpace] |-> m[ToSpace][p]]
  BY <1>4, <1>6 DEF Put
<1>9. /\ DOMAIN m[cur] = DOMAIN mem[cur]
      /\ m[cur] = [p \in DOMAIN m[cur] |-> m[cur][p]]
      /\ \A p \in DOMAIN mem[cur] : p # o => m[cur][p] = mem[cur][p]
      /\ m[cur][o].header = <<ToSpace, allocPtr>> /\ m[cur][o].id = b.id
      /\ m[cur][o].shape = b.shape /\ m[cur][o].fields = b.fields
      /\ IsBlock(m[cur][o])
  <2>1. mem[cur] = [p \in DOMAIN mem[cur] |-> mem[cur][p]] BY DEF HeapInv, IsMemory
  <2>2. m[cur][o] = [b EXCEPT !.header = <<ToSpace, allocPtr>>] BY <1>4, <2>1 DEF b
  <2>3. /\ DOMAIN m[cur] = DOMAIN mem[cur]
        /\ m[cur] = [p \in DOMAIN m[cur] |-> m[cur][p]]
        /\ \A p \in DOMAIN mem[cur] : p # o => m[cur][p] = mem[cur][p]
    BY <1>4, <2>1
  <2> DEFINE d == b.id
             e == b.shape
             f == b.fields
             h == <<ToSpace, allocPtr>>
  <2>4. b = [id |-> d, shape |-> e, header |-> b.header, fields |-> f] BY <1>5 DEF IsBlock
  <2>5. e \in AllShapes /\ f = [i \in DOMAIN e.refs |-> f[i]] BY <1>5 DEF IsBlock
  <2> HIDE DEF d, e, f, h
  <2>6. m[cur][o] = [id |-> d, shape |-> e, header |-> h, fields |-> f]
    BY <2>2, <2>4 DEF h
  <2>7. IsBlock(m[cur][o]) BY <2>5, <2>6 DEF IsBlock
  <2> QED BY <2>3, <2>6, <2>7 DEF d, e, f, h
<1>10. IsMemory(m)
  <2>1. ASSUME NEW p \in DOMAIN m[cur] PROVE IsBlock(m[cur][p])
    BY <1>9 DEF HeapInv, IsMemory
  <2>2. ASSUME NEW p \in DOMAIN m[ToSpace] PROVE IsBlock(m[ToSpace][p])
    BY <1>5, <1>8, Spaces DEF HeapInv, IsMemory
  <2>3. DOMAIN m[cur] \subseteq Nat /\ DOMAIN m[ToSpace] \subseteq Nat
    BY <1>5, <1>7, <1>8, <1>9 DEF HeapInv, IsMemory
  <2> QED BY <1>4, <1>8, <1>9, <2>1, <2>2, <2>3, Spaces DEF IsMemory
<1>11. Refs(m, cur) = Refs(mem, cur) /\ Refs(mem, ToSpace) \subseteq Refs(m, ToSpace)
  BY <1>8, <1>9 DEF Refs
<1>12. FromInv(m, cur, ToSpace)
  <2>1. ASSUME NEW p \in DOMAIN m[cur], p # o
        PROVE  /\ HasSize(m[cur][p]) \/ m[cur][p].header \in {<<ToSpace, q>> : q \in DOMAIN m[ToSpace]}
               /\ FieldsIn(m[cur][p], Refs(m, cur))
    <3>1. p \in DOMAIN mem[cur] /\ m[cur][p] = mem[cur][p] BY <1>9, <2>1
    <3>2. FieldsIn(m[cur][p], Refs(m, cur)) BY <3>1, <1>11 DEF HeapInv, FromInv
    <3>3. HasSize(mem[cur][p]) \/ mem[cur][p].header \in {<<ToSpace, q>> : q \in DOMAIN mem[ToSpace]}
      BY <3>1 DEF HeapInv, FromInv
    <3> QED BY <3>1, <3>2, <3>3, <1>8
  <2>2. FieldsIn(m[cur][o], Refs(m, cur))
    BY <1>9, <1>11 DEF HeapInv, FromInv, FieldsIn, b
  <2>3. m[cur][o].header \in {<<ToSpace, q>> : q \in DOMAIN m[ToSpace]}
    BY <1>8, <1>9
  <2> QED BY <2>1, <2>2, <2>3 DEF FromInv
<1>13. pointer \in Nat /\ pointer <= allocPtr
  <2>1. \A p \in DOMAIN mem[ToSpace] : HasSize(mem[ToSpace][p]) /\ p + Words(mem[ToSpace][p]) <= allocPtr
    BY DEF HeapInv, Tiled
  <2>2. \A p \in DOMAIN mem[ToSpace] : p \in Nat /\ p <= allocPtr
    BY <2>1, <1>5, <1>7, SizeHeader
  <2> QED BY <2>2, <1>7 DEF HeapInv
<1>14. ToInv(m, cur, ToSpace, pointer, field)
  <2>1. ASSUME NEW p \in DOMAIN mem[ToSpace], NEW i \in ScannedFields(m[ToSpace][p].shape)
        PROVE  /\ m[ToSpace][p].fields[i] \in Refs(m, cur) \cup Refs(m, ToSpace)
               /\ p < pointer \/ (p = pointer /\ i < field) => m[ToSpace][p].fields[i] \in Refs(m, ToSpace)
    BY <1>8, <1>11 DEF HeapInv, ToInv
  <2>2. ASSUME NEW i \in ScannedFields(b.shape)
        PROVE  /\ b.fields[i] \in Refs(m, cur)
               /\ ~(allocPtr < pointer) /\ ~(allocPtr = pointer /\ i < field)
    <3>1. b.fields[i] \in Refs(m, cur) BY <1>11 DEF HeapInv, FromInv, FieldsIn, b
    <3>2. i \in Nat /\ i >= 1 BY <1>5, ShapeFacts DEF IsBlock
    <3>3. allocPtr = pointer => field = 1 BY DEF HeapInv
    <3> QED BY <3>1, <3>2, <3>3, <1>7, <1>13
  <2> QED BY <1>8, <2>1, <2>2 DEF ToInv
<1>15. pointer \in DOMAIN m[ToSpace] \cup {limit} /\ pointer # limit
  BY <1>7, <1>8, <1>13 DEF HeapInv
<1>16. <<ToSpace, allocPtr>> \in Refs(m, ToSpace)
  BY <1>8 DEF Refs
<1>17. HeapInv(m, cur, ToSpace, limit, pointer, field)
  BY <1>6, <1>10, <1>12, <1>14, <1>15 DEF HeapInv
<1> QED BY <1>1, <1>6, <1>7, <1>8, <1>9, <1>16, <1>17 DEF m, b

\* gcCopy keeps the invariant of a collection, and the reference it returns is to a
\* copy.
LEMMA CopyHeap ==
  ASSUME cur \in {0, 1}, NEW pointer, NEW field,
         HeapInv(mem, cur, ToSpace, allocPtr, pointer, field),
         NEW v \in Refs(mem, cur) \cup Refs(mem, ToSpace), gcCopy(v)
  PROVE  LET m == MemoryAfter(v)
         IN  /\ HeapInv(m, cur, ToSpace, allocPtr', pointer, field)
             /\ Copied(v) \in Refs(m, ToSpace)
             /\ Refs(mem, cur) \cup Refs(mem, ToSpace) \subseteq Refs(m, cur) \cup Refs(m, ToSpace)
             /\ Refs(mem, ToSpace) \subseteq Refs(m, ToSpace)
             /\ \A p \in DOMAIN mem[ToSpace] : p \in DOMAIN m[ToSpace] /\ m[ToSpace][p] = mem[ToSpace][p]
<1> DEFINE m == MemoryAfter(v)
<1>1. IsMemory(mem) BY DEF HeapInv
<1>2. CASE ~InHeap(v)
  <2>1. m = mem /\ allocPtr' = allocPtr /\ Copied(v) = v
    BY <1>2 DEF MemoryAfter, gcCopy, MustCopy, Copied
  <2>2. v \in Refs(mem, ToSpace)
    <3>1. CASE v \in Refs(mem, cur)
      <4>1. ~IsAddress(v) BY <1>1, <1>2, <3>1, RefFacts DEF InHeap
      <4>2. v \in {Null, Static} BY <3>1, <4>1, AddressFacts DEF Refs
      <4> QED BY <4>2 DEF Refs
    <3> QED BY <3>1
  <2> QED BY <2>1, <2>2
<1>3. ASSUME InHeap(v)
      PROVE  \E o \in DOMAIN mem[cur] : v = <<cur, o>> /\ BlockAt(v) = mem[cur][o]
  <2>1. IsAddress(v) /\ v[1] = cur BY <1>3 DEF InHeap
  <2>2. v \in Refs(mem, cur) BY <1>1, <2>1, RefFacts, Spaces
  <2> QED BY <1>1, <2>1, <2>2, RefFacts DEF BlockAt
<1>4. CASE InHeap(v) /\ IsForwarded(BlockAt(v))
  <2>1. m = mem /\ allocPtr' = allocPtr /\ Copied(v) = BlockAt(v).header
    BY <1>4 DEF MemoryAfter, gcCopy, MustCopy, Copied
  <2>2. BlockAt(v).header \in Refs(mem, ToSpace)
    <3>1. PICK o \in DOMAIN mem[cur] : BlockAt(v) = mem[cur][o] BY <1>3, <1>4
    <3>2. ~HasSize(mem[cur][o]) BY <1>4, <3>1, SizeHeader
    <3>3. mem[cur][o].header \in {<<ToSpace, p>> : p \in DOMAIN mem[ToSpace]}
      BY <3>2 DEF HeapInv, FromInv
    <3> QED BY <3>1, <3>3 DEF Refs
  <2> QED BY <2>1, <2>2
<1>5. CASE MustCopy(v)
  <2>1. InHeap(v) BY <1>5 DEF MustCopy
  <2>2. PICK o \in DOMAIN mem[cur] : v = <<cur, o>> BY <1>3, <2>1
  <2>3. allocPtr' = allocPtr + Words(BlockAt(v)) BY <1>5 DEF gcCopy
  <2>4. Copied(v) = <<ToSpace, allocPtr>> BY <1>5, <2>1 DEF Copied, MustCopy
  <2>5. /\ HeapInv(m, cur, ToSpace, allocPtr', pointer, field)
        /\ <<ToSpace, allocPtr>> \in Refs(m, ToSpace)
        /\ DOMAIN m[cur] = DOMAIN mem[cur]
        /\ DOMAIN m[ToSpace] = DOMAIN mem[ToSpace] \cup {allocPtr}
        /\ \A p \in DOMAIN mem[ToSpace] : m[ToSpace][p] = mem[ToSpace][p]
    BY <1>5, <2>2, <2>3, CopyNew
  <2> HIDE DEF m
  <2>6. Refs(mem, cur) = Refs(m, cur) /\ Refs(mem, ToSpace) \subseteq Refs(m, ToSpace)
    BY <2>5 DEF Refs
  <2> QED BY <2>4, <2>5, <2>6 DEF m
<1> QED BY <1>2, <1>4, <1>5 DEF MustCopy

-----------------------------------------------------------------------------
(***************************************************************************)
(* The steps of a collection.                                              *)
(***************************************************************************)

\* The heap's part of Copying.
LEMMA CopyingHeap ==
  ASSUME TypeInv
  PROVE  Copying <=> /\ HeapInv(mem, cur, ToSpace, allocPtr, scanPtr, scanField)
                     /\ scanPtr \in Nat /\ scanField \in Nat \ {0} /\ RootsInv
BY DEF TypeInv, Copying, HeapInv

\* The roots keep referring to what they did, and to copies if they did.
LEMMA SameRoots ==
  ASSUME RootsInv, UNCHANGED <<cur, program, todo>>,
         Refs(mem, cur) \cup Refs(mem, ToSpace) \subseteq Refs(mem', cur) \cup Refs(mem', ToSpace),
         Refs(mem, ToSpace) \subseteq Refs(mem', ToSpace)
  PROVE  RootsInv'
<1>1. UNCHANGED <<stack, globals, cvars, clive, todo, cur, ToSpace>>
  BY DEF program, ToSpace
<1>2. ASSUME NEW v, NEW root, RootInv(mem, cur, ToSpace, todo, root, v)
      PROVE  RootInv(mem', cur', ToSpace', todo', root, v)
  BY <1>1, <1>2 DEF RootInv
<1> QED BY <1>1, <1>2 DEF RootsInv, Root

\* What does not change in a step of a collection but memory.
LEMMA SameTypes ==
  ASSUME TypeInv, CallInv, UNCHANGED <<program, cur, heapPointer, pc, request>>, IsMemory(mem')
  PROVE  TypeInv' /\ CallInv'
<1>1. UNCHANGED <<stack, globals, cvars, clive, inC, additionalRoots>> BY DEF program
<1>2. UNCHANGED <<ToSet(additionalRoots), frame>> BY <1>1 DEF ToSet, frame, top
<1>3. TypeInv' BY <1>1 DEF TypeInv, IsMemory, IsBlock
<1>4. CallInv' BY <1>1, <1>2 DEF CallInv, Allocating
<1> QED BY <1>3, <1>4

\* A field of a block is changed.
WithField(m, s, p, i, w) == [m EXCEPT ![s][p].fields[i] = w]

FieldChanged(m2, m, s, p, i, w) ==
  /\ IsMemory(m2)
  /\ \A r \in {0, 1} : DOMAIN m2[r] = DOMAIN m[r] /\ Refs(m2, r) = Refs(m, r)
  /\ \A r \in {0, 1} : \A o \in DOMAIN m[r] : r # s \/ o # p => m2[r][o] = m[r][o]
  /\ m2[s][p].header = m[s][p].header /\ m2[s][p].shape = m[s][p].shape
  /\ m2[s][p].id = m[s][p].id
  /\ m2[s][p].fields[i] = w
  /\ DOMAIN m2[s][p].fields = DOMAIN m[s][p].fields
  /\ \A j \in DOMAIN m[s][p].fields : j # i => m2[s][p].fields[j] = m[s][p].fields[j]
  /\ \A j \in ScannedFields(m[s][p].shape) : j # i => m2[s][p].fields[j] = m[s][p].fields[j]

\* What a field's change leaves alone.
LEMMA FieldFacts ==
  ASSUME NEW m, IsMemory(m), NEW s \in {0, 1}, NEW p \in DOMAIN m[s],
         NEW i \in ScannedFields(m[s][p].shape), NEW w, NEW m2, m2 = WithField(m, s, p, i, w)
  PROVE  FieldChanged(m2, m, s, p, i, w)
<1> DEFINE b == m[s][p]
           c == m2[s][p]
<1>1. IsBlock(b)
  BY DEF IsMemory
<1>2. /\ m2 = [r \in {0, 1} |-> m2[r]]
      /\ \A r \in {0, 1} : r # s => m2[r] = m[r]
      /\ m2[s] = [m[s] EXCEPT ![p].fields[i] = w]
  <2>1. m = [r \in {0, 1} |-> m[r]] BY DEF IsMemory
  <2> QED BY <2>1 DEF WithField
<1>3. /\ DOMAIN m2[s] = DOMAIN m[s]
      /\ m2[s] = [o \in DOMAIN m2[s] |-> m2[s][o]]
      /\ \A o \in DOMAIN m[s] : o # p => m2[s][o] = m[s][o]
      /\ c = [b EXCEPT !.fields[i] = w]
  <2>1. m[s] = [o \in DOMAIN m[s] |-> m[s][o]] BY DEF IsMemory
  <2> QED BY <1>2, <2>1
<1>4. /\ IsBlock(c) /\ c.header = b.header /\ c.shape = b.shape /\ c.id = b.id
      /\ c.fields[i] = w
      /\ DOMAIN c.fields = DOMAIN b.fields
      /\ \A j \in DOMAIN b.fields : j # i => c.fields[j] = b.fields[j]
      /\ \A j \in ScannedFields(b.shape) : j # i => c.fields[j] = b.fields[j]
  <2> DEFINE d == b.id
             e == b.shape
             f == b.fields
             h == b.header
  <2>1. /\ b = [id |-> d, shape |-> e, header |-> h, fields |-> f]
        /\ e \in AllShapes /\ f = [j \in DOMAIN e.refs |-> f[j]]
    BY <1>1 DEF IsBlock
  <2>2. ScannedFields(e) \subseteq DOMAIN e.refs BY <2>1, ShapeFacts
  <2>3. i \in ScannedFields(e) OBVIOUS
  <2> HIDE DEF b, c, d, e, f, h
  <2>4. c = [id |-> d, shape |-> e, header |-> h, fields |-> [f EXCEPT ![i] = w]]
    BY <1>3, <2>1
  <2>5. [f EXCEPT ![i] = w] = [j \in DOMAIN e.refs |-> IF j = i THEN w ELSE f[j]]
    BY <2>1, <2>2, <2>3
  <2> DEFINE g == [f EXCEPT ![i] = w]
  <2>6. g = [j \in DOMAIN e.refs |-> g[j]] /\ g[i] = w /\ \A j \in DOMAIN e.refs : j # i => g[j] = f[j]
    BY <2>2, <2>3, <2>5
  <2>7. c = [id |-> d, shape |-> e, header |-> h, fields |-> g] BY <2>4
  <2> HIDE DEF g
  <2>8. /\ c.shape = e /\ c.header = h /\ c.fields = g /\ c.id = d
        /\ IsBlock(c)
    BY <2>1, <2>6, <2>7 DEF IsBlock
  <2>9. DOMAIN g = DOMAIN e.refs /\ DOMAIN f = DOMAIN e.refs BY <2>1, <2>6
  <2> QED BY <2>2, <2>6, <2>8, <2>9 DEF d, e, f, h
<1> HIDE DEF b, c
<1>5. IsMemory(m2)
  <2>1. ASSUME NEW o \in DOMAIN m2[s] PROVE IsBlock(m2[s][o])
    BY <1>3, <1>4 DEF IsMemory, c
  <2>2. DOMAIN m2[s] \subseteq Nat BY <1>3 DEF IsMemory
  <2>3. ASSUME NEW r \in {0, 1}
        PROVE  /\ m2[r] = [o \in DOMAIN m2[r] |-> m2[r][o]]
               /\ DOMAIN m2[r] \subseteq Nat
               /\ \A o \in DOMAIN m2[r] : IsBlock(m2[r][o])
    <3>1. CASE r = s BY <1>3, <2>1, <2>2, <3>1
    <3>2. CASE r # s
      <4>1. m2[r] = m[r] BY <1>2, <3>2
      <4>2. /\ m[r] = [o \in DOMAIN m[r] |-> m[r][o]]
            /\ DOMAIN m[r] \subseteq Nat
            /\ \A o \in DOMAIN m[r] : IsBlock(m[r][o])
        BY DEF IsMemory
      <4> QED BY <4>1, <4>2, Zenon
    <3> QED BY <3>1, <3>2
  <2> QED BY <1>2, <2>3 DEF IsMemory
<1>6. \A r \in {0, 1} : DOMAIN m2[r] = DOMAIN m[r]
  BY <1>2, <1>3
<1>7. \A r \in {0, 1} : Refs(m2, r) = Refs(m, r)
  BY <1>6 DEF Refs
<1>8. \A r \in {0, 1} : \A o \in DOMAIN m[r] : r # s \/ o # p => m2[r][o] = m[r][o]
  BY <1>2, <1>3
<1> QED BY <1>4, <1>5, <1>6, <1>7, <1>8 DEF b, c, FieldChanged

\* A field of the copy being scanned is changed to a copy.
LEMMA SetField ==
  ASSUME cur \in {0, 1}, NEW m, NEW limit, NEW p \in DOMAIN m[ToSpace], NEW i \in Nat \ {0},
         HeapInv(m, cur, ToSpace, limit, p, i), NEW w \in Refs(m, ToSpace),
         i \in ScannedFields(m[ToSpace][p].shape),
         NEW m2, m2 = WithField(m, ToSpace, p, i, w)
  PROVE  /\ HeapInv(m2, cur, ToSpace, limit, p, i + 1)
         /\ Refs(m2, cur) = Refs(m, cur)
         /\ Refs(m2, ToSpace) = Refs(m, ToSpace)
<1> DEFINE b == m[ToSpace][p]
           c == m2[ToSpace][p]
<1>1. IsMemory(m) /\ IsBlock(b)
  BY Spaces DEF HeapInv, IsMemory
<1>2. /\ IsMemory(m2)
      /\ \A r \in {0, 1} : DOMAIN m2[r] = DOMAIN m[r] /\ Refs(m2, r) = Refs(m, r)
      /\ \A r \in {0, 1} : \A o \in DOMAIN m[r] : r # ToSpace \/ o # p => m2[r][o] = m[r][o]
      /\ c.header = b.header /\ c.shape = b.shape
      /\ c.fields[i] = w
      /\ \A j \in ScannedFields(b.shape) : j # i => c.fields[j] = b.fields[j]
  <2>1. FieldChanged(m2, m, ToSpace, p, i, w) BY <1>1, Spaces, FieldFacts
  <2> QED BY <2>1 DEF FieldChanged
<1> HIDE DEF b, c
<1>3. /\ DOMAIN m2[ToSpace] = DOMAIN m[ToSpace] /\ DOMAIN m2[cur] = DOMAIN m[cur]
      /\ \A o \in DOMAIN m[ToSpace] : o # p => m2[ToSpace][o] = m[ToSpace][o]
      /\ \A o \in DOMAIN m[cur] : m2[cur][o] = m[cur][o]
  BY <1>2, Spaces
<1>4. Refs(m2, cur) = Refs(m, cur) /\ Refs(m2, ToSpace) = Refs(m, ToSpace)
  BY <1>2, Spaces
<1>5. \A o \in DOMAIN m[ToSpace] : m2[ToSpace][o].header = m[ToSpace][o].header
  BY <1>2, <1>3 DEF b, c
<1>6. Tiled(m2[ToSpace], limit)
  BY <1>3, <1>5 DEF HeapInv, Tiled, HasSize, Words
<1>7. FromInv(m2, cur, ToSpace)
  BY <1>3, <1>4 DEF HeapInv, FromInv
<1>8. ToInv(m2, cur, ToSpace, p, i + 1)
  <2>1. ASSUME NEW o \in DOMAIN m[ToSpace], o # p, NEW j \in ScannedFields(m2[ToSpace][o].shape)
        PROVE  /\ m2[ToSpace][o].fields[j] \in Refs(m2, cur) \cup Refs(m2, ToSpace)
               /\ o < p \/ (o = p /\ j < i + 1) => m2[ToSpace][o].fields[j] \in Refs(m2, ToSpace)
    BY <1>3, <1>4, <2>1 DEF HeapInv, ToInv
  <2>2. ASSUME NEW j \in ScannedFields(c.shape)
        PROVE  /\ c.fields[j] \in Refs(m2, cur) \cup Refs(m2, ToSpace)
               /\ p < p \/ (p = p /\ j < i + 1) => c.fields[j] \in Refs(m2, ToSpace)
    <3>1. CASE j = i BY <1>2, <1>4, <3>1
    <3>2. CASE j # i
      <4>1. j \in Nat
        <5>1. b.shape \in AllShapes BY <1>1 DEF IsBlock
        <5>2. j \in DOMAIN b.shape.refs /\ DOMAIN b.shape.refs \subseteq Nat BY <1>2, <5>1, ShapeFacts
        <5> QED BY <5>2
      <4>2. j < i + 1 => j < i BY <3>2, <4>1
      <4>3. c.fields[j] = b.fields[j] /\ j \in ScannedFields(b.shape) BY <1>2, <3>2
      <4> QED BY <1>4, <4>1, <4>2, <4>3 DEF HeapInv, ToInv, b
    <3> QED BY <3>1, <3>2
  <2> QED BY <1>3, <2>1, <2>2 DEF ToInv, c
<1>9. p # limit
  <2>1. HasSize(m[ToSpace][p]) /\ p + Words(m[ToSpace][p]) <= limit BY DEF HeapInv, Tiled
  <2>2. p \in Nat /\ limit \in Nat BY <1>1, Spaces DEF IsMemory, HeapInv
  <2> QED BY <2>1, <2>2, SizeHeader
<1>10. HeapInv(m2, cur, ToSpace, limit, p, i + 1) BY <1>2, <1>3, <1>6, <1>7, <1>8, <1>9 DEF HeapInv
<1> QED BY <1>4, <1>10

\* gcScan, for a field.
LEMMA ScanFieldStep == IInv /\ ScanField => IInv'
<1> SUFFICES ASSUME IInv, ScanField PROVE IInv' OBVIOUS
<1>1. /\ Collecting /\ todo = <<>> /\ scanPtr < allocPtr /\ scanField \in DOMAIN Scanned.shape.refs
      /\ UNCHANGED <<cur, heapPointer, program, pc, request, todo, scanPtr>>
      /\ scanField' = scanField + 1
  BY DEF ScanField, Scanning
<1>2. /\ TypeInv /\ CallInv /\ HeapInv(mem, cur, ToSpace, allocPtr, scanPtr, scanField)
      /\ scanPtr \in Nat /\ scanField \in Nat \ {0} /\ RootsInv
  BY <1>1, CopyingHeap DEF IInv
<1>3. cur \in {0, 1} BY <1>2 DEF TypeInv
<1>4. scanPtr \in DOMAIN mem[ToSpace] /\ allocPtr \in Nat BY <1>1, <1>2 DEF HeapInv
<1> DEFINE v == Scanned.fields[scanField]
           b == mem[ToSpace][scanPtr]
<1>5. /\ HeapInv(mem', cur, ToSpace, allocPtr', scanPtr, scanField + 1)
      /\ Refs(mem, cur) \cup Refs(mem, ToSpace) \subseteq Refs(mem', cur) \cup Refs(mem', ToSpace)
      /\ Refs(mem, ToSpace) \subseteq Refs(mem', ToSpace)
  <2>1. CASE scanField \in ScannedFields(Scanned.shape)
    <3>1. gcCopy(v) /\ mem' = [MemoryAfter(v) EXCEPT ![ToSpace][scanPtr].fields[scanField] = Copied(v)]
      BY <2>1 DEF ScanField
    <3>2. v \in Refs(mem, cur) \cup Refs(mem, ToSpace)
      BY <1>2, <1>4, <2>1 DEF HeapInv, ToInv, Scanned
    <3> DEFINE m == MemoryAfter(v)
               w == Copied(v)
    <3>3. /\ HeapInv(m, cur, ToSpace, allocPtr', scanPtr, scanField)
          /\ w \in Refs(m, ToSpace)
          /\ Refs(mem, cur) \cup Refs(mem, ToSpace) \subseteq Refs(m, cur) \cup Refs(m, ToSpace)
          /\ Refs(mem, ToSpace) \subseteq Refs(m, ToSpace)
          /\ scanPtr \in DOMAIN m[ToSpace] /\ m[ToSpace][scanPtr] = b
      BY <1>2, <1>3, <1>4, <3>1, <3>2, CopyHeap
    <3>4. mem' = WithField(m, ToSpace, scanPtr, scanField, w) BY <3>1 DEF WithField
    <3> HIDE DEF m, w, v
    <3>5. scanField \in ScannedFields(b.shape) BY <2>1 DEF Scanned
    <3>6. scanField \in ScannedFields(m[ToSpace][scanPtr].shape) BY <3>3, <3>5
    <3>7. scanPtr \in DOMAIN m[ToSpace] BY <3>3
    <3>8. HeapInv(m, cur, ToSpace, allocPtr', scanPtr, scanField) /\ w \in Refs(m, ToSpace) BY <3>3
    <3> HIDE DEF b
    <3>9. /\ HeapInv(mem', cur, ToSpace, allocPtr', scanPtr, scanField + 1)
          /\ Refs(mem', cur) = Refs(m, cur) /\ Refs(mem', ToSpace) = Refs(m, ToSpace)
      BY <1>2, <1>3, <3>4, <3>6, <3>7, <3>8, SetField
    <3> QED BY <3>3, <3>9
  <2>2. CASE scanField \notin ScannedFields(Scanned.shape)
    <3>1. UNCHANGED <<mem, allocPtr>> BY <2>2 DEF ScanField
    <3>2. ToInv(mem, cur, ToSpace, scanPtr, scanField + 1)
      <4>1. ASSUME NEW o \in DOMAIN mem[ToSpace], NEW i \in ScannedFields(mem[ToSpace][o].shape),
                   o = scanPtr, i < scanField + 1
            PROVE  i < scanField
        <5>1. IsBlock(mem[ToSpace][o]) BY <1>2, <1>3, Spaces DEF HeapInv, IsMemory
        <5>2. i \in Nat BY <5>1, ShapeFacts DEF IsBlock
        <5>3. i # scanField BY <2>2, <4>1 DEF Scanned
        <5> QED BY <1>2, <4>1, <5>2, <5>3
      <4> QED BY <1>2, <4>1 DEF HeapInv, ToInv
    <3>3. scanPtr # allocPtr BY <1>1, <1>4, <1>2
    <3> QED BY <1>2, <1>4, <3>1, <3>2, <3>3 DEF HeapInv, Refs
  <2> QED BY <2>1, <2>2
<1>6. RootsInv' BY <1>1, <1>2, <1>5, SameRoots
<1>7. TypeInv' /\ CallInv' BY <1>1, <1>2, <1>5, SameTypes DEF HeapInv
<1>8. HeapInv(mem', cur', ToSpace', allocPtr', scanPtr', scanField')
  BY <1>1, <1>5 DEF ToSpace
<1>9. Copying' BY <1>1, <1>2, <1>6, <1>8 DEF Copying, HeapInv
<1> QED BY <1>1, <1>7, <1>9 DEF IInv, Collecting

\* gcScan, from one copy to the next.
LEMMA ScanNextStep == IInv /\ ScanNext => IInv'
<1> SUFFICES ASSUME IInv, ScanNext PROVE IInv' OBVIOUS
<1>1. /\ Collecting /\ todo = <<>> /\ scanPtr < allocPtr /\ scanField > Len(Scanned.shape.refs)
      /\ UNCHANGED <<mem, cur, heapPointer, program, pc, request, todo, allocPtr>>
      /\ scanPtr' = scanPtr + Words(Scanned) /\ scanField' = 1
  BY DEF ScanNext, Scanning
<1>2. /\ TypeInv /\ CallInv /\ HeapInv(mem, cur, ToSpace, allocPtr, scanPtr, scanField)
      /\ scanPtr \in Nat /\ scanField \in Nat \ {0} /\ RootsInv
  BY <1>1, CopyingHeap DEF IInv
<1> DEFINE b == mem[ToSpace][scanPtr]
<1>3. scanPtr \in DOMAIN mem[ToSpace] /\ allocPtr \in Nat /\ IsMemory(mem) /\ cur \in {0, 1}
  BY <1>1, <1>2 DEF HeapInv, TypeInv
<1>4. /\ HasSize(b)
      /\ scanPtr + Words(b) \in DOMAIN mem[ToSpace] \cup {allocPtr}
      /\ \A o \in DOMAIN mem[ToSpace] : scanPtr < o => scanPtr + Words(b) <= o
  BY <1>2, <1>3 DEF HeapInv, Tiled
<1>5. Words(b) \in Nat BY <1>4, SizeHeader
<1>6. \A o \in DOMAIN mem[ToSpace] : o \in Nat BY <1>3, Spaces DEF IsMemory
<1>7. ToInv(mem, cur, ToSpace, scanPtr + Words(b), 1)
  <2>1. ASSUME NEW o \in DOMAIN mem[ToSpace], NEW i \in ScannedFields(mem[ToSpace][o].shape),
               o < scanPtr + Words(b) \/ (o = scanPtr + Words(b) /\ i < 1)
        PROVE  o < scanPtr \/ (o = scanPtr /\ i < scanField)
    <3>1. IsBlock(mem[ToSpace][o]) BY <1>3, Spaces DEF IsMemory
    <3>2. i \in 1 .. Len(mem[ToSpace][o].shape.refs) /\ Len(mem[ToSpace][o].shape.refs) \in Nat
      BY <3>1, ShapeFacts DEF IsBlock
    <3>3. o < scanPtr + Words(b) BY <2>1, <3>2
    <3>4. ~(scanPtr < o) BY <1>2, <1>4, <1>5, <1>6, <3>3
    <3>5. o = scanPtr => i < scanField BY <1>1, <1>2, <3>2 DEF Scanned
    <3> QED BY <1>2, <1>6, <3>4, <3>5
  <2> QED BY <1>2, <2>1 DEF HeapInv, ToInv
<1>8. HeapInv(mem, cur, ToSpace, allocPtr, scanPtr + Words(b), 1)
  BY <1>2, <1>3, <1>4, <1>7 DEF HeapInv
<1>9. scanPtr' = scanPtr + Words(b) /\ scanPtr' \in Nat
  BY <1>1, <1>2, <1>5 DEF Scanned
<1>10. HeapInv(mem', cur', ToSpace', allocPtr', scanPtr', scanField')
  BY <1>1, <1>8, <1>9 DEF ToSpace
<1>11. RootsInv' BY <1>1, <1>2, SameRoots
<1>12. TypeInv' /\ CallInv' BY <1>1, <1>2, <1>3, SameTypes
<1>13. Copying' BY <1>1, <1>9, <1>10, <1>11 DEF Copying, HeapInv
<1> QED BY <1>1, <1>12, <1>13 DEF IInv, Collecting

\* What the copy of a root does: the reference v in it becomes w, and the root is
\* no longer pending.
CopyMade(v, w) ==
  /\ Collecting /\ gcCopy(v) /\ mem' = MemoryAfter(v) /\ w = Copied(v)
  /\ UNCHANGED <<size, cur, heapPointer, clive, inC, additionalRoots, pc, request, scanPtr, scanField>>
  /\ v \in LiveValues
  /\ HeapInv(mem', cur, ToSpace, allocPtr', scanPtr, scanField)
  /\ w \in Refs(mem', ToSpace) /\ w \in AnyRef
  /\ Refs(mem, cur) \cup Refs(mem, ToSpace) \subseteq Refs(mem', cur) \cup Refs(mem', ToSpace)
  /\ Refs(mem, ToSpace) \subseteq Refs(mem', ToSpace)

RootDone(root) ==
  /\ todo' = [i \in 1 .. Len(todo') |-> todo'[i]] /\ Len(todo') \in Nat
  /\ \A i \in DOMAIN todo' : i + 1 \in DOMAIN todo /\ todo'[i] = todo[i + 1]
  /\ ToSet(todo) \subseteq ToSet(todo') \cup {root}

RootReplaced(root, v, w) ==
  /\ stack' \in Seq(Frames) /\ DOMAIN stack' = DOMAIN stack
  /\ \A i \in DOMAIN stack : stack'[i].live = stack[i].live
  /\ \A i \in DOMAIN stack : \A n \in stack[i].live :
       /\ stack'[i].values[n] = IF root.kind = "stack" /\ root.frame = i /\ root.name = n
                                  THEN w ELSE stack[i].values[n]
       /\ root.kind = "stack" /\ root.frame = i /\ root.name = n => stack[i].values[n] = v
  /\ cvars' \in [CVars -> AnyRef] /\ globals' \in [Globals -> AnyRef]
  /\ \A c \in CVars :
       /\ cvars'[c] = IF root.kind = "c" /\ root.name = c THEN w ELSE cvars[c]
       /\ root.kind = "c" /\ root.name = c => cvars[c] = v
  /\ \A g \in Globals :
       /\ globals'[g] = IF root.kind = "global" /\ root.name = g THEN w ELSE globals[g]
       /\ root.kind = "global" /\ root.name = g => globals[g] = v

RootCopied(root, v, w) == CopyMade(v, w) /\ RootDone(root) /\ RootReplaced(root, v, w)

LEMMA CopyRootEffect == IInv /\ CopyRoot => \E root, v, w : RootCopied(root, v, w)
<1> SUFFICES ASSUME IInv, CopyRoot PROVE \E root, v, w : RootCopied(root, v, w) OBVIOUS
<1> DEFINE root == Head(todo)
           v == CASE root.kind = "stack"  -> stack[root.frame].values[root.name]
                  [] root.kind = "c"      -> cvars[root.name]
                  [] root.kind = "global" -> globals[root.name]
           m == MemoryAfter(v)
           w == Copied(v)
<1>1. /\ Collecting /\ todo # <<>> /\ gcCopy(v) /\ mem' = m /\ todo' = Tail(todo)
      /\ stack' = IF root.kind = "stack"
                    THEN [stack EXCEPT ![root.frame].values[root.name] = w] ELSE stack
      /\ cvars' = IF root.kind = "c" THEN [cvars EXCEPT ![root.name] = w] ELSE cvars
      /\ globals' = IF root.kind = "global" THEN [globals EXCEPT ![root.name] = w] ELSE globals
      /\ UNCHANGED <<size, cur, heapPointer, clive, inC, additionalRoots, pc, request, scanPtr,
                     scanField>>
  BY DEF CopyRoot
<1>2. /\ TypeInv /\ CallInv /\ HeapInv(mem, cur, ToSpace, allocPtr, scanPtr, scanField)
      /\ scanPtr \in Nat /\ scanField \in Nat \ {0} /\ RootsInv
  BY <1>1, CopyingHeap DEF IInv
<1>3. cur \in {0, 1} BY <1>2 DEF TypeInv
<1> DEFINE Both == Refs(mem, cur) \cup Refs(mem, ToSpace)
<1>4. /\ root = todo[1] /\ Root(1)
      /\ todo' = [i \in 1 .. Len(todo') |-> todo'[i]] /\ Len(todo') \in Nat
      /\ \A i \in DOMAIN todo' : i + 1 \in DOMAIN todo /\ todo'[i] = todo[i + 1]
      /\ ToSet(todo) \subseteq ToSet(todo') \cup {root}
  <2> DEFINE q == todo
             S == {q[i] : i \in DOMAIN q}
  <2>1. q \in Seq(S) /\ 1 \in 1 .. 1 BY <1>2 DEF RootsInv
  <2>2. q # <<>> BY <1>1
  <2>3. /\ root = q[1] /\ 1 \in DOMAIN q
        /\ todo' \in Seq(S)
        /\ \A i \in DOMAIN todo' : i + 1 \in DOMAIN q /\ todo'[i] = q[i + 1]
        /\ ToSet(q) \subseteq ToSet(todo') \cup {root}
    <3> HIDE DEF q, S
    <3> QED BY <1>1, <2>1, <2>2, TailElements DEF q
  <2>4. todo' = [i \in 1 .. Len(todo') |-> todo'[i]] /\ Len(todo') \in Nat
    <3> HIDE DEF S
    <3> QED BY <2>3
  <2> QED BY <1>2, <2>3, <2>4 DEF RootsInv
<1>5. v \in Both
  <2>1. CASE root.kind = "stack"
    <3>1. v = stack[root.frame].values[root.name] BY <2>1
    <3>2. root.frame \in DOMAIN stack /\ root.name \in stack[root.frame].live
      BY <1>4, <2>1 DEF Root
    <3> QED BY <1>2, <3>1, <3>2 DEF RootsInv, RootInv
  <2>2. CASE root.kind = "c"
    <3>1. v = cvars[root.name] BY <2>2
    <3>2. root.name \in clive BY <1>4, <2>2 DEF Root
    <3> QED BY <1>2, <3>1, <3>2 DEF RootsInv, RootInv
  <2>3. CASE root.kind = "global"
    <3>1. v = globals[root.name] BY <2>3
    <3>2. root.name \in Globals BY <1>4, <2>3 DEF Root
    <3> QED BY <1>2, <3>1, <3>2 DEF RootsInv, RootInv
  <2> QED BY <1>4, <2>1, <2>2, <2>3 DEF Root
<1>50. v \in LiveValues
  <2>1. ASSUME root.kind = "stack" PROVE v \in LiveValues
    <3>1. root.frame \in DOMAIN stack /\ root.name \in stack[root.frame].live
      BY <1>4, <2>1 DEF Root
    <3>2. v = stack[root.frame].values[root.name] BY <2>1
    <3> HIDE DEF root, v
    <3> QED BY <3>1, <3>2 DEF LiveValues
  <2>2. ASSUME root.kind = "c" PROVE v \in LiveValues
    <3>1. root.name \in clive BY <1>4, <2>2 DEF Root
    <3>2. v = cvars[root.name] BY <2>2
    <3> HIDE DEF root, v
    <3> QED BY <3>1, <3>2 DEF LiveValues
  <2>3. ASSUME root.kind = "global" PROVE v \in LiveValues
    <3>1. root.name \in Globals BY <1>4, <2>3 DEF Root
    <3>2. v = globals[root.name] /\ globals \in [Globals -> AnyRef] BY <1>2, <2>3 DEF TypeInv
    <3> HIDE DEF root, v
    <3> QED BY <3>1, <3>2 DEF LiveValues, Range
  <2> QED BY <1>4, <2>1, <2>2, <2>3 DEF Root
<1>51. /\ root.kind = "stack" => v = stack[root.frame].values[root.name]
       /\ root.kind = "c" => v = cvars[root.name]
       /\ root.kind = "global" => v = globals[root.name]
  OBVIOUS
<1> HIDE DEF v
<1>6. /\ HeapInv(m, cur, ToSpace, allocPtr', scanPtr, scanField)
      /\ w \in Refs(m, ToSpace)
      /\ Both \subseteq Refs(m, cur) \cup Refs(m, ToSpace)
      /\ Refs(mem, ToSpace) \subseteq Refs(m, ToSpace)
  BY <1>1, <1>2, <1>3, <1>5, CopyHeap
<1>7. w \in AnyRef
  BY <1>3, <1>6, RefFacts, Spaces DEF HeapInv
<1> HIDE DEF m, w
<1>8. /\ stack' \in Seq(Frames)
      /\ DOMAIN stack' = DOMAIN stack
      /\ \A i \in DOMAIN stack : stack'[i].live = stack[i].live
      /\ \A i \in DOMAIN stack : \A n \in stack[i].live :
           stack'[i].values[n] = IF root.kind = "stack" /\ root.frame = i /\ root.name = n
                                 THEN w ELSE stack[i].values[n]
  <2>1. stack \in Seq(Frames) BY <1>2 DEF TypeInv
  <2>2. CASE root.kind # "stack" BY <1>1, <2>1, <2>2
  <2>3. CASE root.kind = "stack"
    <3> DEFINE f == root.frame
               x == root.name
    <3>20. f \in DOMAIN stack /\ x \in stack[f].live BY <1>4, <2>3 DEF Root
    <3>21. stack[f] \in Frames BY <2>1, <3>20
    <3>1. f \in DOMAIN stack /\ x \in Slots BY <3>20, <3>21 DEF Frames
    <3>2. stack' = [stack EXCEPT ![f].values[x] = w] BY <1>1, <2>3
    <3> HIDE DEF f, x, root
    <3>3. /\ DOMAIN stack' = DOMAIN stack
          /\ \A i \in DOMAIN stack : i # f => stack'[i] = stack[i]
          /\ stack'[f] = [stack[f] EXCEPT !.values[x] = w]
      BY <3>1, <3>2, <2>1
    <3>4. stack[f] \in Frames BY <3>21 DEF f
    <3>5. /\ stack'[f] \in Frames
          /\ stack'[f].live = stack[f].live
          /\ \A n \in Slots : stack'[f].values[n] = IF n = x THEN w ELSE stack[f].values[n]
      BY <1>7, <3>1, <3>3, <3>4 DEF Frames
    <3>6. stack' \in Seq(Frames)
      <4>1. stack' = [stack EXCEPT ![f] = stack'[f]] BY <2>1, <3>1, <3>2
      <4> QED BY <2>1, <3>1, <3>5, <4>1
    <3>7. stack[f].live \subseteq Slots BY <3>4 DEF Frames
    <3> QED BY <2>3, <3>3, <3>5, <3>6, <3>7 DEF f, x
  <2> QED BY <2>2, <2>3
<1>9. /\ cvars' \in [CVars -> AnyRef]
      /\ \A c \in CVars : cvars'[c] = IF root.kind = "c" /\ root.name = c THEN w ELSE cvars[c]
      /\ globals' \in [Globals -> AnyRef]
      /\ \A g \in Globals :
           globals'[g] = IF root.kind = "global" /\ root.name = g THEN w ELSE globals[g]
  BY <1>1, <1>2, <1>7 DEF TypeInv
<1>52. w = Copied(v) /\ mem' = MemoryAfter(v) BY <1>1 DEF w, m
<1> HIDE DEF root
<1>53. /\ HeapInv(mem', cur, ToSpace, allocPtr', scanPtr, scanField)
       /\ w \in Refs(mem', ToSpace) /\ w \in AnyRef
       /\ Both \subseteq Refs(mem', cur) \cup Refs(mem', ToSpace)
       /\ Refs(mem, ToSpace) \subseteq Refs(mem', ToSpace)
  BY <1>1, <1>6, <1>7
<1>54. /\ \A i \in DOMAIN stack : \A n \in stack[i].live :
            root.kind = "stack" /\ root.frame = i /\ root.name = n => stack[i].values[n] = v
       /\ \A c \in CVars : root.kind = "c" /\ root.name = c => cvars[c] = v
       /\ \A g \in Globals : root.kind = "global" /\ root.name = g => globals[g] = v
  BY <1>51
<1>55. RootCopied(root, v, w)
  <2>1. CopyMade(v, w) BY <1>1, <1>50, <1>52, <1>53 DEF CopyMade
  <2>2. RootDone(root) BY <1>4 DEF RootDone
  <2>3. RootReplaced(root, v, w) BY <1>8, <1>9, <1>54 DEF RootReplaced
  <2> QED BY <2>1, <2>2, <2>3 DEF RootCopied
<1> QED BY <1>55

\* gcCopyRoots, for a root.
LEMMA CopyRootStep == IInv /\ CopyRoot => IInv'
<1> SUFFICES ASSUME IInv, CopyRoot PROVE IInv' OBVIOUS
<1>0. PICK root, v, w : RootCopied(root, v, w) BY CopyRootEffect, Zenon
<1> DEFINE m == mem'
           Both == Refs(mem, cur) \cup Refs(mem, ToSpace)
<1>1. /\ Collecting
      /\ UNCHANGED <<size, cur, heapPointer, clive, inC, additionalRoots, pc, request, scanPtr,
                     scanField>>
  BY <1>0 DEF RootCopied, CopyMade
<1>2. /\ TypeInv /\ CallInv /\ HeapInv(mem, cur, ToSpace, allocPtr, scanPtr, scanField)
      /\ scanPtr \in Nat /\ scanField \in Nat \ {0} /\ RootsInv
  BY <1>1, CopyingHeap DEF IInv
<1>4. /\ todo' = [i \in 1 .. Len(todo') |-> todo'[i]] /\ Len(todo') \in Nat
      /\ \A i \in DOMAIN todo' : i + 1 \in DOMAIN todo /\ todo'[i] = todo[i + 1]
      /\ ToSet(todo) \subseteq ToSet(todo') \cup {root}
  BY <1>0 DEF RootCopied, RootDone
<1>6. /\ HeapInv(m, cur, ToSpace, allocPtr', scanPtr, scanField)
      /\ w \in Refs(m, ToSpace)
      /\ Both \subseteq Refs(m, cur) \cup Refs(m, ToSpace)
      /\ Refs(mem, ToSpace) \subseteq Refs(m, ToSpace)
  BY <1>0 DEF RootCopied, CopyMade
<1>8. /\ stack' \in Seq(Frames)
      /\ DOMAIN stack' = DOMAIN stack
      /\ \A i \in DOMAIN stack : stack'[i].live = stack[i].live
      /\ \A i \in DOMAIN stack : \A n \in stack[i].live :
           stack'[i].values[n] = IF root.kind = "stack" /\ root.frame = i /\ root.name = n
                                 THEN w ELSE stack[i].values[n]
  BY <1>0 DEF RootCopied, RootReplaced
<1>9. /\ cvars' \in [CVars -> AnyRef]
      /\ \A c \in CVars : cvars'[c] = IF root.kind = "c" /\ root.name = c THEN w ELSE cvars[c]
      /\ globals' \in [Globals -> AnyRef]
      /\ \A g \in Globals :
           globals'[g] = IF root.kind = "global" /\ root.name = g THEN w ELSE globals[g]
  BY <1>0 DEF RootCopied, RootReplaced
<1>10. TypeInv'
  <2>1. IsMemory(mem') BY <1>1, <1>6 DEF HeapInv
  <2>2. stack' # <<>>
    <3>1. stack # <<>> /\ stack \in Seq(Frames)
      BY <1>2 DEF TypeInv
    <3>2. 1 \in DOMAIN stack BY <3>1
    <3> QED BY <1>8, <3>2
  <2>3. clive' \subseteq CVars /\ additionalRoots' \in Seq(CVars) /\ inC' \in BOOLEAN
        /\ pc' \in HS!PCs /\ cur' \in {0, 1} /\ heapPointer' \in Nat
    BY <1>1, <1>2 DEF TypeInv
  <2> QED BY <1>8, <1>9, <2>1, <2>2, <2>3 DEF TypeInv, IsMemory, IsBlock
<1>11. CallInv'
  <2>1. Len(stack') = Len(stack) /\ Len(stack) \in DOMAIN stack
    <3>1. /\ stack \in Seq(Frames) /\ stack # <<>>
          /\ stack' \in Seq(Frames)
      BY <1>2, <1>8 DEF TypeInv
    <3>2. DOMAIN stack = 1 .. Len(stack) /\ DOMAIN stack' = 1 .. Len(stack') /\ Len(stack) \in Nat
          /\ Len(stack') \in Nat /\ Len(stack) # 0
      BY <3>1
    <3> QED BY <1>8, <3>2
  <2>2. frame'.live = frame.live BY <1>8, <2>1 DEF frame, top
  <2> QED BY <1>1, <1>2, <2>2 DEF CallInv, Allocating, ToSet
<1>12. RootsInv'
  <2> DEFINE Was(r, u) == RootInv(mem, cur, ToSpace, todo, r, u)
             Is(r, u) == RootInv(mem', cur', ToSpace', todo', r, u)
  <2>30. cur' = cur /\ ToSpace' = ToSpace BY <1>1 DEF ToSpace
  <2>1. ASSUME NEW u, NEW r, Was(r, u), r # root PROVE Is(r, u)
    <3>1. u \in Refs(m, cur) \cup Refs(m, ToSpace) BY <1>6, <2>1 DEF RootInv
    <3>2. u \in Refs(m, ToSpace) \/ r \in ToSet(todo') BY <1>4, <1>6, <2>1 DEF RootInv
    <3> QED BY <2>30, <3>1, <3>2 DEF RootInv
  <2>2. ASSUME NEW r PROVE Is(r, w)
    BY <1>6, <2>30 DEF RootInv
  <2>3. ASSUME NEW i \in DOMAIN stack', NEW n \in stack'[i].live
        PROVE  Is(StackRoot(i, n), stack'[i].values[n])
    <3>1. i \in DOMAIN stack /\ n \in stack[i].live BY <1>8
    <3>2. CASE root.kind = "stack" /\ root.frame = i /\ root.name = n
      <4>1. stack'[i].values[n] = w BY <1>8, <3>1, <3>2
      <4> QED BY <2>2, <4>1
    <3>3. CASE ~(root.kind = "stack" /\ root.frame = i /\ root.name = n)
      <4>1. stack'[i].values[n] = stack[i].values[n] BY <1>8, <3>1, <3>3
      <4>2. StackRoot(i, n) # root BY <3>3 DEF StackRoot
      <4>3. Was(StackRoot(i, n), stack[i].values[n]) BY <1>2, <3>1 DEF RootsInv
      <4> QED BY <2>1, <4>1, <4>2, <4>3
    <3> QED BY <3>2, <3>3
  <2>4. ASSUME NEW g \in Globals PROVE Is(GlobalRoot(g), globals'[g])
    <3>1. CASE root.kind = "global" /\ root.name = g
      <4>1. globals'[g] = w BY <1>9, <3>1
      <4> QED BY <2>2, <4>1
    <3>2. CASE ~(root.kind = "global" /\ root.name = g)
      <4>1. globals'[g] = globals[g] BY <1>9, <3>2
      <4>2. GlobalRoot(g) # root BY <3>2 DEF GlobalRoot
      <4>3. Was(GlobalRoot(g), globals[g]) BY <1>2 DEF RootsInv
      <4> QED BY <2>1, <4>1, <4>2, <4>3
    <3> QED BY <3>1, <3>2
  <2>5. ASSUME NEW c \in clive' PROVE Is(CRoot(c), cvars'[c])
    <3>1. c \in clive /\ c \in CVars BY <1>1, <1>2 DEF TypeInv
    <3>2. CASE root.kind = "c" /\ root.name = c
      <4>1. cvars'[c] = w BY <1>9, <3>1, <3>2
      <4> QED BY <2>2, <4>1
    <3>3. CASE ~(root.kind = "c" /\ root.name = c)
      <4>1. cvars'[c] = cvars[c] BY <1>9, <3>1, <3>3
      <4>2. CRoot(c) # root BY <3>3 DEF CRoot
      <4>3. Was(CRoot(c), cvars[c]) BY <1>2, <3>1 DEF RootsInv
      <4> QED BY <2>1, <4>1, <4>2, <4>3
    <3> QED BY <3>2, <3>3
  <2>6. ASSUME NEW i \in DOMAIN todo' PROVE Root(i)'
    <3>1. i + 1 \in DOMAIN todo /\ todo'[i] = todo[i + 1] BY <1>4
    <3>2. Root(i + 1) BY <1>2, <3>1 DEF RootsInv
    <3> QED BY <1>1, <1>8, <3>1, <3>2 DEF Root
  <2> QED BY <1>4, <2>3, <2>4, <2>5, <2>6 DEF RootsInv, StackRoot, GlobalRoot, CRoot
<1>13. HeapInv(mem', cur', ToSpace', allocPtr', scanPtr', scanField')
  BY <1>1, <1>6 DEF ToSpace
<1>14. Copying' BY <1>1, <1>2, <1>12, <1>13 DEF Copying, HeapInv
<1> QED BY <1>1, <1>10, <1>11, <1>14 DEF IInv, Collecting

\* A semispace is wiped.
LEMMA WipeMemory ==
  ASSUME IsMemory(mem), cur \in {0, 1}
  PROVE  LET m == [mem EXCEPT ![cur] = EmptySpace]
         IN  IsMemory(m) /\ m[ToSpace] = mem[ToSpace] /\ DOMAIN m[cur] = {}
<1> DEFINE m == [mem EXCEPT ![cur] = EmptySpace]
<1>1. mem = [s \in {0, 1} |-> mem[s]] BY DEF IsMemory
<1>2. /\ m = [s \in {0, 1} |-> m[s]]
      /\ m[ToSpace] = mem[ToSpace] /\ m[cur] = EmptySpace
  BY <1>1, Spaces
<1> HIDE DEF m
<1>3. /\ DOMAIN m[cur] = {}
      /\ m[cur] = [o \in DOMAIN m[cur] |-> m[cur][o]]
  BY <1>2 DEF EmptySpace
<1>4. IsMemory(m)
  BY <1>2, <1>3, Spaces DEF IsMemory
<1> QED BY <1>2, <1>3, <1>4 DEF m

\* When nothing is left to copy or scan, all that is kept refers to copies.
LEMMA AllCopied ==
  ASSUME IInv, Collecting, todo = <<>>, scanPtr = allocPtr
  PROVE  /\ LiveIn(stack, globals, cvars, clive, Refs(mem, ToSpace))
         /\ \A o \in DOMAIN mem[ToSpace] :
              /\ HasSize(mem[ToSpace][o]) /\ FieldsIn(mem[ToSpace][o], Refs(mem, ToSpace))
              /\ o < allocPtr
<1>1. HeapInv(mem, cur, ToSpace, allocPtr, scanPtr, scanField) /\ RootsInv
  BY CopyingHeap DEF IInv
<1>2. /\ cur \in {0, 1} /\ IsMemory(mem) /\ allocPtr \in Nat
  BY <1>1 DEF IInv, TypeInv, HeapInv
<1>3. LiveIn(stack, globals, cvars, clive, Refs(mem, ToSpace))
  <2>1. ToSet(todo) = {} BY DEF ToSet
  <2> QED BY <1>1, <2>1 DEF RootsInv, RootInv, LiveIn, FramesIn
<1>4. ASSUME NEW o \in DOMAIN mem[ToSpace] PROVE HasSize(mem[ToSpace][o]) /\ o < scanPtr
  <2>1. HasSize(mem[ToSpace][o]) /\ o + Words(mem[ToSpace][o]) <= allocPtr
    BY <1>1 DEF HeapInv, Tiled
  <2>2. o \in Nat BY <1>2, Spaces DEF IsMemory
  <2> QED BY <1>2, <2>1, <2>2, SizeHeader
<1>5. \A o \in DOMAIN mem[ToSpace] : FieldsIn(mem[ToSpace][o], Refs(mem, ToSpace))
  BY <1>1, <1>4 DEF HeapInv, ToInv, FieldsIn
<1> QED BY <1>3, <1>4, <1>5

\* The semispaces trade places.
LEMMA SwapStep == IInv /\ Swap => IInv'
<1> SUFFICES ASSUME IInv, Swap PROVE IInv' OBVIOUS
<1>1. /\ Collecting /\ todo = <<>> /\ scanPtr = allocPtr
      /\ cur' = ToSpace /\ heapPointer' = allocPtr
      /\ mem' = [mem EXCEPT ![cur] = EmptySpace]
      /\ pc' \in {"resize", "last"}
      /\ UNCHANGED <<program, request>>
  BY DEF Swap
<1>2. /\ TypeInv /\ CallInv /\ HeapInv(mem, cur, ToSpace, allocPtr, scanPtr, scanField) /\ RootsInv
  BY <1>1, CopyingHeap DEF IInv
<1>3. /\ cur \in {0, 1} /\ IsMemory(mem) /\ allocPtr \in Nat
  BY <1>2 DEF TypeInv, HeapInv
<1>4. /\ IsMemory(mem') /\ mem'[ToSpace] = mem[ToSpace] /\ DOMAIN mem'[cur] = {}
  BY <1>1, <1>3, WipeMemory
<1>5. cur' \in {0, 1} /\ ToSpace' = cur
  BY <1>1, <1>3 DEF ToSpace
<1>6. Refs(mem', cur') = Refs(mem, ToSpace)
  BY <1>1, <1>4 DEF Refs
<1>7. UNCHANGED <<stack, globals, cvars, clive, inC, additionalRoots, request>>
  BY <1>1 DEF program
<1>8. UNCHANGED <<ToSet(additionalRoots), frame>> BY <1>7 DEF ToSet, frame, top
<1>9. TypeInv'
  <2>1. heapPointer' \in Nat /\ pc' \in HS!PCs BY <1>1, <1>3 DEF HS!PCs
  <2> QED BY <1>2, <1>4, <1>5, <1>7, <2>1 DEF TypeInv, IsMemory, IsBlock
<1>10. CallInv'
  <2>1. Allocating BY <1>1 DEF Collecting, Allocating
  <2> QED BY <1>2, <1>7, <1>8, <2>1 DEF CallInv
<1>11. /\ LiveIn(stack, globals, cvars, clive, Refs(mem, ToSpace))
       /\ \A o \in DOMAIN mem[ToSpace] :
            HasSize(mem[ToSpace][o]) /\ FieldsIn(mem[ToSpace][o], Refs(mem, ToSpace))
  BY <1>1, AllCopied
<1>13. Settled'
  BY <1>1, <1>4, <1>5, <1>6, <1>7, <1>11 DEF Settled, LiveIn, FramesIn, FieldsIn, HasSize
<1>14. ~Collecting' BY <1>1 DEF Collecting
<1> QED BY <1>9, <1>10, <1>13, <1>14 DEF IInv

\* Steps that leave memory and the program's variables alone.
LEMMA SettledStep ==
  ASSUME IInv, ~Collecting, UNCHANGED <<mem, cur, program, request>>, heapPointer' \in Nat,
         pc' \in HS!PCs, ~Collecting', Allocating' => Allocating
  PROVE  IInv'
<1>1. UNCHANGED <<stack, globals, cvars, clive, inC, additionalRoots, ToSpace>>
  BY DEF program, ToSpace
<1>2. UNCHANGED <<ToSet(additionalRoots), frame>> BY <1>1 DEF ToSet, frame, top
<1>3. TypeInv' BY <1>1 DEF IInv, TypeInv, IsMemory, IsBlock
<1>4. CallInv' BY <1>1, <1>2 DEF IInv, CallInv
<1>5. Settled' BY <1>1 DEF IInv, Settled, LiveIn, FramesIn, FieldsIn, HasSize, Refs
<1> QED BY <1>3, <1>4, <1>5 DEF IInv

\* The sizing of the semispaces, and the ends that give up.
LEMMA SizingStep == IInv /\ (Resize \/ LastTryFails \/ MapFails) => IInv'
<1>1. ASSUME IInv, Resize PROVE IInv'
  <2>1. /\ pc = "resize" /\ pc' = "retry" /\ UNCHANGED <<mem, cur, heapPointer, program, request>>
    BY <1>1 DEF Resize
  <2>2. /\ heapPointer \in Nat /\ pc' \in HS!PCs
    BY <1>1, <2>1 DEF IInv, TypeInv, HS!PCs
  <2> QED BY <1>1, <2>1, <2>2, SettledStep DEF Collecting, Allocating
<1>2. ASSUME IInv, LastTryFails PROVE IInv'
  <2>1. /\ pc = "last" /\ pc' = "noResult" /\ UNCHANGED <<mem, cur, program, request>>
        /\ heapPointer' = heapPointer + HS!BlockWords(request.bytes)
    BY <1>2 DEF LastTryFails, HS!Overrun
  <2>2. request.bytes \in Nat BY <1>2, <2>1 DEF IInv, CallInv, Allocating
  <2>3. heapPointer' \in Nat
    <3>1. HS!BlockWords(request.bytes) \in Nat BY <2>2, SizeFacts
    <3>2. heapPointer \in Nat BY <1>2 DEF IInv, TypeInv
    <3> QED BY <2>1, <3>1, <3>2
  <2>4. pc' \in HS!PCs BY <2>1 DEF HS!PCs
  <2> QED BY <1>2, <2>1, <2>3, <2>4, SettledStep DEF Collecting, Allocating
<1>3. ASSUME IInv, MapFails PROVE IInv'
  <2>1. /\ pc \in {"resize", "equalize"} /\ pc' = "exited"
        /\ UNCHANGED <<mem, cur, heapPointer, program, request>>
    BY <1>3 DEF MapFails, HS!MapFails
  <2>2. /\ heapPointer \in Nat /\ pc' \in HS!PCs
    BY <1>3, <2>1 DEF IInv, TypeInv, HS!PCs
  <2> QED BY <1>3, <2>1, <2>2, SettledStep DEF Collecting, Allocating
<1> QED BY <1>1, <1>2, <1>3

\* After the last try the collector leaves.
LEMMA EqualizeAfterStep == IInv /\ EqualizeAfter => IInv'
<1> SUFFICES ASSUME IInv, EqualizeAfter PROVE IInv' OBVIOUS
<1>1. /\ pc = "equalize" /\ pc' = "run" /\ UNCHANGED <<mem, cur, heapPointer, program>>
  BY DEF EqualizeAfter
<1>2. UNCHANGED <<stack, globals, cvars, clive, inC, additionalRoots, ToSpace>>
  BY <1>1 DEF program, ToSpace
<1>3. TypeInv' BY <1>1, <1>2 DEF IInv, TypeInv, IsMemory, IsBlock, HS!PCs
<1>4. CallInv' BY <1>1, <1>2 DEF IInv, CallInv, Allocating, ToSet
<1>5. Settled' BY <1>1, <1>2 DEF IInv, Collecting, Settled, LiveIn, FramesIn, FieldsIn, HasSize, Refs
<1> QED BY <1>1, <1>3, <1>4, <1>5 DEF IInv, Collecting

-----------------------------------------------------------------------------
(***************************************************************************)
(* Frames.                                                                 *)
(***************************************************************************)

\* A slot gets a value; only some slots stay live; a frame is left.
Assign(frames, i, s, v) == [frames EXCEPT ![i].values[s] = v, ![i].live = @ \cup {s}]
Narrow(frames, i, live) == [frames EXCEPT ![i].live = live]

WithFrame(frames, i, new) == [frames EXCEPT ![i] = new]

\* A frame whose live slots refer to S takes another's place.
LEMMA ReplaceFrame ==
  ASSUME NEW frames \in Seq(Frames), NEW i \in DOMAIN frames, NEW new \in Frames,
         NEW changed, changed = WithFrame(frames, i, new),
         NEW S, FramesIn(frames, S), \A n \in new.live : new.values[n] \in S
  PROVE  /\ changed \in Seq(Frames) /\ DOMAIN changed = DOMAIN frames
         /\ Len(changed) = Len(frames) /\ changed[i] = new
         /\ FramesIn(changed, S)
<1>1. changed \in Seq(Frames) /\ Len(changed) = Len(frames) /\ DOMAIN changed = DOMAIN frames
  BY DEF WithFrame
<1>2. changed[i] = new /\ \A j \in DOMAIN frames : j # i => changed[j] = frames[j]
  BY DEF WithFrame
<1>3. FramesIn(changed, S) BY <1>1, <1>2 DEF FramesIn
<1> QED BY <1>1, <1>2, <1>3

\* The stack's slots refer to S after one is set to a member of S.
LEMMA AssignFacts ==
  ASSUME NEW frames \in Seq(Frames), NEW i \in DOMAIN frames, NEW s \in Slots,
         NEW v \in AnyRef, NEW S, FramesIn(frames, S), v \in S
  PROVE  /\ Assign(frames, i, s, v) \in Seq(Frames)
         /\ DOMAIN Assign(frames, i, s, v) = DOMAIN frames
         /\ Len(Assign(frames, i, s, v)) = Len(frames)
         /\ FramesIn(Assign(frames, i, s, v), S)
<1> DEFINE f == frames[i]
           new == [values |-> [f.values EXCEPT ![s] = v], live |-> f.live \cup {s}]
<1>1. f \in Frames OBVIOUS
<1>2. Assign(frames, i, s, v) = [frames EXCEPT
                                ![i] = [f EXCEPT !.values[s] = v, !.live = @ \cup {s}]]
  BY DEF Assign
<1>3. [f EXCEPT !.values[s] = v, !.live = @ \cup {s}] = new
  <2> SUFFICES ASSUME NEW c, c = [f EXCEPT !.values[s] = v, !.live = @ \cup {s}]
               PROVE  c = new
    OBVIOUS
  <2> HIDE DEF f
  <2> QED BY <1>1 DEF Frames
<1>4. new \in Frames /\ \A n \in new.live : new.values[n] = IF n = s THEN v ELSE f.values[n]
  <2> HIDE DEF f
  <2> QED BY <1>1 DEF Frames
<1>5. \A n \in new.live : new.values[n] \in S
  BY <1>4 DEF FramesIn
<1>6. Assign(frames, i, s, v) = WithFrame(frames, i, new)
  BY <1>2, <1>3, Zenon DEF WithFrame
<1> HIDE DEF new, f
<1> QED BY <1>4, <1>5, <1>6, ReplaceFrame

\* And after some are no longer live.
LEMMA NarrowFacts ==
  ASSUME NEW frames \in Seq(Frames), NEW i \in DOMAIN frames, NEW live \in SUBSET frames[i].live,
         NEW S, FramesIn(frames, S)
  PROVE  /\ Narrow(frames, i, live) \in Seq(Frames)
         /\ DOMAIN Narrow(frames, i, live) = DOMAIN frames
         /\ Len(Narrow(frames, i, live)) = Len(frames)
         /\ Narrow(frames, i, live)[i].live = live
         /\ FramesIn(Narrow(frames, i, live), S)
<1> DEFINE f == frames[i]
           new == [values |-> f.values, live |-> live]
<1>1. f \in Frames OBVIOUS
<1>2. Narrow(frames, i, live) = [frames EXCEPT ![i] = [f EXCEPT !.live = live]]
  BY DEF Narrow
<1>3. [f EXCEPT !.live = live] = new
  <2> HIDE DEF f
  <2> QED BY <1>1 DEF Frames
<1>4. new \in Frames
  <2>1. live \in SUBSET f.live OBVIOUS
  <2> HIDE DEF f
  <2> QED BY <1>1, <2>1 DEF Frames
<1>5. \A n \in new.live : new.values[n] \in S
  BY DEF FramesIn
<1>6. new.live = live OBVIOUS
<1>7. Narrow(frames, i, live) = WithFrame(frames, i, new)
  BY <1>2, <1>3, Zenon DEF WithFrame
<1> HIDE DEF new, f
<1> QED BY <1>4, <1>5, <1>6, <1>7, ReplaceFrame

-----------------------------------------------------------------------------
(***************************************************************************)
(* The program's steps.                                                    *)
(***************************************************************************)

\* What the program reads when no collection runs.
LEMMA RunFacts ==
  ASSUME IInv, ~Collecting
  PROVE  /\ Settled /\ IsMemory(mem) /\ cur \in {0, 1}
         /\ stack \in Seq(Frames) /\ stack # <<>> /\ top \in DOMAIN stack /\ top \in Nat
         /\ frame \in Frames
         /\ Refs(mem, cur) \subseteq AnyRef
         /\ FramesIn(stack, Refs(mem, cur))
         /\ \A s \in frame.live : Value(s) \in Refs(mem, cur)
         /\ \A s \in frame.live : InHeap(Value(s)) =>
              /\ Value(s) = <<cur, Value(s)[2]>> /\ Value(s)[2] \in DOMAIN mem[cur]
              /\ BlockAt(Value(s)) = mem[cur][Value(s)[2]]
<1>1. /\ Settled /\ IsMemory(mem) /\ cur \in {0, 1} /\ stack \in Seq(Frames) /\ stack # <<>>
  BY DEF IInv, TypeInv
<1>2. /\ Len(stack) \in Nat /\ Len(stack) \in DOMAIN stack
      /\ stack[Len(stack)] \in Frames
  BY <1>1
<1>3. Refs(mem, cur) \subseteq AnyRef
  BY <1>1, RefFacts
<1>4. FramesIn(stack, Refs(mem, cur)) BY <1>1 DEF Settled, LiveIn
<1>5. \A s \in frame.live : Value(s) \in Refs(mem, cur)
  BY <1>2, <1>4 DEF FramesIn, frame, top, Value
<1>6. ASSUME NEW s \in frame.live, InHeap(Value(s))
      PROVE  /\ Value(s) = <<cur, Value(s)[2]>> /\ Value(s)[2] \in DOMAIN mem[cur]
             /\ BlockAt(Value(s)) = mem[cur][Value(s)[2]]
  BY <1>1, <1>5, <1>6, RefFacts DEF InHeap, BlockAt
<1> QED BY <1>1, <1>2, <1>3, <1>4, <1>5, <1>6 DEF top, frame

\* The program's variables change, and memory does not.
LEMMA ProgramKeeps ==
  ASSUME IInv, pc = "run", UnchangedHeap,
         stack' \in Seq(Frames), stack' # <<>>,
         globals' \in [Globals -> AnyRef], cvars' \in [CVars -> AnyRef],
         clive' \subseteq CVars, additionalRoots' \in Seq(CVars), inC' \in BOOLEAN,
         ToSet(additionalRoots') \subseteq clive', ~inC' => clive' = {},
         LiveIn(stack', globals', cvars', clive', Refs(mem, cur))
  PROVE  IInv'
<1>1. /\ ~Collecting /\ ~Collecting' /\ ~Allocating'
      /\ UNCHANGED <<mem, cur, ToSpace, heapPointer, pc>>
  BY DEF UnchangedHeap, Collecting, Allocating, ToSpace
<1>2. TypeInv' BY <1>1 DEF IInv, TypeInv, IsMemory, IsBlock
<1>3. CallInv' BY <1>1 DEF CallInv, ToSet
<1>4. Settled' BY <1>1 DEF IInv, Settled, LiveIn, FramesIn, FieldsIn, HasSize, Refs
<1> QED BY <1>1, <1>2, <1>3, <1>4 DEF IInv

\* The slot of the innermost frame is set, and nothing else changes.
LEMMA SetTopStep ==
  ASSUME IInv, Running, NEW s \in Slots, NEW v \in Refs(mem, cur), SetTop(s, v),
         UNCHANGED <<cvars, clive, inC, additionalRoots>>, UnchangedHeap,
         globals' = globals
  PROVE  IInv'
<1>1. pc = "run" /\ ~Collecting BY DEF Running, Collecting
<1>2. stack' = Assign(stack, top, s, v) BY DEF SetTop, Assign
<1>3. /\ stack' \in Seq(Frames) /\ stack' # <<>>
      /\ FramesIn(stack', Refs(mem, cur))
  <2> DEFINE new == Assign(stack, top, s, v)
  <2>1. /\ new \in Seq(Frames) /\ Len(new) = Len(stack)
        /\ FramesIn(new, Refs(mem, cur))
    BY <1>1, RunFacts, AssignFacts
  <2>2. Len(stack) # 0 BY <1>1, RunFacts
  <2> HIDE DEF new
  <2> QED BY <1>2, <2>1, <2>2 DEF new
<1>4. LiveIn(stack', globals', cvars', clive', Refs(mem, cur))
  BY <1>1, <1>3, RunFacts DEF Settled, LiveIn
<1>5. TypeInv /\ CallInv BY DEF IInv
<1> QED BY <1>1, <1>3, <1>4, <1>5, ProgramKeeps DEF TypeInv, CallInv, ToSet

\* A load, a constant, and the globals.
LEMMA LoadStep == IInv /\ (Load \/ SetConstant \/ GlobalAccess) => IInv'
<1>1. ASSUME IInv, Load PROVE IInv'
  <2>1. PICK p \in frame.live, dest \in Slots :
               /\ InHeap(Value(p))
               /\ \E i \in ScannedFields(BlockAt(Value(p)).shape) :
                    SetTop(dest, BlockAt(Value(p)).fields[i])
    BY <1>1, Zenon DEF Load
  <2>2. PICK i \in ScannedFields(BlockAt(Value(p)).shape) :
          SetTop(dest, BlockAt(Value(p)).fields[i])
    BY <2>1
  <2>3. ~Collecting BY <1>1 DEF Load, Running, Collecting
  <2>4. BlockAt(Value(p)).fields[i] \in Refs(mem, cur)
    BY <1>1, <2>1, <2>2, <2>3, RunFacts DEF Settled, FieldsIn
  <2>5. /\ Running /\ UnchangedHeap /\ UNCHANGED <<cvars, clive, inC, additionalRoots>>
        /\ globals' = globals
    BY <1>1 DEF Load
  <2> QED BY <1>1, <2>2, <2>4, <2>5, SetTopStep
<1>2. ASSUME IInv, SetConstant PROVE IInv'
  <2>1. PICK dest \in Slots, v \in {Null, Static} : SetTop(dest, v)
    BY <1>2 DEF SetConstant
  <2>2. v \in Refs(mem, cur) BY DEF Refs
  <2>3. /\ Running /\ UnchangedHeap /\ UNCHANGED <<cvars, clive, inC, additionalRoots>>
        /\ globals' = globals
    BY <1>2 DEF SetConstant
  <2> QED BY <1>2, <2>1, <2>2, <2>3, SetTopStep
<1>3. ASSUME IInv, GlobalAccess PROVE IInv'
  <2>1. /\ Running /\ UnchangedHeap /\ UNCHANGED <<cvars, clive, inC, additionalRoots>>
        /\ pc = "run" /\ ~Collecting
    BY <1>3 DEF GlobalAccess, Running, Collecting
  <2>2. PICK g \in Globals :
              \/ \E s \in frame.live : globals' = [globals EXCEPT ![g] = Value(s)] /\ UNCHANGED stack
              \/ \E s \in Slots : SetTop(s, globals[g]) /\ UNCHANGED globals
    BY <1>3, Zenon DEF GlobalAccess
  <2>3. ASSUME NEW s \in frame.live, globals' = [globals EXCEPT ![g] = Value(s)], UNCHANGED stack
        PROVE  IInv'
    <3>1. Value(s) \in Refs(mem, cur) /\ Value(s) \in AnyRef BY <1>3, <2>1, RunFacts
    <3>2. TypeInv /\ CallInv BY <1>3 DEF IInv
    <3>3. globals' \in [Globals -> AnyRef] BY <2>3, <3>1, <3>2 DEF TypeInv
    <3>4. LiveIn(stack, globals, cvars, clive, Refs(mem, cur)) BY <1>3, <2>1, RunFacts DEF Settled
    <3>5. \A h \in Globals : globals'[h] \in Refs(mem, cur)
      BY <2>3, <3>1, <3>2, <3>4 DEF TypeInv, LiveIn
    <3>6. LiveIn(stack', globals', cvars', clive', Refs(mem, cur))
      BY <2>1, <2>3, <3>4, <3>5 DEF LiveIn
    <3> QED BY <1>3, <2>1, <2>3, <3>2, <3>3, <3>6, ProgramKeeps DEF TypeInv, CallInv, ToSet
  <2>4. ASSUME NEW s \in Slots, SetTop(s, globals[g]), UNCHANGED globals PROVE IInv'
    <3>1. globals[g] \in Refs(mem, cur) BY <1>3, <2>1, RunFacts DEF Settled, LiveIn
    <3> QED BY <1>3, <2>1, <2>4, <3>1, SetTopStep
  <2> QED BY <2>2, <2>3, <2>4
<1> QED BY <1>1, <1>2, <1>3

\* A store into an object.
LEMMA StoreStep == IInv /\ Store => IInv'
<1> SUFFICES ASSUME IInv, Store PROVE IInv' OBVIOUS
<1>1. /\ pc = "run" /\ ~Collecting /\ ~Collecting' /\ ~Allocating'
      /\ UNCHANGED <<cur, heapPointer, program, pc, request, ToSpace>>
  BY DEF Store, Running, Collecting, Allocating, ToSpace
<1>2. PICK a \in frame.live, q \in frame.live :
             /\ InHeap(Value(a))
             /\ \E i \in ScannedFields(BlockAt(Value(a)).shape) :
                  mem' = [mem EXCEPT ![cur][Value(a)[2]].fields[i] = Value(q)]
  BY Zenon DEF Store
<1>3. PICK i \in ScannedFields(BlockAt(Value(a)).shape) :
             mem' = [mem EXCEPT ![cur][Value(a)[2]].fields[i] = Value(q)]
  BY <1>2
<1> DEFINE p == Value(a)[2]
           w == Value(q)
<1>4. /\ p \in DOMAIN mem[cur] /\ i \in ScannedFields(mem[cur][p].shape)
      /\ w \in Refs(mem, cur)
      /\ IsMemory(mem) /\ cur \in {0, 1} /\ Settled
  BY <1>1, <1>2, RunFacts
<1>5. mem' = WithField(mem, cur, p, i, w)
  BY <1>3 DEF WithField
<1> HIDE DEF p, w
<1>6. /\ IsMemory(mem')
      /\ \A r \in {0, 1} : DOMAIN mem'[r] = DOMAIN mem[r] /\ Refs(mem', r) = Refs(mem, r)
      /\ \A r \in {0, 1} : \A o \in DOMAIN mem[r] : r # cur \/ o # p => mem'[r][o] = mem[r][o]
      /\ mem'[cur][p].header = mem[cur][p].header /\ mem'[cur][p].shape = mem[cur][p].shape
      /\ mem'[cur][p].fields[i] = w
      /\ \A j \in ScannedFields(mem[cur][p].shape) :
           j # i => mem'[cur][p].fields[j] = mem[cur][p].fields[j]
  <2>1. FieldChanged(mem', mem, cur, p, i, w) BY <1>4, <1>5, FieldFacts
  <2> QED BY <2>1 DEF FieldChanged
<1>7. UNCHANGED <<stack, globals, cvars, clive, inC, additionalRoots>>
  BY <1>1 DEF program
<1>8. TypeInv' BY <1>1, <1>6, <1>7 DEF IInv, TypeInv, IsMemory, IsBlock
<1>9. CallInv' BY <1>1, <1>7 DEF IInv, CallInv, ToSet
<1>10. Settled'
  <2>1. Refs(mem', cur') = Refs(mem, cur) BY <1>1, <1>4, <1>6
  <2>2. LiveIn(stack', globals', cvars', clive', Refs(mem', cur'))
    BY <1>4, <1>7, <2>1 DEF Settled, LiveIn, FramesIn
  <2>3. DOMAIN mem'[ToSpace] = {}
    BY <1>4, <1>6, Spaces DEF Settled
  <2>4. ASSUME NEW o \in DOMAIN mem[cur]
        PROVE  HasSize(mem'[cur][o]) /\ FieldsIn(mem'[cur][o], Refs(mem, cur))
    <3>1. HasSize(mem[cur][o]) /\ FieldsIn(mem[cur][o], Refs(mem, cur)) BY <1>4 DEF Settled
    <3>2. CASE o # p
      <4>1. mem'[cur][o] = mem[cur][o] BY <1>4, <1>6, <3>2
      <4> QED BY <3>1, <4>1
    <3>3. CASE o = p
      <4>1. HasSize(mem'[cur][o]) BY <1>6, <3>1, <3>3 DEF HasSize
      <4>2. \A j \in ScannedFields(mem'[cur][o].shape) : mem'[cur][o].fields[j] \in Refs(mem, cur)
        BY <1>4, <1>6, <3>1, <3>3 DEF FieldsIn
      <4> QED BY <4>1, <4>2 DEF FieldsIn
    <3> QED BY <3>2, <3>3
  <2>5. DOMAIN mem'[cur] = DOMAIN mem[cur] BY <1>4, <1>6
  <2> QED BY <1>1, <2>1, <2>2, <2>3, <2>4, <2>5 DEF Settled, LiveIn, FramesIn, FieldsIn, HasSize
<1> QED BY <1>1, <1>8, <1>9, <1>10 DEF IInv

\* A call, and a return.
LEMMA CallStep == IInv /\ (Call \/ Return) => IInv'
<1>1. ASSUME IInv, Call PROVE IInv'
  <2>1. /\ Running /\ pc = "run" /\ ~Collecting /\ UnchangedHeap
        /\ UNCHANGED <<globals, cvars, clive, inC, additionalRoots>>
    BY <1>1 DEF Call, Running, Collecting
  <2>2. PICK live \in SUBSET frame.live, s \in frame.live, param \in Slots :
               stack' = Append([stack EXCEPT ![top].live = live],
                               [values |-> [t \in Slots |-> IF t = param THEN Value(s) ELSE Null],
                                live   |-> {param}])
    BY <1>1, Zenon DEF Call
  <2> DEFINE caller == Narrow(stack, top, live)
             callee == [values |-> [t \in Slots |-> IF t = param THEN Value(s) ELSE Null],
                        live   |-> {param}]
  <2>3. stack' = Append(caller, callee) BY <2>2 DEF Narrow
  <2>4. /\ caller \in Seq(Frames) /\ FramesIn(caller, Refs(mem, cur))
    <3>1. /\ stack \in Seq(Frames) /\ top \in DOMAIN stack /\ live \in SUBSET stack[top].live
          /\ FramesIn(stack, Refs(mem, cur))
      BY <1>1, <2>1, RunFacts DEF frame
    <3> QED BY <3>1, NarrowFacts
  <2>5. Value(s) \in Refs(mem, cur) /\ Value(s) \in AnyRef BY <1>1, <2>1, RunFacts
  <2>6. callee \in Frames /\ \A n \in callee.live : callee.values[n] \in Refs(mem, cur)
    <3>1. Null \in AnyRef BY DEF AnyRef
    <3> QED BY <2>5, <3>1 DEF Frames
  <2> HIDE DEF caller, callee
  <2>7. /\ stack' \in Seq(Frames) /\ stack' # <<>>
        /\ FramesIn(stack', Refs(mem, cur))
    <3>1. /\ stack' \in Seq(Frames)
          /\ DOMAIN stack' = 1 .. Len(caller) + 1 /\ Len(caller) \in Nat
          /\ DOMAIN caller = 1 .. Len(caller)
          /\ stack'[Len(caller) + 1] = callee
          /\ \A j \in DOMAIN caller : stack'[j] = caller[j]
      BY <2>3, <2>4, <2>6
    <3>2. stack' # <<>> BY <3>1
    <3>3. \A j \in DOMAIN stack' : j \in DOMAIN caller \/ j = Len(caller) + 1 BY <3>1
    <3> QED BY <2>4, <2>6, <3>1, <3>2, <3>3 DEF FramesIn
  <2>8. LiveIn(stack', globals', cvars', clive', Refs(mem, cur))
    BY <1>1, <2>1, <2>7, RunFacts DEF Settled, LiveIn
  <2> QED BY <1>1, <2>1, <2>7, <2>8, ProgramKeeps DEF IInv, TypeInv, CallInv, ToSet
<1>2. ASSUME IInv, Return PROVE IInv'
  <2>1. /\ Running /\ pc = "run" /\ ~Collecting /\ UnchangedHeap /\ top > 1
        /\ UNCHANGED <<globals, cvars, clive, inC, additionalRoots>>
    BY <1>2 DEF Return, Running, Collecting
  <2>2. PICK s \in frame.live, dest \in Slots :
               stack' = Assign(Front(stack), top - 1, dest, Value(s))
    BY <1>2, Zenon DEF Return, Assign
  <2>3. /\ Front(stack) \in Seq(Frames) /\ top - 1 \in DOMAIN Front(stack)
        /\ FramesIn(Front(stack), Refs(mem, cur))
    <3>1. /\ stack \in Seq(Frames) /\ top \in Nat /\ FramesIn(stack, Refs(mem, cur))
          /\ DOMAIN stack = 1 .. top
      <4>1. stack \in Seq(Frames) /\ top \in Nat /\ FramesIn(stack, Refs(mem, cur))
        BY <1>2, <2>1, RunFacts
      <4> QED BY <4>1 DEF top
    <3>2. \A j \in 1 .. top - 1 : stack[j] \in Frames BY <3>1
    <3>3. /\ Front(stack) \in Seq(Frames) /\ DOMAIN Front(stack) = 1 .. top - 1
          /\ \A j \in 1 .. top - 1 : Front(stack)[j] = stack[j]
      <4>1. Front(stack) = SubSeq(stack, 1, top - 1) BY DEF Front, top
      <4>2. /\ Front(stack) \in Seq(Frames) /\ Len(Front(stack)) = top - 1
            /\ \A j \in 1 .. top - 1 : Front(stack)[j] = stack[j]
        BY <2>1, <3>1, <3>2, <4>1, SubSeqProperties
      <4> QED BY <4>2
    <3> QED BY <2>1, <3>1, <3>3 DEF FramesIn
  <2>4. Value(s) \in Refs(mem, cur) /\ Value(s) \in AnyRef BY <1>2, <2>1, RunFacts
  <2>5. /\ stack' \in Seq(Frames) /\ stack' # <<>>
        /\ FramesIn(stack', Refs(mem, cur))
    <3>1. /\ stack' \in Seq(Frames) /\ DOMAIN stack' = DOMAIN Front(stack)
          /\ FramesIn(stack', Refs(mem, cur))
      BY <2>2, <2>3, <2>4, AssignFacts
    <3> QED BY <2>3, <3>1
  <2>6. LiveIn(stack', globals', cvars', clive', Refs(mem, cur))
    BY <1>2, <2>1, <2>5, RunFacts DEF Settled, LiveIn
  <2> QED BY <1>2, <2>1, <2>5, <2>6, ProgramKeeps DEF IInv, TypeInv, CallInv, ToSet
<1> QED BY <1>1, <1>2

\* A call of a C function, and its return.
LEMMA CallCStep == IInv /\ (CallC \/ ReturnFromC) => IInv'
<1>1. ASSUME IInv, CallC PROVE IInv'
  <2>1. /\ pc = "run" /\ ~inC /\ ~Collecting /\ UnchangedHeap /\ inC' = TRUE
        /\ UNCHANGED <<globals, additionalRoots>>
    BY <1>1 DEF CallC, Running, Collecting
  <2>2. PICK live \in SUBSET frame.live, s \in frame.live, c \in CVars :
               /\ stack' = Narrow(stack, top, live)
               /\ cvars' = [cvars EXCEPT ![c] = Value(s)]
               /\ clive' = {c}
    BY <1>1, Zenon DEF CallC, Narrow
  <2>3. /\ stack' \in Seq(Frames) /\ stack' # <<>> /\ FramesIn(stack', Refs(mem, cur))
    <3>1. /\ stack \in Seq(Frames) /\ top \in DOMAIN stack /\ live \in SUBSET stack[top].live
          /\ FramesIn(stack, Refs(mem, cur))
      BY <1>1, <2>1, RunFacts DEF frame
    <3>2. /\ stack' \in Seq(Frames) /\ DOMAIN stack' = DOMAIN stack
          /\ FramesIn(stack', Refs(mem, cur))
      BY <2>2, <3>1, NarrowFacts
    <3> QED BY <3>1, <3>2
  <2>4. Value(s) \in Refs(mem, cur) /\ Value(s) \in AnyRef BY <1>1, <2>1, RunFacts
  <2>5. TypeInv /\ CallInv BY <1>1 DEF IInv
  <2>6. cvars' \in [CVars -> AnyRef] /\ cvars'[c] = Value(s)
    BY <2>2, <2>4, <2>5 DEF TypeInv
  <2>7. ToSet(additionalRoots') = {}
    BY <2>1, <2>5 DEF CallInv, ToSet
  <2>8. LiveIn(stack', globals', cvars', clive', Refs(mem, cur))
    BY <1>1, <2>1, <2>2, <2>3, <2>4, <2>6, RunFacts DEF Settled, LiveIn
  <2> QED BY <1>1, <2>1, <2>2, <2>3, <2>5, <2>6, <2>7, <2>8, ProgramKeeps DEF TypeInv
<1>2. ASSUME IInv, ReturnFromC PROVE IInv'
  <2>1. /\ pc = "run" /\ ~Collecting /\ UnchangedHeap
        /\ additionalRoots = <<>> /\ clive' = {} /\ inC' = FALSE
        /\ cvars' = [c \in CVars |-> Null]
        /\ UNCHANGED <<globals, additionalRoots>>
    BY <1>2 DEF ReturnFromC, Collecting
  <2>2. PICK c \in clive, dest \in Slots : stack' = Assign(stack, top, dest, cvars[c])
    BY <1>2, Zenon DEF ReturnFromC, SetTop, Assign
  <2>3. cvars[c] \in Refs(mem, cur) /\ cvars[c] \in AnyRef
    BY <1>2, <2>1, RunFacts DEF Settled, LiveIn
  <2>4. /\ stack' \in Seq(Frames) /\ stack' # <<>> /\ FramesIn(stack', Refs(mem, cur))
    <3>1. /\ stack \in Seq(Frames) /\ top \in DOMAIN stack /\ FramesIn(stack, Refs(mem, cur))
      BY <1>2, <2>1, RunFacts
    <3>2. /\ stack' \in Seq(Frames) /\ DOMAIN stack' = DOMAIN stack
          /\ FramesIn(stack', Refs(mem, cur))
      BY <2>2, <2>3, <3>1, AssignFacts
    <3> QED BY <3>1, <3>2
  <2>5. cvars' \in [CVars -> AnyRef] BY <2>1 DEF AnyRef
  <2>6. ToSet(additionalRoots') = {} BY <2>1 DEF ToSet
  <2>7. LiveIn(stack', globals', cvars', clive', Refs(mem, cur))
    BY <1>2, <2>1, <2>4, RunFacts DEF Settled, LiveIn
  <2> QED BY <1>2, <2>1, <2>4, <2>5, <2>6, <2>7, ProgramKeeps DEF IInv, TypeInv
<1> QED BY <1>1, <1>2

\* The list of roots a C function keeps.
LEMMA RootListStep == IInv /\ (addRoot \/ removeRoots) => IInv'
<1> SUFFICES ASSUME IInv, addRoot \/ removeRoots PROVE IInv' OBVIOUS
<1>1. /\ pc = "run" /\ inC /\ ~Collecting /\ UnchangedHeap
      /\ UNCHANGED <<stack, globals, cvars, clive, inC>>
  BY DEF addRoot, removeRoots, Collecting
<1>2. TypeInv /\ CallInv BY DEF IInv
<1>3. additionalRoots' \in Seq(CVars) /\ ToSet(additionalRoots') \subseteq clive
  <2>1. CASE addRoot
    <3>1. PICK c \in clive : additionalRoots' = <<c>> \o additionalRoots
      BY <2>1 DEF addRoot
    <3> DEFINE first == <<c>>
    <3>2. first \in Seq(CVars) /\ ToSet(first) = {c} /\ additionalRoots \in Seq(CVars)
      BY <1>2 DEF TypeInv, ToSet
    <3> HIDE DEF first
    <3>3. /\ first \o additionalRoots \in Seq(CVars)
          /\ ToSet(first \o additionalRoots) = {c} \cup ToSet(additionalRoots)
      BY <3>2, ConcatElements
    <3> QED BY <1>2, <3>1, <3>3 DEF CallInv, first
  <2>2. CASE removeRoots
    <3>1. PICK i \in DOMAIN additionalRoots :
                 additionalRoots' = SubSeq(additionalRoots, i + 1, Len(additionalRoots))
      BY <2>2 DEF removeRoots
    <3> DEFINE r == additionalRoots
               n == Len(r)
    <3>2. r \in Seq(CVars) /\ n \in Nat /\ DOMAIN r = 1 .. n /\ i \in 1 .. n
      BY <1>2 DEF TypeInv
    <3> HIDE DEF r
    <3>3. /\ SubSeq(r, i + 1, n) \in Seq(CVars)
          /\ Len(SubSeq(r, i + 1, n)) = n - i
          /\ \A j \in 1 .. n - i : SubSeq(r, i + 1, n)[j] = r[i + j] /\ i + j \in DOMAIN r
      <4>1. \A j \in i + 1 .. n : r[j] \in CVars BY <3>2
      <4>2. /\ SubSeq(r, i + 1, n) \in Seq(CVars)
            /\ Len(SubSeq(r, i + 1, n)) = IF i + 1 <= n THEN n - (i + 1) + 1 ELSE 0
            /\ \A j \in 1 .. n - (i + 1) + 1 : SubSeq(r, i + 1, n)[j] = r[(i + 1) + j - 1]
        BY <3>2, <4>1, SubSeqProperties
      <4> HIDE DEF n
      <4>3. Len(SubSeq(r, i + 1, n)) = n - i BY <3>2, <4>2
      <4>4. ASSUME NEW j \in 1 .. n - i
            PROVE  SubSeq(r, i + 1, n)[j] = r[i + j] /\ i + j \in DOMAIN r
        <5>1. (i + 1) + j - 1 = i + j /\ j \in 1 .. n - (i + 1) + 1 /\ i + j \in 1 .. n BY <3>2
        <5>2. SubSeq(r, i + 1, n)[j] = r[(i + 1) + j - 1] BY <4>2, <5>1
        <5> QED BY <3>2, <5>1, <5>2
      <4> QED BY <4>2, <4>3, <4>4
    <3>4. ToSet(SubSeq(r, i + 1, n)) \subseteq ToSet(r)
      BY <3>3 DEF ToSet
    <3> QED BY <1>2, <3>1, <3>3, <3>4 DEF CallInv, r
  <2> QED BY <2>1, <2>2
<1>4. LiveIn(stack', globals', cvars', clive', Refs(mem, cur))
  BY <1>1, RunFacts DEF Settled, LiveIn
<1>5. stack' \in Seq(Frames) /\ stack' # <<>> BY <1>1, <1>2 DEF TypeInv
<1> QED BY <1>1, <1>2, <1>3, <1>4, <1>5, ProgramKeeps DEF TypeInv
-----------------------------------------------------------------------------
(***************************************************************************)
(* The roots of a collection.                                              *)
(***************************************************************************)
RootRecords ==
  {StackRoot(i, n) : i \in Nat, n \in Slots} \cup {CRoot(c) : c \in CVars}
    \cup {GlobalRoot(g) : g \in Globals}

\* A function on the positions of a sequence is one.
LEMMA MapElements ==
  ASSUME NEW S, NEW T, NEW q \in Seq(S), NEW F \in [DOMAIN q -> T]
  PROVE  F \in Seq(T) /\ ToSet(F) = {F[n] : n \in DOMAIN q}
<1>1. DOMAIN q = 1 .. Len(q) /\ Len(q) \in Nat OBVIOUS
<1>2. F \in [1 .. Len(q) -> T] BY <1>1
<1>3. F \in Seq(T) BY <1>1, <1>2
<1> QED BY <1>1, <1>2, <1>3 DEF ToSet

\* The stack's part of the list has one root for every live slot.
LEMMA StackRootsElements ==
  ASSUME NEW frames \in Seq(Frames)
  PROVE  /\ StackRoots(frames) \in Seq(RootRecords)
         /\ \A r : r \in ToSet(StackRoots(frames)) <=>
              \E i \in DOMAIN frames : \E n \in frames[i].live : r = StackRoot(i, n)
<1> DEFINE At(k) == Len(frames) + 1 - k
           Names(i) == InOrder(frames[i].live)
           Row(i) == [n \in DOMAIN Names(i) |-> StackRoot(i, Names(i)[n])]
           rows == [k \in DOMAIN frames |-> Row(At(k))]
<1>1. /\ Len(frames) \in Nat /\ DOMAIN frames = 1 .. Len(frames)
      /\ \A i \in DOMAIN frames : frames[i] \in Frames
  OBVIOUS
<1>2. /\ \A k \in DOMAIN frames : At(k) \in DOMAIN frames
      /\ \A i \in DOMAIN frames : At(i) \in DOMAIN frames /\ At(At(i)) = i
  BY <1>1
<1>3. ASSUME NEW i \in DOMAIN frames
      PROVE  /\ Row(i) \in Seq(RootRecords)
             /\ \A r : r \in ToSet(Row(i)) <=> \E n \in frames[i].live : r = StackRoot(i, n)
  <2>1. frames[i].live \subseteq Slots /\ i \in Nat
    BY <1>1 DEF Frames
  <2>2. IsFiniteSet(frames[i].live) BY <2>1, NamesAssumption, FS_Subset
  <2>3. Names(i) \in Seq(frames[i].live) /\ ToSet(Names(i)) = frames[i].live
    BY <2>2, SetToSeqElements DEF InOrder
  <2> DEFINE q == Names(i)
             F == Row(i)
  <2>4. F = [n \in DOMAIN q |-> F[n]] /\ \A n \in DOMAIN q : F[n] = StackRoot(i, q[n])
    OBVIOUS
  <2>5. \A n \in DOMAIN q : q[n] \in frames[i].live BY <2>3 DEF ToSet
  <2> HIDE DEF q, F
  <2>6. F \in [DOMAIN q -> RootRecords]
    BY <2>1, <2>4, <2>5 DEF RootRecords
  <2>7. F \in Seq(RootRecords) /\ ToSet(F) = {F[n] : n \in DOMAIN q}
    BY <2>3, <2>4, <2>6, MapElements DEF q
  <2>8. ASSUME NEW r PROVE r \in ToSet(F) <=> \E n \in frames[i].live : r = StackRoot(i, n)
    <3>1. r \in ToSet(F) <=> \E n \in DOMAIN q : r = StackRoot(i, q[n]) BY <2>4, <2>7
    <3>2. \A x : x \in frames[i].live <=> \E n \in DOMAIN q : x = q[n] BY <2>3 DEF ToSet, q
    <3> QED BY <3>1, <3>2
  <2> QED BY <2>7, <2>8 DEF F
<1> HIDE DEF Row
<1>4. rows \in Seq(Seq(RootRecords)) /\ DOMAIN rows = DOMAIN frames
  BY <1>1, <1>2, <1>3
<1>5. StackRoots(frames) = FlattenSeq(rows)
  BY Zenon DEF StackRoots, Row, StackRoot
<1>6. /\ FlattenSeq(rows) \in Seq(RootRecords)
      /\ ToSet(FlattenSeq(rows)) = UNION {ToSet(rows[k]) : k \in DOMAIN rows}
  <2> HIDE DEF rows
  <2> QED BY <1>4, FlattenSeqElements
<1>7. ASSUME NEW r
      PROVE  r \in ToSet(FlattenSeq(rows)) <=> \E i \in DOMAIN frames : r \in ToSet(Row(i))
  <2>1. \A k \in DOMAIN rows : rows[k] = Row(At(k)) /\ At(k) \in DOMAIN frames BY <1>2, <1>4
  <2>2. ASSUME NEW i \in DOMAIN frames PROVE rows[At(i)] = Row(i) /\ At(i) \in DOMAIN rows
    <3>1. At(i) \in DOMAIN frames /\ At(At(i)) = i BY <1>2
    <3> HIDE DEF At
    <3> QED BY <1>4, <3>1
  <2> HIDE DEF rows, At
  <2> QED BY <1>4, <1>6, <2>1, <2>2
<1> HIDE DEF rows
<1>8. ASSUME NEW r
      PROVE  r \in ToSet(FlattenSeq(rows)) <=>
               \E i \in DOMAIN frames : \E n \in frames[i].live : r = StackRoot(i, n)
  <2>1. \A i \in DOMAIN frames :
          r \in ToSet(Row(i)) <=> \E n \in frames[i].live : r = StackRoot(i, n)
    BY <1>3
  <2> QED BY <1>7, <2>1
<1> QED BY <1>5, <1>6, <1>8

\* All the roots: those of the stack, of C functions, and the globals.
HoldsRoots(all, frames) ==
  /\ all \in Seq(RootRecords)
  /\ \A r : r \in ToSet(all) <=>
       \/ \E i \in DOMAIN frames : \E n \in frames[i].live : r = StackRoot(i, n)
       \/ \E c \in ToSet(additionalRoots) : r = CRoot(c)
       \/ \E g \in Globals : r = GlobalRoot(g)

\* The list a collection starts with holds each root, and only roots.
LEMMA AllRoots ==
  ASSUME NEW frames \in Seq(Frames), additionalRoots \in Seq(CVars)
  PROVE  HoldsRoots(StackRoots(frames) \o CRoots \o GlobalRoots, frames)
<1>1. /\ CRoots \in Seq(RootRecords)
      /\ \A r : r \in ToSet(CRoots) <=> \E c \in ToSet(additionalRoots) : r = CRoot(c)
  <2> DEFINE q == additionalRoots
             F == CRoots
  <2>1. F = [n \in DOMAIN q |-> F[n]] /\ \A n \in DOMAIN q : F[n] = CRoot(q[n])
    BY DEF CRoots, CRoot
  <2> HIDE DEF F
  <2>2. F \in [DOMAIN q -> RootRecords] BY <2>1 DEF RootRecords
  <2>3. F \in Seq(RootRecords) /\ ToSet(F) = {F[n] : n \in DOMAIN q} BY <2>1, <2>2, MapElements
  <2>4. \A r : r \in ToSet(F) <=> \E c \in ToSet(q) : r = CRoot(c)
    BY <2>1, <2>3 DEF ToSet
  <2> QED BY <2>3, <2>4 DEF F
<1>2. /\ GlobalRoots \in Seq(RootRecords)
      /\ \A r : r \in ToSet(GlobalRoots) <=> \E g \in Globals : r = GlobalRoot(g)
  <2> DEFINE q == InOrder(Globals)
             F == GlobalRoots
  <2>1. F = [n \in DOMAIN q |-> F[n]] /\ \A n \in DOMAIN q : F[n] = GlobalRoot(q[n])
    BY DEF GlobalRoots, GlobalRoot
  <2>2. q \in Seq(Globals) /\ ToSet(q) = Globals
    BY NamesAssumption, SetToSeqElements DEF InOrder
  <2> HIDE DEF F, q
  <2>3. F \in [DOMAIN q -> RootRecords] BY <2>1, <2>2 DEF RootRecords
  <2>4. F \in Seq(RootRecords) /\ ToSet(F) = {F[n] : n \in DOMAIN q} BY <2>2, <2>3, MapElements
  <2>5. \A r : r \in ToSet(F) <=> \E g \in ToSet(q) : r = GlobalRoot(g)
    BY <2>1, <2>4 DEF ToSet
  <2> QED BY <2>2, <2>4, <2>5 DEF F
<1> DEFINE a == StackRoots(frames)
           b == CRoots
           c == GlobalRoots
           all == a \o b \o c
<1>3. a \in Seq(RootRecords) /\ b \in Seq(RootRecords) /\ c \in Seq(RootRecords)
  BY <1>1, <1>2, StackRootsElements
<1>4. all = (a \o b) \o c OBVIOUS
<1> HIDE DEF a, b, c
<1>5. (a \o b) \in Seq(RootRecords) /\ ToSet(a \o b) = ToSet(a) \cup ToSet(b)
  BY <1>3, ConcatElements
<1> DEFINE ab == a \o b
<1>6. ab \in Seq(RootRecords) /\ all = ab \o c BY <1>4, <1>5
<1> HIDE DEF ab, all
<1>7. all \in Seq(RootRecords) /\ ToSet(all) = ToSet(ab) \cup ToSet(c)
  BY <1>3, <1>6, ConcatElements
<1>8. ToSet(all) = ToSet(a) \cup ToSet(b) \cup ToSet(c) BY <1>5, <1>7 DEF ab
<1>9. \A r : r \in ToSet(a) <=>
              \E i \in DOMAIN frames : \E n \in frames[i].live : r = StackRoot(i, n)
  BY StackRootsElements DEF a
<1> QED BY <1>1, <1>2, <1>7, <1>8, <1>9 DEF a, b, c, all, HoldsRoots
-----------------------------------------------------------------------------
(***************************************************************************)
(* Allocation.                                                             *)
(***************************************************************************)

\* A block is put into a semispace.
PutIn(m, s, offset, block) == [m EXCEPT ![s] = Put(@, offset, block)]

BlockAdded(m2, m, s, offset, block) ==
  /\ IsMemory(m2)
  /\ DOMAIN m2[s] = DOMAIN m[s] \cup {offset}
  /\ m2[s][offset] = block
  /\ \A o \in DOMAIN m[s] : o # offset => m2[s][o] = m[s][o]
  /\ \A r \in {0, 1} : r # s => m2[r] = m[r]

\* What the added block leaves alone.
LEMMA PutFacts ==
  ASSUME NEW m, IsMemory(m), NEW s \in {0, 1}, NEW offset \in Nat, NEW block, IsBlock(block),
         NEW m2, m2 = PutIn(m, s, offset, block)
  PROVE  BlockAdded(m2, m, s, offset, block)
<1> DEFINE space == Put(m[s], offset, block)
<1>1. /\ DOMAIN space = DOMAIN m[s] \cup {offset} /\ space[offset] = block
      /\ \A o \in DOMAIN m[s] : o # offset => space[o] = m[s][o]
      /\ space = [o \in DOMAIN space |-> space[o]]
  BY DEF Put
<1> HIDE DEF space
<1>2. /\ m2 = [r \in {0, 1} |-> m2[r]] /\ m2[s] = space
      /\ \A r \in {0, 1} : r # s => m2[r] = m[r]
  <2>1. m = [r \in {0, 1} |-> m[r]] BY DEF IsMemory
  <2> QED BY <2>1 DEF space, PutIn
<1>3. ASSUME NEW o \in DOMAIN space PROVE o \in Nat /\ IsBlock(space[o])
  BY <1>1 DEF IsMemory
<1>4. ASSUME NEW r \in {0, 1}
      PROVE  /\ m2[r] = [o \in DOMAIN m2[r] |-> m2[r][o]]
             /\ DOMAIN m2[r] \subseteq Nat
             /\ \A o \in DOMAIN m2[r] : IsBlock(m2[r][o])
  <2>1. CASE r = s BY <1>1, <1>2, <1>3, <2>1
  <2>2. CASE r # s
    <3>1. m2[r] = m[r] BY <1>2, <2>2
    <3>2. /\ m[r] = [o \in DOMAIN m[r] |-> m[r][o]]
          /\ DOMAIN m[r] \subseteq Nat
          /\ \A o \in DOMAIN m[r] : IsBlock(m[r][o])
      BY DEF IsMemory
    <3> QED BY <3>1, <3>2, Zenon
  <2> QED BY <2>1, <2>2
<1>5. IsMemory(m2) BY <1>2, <1>4 DEF IsMemory
<1> QED BY <1>1, <1>2, <1>5 DEF BlockAdded

\* What a request asks for.
Sound(want, frames, live) ==
  /\ want.bytes \in Nat
  /\ want.shape \in AllShapes
  /\ want.dest \in Slots \cup CVars
  /\ want.dest \in CVars => inC
  /\ want.init \in {"null"} \cup frames[Len(frames)].live \cup live

\* The value the new object's fields get.
LEMMA InitFacts ==
  ASSUME IInv, ~Collecting, NEW init \in {"null"} \cup frame.live \cup clive
  PROVE  InitValue(init) \in Refs(mem, cur)
<1>1. /\ frame \in Frames /\ clive \subseteq CVars
      /\ \A c \in clive : cvars[c] \in Refs(mem, cur)
      /\ \A s \in frame.live : Value(s) \in Refs(mem, cur)
  BY RunFacts DEF IInv, TypeInv, Settled, LiveIn
<1>2. frame.live \subseteq Slots BY <1>1 DEF Frames
<1>3. CASE init = "null"
  <2>1. InitValue(init) = Null BY <1>3, NamesAssumption DEF InitValue
  <2> QED BY <2>1 DEF Refs
<1>4. CASE init \in frame.live
  <2>1. init \in Slots /\ init # "null" /\ init \notin CVars BY <1>2, <1>4, NamesAssumption
  <2>2. InitValue(init) = Value(init) BY <2>1 DEF InitValue
  <2> QED BY <1>1, <1>4, <2>2
<1>5. CASE init \in clive
  <2>1. init \in CVars /\ init # "null" /\ init \notin Slots BY <1>1, <1>5, NamesAssumption
  <2>2. InitValue(init) = cvars[init] BY <2>1 DEF InitValue
  <2> QED BY <1>1, <1>5, <2>2
<1> QED BY <1>3, <1>4, <1>5

\* The new object is a block.
LEMMA NewBlockFacts ==
  ASSUME NEW id, NEW want, want.bytes \in Nat, want.shape \in AllShapes,
         NEW R, InitValue(want.init) \in R
  PROVE  /\ IsBlock(NewBlock(id, want))
         /\ HasSize(NewBlock(id, want))
         /\ FieldsIn(NewBlock(id, want), R)
<1> DEFINE shape == want.shape
           words == HS!SizeInWords(want.bytes)
           fields == [i \in DOMAIN shape.refs |->
                        IF i \in ScannedFields(shape) THEN InitValue(want.init) ELSE Raw]
           block == NewBlock(id, want)
<1>1. block = [id |-> id, shape |-> shape, header |-> <<words>>, fields |-> fields]
  BY DEF NewBlock
<1>2. words \in Nat BY SizeFacts
<1>3. ScannedFields(shape) \subseteq DOMAIN shape.refs BY ShapeFacts
<1>4. /\ fields = [i \in DOMAIN shape.refs |-> fields[i]]
      /\ \A i \in ScannedFields(shape) : fields[i] \in R
  BY <1>3
<1> HIDE DEF shape, words, fields, block
<1>5. block.shape = shape /\ block.header = <<words>> /\ block.fields = fields /\ block.id = id
  BY <1>1
<1>6. IsBlock(block) BY <1>1, <1>4, <1>5 DEF IsBlock, shape
<1>7. HasSize(block) BY <1>2, <1>5 DEF HasSize
<1>8. FieldsIn(block, R) BY <1>4, <1>5 DEF FieldsIn
<1> QED BY <1>6, <1>7, <1>8 DEF block

\* The object is made.
LEMMA DeliverKeeps ==
  ASSUME IInv, ~Collecting, NEW want, NEW frames \in Seq(Frames), NEW live \in SUBSET clive,
         Sound(want, frames, live), Len(frames) = top, FramesIn(frames, Refs(mem, cur)),
         InitValue(want.init) \in Refs(mem, cur),
         ToSet(additionalRoots) \subseteq live, Deliver(want, frames, live),
         pc' \in {"run", "equalize"}
  PROVE  IInv'
<1> DEFINE R == Refs(mem, cur)
           R2 == R \cup {<<cur, heapPointer>>}
<1>1. /\ TypeInv /\ CallInv /\ Settled /\ IsMemory(mem) /\ cur \in {0, 1} /\ heapPointer \in Nat
      /\ want.bytes \in Nat /\ want.shape \in AllShapes /\ want.dest \in Slots \cup CVars
  BY DEF IInv, TypeInv, Sound
<1>2. PICK id \in Ids : mem' = [mem EXCEPT ![cur] = Put(@, heapPointer, NewBlock(id, want))]
  BY DEF Deliver
<1>3. /\ cur' = cur /\ ToSpace' = ToSpace /\ UNCHANGED <<globals, inC, additionalRoots>>
      /\ heapPointer' = heapPointer + HS!BlockWords(want.bytes)
  BY DEF Deliver, HS!Carve, ToSpace
<1> DEFINE block == NewBlock(id, want)
<1>4. IsBlock(block) /\ HasSize(block) /\ FieldsIn(block, R)
  BY <1>1, NewBlockFacts
<1> HIDE DEF block
<1>5. /\ IsMemory(mem')
      /\ DOMAIN mem'[cur] = DOMAIN mem[cur] \cup {heapPointer}
      /\ mem'[cur][heapPointer] = block
      /\ \A o \in DOMAIN mem[cur] : o # heapPointer => mem'[cur][o] = mem[cur][o]
      /\ mem'[ToSpace] = mem[ToSpace]
  <2>1. mem' = PutIn(mem, cur, heapPointer, block) BY <1>2, Zenon DEF block, PutIn
  <2>2. BlockAdded(mem', mem, cur, heapPointer, block) BY <1>1, <1>4, <2>1, PutFacts
  <2> QED BY <1>1, <2>2, Spaces DEF BlockAdded
<1>6. Refs(mem', cur) = R2
  BY <1>5 DEF Refs
<1>7. heapPointer' \in Nat
  <2>1. HS!BlockWords(want.bytes) \in Nat BY <1>1, SizeFacts
  <2> QED BY <1>1, <1>3, <2>1
<1>8. R \subseteq AnyRef /\ R2 \subseteq AnyRef /\ <<cur, heapPointer>> \in R2
  <2>1. R \subseteq AnyRef BY <1>1, RefFacts
  <2>2. <<cur, heapPointer>> \in AnyRef BY <1>1 DEF AnyRef
  <2> QED BY <2>1, <2>2
<1> HIDE DEF R, R2
<1>9. LiveIn(stack, globals, cvars, clive, R) BY <1>1 DEF Settled, R
<1>10. R \subseteq R2 BY DEF R2
<1>11. FramesIn(frames, R2) BY <1>10 DEF FramesIn, R
<1>12. Len(frames) \in DOMAIN frames
  <2>1. stack \in Seq(Frames) /\ stack # <<>> BY <1>1 DEF TypeInv
  <2>2. Len(stack) \in Nat /\ Len(stack) # 0 BY <2>1
  <2> QED BY <2>2 DEF top
<1>13. /\ stack' \in Seq(Frames) /\ stack' # <<>> /\ FramesIn(stack', R2)
       /\ cvars' \in [CVars -> AnyRef] /\ clive' \subseteq CVars
       /\ ToSet(additionalRoots) \subseteq clive' /\ (~inC => clive' = {})
       /\ \A c \in clive' : cvars'[c] \in R2
  <2>1. /\ cvars \in [CVars -> AnyRef] /\ clive \subseteq CVars
        /\ ToSet(additionalRoots) \subseteq clive /\ (~inC => clive = {})
        /\ \A c \in clive : cvars[c] \in R2
    BY <1>1, <1>9, <1>10 DEF TypeInv, CallInv, LiveIn
  <2>2. CASE want.dest \in Slots
    <3>1. /\ stack' = Assign(frames, top, want.dest, <<cur, heapPointer>>)
          /\ UNCHANGED <<cvars, clive>>
      BY <2>2 DEF Deliver, Assign
    <3>2. /\ stack' \in Seq(Frames) /\ Len(stack') = Len(frames) /\ FramesIn(stack', R2)
      BY <1>8, <1>11, <1>12, <2>2, <3>1, AssignFacts
    <3>3. stack' # <<>> BY <1>12, <3>2
    <3> QED BY <2>1, <3>1, <3>2, <3>3
  <2>3. CASE want.dest \notin Slots
    <3>1. /\ want.dest \in CVars /\ inC
          /\ stack' = frames
          /\ cvars' = [cvars EXCEPT ![want.dest] = <<cur, heapPointer>>]
          /\ clive' = live \cup {want.dest}
      BY <1>1, <2>3 DEF Deliver, Sound
    <3>2. /\ cvars' \in [CVars -> AnyRef]
        /\ \A c \in CVars : cvars'[c] = IF c = want.dest THEN <<cur, heapPointer>> ELSE cvars[c]
      BY <1>8, <2>1, <3>1
    <3>3. stack' # <<>> BY <1>12, <3>1
    <3> QED BY <1>8, <1>11, <2>1, <3>1, <3>2, <3>3
  <2> QED BY <2>2, <2>3
<1>14. TypeInv'
  <2>1. pc' \in HS!PCs BY DEF HS!PCs
  <2> QED BY <1>1, <1>3, <1>5, <1>7, <1>13, <2>1 DEF TypeInv, IsMemory, IsBlock
<1>15. CallInv'
  <2>1. ~Allocating' BY DEF Allocating
  <2> QED BY <1>3, <1>13, <2>1 DEF CallInv, ToSet
<1>16. Settled'
  <2>1. LiveIn(stack', globals', cvars', clive', R2)
    BY <1>3, <1>9, <1>10, <1>13 DEF LiveIn
  <2>2. ASSUME NEW o \in DOMAIN mem'[cur]
        PROVE  HasSize(mem'[cur][o]) /\ FieldsIn(mem'[cur][o], R2)
    <3>1. CASE o = heapPointer BY <1>4, <1>5, <1>10, <3>1 DEF FieldsIn
    <3>2. CASE o # heapPointer
      <4>1. o \in DOMAIN mem[cur] /\ mem'[cur][o] = mem[cur][o] BY <1>5, <3>2
      <4>2. HasSize(mem[cur][o]) /\ FieldsIn(mem[cur][o], R) BY <1>1, <4>1 DEF Settled, R
      <4> QED BY <1>10, <4>1, <4>2 DEF FieldsIn
    <3> QED BY <3>1, <3>2
  <2>3. DOMAIN mem'[ToSpace] = {} BY <1>1, <1>5 DEF Settled
  <2> QED BY <1>3, <1>6, <2>1, <2>2, <2>3 DEF Settled, LiveIn, FramesIn, FieldsIn, HasSize
<1>17. ~Collecting' BY DEF Collecting
<1> QED BY <1>14, <1>15, <1>16, <1>17 DEF IInv

\* A collection begins.
LEMMA StartKeeps ==
  ASSUME IInv, ~Collecting, NEW want, NEW frames \in Seq(Frames), NEW live, NEW next,
         Sound(want, frames, live), Len(frames) = top, FramesIn(frames, Refs(mem, cur)),
         live \subseteq clive, live = ToSet(additionalRoots), request' = want,
         next \in {"collect", "recollect"}, StartCollection(want, frames, live, next)
  PROVE  IInv'
<1>1. /\ TypeInv /\ CallInv /\ Settled /\ IsMemory(mem) /\ cur \in {0, 1} /\ heapPointer \in Nat
      /\ want.bytes \in Nat
  BY DEF IInv, TypeInv, Sound
<1>2. /\ heapPointer' = heapPointer + HS!BlockWords(want.bytes)
      /\ todo' = StackRoots(frames) \o CRoots \o GlobalRoots
      /\ allocPtr' = 0 /\ scanPtr' = 0 /\ scanField' = 1
      /\ stack' = frames /\ clive' = live /\ pc' = next
      /\ UNCHANGED <<mem, cur, globals, cvars, inC, additionalRoots, ToSpace>>
  BY DEF StartCollection, HS!Overrun, ToSpace
<1>3. heapPointer' \in Nat
  <2>1. HS!BlockWords(want.bytes) \in Nat BY <1>1, SizeFacts
  <2> QED BY <1>1, <1>2, <2>1
<1>4. Len(frames) \in DOMAIN frames
  <2>1. stack \in Seq(Frames) /\ stack # <<>> BY <1>1 DEF TypeInv
  <2>2. Len(stack) \in Nat /\ Len(stack) # 0 BY <2>1
  <2> QED BY <2>2 DEF top
<1>5. TypeInv'
  <2>1. pc' \in HS!PCs BY <1>2 DEF HS!PCs
  <2>2. frames # <<>> BY <1>4
  <2>3. clive' \subseteq CVars BY <1>1, <1>2 DEF TypeInv
  <2> QED BY <1>1, <1>2, <1>3, <2>1, <2>2, <2>3 DEF TypeInv, IsMemory, IsBlock
<1>6. CallInv'
  <2>1. ToSet(additionalRoots') = live BY <1>2
  <2>2. ~inC' => clive' = {} BY <1>1, <1>2 DEF CallInv
  <2>3. /\ request'.init \in {"null"} \cup frame'.live \cup clive'
        /\ request'.bytes \in Nat /\ request'.shape \in AllShapes
        /\ request'.dest \in Slots \cup CVars
        /\ request'.dest \in CVars => inC'
    BY <1>2 DEF Sound, frame, top
  <2> QED BY <1>2, <2>1, <2>2, <2>3 DEF CallInv, ToSet
<1> DEFINE R == Refs(mem, cur)
<1>7. /\ FramesIn(frames, R)
      /\ \A g \in Globals : globals[g] \in R
      /\ \A c \in live : cvars[c] \in R
  BY <1>1 DEF Settled, LiveIn
<1>8. /\ todo' \in Seq(RootRecords)
      /\ \A r : r \in ToSet(todo') <=>
           \/ \E i \in DOMAIN frames : \E n \in frames[i].live : r = StackRoot(i, n)
           \/ \E c \in ToSet(additionalRoots) : r = CRoot(c)
           \/ \E g \in Globals : r = GlobalRoot(g)
  <2>1. additionalRoots \in Seq(CVars) BY <1>1 DEF TypeInv
  <2>2. HoldsRoots(todo', frames) BY <1>2, <2>1, AllRoots
  <2> QED BY <2>2 DEF HoldsRoots
<1>9. RootsInv'
  <2>1. todo' = [i \in 1 .. Len(todo') |-> todo'[i]] /\ Len(todo') \in Nat
    BY <1>8
  <2>2. ASSUME NEW j \in DOMAIN todo' PROVE Root(j)'
    <3>1. todo'[j] \in ToSet(todo') BY DEF ToSet
    <3>2. CASE \E i \in DOMAIN frames : \E n \in frames[i].live : todo'[j] = StackRoot(i, n)
      BY <1>2, <3>2 DEF Root, StackRoot
    <3>3. CASE \E c \in ToSet(additionalRoots) : todo'[j] = CRoot(c)
      BY <1>2, <3>3 DEF Root, CRoot
    <3>4. CASE \E g \in Globals : todo'[j] = GlobalRoot(g)
      BY <1>2, <3>4 DEF Root, GlobalRoot
    <3> QED BY <1>8, <3>1, <3>2, <3>3, <3>4
  <2>3. ASSUME NEW r, NEW v \in R, r \in ToSet(todo')
        PROVE  RootInv(mem', cur', ToSpace', todo', r, v)
    BY <1>2, <2>3 DEF RootInv
  <2>4. ASSUME NEW i \in DOMAIN stack', NEW n \in stack'[i].live
        PROVE  RootInv(mem', cur', ToSpace', todo', StackRoot(i, n), stack'[i].values[n])
    <3>1. StackRoot(i, n) \in ToSet(todo') BY <1>2, <1>8
    <3>2. stack'[i].values[n] \in R BY <1>2, <1>7 DEF FramesIn
    <3> HIDE DEF R
    <3> QED BY <2>3, <3>1, <3>2
  <2>5. ASSUME NEW g \in Globals
        PROVE  RootInv(mem', cur', ToSpace', todo', GlobalRoot(g), globals'[g])
    <3>1. GlobalRoot(g) \in ToSet(todo') BY <1>8
    <3>2. globals'[g] \in R BY <1>2, <1>7
    <3> HIDE DEF R
    <3> QED BY <2>3, <3>1, <3>2
  <2>6. ASSUME NEW c \in clive'
        PROVE  RootInv(mem', cur', ToSpace', todo', CRoot(c), cvars'[c])
    <3>1. CRoot(c) \in ToSet(todo') BY <1>2, <1>8
    <3>2. cvars'[c] \in R BY <1>2, <1>7
    <3> HIDE DEF R
    <3> QED BY <2>3, <3>1, <3>2
  <2> QED BY <2>1, <2>2, <2>4, <2>5, <2>6 DEF RootsInv, StackRoot, GlobalRoot, CRoot
<1>10. HeapInv(mem, cur, ToSpace, 0, 0, 1)
  <2>1. DOMAIN mem[ToSpace] = {} BY <1>1 DEF Settled
  <2>2. Tiled(mem[ToSpace], 0) BY <2>1 DEF Tiled
  <2>3. FromInv(mem, cur, ToSpace) BY <1>1 DEF Settled, FromInv
  <2>4. ToInv(mem, cur, ToSpace, 0, 1) BY <2>1 DEF ToInv
  <2> QED BY <1>1, <2>2, <2>3, <2>4 DEF HeapInv
<1>11. HeapInv(mem', cur', ToSpace', allocPtr', scanPtr', scanField')
  BY <1>2, <1>10
<1>12. Copying'
  <2>1. allocPtr' \in Nat /\ scanPtr' \in Nat /\ scanField' \in Nat \ {0} BY <1>2
  <2> QED BY <1>9, <1>11, <2>1 DEF Copying, HeapInv
<1>13. Collecting' BY <1>2 DEF Collecting
<1> QED BY <1>5, <1>6, <1>12, <1>13 DEF IInv

\* The first try, in either case.
LEMMA FirstTryKeeps ==
  ASSUME IInv, pc = "run", NEW want, NEW frames \in Seq(Frames), NEW live \in SUBSET clive,
         Sound(want, frames, live), Len(frames) = top, FramesIn(frames, Refs(mem, cur)),
         InitValue(want.init) \in Refs(mem, cur), live = ToSet(additionalRoots),
         FirstTry(want, frames, live)
  PROVE  IInv'
<1>1. ~Collecting BY DEF Collecting
<1>2. CASE Deliver(want, frames, live) /\ UNCHANGED <<pc, request>>
  <2>1. pc' \in {"run", "equalize"} BY <1>2
  <2> QED BY <1>1, <1>2, <2>1, DeliverKeeps
<1>3. CASE StartCollection(want, frames, live, "collect") /\ request' = want
  BY <1>1, <1>3, StartKeeps
<1> QED BY <1>2, <1>3 DEF FirstTry

\* The program allocates.
LEMMA AllocateStep == IInv /\ gcAllocate => IInv'
<1> SUFFICES ASSUME IInv, gcAllocate PROVE IInv' OBVIOUS
<1>1. pc = "run" /\ ~inC /\ ~Collecting BY DEF gcAllocate, MayAllocate, Collecting
<1>2. PICK shape \in Shapes, dest \in Slots, live \in SUBSET frame.live :
             \E init \in {"null"} \cup live :
               FirstTry(Want(shape, dest, init), [stack EXCEPT ![top].live = live], clive)
  BY Zenon DEF gcAllocate
<1>3. PICK init \in {"null"} \cup live :
             FirstTry(Want(shape, dest, init), [stack EXCEPT ![top].live = live], clive)
  BY <1>2
<1> DEFINE frames == Narrow(stack, top, live)
           want == Want(shape, dest, init)
<1>4. FirstTry(want, frames, clive) BY <1>3 DEF Narrow
<1>5. /\ stack \in Seq(Frames) /\ top \in DOMAIN stack /\ live \in SUBSET stack[top].live
      /\ FramesIn(stack, Refs(mem, cur))
  BY <1>1, RunFacts DEF frame
<1>6. /\ frames \in Seq(Frames) /\ Len(frames) = top /\ FramesIn(frames, Refs(mem, cur))
      /\ frames[top].live = live
  BY <1>5, NarrowFacts DEF top
<1>7. /\ want.bytes = Bytes(shape) /\ want.shape = shape /\ want.dest = dest /\ want.init = init
  BY DEF Want
<1>8. shape \in AllShapes /\ Bytes(shape) \in Nat BY ShapeFacts DEF AllShapes
<1> HIDE DEF frames, want
<1>9. Sound(want, frames, clive)
  <2>1. dest \notin CVars BY NamesAssumption
  <2> QED BY <1>6, <1>7, <1>8, <2>1 DEF Sound
<1>10. InitValue(want.init) \in Refs(mem, cur)
  <2>1. init \in {"null"} \cup frame.live \cup clive OBVIOUS
  <2> QED BY <1>1, <1>7, <2>1, InitFacts
<1>11. clive = ToSet(additionalRoots)
  BY <1>1 DEF IInv, CallInv
<1> QED BY <1>1, <1>4, <1>6, <1>9, <1>10, <1>11, FirstTryKeeps

\* A C function allocates.
LEMMA AllocateFromCStep == IInv /\ gcAllocateFromC => IInv'
<1> SUFFICES ASSUME IInv, gcAllocateFromC PROVE IInv' OBVIOUS
<1>1. pc = "run" /\ inC /\ ~Collecting BY DEF gcAllocateFromC, MayAllocate, Collecting
<1> DEFINE live == ToSet(additionalRoots) \cap clive
<1>2. PICK shape \in CShapes, dest \in CVars :
             \E init \in {"null"} \cup live : FirstTry(Want(shape, dest, init), stack, live)
  BY Zenon DEF gcAllocateFromC
<1>3. PICK init \in {"null"} \cup live : FirstTry(Want(shape, dest, init), stack, live)
  BY <1>2
<1> DEFINE want == Want(shape, dest, init)
<1>4. /\ stack \in Seq(Frames) /\ Len(stack) = top /\ FramesIn(stack, Refs(mem, cur))
  BY <1>1, RunFacts DEF top
<1>5. /\ want.bytes = Bytes(shape) /\ want.shape = shape /\ want.dest = dest /\ want.init = init
  BY DEF Want
<1>6. shape \in AllShapes /\ Bytes(shape) \in Nat BY ShapeFacts DEF AllShapes
<1>7. live = ToSet(additionalRoots) /\ live \in SUBSET clive
  BY DEF IInv, CallInv
<1>8. FirstTry(want, stack, live) BY <1>3
<1>9. init \in {"null"} \cup live OBVIOUS
<1> HIDE DEF want, live
<1>10. Sound(want, stack, live) BY <1>1, <1>5, <1>6, <1>9 DEF Sound
<1>11. InitValue(want.init) \in Refs(mem, cur)
  <2>1. init \in {"null"} \cup frame.live \cup clive BY <1>7, <1>9
  <2> QED BY <1>1, <1>5, <2>1, InitFacts
<1> QED BY <1>1, <1>4, <1>7, <1>8, <1>10, <1>11, FirstTryKeeps

\* The tries after a collection.
LEMMA RetryStep == IInv /\ (Retry \/ LastTry) => IInv'
<1> SUFFICES ASSUME IInv, Retry \/ LastTry PROVE IInv' OBVIOUS
<1>1. pc \in {"retry", "last"} /\ ~Collecting /\ Allocating
  BY DEF Retry, LastTry, Collecting, Allocating
<1>2. /\ stack \in Seq(Frames) /\ Len(stack) = top /\ FramesIn(stack, Refs(mem, cur))
  BY <1>1, RunFacts DEF top
<1>3. CallInv BY DEF IInv
<1>4. Sound(request, stack, clive)
  BY <1>1, <1>3 DEF CallInv, Sound, frame, top
<1>5. InitValue(request.init) \in Refs(mem, cur)
  <2>1. request.init \in {"null"} \cup frame.live \cup clive BY <1>1, <1>3 DEF CallInv
  <2> QED BY <1>1, <2>1, InitFacts
<1>6. clive = ToSet(additionalRoots) BY <1>1, <1>3 DEF CallInv
<1>7. CASE Deliver(request, stack, clive) /\ pc' \in {"run", "equalize"}
  BY <1>1, <1>2, <1>4, <1>5, <1>6, <1>7, DeliverKeeps
<1>8. CASE StartCollection(request, stack, clive, "recollect") /\ UNCHANGED request
  BY <1>1, <1>2, <1>4, <1>6, <1>8, StartKeeps
<1> QED BY <1>7, <1>8 DEF Retry, LastTry
-----------------------------------------------------------------------------
(***************************************************************************)
(* The theorems.                                                           *)
(***************************************************************************)
\* The invariant holds of the initial states.
LEMMA InitHolds == Init => IInv
<1> SUFFICES ASSUME Init PROVE IInv OBVIOUS
<1>1. cur = 0 /\ ToSpace = 1 /\ pc = "run" BY DEF Init, ToSpace
<1>2. IsMemory(mem) /\ DOMAIN mem[0] = {} /\ DOMAIN mem[1] = {}
  BY DEF Init, EmptySpace, IsMemory
<1>3. /\ stack = <<[values |-> [s \in Slots |-> Null], live |-> {}]>>
      /\ globals = [g \in Globals |-> Null] /\ cvars = [c \in CVars |-> Null]
      /\ clive = {} /\ inC = FALSE /\ additionalRoots = <<>> /\ heapPointer = 0
  BY DEF Init
<1>4. Null \in AnyRef /\ Null \in Refs(mem, 0) BY DEF AnyRef, Refs
<1>5. stack \in Seq(Frames) /\ stack # <<>> /\ FramesIn(stack, Refs(mem, 0))
  <2> DEFINE f == [values |-> [s \in Slots |-> Null], live |-> {}]
  <2>1. f \in Frames /\ f.live = {} BY <1>4 DEF Frames
  <2>2. stack = <<f>> BY <1>3
  <2> HIDE DEF f
  <2> QED BY <2>1, <2>2 DEF FramesIn
<1>6. TypeInv
  <2>1. globals \in [Globals -> AnyRef] /\ cvars \in [CVars -> AnyRef] BY <1>3, <1>4
  <2>2. additionalRoots \in Seq(CVars) BY <1>3
  <2>3. /\ pc \in HS!PCs /\ cur \in {0, 1} /\ heapPointer \in Nat /\ inC \in BOOLEAN
        /\ clive \subseteq CVars
    BY <1>1, <1>3 DEF HS!PCs
  <2> QED BY <1>2, <1>5, <2>1, <2>2, <2>3 DEF TypeInv
<1>7. CallInv BY <1>1, <1>3 DEF CallInv, Allocating, ToSet
<1>8. Settled BY <1>1, <1>2, <1>3, <1>4, <1>5 DEF Settled, LiveIn
<1> QED BY <1>1, <1>6, <1>7, <1>8 DEF IInv, Collecting

\* And when nothing changes.
LEMMA Stuttering == IInv /\ UNCHANGED vars => IInv'
<1> SUFFICES ASSUME IInv, UNCHANGED vars PROVE IInv' OBVIOUS
<1>1. /\ UNCHANGED <<mem, size, cur, heapPointer, stack, globals, cvars, clive, inC, additionalRoots,
                     pc, request, todo, allocPtr, scanPtr, scanField>>
      /\ UNCHANGED <<ToSpace, frame, top>>
  BY DEF vars, program, collector, ToSpace, frame, top
<1>2. TypeInv' BY <1>1 DEF IInv, TypeInv, IsMemory, IsBlock
<1>3. CallInv' BY <1>1 DEF IInv, CallInv, Allocating, ToSet
<1>4. Settled' = Settled
  BY <1>1 DEF Settled, LiveIn, FramesIn, FieldsIn, HasSize, Refs
<1>5. RootsInv' = RootsInv
  BY <1>1 DEF RootsInv, Root, RootInv, Refs, ToSet
<1>6. Copying' = Copying
  BY <1>1, <1>5 DEF Copying, Tiled, FromInv, ToInv, FieldsIn, HasSize, Refs, Words
<1> QED BY <1>1, <1>2, <1>3, <1>4, <1>6 DEF IInv, Collecting

\* The invariant holds at every step of the program and of the collector.
THEOREM Invariance == Spec => []IInv
<1>1. IInv /\ ProgramStep => IInv'
  BY LoadStep, StoreStep, CallStep, CallCStep, RootListStep, AllocateStep, AllocateFromCStep
     DEF ProgramStep
<1>2. IInv /\ CollectorStep => IInv'
  BY CopyRootStep, ScanFieldStep, ScanNextStep, SwapStep, SizingStep, RetryStep, EqualizeAfterStep
     DEF CollectorStep
<1>3. IInv /\ [Next]_vars => IInv'
  BY <1>1, <1>2, Stuttering DEF Next
<1> QED BY InitHolds, <1>3, PTL DEF Spec

\* The blocks reached in at most n steps, for n up to the number of names.
LEMMA ReachableChain ==
  \E W : /\ W[0] = BlocksAt(LiveValues)
         /\ \A n \in 0 .. Cardinality(Ids) - 1 :
              W[n + 1] = W[n] \cup BlocksAt(UNION {References(a) : a \in W[n]})
         /\ ReachableBlocks = W[Cardinality(Ids)]
<1> DEFINE N == Cardinality(Ids)
           First == BlocksAt(LiveValues)
           Step(u) == u \cup BlocksAt(UNION {References(a) : a \in u})
           Upto(f, m) == f = [n \in 0 .. m |-> IF n = 0 THEN First ELSE Step(f[n - 1])]
           NotUpto == {m \in 0 .. N : ~ \E f : Upto(f, m)}
<1>1. N \in Nat BY NamesAssumption, FS_CardinalityType
<1> HIDE DEF N
<1>2. NotUpto = {}
  <2> SUFFICES ASSUME NotUpto # {} PROVE FALSE OBVIOUS
  <2>1. PICK m \in NotUpto : \A n \in NotUpto : m <= n
    <3> HIDE DEF Upto
    <3>1. NotUpto \in SUBSET Nat OBVIOUS
    <3> HIDE DEF NotUpto
    <3> QED BY <3>1, Least
  <2> HIDE DEF Step, First
  <2>2. CASE m = 0
    <3>1. Upto([n \in 0 .. 0 |-> First], 0) OBVIOUS
    <3> QED BY <3>1, <2>1, <2>2
  <2>3. CASE m # 0
    <3>1. PICK f : Upto(f, m - 1)
      <4> HIDE DEF Upto
      <4>1. m - 1 \in 0 .. N /\ ~(m <= m - 1) BY <1>1, <2>1, <2>3
      <4>2. m - 1 \notin NotUpto BY <2>1, <4>1
      <4> QED BY <4>1, <4>2
    <3> DEFINE g == [n \in 0 .. m |-> IF n = m THEN Step(f[m - 1]) ELSE f[n]]
    <3>2. ASSUME NEW n \in 0 .. m PROVE g[n] = IF n = 0 THEN First ELSE Step(g[n - 1])
      BY <3>1, <2>1, <2>3
    <3>3. Upto(g, m) BY <3>2
    <3> QED BY <3>3, <2>1
  <2> QED BY <2>2, <2>3
<1>3. \E f : Upto(f, N)
  <2> HIDE DEF Upto
  <2>1. N \in 0 .. N BY <1>1
  <2> QED BY <1>2, <2>1
<1> DEFINE Within == CHOOSE f : Upto(f, N)
<1>4. Upto(Within, N) BY <1>3
<1>5. ReachableBlocks = Within[N] BY Zenon DEF ReachableBlocks, N
<1> HIDE DEF Within
<1>6. Within[0] = First
  <2> HIDE DEF First, Step
  <2> QED BY <1>1, <1>4
<1>7. ASSUME NEW n \in 0 .. N - 1 PROVE Within[n + 1] = Step(Within[n])
  <2> HIDE DEF First, Step
  <2>1. n + 1 \in 0 .. N /\ n + 1 # 0 /\ (n + 1) - 1 = n BY <1>1
  <2> QED BY <1>4, <2>1
<1> HIDE DEF Upto
<1> QED BY <1>5, <1>6, <1>7 DEF N

\* What is reachable stays in any set that holds what the variables refer to and
\* is closed under references.
LEMMA ReachableIn ==
  ASSUME NEW S, BlocksAt(LiveValues) \subseteq S,
         \A u \in SUBSET S : BlocksAt(UNION {References(a) : a \in u}) \subseteq S
  PROVE  ReachableBlocks \subseteq S
<1> DEFINE N == Cardinality(Ids)
           First == BlocksAt(LiveValues)
           Step(u) == u \cup BlocksAt(UNION {References(a) : a \in u})
<1>1. N \in Nat BY NamesAssumption, FS_CardinalityType
<1>2. PICK Within :
        /\ Within[0] = First
        /\ \A n \in 0 .. N - 1 : Within[n + 1] = Step(Within[n])
        /\ ReachableBlocks = Within[N]
  BY ReachableChain
<1>3. \A u \in SUBSET S : Step(u) \subseteq S OBVIOUS
<1>4. First \subseteq S OBVIOUS
<1> HIDE DEF N, First, Step
<1> DEFINE Outside == {m \in 0 .. N : ~(Within[m] \subseteq S)}
<1>5. Outside = {}
  <2> SUFFICES ASSUME Outside # {} PROVE FALSE OBVIOUS
  <2>1. PICK m \in Outside : \A n \in Outside : m <= n
    <3>1. Outside \in SUBSET Nat OBVIOUS
    <3> HIDE DEF Outside
    <3> QED BY <3>1, Least
  <2>2. CASE m = 0 BY <1>2, <1>4, <2>1, <2>2
  <2>3. CASE m # 0
    <3>1. m - 1 \in 0 .. N /\ ~(m <= m - 1) /\ m - 1 \in 0 .. N - 1 /\ (m - 1) + 1 = m
      BY <1>1, <2>1, <2>3
    <3>2. Within[m - 1] \subseteq S BY <2>1, <3>1
    <3>3. Within[m] = Step(Within[m - 1]) BY <1>2, <3>1
    <3> QED BY <1>3, <2>1, <3>2, <3>3
  <2> QED BY <2>2, <2>3
<1>6. N \in 0 .. N BY <1>1
<1> QED BY <1>2, <1>5, <1>6

\* What the program can read, between collections, refers to a block of the
\* semispace it goes on with (lib/library.c, gcCollect and gcCopy).
LEMMA NoneDangles == IInv => NoStaleReference
<1> SUFFICES ASSUME IInv, pc = "run",
                    NEW v \in LiveValues \cup UNION {References(a) : a \in ReachableBlocks},
                    IsAddress(v)
             PROVE  InHeap(v) /\ HasBlock(v)
  BY DEF NoStaleReference
<1> DEFINE R == Refs(mem, cur)
           S == {w \in R : IsAddress(w)}
<1>1. /\ Settled /\ IsMemory(mem) /\ cur \in {0, 1} /\ ~Collecting
  BY DEF IInv, TypeInv, Collecting
<1>2. ASSUME NEW w \in R, IsAddress(w)
      PROVE  InHeap(w) /\ HasBlock(w) /\ w[2] \in DOMAIN mem[cur] /\ BlockAt(w) = mem[cur][w[2]]
  BY <1>1, <1>2, RefFacts DEF InHeap, HasBlock, BlockAt
<1>3. LiveValues \subseteq R
  <2>1. globals \in [Globals -> AnyRef] BY DEF IInv, TypeInv
  <2>2. LiveIn(stack, globals, cvars, clive, R) BY <1>1 DEF Settled
  <2> HIDE DEF R
  <2>3. Range(globals) \subseteq R BY <2>1, <2>2 DEF LiveIn, Range
  <2> QED BY <2>2, <2>3 DEF LiveIn, FramesIn, LiveValues
<1>4. ASSUME NEW a \in S PROVE References(a) \subseteq R
  <2>1. a[2] \in DOMAIN mem[cur] /\ BlockAt(a) = mem[cur][a[2]] BY <1>2
  <2>2. FieldsIn(mem[cur][a[2]], R) BY <1>1, <2>1 DEF Settled
  <2> HIDE DEF R
  <2> QED BY <2>1, <2>2 DEF FieldsIn, References
<1>5. ASSUME NEW values \in SUBSET R PROVE BlocksAt(values) \subseteq S
  <2>1. \A w : Resolve(w) = w BY <1>1 DEF Resolve
  <2> QED BY <2>1 DEF BlocksAt, HasBlock
<1> HIDE DEF R, S
<1>6. ReachableBlocks \subseteq S
  <2>1. BlocksAt(LiveValues) \subseteq S BY <1>3, <1>5
  <2>2. ASSUME NEW u \in SUBSET S PROVE BlocksAt(UNION {References(a) : a \in u}) \subseteq S
    <3>1. UNION {References(a) : a \in u} \in SUBSET R BY <1>4
    <3> QED BY <1>5, <3>1
  <2> QED BY <2>1, <2>2, ReachableIn
<1>7. v \in R BY <1>3, <1>4, <1>6
<1> QED BY <1>2, <1>7

\* No reference the program can read is stale, whatever the sizes of the heap,
\* the stack and the objects.
THEOREM NoDangling == Spec => []NoStaleReference
<1> QED BY Invariance, NoneDangles, PTL
=============================================================================
