---------------------------- MODULE ObjectStore ----------------------------
(***************************************************************************)
(* What the heap promises to compiled programs: an object graph that only  *)
(* the program's own steps change.  Objects have identities, never         *)
(* addresses; storage is unlimited; there is no collector.  An object that *)
(* the program can no longer reach is dropped at once.                     *)
(*                                                                         *)
(* Values are <<>> (null), <<"static">> (an object outside the heap, such  *)
(* as a string literal) and the members of Ids.                            *)
(***************************************************************************)
EXTENDS Integers, SequencesExt

CONSTANTS
  Ids,      \* object identities
  Slots,    \* reference slots of a stack frame
  Globals,  \* reference globals
  CVars,    \* reference variables of a C function
  Shapes,   \* object layouts: [tag |-> ..., refs |-> <<BOOLEAN, ...>>]
  Raw       \* what an unboxed field of a new object holds

VARIABLES
  frames,   \* the stack, innermost last: the slots that may still be read
  globals,
  cframe,   \* the variables of the running C function that may still be read
  objects   \* the reachable objects: identity -> [shape, fields]

vars == <<frames, globals, cframe, objects>>

Null == <<>>
Static == <<"static">>

\* The fields of an object of this shape that hold references: all of them in a
\* boxed array, none in an unboxed one, those of the refMask in a structure.
RefFields(shape) ==
  {i \in DOMAIN shape.refs :
     shape.tag = "boxedArray" \/ (shape.tag = "struct" /\ shape.refs[i])}

\* The value every reference field of a new object receives is init.
NewObject(shape, init) ==
  [shape  |-> shape,
   fields |-> [i \in DOMAIN shape.refs |-> IF i \in RefFields(shape) THEN init ELSE Raw]]

Children(heap, id) == {heap[id].fields[i] : i \in RefFields(heap[id].shape)}

\* The part of a heap that the given values reach.
Reachable(heap, values) ==
  LET Within[n \in 0 .. Cardinality(Ids)] ==
        IF n = 0 THEN values \cap DOMAIN heap
        ELSE Within[n - 1] \cup
             ((UNION {Children(heap, id) : id \in Within[n - 1]}) \cap DOMAIN heap)
  IN  Restrict(heap, Within[Cardinality(Ids)])

RootValues(fs, gs, cs) ==
  (UNION {Range(fs[i]) : i \in DOMAIN fs}) \cup Range(gs) \cup Range(cs)

\* The program's variables become fs, gs and cs, over the given heap.
Become(fs, gs, cs, heap) ==
  /\ frames' = fs
  /\ globals' = gs
  /\ cframe' = cs
  /\ objects' = Reachable(heap, RootValues(fs, gs, cs))

top == Len(frames)

Init ==
  /\ frames = <<[s \in {} |-> Null]>>
  /\ globals = [g \in Globals |-> Null]
  /\ cframe = [c \in {} |-> Null]
  /\ objects = [id \in {} |-> NewObject([tag |-> "struct", refs |-> <<>>], Null)]

-----------------------------------------------------------------------------
\* The function f, but for what it gives for dest.
Put(f, dest, value) ==
  [name \in DOMAIN f \cup {dest} |-> IF name = dest THEN value ELSE f[name]]

Only(dest, value) == [name \in {dest} |-> value]

PutTop(dest, value) == [frames EXCEPT ![top] = Put(@, dest, value)]

\* A slot, or a variable of the C function, may cease to be readable.
Forget ==
  /\ \/ \E i \in DOMAIN frames : \E live \in SUBSET DOMAIN frames[i] :
          Become([frames EXCEPT ![i] = Restrict(@, live)], globals, cframe, objects)
     \/ \E live \in SUBSET DOMAIN cframe :
          Become(frames, globals, Restrict(cframe, live), objects)

\* A new object appears in a slot, or in a variable of the C function.
New ==
  \E id \in Ids \ DOMAIN objects, shape \in Shapes :
    \/ \E dest \in Slots, live \in SUBSET DOMAIN frames[top] :
         \E init \in {Null} \cup {frames[top][s] : s \in live} :
           Become([frames EXCEPT ![top] = Put(Restrict(@, live), dest, id)], globals, cframe,
                  Put(objects, id, NewObject(shape, init)))
    \/ \E dest \in CVars, live \in SUBSET DOMAIN cframe :
         \E init \in {Null} \cup {cframe[c] : c \in live} :
           Become(frames, globals, Put(Restrict(cframe, live), dest, id),
                  Put(objects, id, NewObject(shape, init)))

Load ==
  \E p \in DOMAIN frames[top], dest \in Slots :
    /\ frames[top][p] \in DOMAIN objects
    /\ \E value \in Children(objects, frames[top][p]) :
         Become(PutTop(dest, value), globals, cframe, objects)

Store ==
  \E p \in DOMAIN frames[top], q \in DOMAIN frames[top] :
    /\ frames[top][p] \in DOMAIN objects
    /\ \E i \in RefFields(objects[frames[top][p]].shape) :
         Become(frames, globals, cframe,
                [objects EXCEPT ![frames[top][p]].fields[i] = frames[top][q]])

SetConstant ==
  \E dest \in Slots, value \in {Null, Static} :
    Become(PutTop(dest, value), globals, cframe, objects)

GlobalAccess ==
  \E g \in Globals :
    \/ \E s \in DOMAIN frames[top] :
         Become(frames, [globals EXCEPT ![g] = frames[top][s]], cframe, objects)
    \/ \E s \in Slots : Become(PutTop(s, globals[g]), globals, cframe, objects)

\* A call passes one value; the caller keeps the slots it needs afterwards.
Call ==
  \E live \in SUBSET DOMAIN frames[top], s \in DOMAIN frames[top], param \in Slots :
    Become(Append([frames EXCEPT ![top] = Restrict(@, live)], Only(param, frames[top][s])),
           globals, cframe, objects)

Return ==
  /\ top > 1
  /\ \E s \in DOMAIN frames[top], dest \in Slots :
       Become([Front(frames) EXCEPT ![top - 1] = Put(@, dest, frames[top][s])],
              globals, cframe, objects)

CallC ==
  \E live \in SUBSET DOMAIN frames[top], s \in DOMAIN frames[top], c \in CVars :
    Become([frames EXCEPT ![top] = Restrict(@, live)], globals, Only(c, frames[top][s]), objects)

ReturnFromC ==
  \E c \in DOMAIN cframe, dest \in Slots :
    Become(PutTop(dest, cframe[c]), globals, [d \in {} |-> Null], objects)

Next ==
  \/ Forget \/ New \/ Load \/ Store \/ SetConstant \/ GlobalAccess
  \/ Call \/ Return \/ CallC \/ ReturnFromC

Spec == Init /\ [][Next]_vars
=============================================================================
