------------------------------ MODULE TypeChecking ------------------------------
(***************************************************************************)
(* The analysis of a program, as far as it is about types: instances of    *)
(* traits are declared by impl blocks, the expressions of a function ask   *)
(* for types to be unified with others and                                 *)
(* with traits, in any order, and in the end the instances are checked to  *)
(* be coherent (src/semantic/semantic.cpp).  The first failure ends it.    *)
(***************************************************************************)
EXTENDS TypeMeaning

CONSTANTS
    Start,          \* the set of initial worlds
    Impls,          \* [trait, instance]: the instances that may be declared
    Equations,      \* <<type, type>>: what expressions may ask to be the same
    Iterations,     \* [type, trait]: what for statements may ask of types
    Questions,      \* <<type, type>>: subtype questions about quantified types
    Concrete,       \* the concrete types that meanings are computed over
    MaxRequests     \* bound: requests of a function

VARIABLES
    world,          \* bindings, constraints and instances
    initial,        \* the world the analysis started with
    unified,        \* the set of equations that were accepted
    iterated,       \* the set of [type, trait] that were accepted
    refused,        \* the set of equations that were refused, none or one
    status          \* typing, refused, overlapping, aborted or accepted

vars == <<world, initial, unified, iterated, refused, status>>

NamesOf(w) == DOMAIN w.instances

Init ==
    /\ world \in Start
    /\ initial = world
    /\ unified = {} /\ iterated = {} /\ refused = {}
    /\ status = "typing"

Requests == Cardinality(unified) + Cardinality(iterated)

\* visit(ImplNode*), once for each impl block: refused when it overlaps an instance
\* there is.
DeclareInstance(impl) ==
    LET overlapping == OverlappingInstances(impl.trait, impl.instance.type, world)
    IN  /\ status = "typing"
        /\ impl.instance \notin Range(world.instances[impl.trait])
        /\ IF overlapping # <<>>
           THEN /\ status' = "overlapping"
                /\ UNCHANGED world
           ELSE /\ world' = [world EXCEPT !.instances[impl.trait] = Append(@, impl.instance)]
                /\ UNCHANGED status
        /\ UNCHANGED <<initial, unified, iterated, refused>>

Verdict(result) == CASE result.w.aborted -> "aborted"
                     [] ~result.w.aborted /\ result.value -> "typing"
                     [] OTHER -> "refused"

\* unify(Type*, Type*)
UnifyTypes(equation) ==
    LET result == Call("tryUnify", equation, world)
    IN  /\ status = "typing" /\ Requests < MaxRequests
        /\ equation \notin unified
        /\ world' = result.w
        /\ status' = Verdict(result)
        /\ unified' = IF result.value THEN unified \cup {equation} ELSE unified
        /\ refused' = IF result.value THEN {} ELSE {equation}
        /\ UNCHANGED <<initial, iterated>>

\* An open variable without a constraint of the trait.
Unknown(iteration, w) ==
    LET t == Resolve(w, iteration.type)
    IN  IsOpen(t) /\ \A c \in At(w.constraints, t.var, {}) : c.name # iteration.trait

\* visit(ForNode*): the type is unified with a fresh instance of the trait.
UnifyWithTrait(iteration) ==
    LET element == TypeVariable(world.next, FALSE)
        trait == Trait(iteration.trait, <<element>>, world.next + 1)
        result == Call("tryUnifyTrait", <<iteration.type, trait>>, [world EXCEPT !.next = @ + 2])
        asked == [type |-> iteration.type, trait |-> trait, unknown |-> Unknown(iteration, world)]
    IN  /\ status = "typing" /\ Requests < MaxRequests
        /\ world' = result.w
        /\ status' = Verdict(result)
        /\ iterated' = IF result.value THEN iterated \cup {asked} ELSE iterated
        /\ UNCHANGED <<initial, unified, refused>>

\* Mutant of Finish: instances are compared only when they are declared.
FinishUnchecked ==
    /\ status = "typing"
    /\ status' = "accepted"
    /\ UNCHANGED <<world, initial, unified, iterated, refused>>

\* checkTraitCoherence()
Finish ==
    LET Overlapping(instances) ==
            \E i, j \in DOMAIN instances :
                i < j /\ Ask("overlap", <<instances[i].type, instances[j].type>>, world).value
    IN  /\ status = "typing"
        /\ status' = IF \E name \in NamesOf(world) : Overlapping(world.instances[name])
                     THEN "overlapping" ELSE "accepted"
        /\ UNCHANGED <<world, initial, unified, iterated, refused>>

Next ==
    \/ \E impl \in Impls : DeclareInstance(impl)
    \/ \E equation \in Equations : UnifyTypes(equation)
    \/ \E iteration \in Iterations : UnifyWithTrait(iteration)
    \/ Finish

Spec == Init /\ [][Next]_vars

-------------------------------------------------------------------------------
(* Properties. *)

\* The analysis is in one of its states; no assertion of the type functions
\* fails, whatever is declared and unified in whatever order (a variable that
\* is quantified or was assigned before is never assigned, types.cpp:202); and
\* no variable comes to be bound to itself through others.
TypeOK ==
    /\ status \in {"typing", "refused", "overlapping", "accepted"} /\ ~world.aborted
    /\ refused # {} => status = "refused"
    /\ \A v \in DOMAIN world.bound : Resolve(world, world.bound[v]) # TypeVariable(v, FALSE)

\* Types that were once unified are the same from then on, through every
\* later binding (tryUnify, type_functions.cpp:257).
UnifiedStaySame == \A e \in unified : Equals(world, e[1], e[2])

\* No type was iterated over before anything was known of it: the analyser
\* would have decided for the first instance of the trait, and left its
\* parameters quantified (unify_trait.cpp:53).
OnlyKnownIterated == \A i \in iterated : ~i.unknown

\* What a variable is bound to satisfies the constraints it was declared with,
\* and every type that is iterated over is an instance of the trait
\* (bindVariable, type_functions.cpp:139).  When it is a quantified variable,
\* what the constraint says of a parameter that is not a variable is not
\* asked for: the code takes S: Iterator<T> for an Iterator<Int>.
ConstraintsHold ==
    LET Values(params) == [k \in DOMAIN params |-> Chosen(params[k], NoSubs, world)]
        Meets(type, have, want) ==
            \A k \in DOMAIN want :
                have[k] = want[k] \/ (~IsOpen(type) /\ IsVariable(type) /\ ~IsVariable(want[k]))
        Required(type, trait) ==
            IF IsOpen(type)
            THEN \E c \in At(world.constraints, type.var, {}) :
                    c.name = trait.name /\ Meets(type, Values(c.params), Values(trait.params))
            ELSE \E have \in ParamsOf(trait.name, Chosen(type, NoSubs, world), world) :
                    Meets(type, have, Values(trait.params))
    IN  status \in {"typing", "accepted"} /\ OnlyKnownIterated =>
            /\ \A v \in DOMAIN initial.constraints \ initial.quantified :
                   \A c \in initial.constraints[v] :
                       Required(Resolve(world, TypeVariable(v, FALSE)), c)
            /\ \A i \in iterated : Required(Resolve(world, i.type), i.trait)

\* An equation is refused only if no choice of types for the open variables
\* satisfies it together with all that was accepted before.
RefusedUnsolvable ==
    LET open == DOMAIN initial.constraints \ initial.quantified
        w == [initial EXCEPT !.instances = world.instances]
        Value(type, b) == Chosen(type, b, w)
        Values(params, b) == [k \in DOMAIN params |-> Value(params[k], b)]
        Satisfied(b) ==
            /\ \A e \in unified \cup refused : Value(e[1], b) = Value(e[2], b)
            /\ \A v \in open : \A c \in initial.constraints[v] :
                   Values(c.params, b) \in ParamsOf(c.name, b[v], w)
            /\ \A i \in iterated : ParamsOf(i.trait.name, Value(i.type, b), w) # {}
    IN  status = "refused" /\ refused # {} /\ OnlyKnownIterated
            => \A b \in [open -> Concrete] : ~Satisfied(b)

\* For a concrete type there is at most one instance of a trait, once the
\* program was accepted.
OneInstancePerType ==
    status = "accepted" =>
        \A name \in NamesOf(world) : \A z \in Concrete :
            Cardinality({k \in DOMAIN world.instances[name] :
                            Denotes(world.instances[name][k].type, z, world)}) <= 1

\* A type is taken for a subtype of another only if every concrete type it
\* stands for is one of the other's.  (The questions are about types whose
\* variables are quantified, so no request changes the answers.)
SubtypeIsSubset ==
    unified = {} /\ iterated = {} /\ status = "typing" => \A q \in Questions :
        IsSubtype(q[1], q[2], world).value =>
            \A z \in Concrete : Denotes(q[1], z, world) => Denotes(q[2], z, world)
===============================================================================
