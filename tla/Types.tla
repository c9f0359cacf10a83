--------------------------------- MODULE Types ---------------------------------
(***************************************************************************)
(* Types and traits, their unification and the subtype relation            *)
(* (src/semantic/types.hpp, type_functions.cpp, subtype.cpp and            *)
(* unify_trait.cpp).                                                       *)
(*                                                                         *)
(* A type is a base type, a type variable, or a compound: a constructed    *)
(* type or a function type, whose parameters are its inputs and its        *)
(* output.  A compound has an id, for two of them that are built           *)
(* separately are different objects; ids also stand for the addresses of   *)
(* traits, which order the set of constraints of a variable.               *)
(*                                                                         *)
(* The functions of the source take a world and return one: what variables *)
(* are bound and constrained to, the instances of the traits, and the      *)
(* members of the objects at work (a TypeComparer, a Substituter, the      *)
(* assignment of an instantiation).  Call is the one recursive operator    *)
(* they call each other through.                                           *)
(***************************************************************************)
EXTENDS Naturals, Sequences, FiniteSets, SequencesExt, FiniteSetsExt, TLC

Base(name) == [tag |-> "base", name |-> name]

TypeVariable(var, quantified) ==
    [tag |-> "variable", var |-> var, quantified |-> quantified]

\* tag is "constructed" or "function".
Compound(tag, name, params, id) ==
    [tag |-> tag, name |-> name, params |-> params, id |-> id]

Trait(name, params, id) == [name |-> name, params |-> params, id |-> id]

\* impl name<traitParams> for type
Instance(type, traitParams) == [type |-> type, traitParams |-> traitParams]

NoSubs == <<>>

World(quantified, constraints, instances, next) ==
    [quantified |-> quantified,     \* the variables that are quantified
     bound |-> NoSubs,              \* variable -> the type it was assigned
     constraints |-> constraints,   \* variable -> set of traits
     instances |-> instances,       \* name of a trait -> sequence of instances
     next |-> next,                 \* the next id
     lhsSubs |-> NoSubs, rhsSubs |-> NoSubs, newConstraints |-> NoSubs,
     replacements |-> NoSubs, implied |-> NoSubs, missing |-> {},
     aborted |-> FALSE]             \* an assertion of the source failed

At(f, x, default) == IF x \in DOMAIN f THEN f[x] ELSE default

IsVariable(type) == type.tag = "variable"
IsOpen(type) == IsVariable(type) /\ ~type.quantified

\* A reference to a variable that was assigned refers to what it was assigned.
RECURSIVE Resolve(_, _)
Resolve(w, type) ==
    IF IsVariable(type) /\ type.var \in DOMAIN w.bound
    THEN Resolve(w, w.bound[type.var]) ELSE type

\* Type::equals: the same object.
SameImpl(lhs, rhs) == lhs = rhs

\* A type without the identity of its objects.
RECURSIVE Shape(_, _)
Shape(w, type) ==
    LET t == Resolve(w, type)
    IN  IF t.tag \in {"base", "variable"} THEN t
        ELSE [tag |-> t.tag, name |-> t.name,
              params |-> [i \in DOMAIN t.params |-> Shape(w, t.params[i])]]

\* equals(): the same type, whatever the objects.
Equals(w, lhs, rhs) == Shape(w, lhs) = Shape(w, rhs)

InAddressOrder(traits) == SetToSortSeq(traits, LAMBDA a, b : a.id < b.id)

AddConstraint(w, var, trait) ==
    [w EXCEPT !.constraints = (var :> (At(@, var, {}) \cup {trait})) @@ @]

Constraints(w, var) == InAddressOrder(At(w.constraints, var, {}))

\* The result of a function: a verdict or a value, and the world after it.
Done(value, w) == [value |-> value, w |-> w]
Yes(w) == Done(TRUE, w)
No(w) == Done(FALSE, w)

If(result, F(_)) == IF result.value THEN F(result.w) ELSE result

\* The steps one after the other while they succeed.
AllOf(list, w, Step(_, _)) ==
    FoldLeft(LAMBDA result, item : IF result.value THEN Step(item, result.w) ELSE result,
             Yes(w), list)

\* The first step that succeeds.
AnyOf(list, w, Step(_, _)) ==
    FoldLeft(LAMBDA result, item : IF result.value THEN result ELSE Step(item, result.w),
             No(w), list)

\* The values of the steps, one after the other.
Collect(list, w, Step(_, _)) ==
    LET Add(values, result) == Done(Append(values, result.value), result.w)
    IN  FoldLeft(LAMBDA sofar, item : Add(sofar.value, Step(item, sofar.w)), Done(<<>>, w), list)

Pairs(lhs, rhs) == [i \in DOMAIN lhs |-> <<lhs[i], rhs[i]>>]

NewComparer == [lhsSubs |-> NoSubs, rhsSubs |-> NoSubs, newConstraints |-> NoSubs]

\* One call of a function of the source by its name.
RECURSIVE Call(_, _, _)

-------------------------------------------------------------------------------
(* Instantiation and substitution. *)

InstantiateTrait(trait, w) ==
    LET params == Collect(trait.params, w, LAMBDA p, v : Call("instantiate", p, v))
    IN  IF trait.params = <<>> THEN Done(trait, w)
        ELSE Done(Trait(trait.name, params.value, params.w.next),
                  [params.w EXCEPT !.next = @ + 1])

\* A fresh variable for a quantified one, under the same constraints.
InstantiateVariable(type, w) ==
    LET fresh == TypeVariable(w.next, FALSE)
        Constrained(result) == AddConstraint(result.w, fresh.var, result.value)
        after == FoldLeft(LAMBDA v, c : Constrained(InstantiateTrait(c, v)),
                          [w EXCEPT !.next = @ + 1], Constraints(w, type.var))
    IN  CASE type.var \in DOMAIN w.replacements -> Done(w.replacements[type.var], w)
          [] type.quantified ->
                Done(fresh, [after EXCEPT !.replacements = (type.var :> fresh) @@ @])
          [] OTHER -> Done(type, w)

Rebuilt(type, params) ==
    Done(Compound(type.tag, type.name, params.value, params.w.next),
         [params.w EXCEPT !.next = @ + 1])

InternalInstantiate(type, w) ==
    CASE type.tag = "base" -> Done(type, w)
      [] type.tag = "variable" -> InstantiateVariable(type, w)
      [] OTHER -> Rebuilt(type, Collect(type.params, w,
                                        LAMBDA p, v : Call("instantiate", p, v)))

\* instantiate(): under a new assignment, which the caller's survives.
Instantiate(type, w) ==
    Call("instantiate", type, [w EXCEPT !.replacements = NoSubs])

(* What a constraint on a variable implies for others is found by unifying *)
(* a fresh instance of the variable with what replaces it.                 *)
SubstituteVariable(type, assignment, w) ==
    LET to == Resolve(w, assignment[type.var])
        Implied(new, v) ==
            LET instance == Instantiate(type, v)
                subs == instance.w.replacements
                unified == Call("tryUnify", <<instance.value, new>>, instance.w)
            IN  [unified.w EXCEPT
                    !.implied = IF unified.value
                                THEN [var \in DOMAIN subs \ DOMAIN assignment |-> subs[var]] @@ @
                                ELSE @,
                    !.replacements = v.replacements]
        After(result) == Done(result.value, Implied(result.value, result.w))
    IN  CASE type.var \notin DOMAIN assignment -> Done(type, w)
          [] to = type -> Done(type, w)
          [] OTHER -> After(Call("substitute", <<to, assignment>>, w))

SubstituteOnce(type, assignment, w) ==
    LET params == Collect(type.params, w,
                          LAMBDA p, v : Call("substitute", <<p, assignment>>, v))
        unchanged == \A i \in DOMAIN type.params :
                        Resolve(params.w, params.value[i]) = Resolve(params.w, type.params[i])
    IN  CASE type.tag = "base" -> Done(type, w)
          [] type.tag = "variable" -> SubstituteVariable(type, assignment, w)
          [] OTHER -> IF unchanged THEN Done(type, params.w) ELSE Rebuilt(type, params)

\* Again with what was implied, until nothing more is.
FullySubstitute(type, assignment, w) ==
    LET Again(result) ==
            IF result.w.implied = NoSubs
            THEN Done(result.value, [result.w EXCEPT !.implied = w.implied])
            ELSE Call("fullySubstitute", <<type, result.w.implied @@ assignment>>,
                      [result.w EXCEPT !.implied = w.implied])
    IN  Again(Call("substitute", <<type, assignment>>, [w EXCEPT !.implied = NoSubs]))

-------------------------------------------------------------------------------
(* The subtype relation (TypeComparer). *)

Comparer(w) == [lhsSubs |-> w.lhsSubs, rhsSubs |-> w.rhsSubs,
                newConstraints |-> w.newConstraints]
WithComparer(w, c) == [w EXCEPT !.lhsSubs = c.lhsSubs, !.rhsSubs = c.rhsSubs,
                                !.newConstraints = c.newConstraints]

\* A transaction that is not accepted is rolled back.
Transact(w, result) ==
    IF result.value THEN result ELSE No(WithComparer(result.w, Comparer(w)))

\* A question put to a comparer of its own: only the answer, and what was
\* bound on the way, remain.
Ask(function, args, w) ==
    LET answer == Call(function, args, WithComparer(w, NewComparer))
    IN  [answer EXCEPT !.w = WithComparer(@, Comparer(w))]

IsSubtype(lhs, rhs, w) == Ask("compare", <<lhs, rhs>>, w)
IsInstanceOf(type, trait, w) == Ask("compareToTrait", <<type, trait>>, w)

RECURSIVE Lookup(_, _, _)
Lookup(w, type, subs) ==
    LET t == Resolve(w, type)
    IN  IF IsVariable(t) /\ t.var \in DOMAIN subs THEN Lookup(w, subs[t.var], subs) ELSE t

GetConstraints(w, var) ==
    InAddressOrder(At(w.constraints, var, {}) \cup At(w.newConstraints, var, {}))

NewConstraints(w, var, traits) ==
    [w EXCEPT !.newConstraints = (var :> (At(@, var, {}) \cup traits)) @@ @]

CompareTraits(lhs, rhs, w) ==
    IF lhs.name # rhs.name THEN No(w)
    ELSE AllOf(Pairs(lhs.params, rhs.params), w, LAMBDA p, v : Call("compare", p, v))

\* Whether this instance of the trait holds of the type.
MatchesInstance(type, instance, trait, w) ==
    LET fresh == Instantiate(instance.type, w)
        subs == fresh.w.replacements
        start == [fresh.w EXCEPT !.replacements = w.replacements]
        Param(pair, v) ==
            LET x == Call("fullySubstitute", <<pair[1], subs>>, v)
            IN  Call("compare", <<x.value, pair[2]>>, x.w)
    IN  If(Call("compare", <<type, fresh.value>>, start),
           LAMBDA v : AllOf(Pairs(instance.traitParams, trait.params), v, Param))

CompareToTrait(type, trait, w) ==
    LET lhs == Lookup(w, Lookup(w, type, w.rhsSubs), w.lhsSubs)
        byConstraint ==
            IF ~IsVariable(lhs) THEN No(w)
            ELSE AnyOf(GetConstraints(w, lhs.var), w,
                       LAMBDA c, v : CompareTraits(c, trait, v))
        OrByInstance(result) ==
            IF result.value THEN result
            ELSE AnyOf(w.instances[trait.name], result.w,
                       LAMBDA i, v : Transact(v, MatchesInstance(lhs, i, trait, v)))
    IN  IF IsOpen(lhs) THEN Yes(NewConstraints(w, lhs.var, {trait}))
        ELSE Transact(w, OrByInstance(byConstraint))

\* compare(TypeVariable*, Type*): the variable is not quantified.
CompareOpen(var, rhs, w) ==
    LET Assigned(v) == [v EXCEPT !.lhsSubs = (var :> rhs) @@ @]
        Kept(v) ==
            LET old == Resolve(v, v.lhsSubs[var])
                narrower == Call("compare", <<rhs, old>>, v)
            IN  IF var \notin DOMAIN v.lhsSubs THEN Yes(Assigned(v))
                ELSE IF narrower.value THEN Yes(Assigned(narrower.w))
                ELSE Call("compare", <<old, rhs>>, narrower.w)
    IN  IF IsVariable(rhs)
        THEN Yes(NewConstraints(w, var, At(w.constraints, rhs.var, {})))
        ELSE Transact(w, If(AllOf(GetConstraints(w, var), w,
                                  LAMBDA c, v : Call("compareToTrait", <<rhs, c>>, v)),
                            Kept))

\* Mutant of CompareToVariable: a type is substituted for the variable whether
\* it satisfies the constraints or not.
CompareToAnyVariable(lhs, rhs, w) ==
    IF rhs.var \in DOMAIN w.rhsSubs
    THEN Done(SameImpl(Resolve(w, w.rhsSubs[rhs.var]), lhs), w)
    ELSE Yes([w EXCEPT !.rhsSubs = (rhs.var :> lhs) @@ @])

\* compare(Type*, TypeVariable*)
CompareToVariable(lhs, rhs, w) ==
    LET old == Resolve(w, w.rhsSubs[rhs.var])
        oldFirst == IF IsOpen(old) THEN CompareOpen(old.var, lhs, w) ELSE No(w)
        OrNewFirst(result) ==
            IF result.value \/ ~IsOpen(lhs) THEN result
            ELSE CompareOpen(lhs.var, old, result.w)
    IN  IF rhs.var \in DOMAIN w.rhsSubs
        THEN IF SameImpl(old, lhs) THEN Yes(w) ELSE Transact(w, OrNewFirst(oldFirst))
        ELSE Transact(w, If(AllOf(Constraints(w, rhs.var), w,
                                  LAMBDA c, v : Call("compareToTrait", <<lhs, c>>, v)),
                            LAMBDA v : Yes([v EXCEPT !.rhsSubs = (rhs.var :> lhs) @@ @])))

\* compare(Type*, Type*)
Compare(lhs, rhs, w) ==
    CASE IsVariable(rhs) -> Transact(w, CompareToVariable(lhs, rhs, w))
      [] IsOpen(lhs) -> Transact(w, CompareOpen(lhs.var, rhs, w))
      [] IsVariable(lhs) \/ lhs.tag # rhs.tag -> No(w)
      [] lhs.tag = "base" -> Done(lhs = rhs, w)
      [] lhs.name # rhs.name \/ Len(lhs.params) # Len(rhs.params) -> No(w)
      [] OTHER -> Transact(w, AllOf(Pairs(lhs.params, rhs.params), w,
                                    LAMBDA p, v : Call("compare", p, v)))

-------------------------------------------------------------------------------
(* Overlap: whether some concrete type is both.  All variables are          *)
(* quantified.                                                              *)

Overlap(left, right, w) ==
    LET lhs == Lookup(w, left, w.lhsSubs)
        rhs == Lookup(w, right, w.rhsSubs)
    IN  CASE IsVariable(lhs) /\ Equals(w, lhs, rhs) -> Yes(w)
          [] IsVariable(lhs) /\ IsVariable(rhs) ->
                Yes([NewConstraints(w, rhs.var, At(w.constraints, lhs.var, {}))
                        EXCEPT !.lhsSubs = (lhs.var :> rhs) @@ @])
          [] IsVariable(lhs) /\ ~IsVariable(rhs) ->
                If(AllOf(Constraints(w, lhs.var), w, LAMBDA c, v : IsInstanceOf(rhs, c, v)),
                   LAMBDA v : Yes([v EXCEPT !.lhsSubs = (lhs.var :> rhs) @@ @]))
          [] ~IsVariable(lhs) /\ IsVariable(rhs) ->
                If(AllOf(Constraints(w, rhs.var), w, LAMBDA c, v : IsInstanceOf(lhs, c, v)),
                   LAMBDA v : Yes([v EXCEPT !.rhsSubs = (rhs.var :> lhs) @@ @]))
          [] lhs.tag # rhs.tag -> No(w)
          [] lhs.tag = "base" -> Done(lhs = rhs, w)
          [] lhs.name # rhs.name \/ Len(lhs.params) # Len(rhs.params) -> No(w)
          [] OTHER -> AllOf(Pairs(lhs.params, rhs.params), w,
                            LAMBDA p, v : Call("overlap", p, v))

\* The type of the first instance of the trait that overlaps the type.
OverlappingInstances(trait, type, w) ==
    SelectSeq(w.instances[trait], LAMBDA i : Ask("overlap", <<type, i.type>>, w).value)

-------------------------------------------------------------------------------
(* Unification. *)

RECURSIVE Occurs(_, _, _)
Occurs(var, type, w) ==
    LET t == Resolve(w, type)
        inside == CASE t.tag = "base" -> {}
                    [] t.tag = "variable" -> UNION {Range(c.params) : c \in At(w.constraints, t.var, {})}
                    [] OTHER -> Range(t.params)
    IN  t = TypeVariable(var, FALSE) \/ \E p \in inside : Occurs(var, p, w)

\* TypeVariable::assign(), which asserts that the variable is free.
Assign(var, type, w) ==
    IF \/ var.quantified
       \/ var.var \in DOMAIN w.bound
       \/ Resolve(w, type) = var
    THEN No([w EXCEPT !.aborted = TRUE])
    ELSE Yes([w EXCEPT !.bound = (var.var :> type) @@ @])

(* The substitutions that a comparison of two constraints made are bound,   *)
(* whether that succeeds or not.  The variables of the right are found by   *)
(* a reference to them: one that was assigned has none.                     *)
BindSubs(lhsSubs, rhsSubs, w) ==
    LET Left(v, var) ==
            Call("bindVariable", <<TypeVariable(var, var \in w.quantified), lhsSubs[var]>>, v).w
        Right(v, var) ==
            CASE ~IsVariable(Resolve(v, rhsSubs[var])) -> v
              [] var \in DOMAIN v.bound -> [v EXCEPT !.aborted = TRUE]
              [] OTHER -> Call("bindVariable",
                               <<rhsSubs[var], TypeVariable(var, var \in w.quantified)>>, v).w
        Ordered(subs) == SetToSortSeq(DOMAIN subs, LAMBDA a, b : a < b)
    IN  FoldLeft(LAMBDA v, var : Right(v, var),
                 FoldLeft(LAMBDA v, var : Left(v, var), w, Ordered(lhsSubs)),
                 Ordered(rhsSubs))

\* Mutant of MatchConstraint: what a matching constraint says of the
\* parameters is not bound.
MatchByName(constraint, rhs, w) ==
    IF \E c \in At(w.constraints, rhs.var, {}) : c.name = constraint.name THEN Yes(w)
    ELSE IF rhs.quantified THEN IsInstanceOf(rhs, constraint, w)
    ELSE Yes([w EXCEPT !.missing = @ \cup {constraint}])

(* A constraint of the variable on the left.  If a constraint of the       *)
(* variable on the right matches it, what follows for the parameters is    *)
(* bound; if none does, an open variable acquires it in the end, and a     *)
(* quantified one has to satisfy it by an instance.                        *)
MatchConstraint(constraint, rhs, w) ==
    LET Bind(match, v) ==
            IF match.value
            THEN Yes(BindSubs(match.w.lhsSubs, match.w.rhsSubs, WithComparer(match.w, Comparer(v))))
            ELSE No(WithComparer(match.w, Comparer(v)))
        matched == AnyOf(Constraints(w, rhs.var), w, LAMBDA c, v :
                         Bind(Call("compareTraits", <<constraint, c>>,
                                   WithComparer(v, NewComparer)), v))
    IN  CASE matched.value -> matched
          [] ~matched.value /\ rhs.quantified -> IsInstanceOf(rhs, constraint, matched.w)
          [] OTHER -> Yes([matched.w EXCEPT !.missing = @ \cup {constraint}])

BindToVariable(var, rhs, w) ==
    LET matched == AllOf(Constraints(w, var.var), [w EXCEPT !.missing = {}],
                         LAMBDA c, v : MatchConstraint(c, rhs, v))
        Acquired(v) == FoldSet(LAMBDA c, u : AddConstraint(u, rhs.var, c),
                               [v EXCEPT !.missing = w.missing], v.missing)
    IN  If(matched, LAMBDA v : Assign(var, rhs, Acquired(v)))

\* Every constraint has to hold of the type, which must not hold the variable.
BindToType(var, type, w) ==
    If(AllOf(Constraints(w, var.var), w,
             LAMBDA c, v : Call("tryUnifyTrait", <<type, c>>, v)),
       LAMBDA v : IF Occurs(var.var, type, v) THEN No(v)
                  ELSE Assign(var, type, v))

\* Mutant of BindVariable: a variable is bound to itself.
BindEvenToItself(var, type, w) ==
    IF IsVariable(type) THEN BindToVariable(var, type, w) ELSE BindToType(var, type, w)

BindVariable(var, type, w) ==
    CASE var = type -> Yes(w)
      [] var # type /\ IsVariable(type) -> BindToVariable(var, type, w)
      [] OTHER -> BindToType(var, type, w)

\* Mutants of TryUnify: only the first parameters of compounds are unified;
\* only a variable on the left is bound.
TryUnifyFirst(lhs, rhs, w) ==
    CASE IsOpen(lhs) -> BindVariable(lhs, rhs, w)
      [] ~IsOpen(lhs) /\ IsOpen(rhs) -> BindVariable(rhs, lhs, w)
      [] lhs.tag # rhs.tag -> No(w)
      [] OTHER -> IF lhs.tag \in {"constructed", "function"}
                  THEN Call("tryUnify", <<lhs.params[1], rhs.params[1]>>, w)
                  ELSE Done(lhs = rhs, w)

TryUnifyToTheRight(lhs, rhs, w) ==
    CASE IsOpen(lhs) -> BindVariable(lhs, rhs, w)
      [] lhs.tag # rhs.tag -> No(w)
      [] lhs.tag = rhs.tag /\ lhs.tag \in {"constructed", "function"} ->
            IF lhs.name = rhs.name
            THEN AllOf(Pairs(lhs.params, rhs.params), w, LAMBDA p, v : Call("tryUnify", p, v))
            ELSE No(w)
      [] OTHER -> Done(lhs = rhs, w)

TryUnify(lhs, rhs, w) ==
    CASE IsOpen(lhs) -> BindVariable(lhs, rhs, w)
      [] IsVariable(lhs) /\ lhs = rhs -> Yes(w)
      [] ~IsOpen(lhs) /\ IsOpen(rhs) -> BindVariable(rhs, lhs, w)
      [] lhs.tag = "base" /\ rhs.tag = "base" -> Done(lhs = rhs, w)
      [] /\ lhs.tag \in {"constructed", "function"} /\ lhs.tag = rhs.tag
         /\ lhs.name = rhs.name /\ Len(lhs.params) = Len(rhs.params) ->
            AllOf(Pairs(lhs.params, rhs.params), w, LAMBDA p, v : Call("tryUnify", p, v))
      [] OTHER -> No(w)

\* The first parameters are unified, once for every parameter.
TryUnifyTraits(lhs, rhs, w) ==
    AllOf(lhs.params, w, LAMBDA p, v : Call("tryUnify", <<lhs.params[1], rhs.params[1]>>, v))

\* The parameters of the trait are those of the first instance the type is
\* a subtype of.
UnifyWithInstance(type, trait, w) ==
    LET Unified(instance, match, v) ==
            AllOf(Pairs(instance.traitParams, trait.params), WithComparer(match, Comparer(v)),
                  LAMBDA p, u : LET param == Call("fullySubstitute", <<p[1], match.rhsSubs>>, u)
                                IN  Call("tryUnify", <<p[2], param.value>>, param.w))
        Try(instance, sofar) ==
            LET match == Call("compare", <<type, instance.type>>,
                              WithComparer(sofar.result.w, NewComparer))
            IN  CASE sofar.found -> sofar
                  [] ~sofar.found /\ match.value ->
                        [found |-> TRUE, result |-> Unified(instance, match.w, sofar.result.w)]
                  [] OTHER -> [found |-> FALSE,
                               result |-> No(WithComparer(match.w, Comparer(sofar.result.w)))]
    IN  FoldLeft(LAMBDA sofar, instance : Try(instance, sofar),
                 [found |-> FALSE, result |-> No(w)], w.instances[trait.name]).result

\* A variable that has no constraint of this trait acquires it, unless it is
\* quantified, and both are then looked up among the instances.
TryUnifyTrait(type, trait, w) ==
    LET own == SelectSeq(Constraints(w, type.var), LAMBDA c : c.name = trait.name)
    IN  CASE ~IsVariable(type) -> UnifyWithInstance(type, trait, w)
          [] IsVariable(type) /\ own # <<>> -> TryUnifyTraits(own[1], trait, w)
          [] IsOpen(type) /\ own = <<>> ->
                UnifyWithInstance(type, trait, AddConstraint(w, type.var, trait))
          [] OTHER -> UnifyWithInstance(type, trait, w)

-------------------------------------------------------------------------------
(* The functions by name. *)

Call(function, args, w) ==
    CASE function = "instantiate" -> InternalInstantiate(Resolve(w, args), w)
      [] function = "substitute" -> SubstituteOnce(Resolve(w, args[1]), args[2], w)
      [] function = "fullySubstitute" -> FullySubstitute(args[1], args[2], w)
      [] function = "compareTraits" -> CompareTraits(args[1], args[2], w)
      [] function = "compareToTrait" -> CompareToTrait(args[1], args[2], w)
      [] function = "compare" -> Compare(Resolve(w, args[1]), Resolve(w, args[2]), w)
      [] function = "overlap" -> Overlap(args[1], args[2], w)
      [] function = "bindVariable" ->
            BindVariable(Resolve(w, args[1]), Resolve(w, args[2]), w)
      [] function = "tryUnify" -> TryUnify(Resolve(w, args[1]), Resolve(w, args[2]), w)
      [] function = "tryUnifyTrait" -> TryUnifyTrait(Resolve(w, args[1]), args[2], w)
===============================================================================
