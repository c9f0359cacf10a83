------------------------------ MODULE TypeMeaning ------------------------------
(***************************************************************************)
(* What types mean, apart from how the analyser computes with them: a type *)
(* whose variables are quantified is the set of the concrete types that    *)
(* some choice for the variables makes of it, a choice that satisfies      *)
(* their constraints (rules 1 to 4 of src/semantic/subtype.hpp:14-45).      *)
(*                                                                         *)
(* A concrete type is the shape of a type without variables; a quantified  *)
(* variable that a function is generic in is one too, where nothing is     *)
(* known of it but its constraints.  A choice is a function from variables *)
(* to concrete types.                                                      *)
(***************************************************************************)
EXTENDS Types

\* The choices, extending b, that make the concrete types zs of the patterns.
RECURSIVE MatchAll(_, _, _)
MatchAll(patterns, zs, b) ==
    LET p == Head(patterns)
        z == Head(zs)
        here == CASE IsVariable(p) /\ p.var \in DOMAIN b -> IF b[p.var] = z THEN {b} ELSE {}
                  [] IsVariable(p) /\ p.var \notin DOMAIN b -> {(p.var :> z) @@ b}
                  [] ~IsVariable(p) /\ p.tag = "base" -> IF p = z THEN {b} ELSE {}
                  [] OTHER -> IF z.tag = p.tag /\ z.name = p.name /\ Len(z.params) = Len(p.params)
                              THEN MatchAll(p.params, z.params, b) ELSE {}
    IN  IF patterns = <<>> THEN {b}
        ELSE UNION {MatchAll(Tail(patterns), Tail(zs), c) : c \in here}

\* The concrete type that a choice makes of a type.
RECURSIVE Chosen(_, _, _)
Chosen(type, b, w) ==
    LET t == Resolve(w, type)
    IN  CASE IsVariable(t) -> At(b, t.var, t)
          [] t.tag = "base" -> t
          [] OTHER -> [tag |-> t.tag, name |-> t.name,
                       params |-> [i \in DOMAIN t.params |-> Chosen(t.params[i], b, w)]]

\* The parameters for which the concrete type z is an instance of a trait.
RECURSIVE ParamsOf(_, _, _)

(* The choices, of bs and extending them, that satisfy the constraints of   *)
(* the variables they choose for; the second round is for the variables     *)
(* that only the constraints of others name.                                *)
Satisfying(bs, w) ==
    LET Under(some, v, c) ==
            UNION {UNION {MatchAll(c.params, p, b) : p \in ParamsOf(c.name, b[v], w)} : b \in some}
        Constrained(some) ==
            UNION {{<<v, c>> : c \in At(w.constraints, v, {})} : v \in UNION {DOMAIN b : b \in some}}
        Round(some) == FoldSet(LAMBDA vc, sofar : Under(sofar, vc[1], vc[2]), some, Constrained(some))
    IN  Round(Round(bs))

\* By an instance of the trait, or, when z is a variable, by its constraint.
ParamsOf(name, z, w) ==
    LET Chosens(params, b) == [k \in DOMAIN params |-> Chosen(params[k], b, w)]
        ChoicesFor(i) == Satisfying(MatchAll(<<i.type>>, <<z>>, NoSubs), w)
    IN  UNION {{Chosens(i.traitParams, b) : b \in ChoicesFor(i)} : i \in Range(w.instances[name])}
        \cup IF ~IsVariable(z) THEN {}
             ELSE {Chosens(c.params, NoSubs) :
                       c \in {d \in At(w.constraints, z.var, {}) : d.name = name}}

\* Whether the concrete type z is one of those the type stands for.
Denotes(type, z, w) == Satisfying(MatchAll(<<type>>, <<z>>, NoSubs), w) # {}
===============================================================================
