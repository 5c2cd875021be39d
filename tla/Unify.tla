-------------------------------- MODULE Unify --------------------------------
(***************************************************************************)
(* Types and their unification (src/src/types.rs, Checker).                *)
(*                                                                         *)
(* A checker is a record: subst and kinds (one entry per type variable),   *)
(* env (a stack of scopes), sigs, and what inference collects.  Everything *)
(* that may fail returns [c, t, err], err being the code of the diagnostic *)
(* or NoError; what was bound before a failure stays bound.                *)
(***************************************************************************)
EXTENDS Integers, Sequences, FiniteSets, SequencesExt

\* A set in some order; SetToSeq looks at every order there is.
Listed(xs) == FoldSet(LAMBDA x, s : Append(s, x), <<>>, xs)

\* A type.  A written type (ast.rs, Ty) may also be a borrow or a named variable.
Type(k, n, i, xs) == [k |-> k, n |-> n, i |-> i, xs |-> xs]
TVar(i)    == Type("Var", "", i, <<>>)
Con(n, xs) == Type("Con", n, 0, xs)
Fun(a, b)  == Type("Fun", "", 0, <<a, b>>)
Tup(xs)    == Type("Tup", "", 0, xs)
Eff(t)     == Type("Eff", "", 0, <<t>>)
Ref(t)     == Type("Ref", "", 0, <<t>>)
Named(n)   == Type("Named", n, 0, <<>>)

Prim(n) == Con(n, <<>>)
Unit    == Prim("Unit")
Arrows(ps, r) == FoldRight(Fun, ps, r)

IntTypes   == {"U8", "U16", "U32", "U64", "I8", "I16", "I32", "I64"}
FloatTypes == {"F32", "F64"}
IsNum(n)   == n \in IntTypes \cup FloatTypes
IsScalarName(n) == IsNum(n) \/ n \in {"Bool", "Char", "Unit", "Nat", "Size", "CStr", "Ptr"}

NoError == ""
Unbound == Type("Unbound", "", 0, <<>>)
Ok(c, t)      == [c |-> c, t |-> t, err |-> NoError]
Fail(c, code) == [c |-> c, t |-> Unbound, err |-> code]
Then(r, K(_, _)) == IF r.err = NoError THEN K(r.c, r.t) ELSE r

Fresh(c, kind) ==
  Ok([c EXCEPT !.subst = Append(@, Unbound), !.kinds = Append(@, kind)], TVar(Len(c.subst) + 1))

RECURSIVE Resolve(_, _)
Resolve(c, t) ==
  IF t.k = "Var"
    THEN IF c.subst[t.i] = Unbound THEN t ELSE Resolve(c, c.subst[t.i])
    ELSE [t EXCEPT !.xs = [j \in DOMAIN t.xs |-> Resolve(c, t.xs[j])]]

\* The variables of a type, and the names of a written one, from the left.
RECURSIVE CollectVars(_)
CollectVars(t) ==
  IF t.k \in {"Var", "Named"} THEN <<t>>
  ELSE FlattenSeq([j \in DOMAIN t.xs |-> CollectVars(t.xs[j])])

\* Seeded fault: a variable is bound to a type it is part of.
OccursNever(c, v, t) == FALSE

Occurs(c, v, t) == TVar(v) \in ToSet(CollectVars(Resolve(c, t)))

\* Seeded fault: the weaker constraint survives.
BindVarWeak(c, v, t) ==
  CASE Occurs(c, v, t) -> Fail(c, "type.infinite")
    [] c.kinds[v] = "Num" /\ t.k = "Con" /\ ~IsNum(t.n) -> Fail(c, "type.mismatch")
    [] c.kinds[v] = "Float" /\ t.k = "Con" /\ t.n \notin FloatTypes -> Fail(c, "type.mismatch")
    [] OTHER -> Ok([c EXCEPT !.subst[v] = t], t)

BindVar(c, v, t) ==
  LET strongest(k, l) == IF "Float" \in {k, l} THEN "Float" ELSE IF "Num" \in {k, l} THEN "Num" ELSE "Any"
      bound == [c EXCEPT !.subst[v] = t]
  IN  CASE Occurs(c, v, t) -> Fail(c, "type.infinite")
        [] c.kinds[v] = "Num" /\ t.k = "Con" /\ ~IsNum(t.n) -> Fail(c, "type.mismatch")
        [] c.kinds[v] = "Float" /\ t.k = "Con" /\ t.n \notin FloatTypes -> Fail(c, "type.mismatch")
        [] t.k = "Var" -> Ok([bound EXCEPT !.kinds[t.i] = strongest(c.kinds[v], @)], t)
        [] OTHER -> Ok(bound, t)

RECURSIVE Unify(_, _, _)
Unify(c, x, y) ==
  LET a == Resolve(c, x)
      b == Resolve(c, y)
      alike == a.k = b.k /\ a.n = b.n /\ Len(a.xs) = Len(b.xs)
  IN  CASE a.k = "Var" /\ a = b -> Ok(c, a)
        [] a.k = "Var" /\ a # b -> BindVar(c, a.i, b)
        [] a.k # "Var" /\ b.k = "Var" -> BindVar(c, b.i, a)
        [] a.k # "Var" /\ b.k # "Var" /\ alike ->
             FoldLeft(LAMBDA r, j : Then(r, LAMBDA d, t : Unify(d, a.xs[j], b.xs[j])),
                      Ok(c, a), [j \in DOMAIN a.xs |-> j])
        [] a.k = "Eff" /\ b.k \notin {"Var", "Eff"} -> Fail(c, "effect.leak")
        [] b.k = "Eff" /\ a.k \notin {"Var", "Eff"} -> Fail(c, "effect.missing")
        [] OTHER -> Fail(c, "type.mismatch")

\* What a literal is that nothing else decides.
DefaultNumerics(c) ==
  LET default == [Num |-> Prim("I64"), Float |-> Prim("F64"), Any |-> Unbound]
  IN  [c EXCEPT !.subst = [i \in DOMAIN @ |-> IF @[i] = Unbound THEN default[c.kinds[i]] ELSE @[i]]]

(***************************************************************************)
(* Schemes and scopes.                                                     *)
(***************************************************************************)
Mono(t) == [vars |-> <<>>, ty |-> t]

RECURSIVE Replace(_, _)
Replace(t, to) ==
  IF t \in DOMAIN to THEN to[t] ELSE [t EXCEPT !.xs = [j \in DOMAIN t.xs |-> Replace(t.xs[j], to)]]

\* One fresh variable for each of vars: t of the result is the substitution.
FreshFor(c, vars) ==
  [c |-> [c EXCEPT !.subst = @ \o [j \in DOMAIN vars |-> Unbound],
                   !.kinds = @ \o [j \in DOMAIN vars |-> "Any"]],
   to |-> [v \in ToSet(vars) |-> TVar(Len(c.subst) + CHOOSE j \in DOMAIN vars : vars[j] = v)]]

Instantiate(c, s) ==
  LET f == FreshFor(c, s.vars) IN Ok(f.c, Replace(s.ty, f.to))

Generalise(c, t) ==
  LET r == Resolve(c, t)
  IN  [vars |-> Listed(ToSet(CollectVars(r))), ty |-> r]

\* Borrows are erased; Nat and Size are names of U64.
RECURSIVE Erase(_)
Erase(t) ==
  CASE t.k = "Ref" -> Erase(t.xs[1])
    [] t.k = "Con" /\ t.n \in {"Nat", "Size"} -> Prim("U64")
    [] OTHER -> [t EXCEPT !.xs = [j \in DOMAIN t.xs |-> Erase(t.xs[j])]]

\* Several written types that share their variables, lowered together: t of the
\* result is a tuple.
Lower(c, tys) ==
  LET erased == [j \in DOMAIN tys |-> Erase(tys[j])]
      names  == Listed(ToSet(FlattenSeq([j \in DOMAIN tys |-> CollectVars(erased[j])])))
      f      == FreshFor(c, names)
  IN  [c |-> f.c, t |-> [j \in DOMAIN tys |-> Replace(erased[j], f.to)]]

PushScope(c)    == [c EXCEPT !.env = Append(@, [n \in {} |-> Mono(Unit)])]
PopScope(c)     == [c EXCEPT !.env = Front(@)]
Define(c, n, s) == [c EXCEPT !.env[Len(c.env)] = [m \in DOMAIN @ \cup {n} |-> IF m = n THEN s ELSE @[m]]]
Bound(c, at, n, t) == [c EXCEPT !.binds = Append(@, [at |-> at, n |-> n, t |-> t])]

IsBound(c, n) == n \in DOMAIN c.sigs \/ \E i \in DOMAIN c.env : n \in DOMAIN c.env[i]
Lookup(c, n) ==
  LET scopes == {i \in DOMAIN c.env : n \in DOMAIN c.env[i]}
  IN  IF scopes = {} THEN c.sigs[n] ELSE c.env[CHOOSE i \in scopes : \A j \in scopes : j <= i][n]
=============================================================================
