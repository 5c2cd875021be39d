-------------------------------- MODULE Infer --------------------------------
(***************************************************************************)
(* The type of an expression (src/src/infer.rs): one operator per form,    *)
(* each threading the checker through the calls it makes.                  *)
(*                                                                         *)
(* A node is at a path of child indices, which stands for its span.  Left  *)
(* out: characters and decimal patterns, which are typed as strings and    *)
(* integers are.                                                           *)
(***************************************************************************)
EXTENDS Unify, Exhaustive

\* A node: kind, name, value, the names or the patterns it lists, children.
Node(k, n, i, ns, ps, xs) == [k |-> k, n |-> n, i |-> i, ns |-> ns, ps |-> ps, xs |-> xs]
Leaf(k, n, i)   == Node(k, n, i, <<>>, <<>>, <<>>)
Num(i)          == Leaf("Int", "", i)
Huge            == Leaf("Int", "huge", 0)           \* past i64::MAX
Flt             == Leaf("Float", "", 0)
Txt             == Leaf("Str", "", 0)
Bool(b)         == Leaf("Bool", "", IF b THEN 1 ELSE 0)
Void            == Leaf("Unit", "", 0)
Var(n)          == Leaf("Var", n, 0)
Ctor(n)         == Leaf("Ctor", n, 0)
App(f, xs)      == Node("App", "", 0, <<>>, <<>>, <<f>> \o xs)
Binop(op, a, b) == Node("Binop", op, 0, <<>>, <<>>, <<a, b>>)
Neg(a)          == Node("Neg", "", 0, <<>>, <<>>, <<a>>)
Not(a)          == Node("Not", "", 0, <<>>, <<>>, <<a>>)
Borrow(a)       == Node("Borrow", "", 0, <<>>, <<>>, <<a>>)
Tuple(xs)       == Node("Tuple", "", 0, <<>>, <<>>, xs)
List(xs)        == Node("List", "", 0, <<>>, <<>>, xs)
Lambda(ns, b)   == Node("Lambda", "", 0, ns, <<>>, <<b>>)
Let(n, v, b)    == Node("Let", n, 0, <<>>, <<>>, <<v, b>>)
Bind(n, v, b)   == Node("Bind", n, 0, <<>>, <<>>, <<v, b>>)
Match(s, ps, bs) == Node("Match", "", 0, <<>>, ps, <<s>> \o bs)
Field(b, f)     == Node("Field", f, 0, <<>>, <<>>, <<b>>)
Record(fs, vs)  == Node("Record", "", 0, fs, <<>>, vs)
With(b, fs, vs) == Node("With", "", 0, fs, <<>>, <<b>> \o vs)

Specials == {"fmt", "show", "len"}

\* In order, for its effect on the checker.
Each(c, t, js, step(_, _, _)) ==
  FoldLeft(LAMBDA r, j : Then(r, LAMBDA d, u : step(d, u, j)), Ok(c, t), js)
Indices(s) == [j \in DOMAIN s |-> j]

RECURSIVE Child(_, _, _, _)

IntLiteral(c, huge) == IF huge THEN Ok(c, Prim("U64")) ELSE Fresh(c, "Num")

\* Child j has type t.
ChildIs(c, e, at, j, t) == Then(Child(c, e, at, j), LAMBDA d, u : Unify(d, u, t))

(***************************************************************************)
(* Patterns.                                                               *)
(***************************************************************************)
RECURSIVE PatNames(_)
PatNames(p) == IF p.k = "Var" THEN <<p.n>> ELSE FlattenSeq([j \in DOMAIN p.ps |-> PatNames(p.ps[j])])

RECURSIVE BindPattern(_, _, _)
BindUnder(c, p, tys) ==
  Each(c, Unit, Indices(p.ps), LAMBDA d, u, j : BindPattern(d, p.ps[j], tys[j]))

\* The type of what a constructor belongs to, and of its arguments, with fresh
\* variables for the parameters.
CtorTypes(c, n) ==
  LET info == c.data.ctors[n]
  IN  Lower(c, <<Con(info.owner, [j \in DOMAIN info.params |-> Named(info.params[j])])>> \o info.args)

BindPattern(c, p, t) ==
  CASE p.k = "Wild" -> Ok(c, Unit)
    [] p.k = "Var"  -> Ok(Define(c, p.n, Mono(t)), Unit)
    [] p.k = "Int"  -> Then(IntLiteral(c, p.n = "huge"), LAMBDA d, n : Unify(d, t, n))
    [] p.k = "Str"  -> Unify(c, t, Prim("Str"))
    [] p.k = "Tup"  ->
         LET f == FreshFor(c, Indices(p.ps))
             ts == [j \in DOMAIN p.ps |-> f.to[j]]
         IN  Then(Unify(f.c, t, Tup(ts)), LAMBDA d, u : BindUnder(d, p, ts))
    [] p.k = "List" ->
         Then(Fresh(c, "Any"), LAMBDA d, el :
           Then(Unify(d, t, Con("Vec", <<el>>)), LAMBDA d1, u :
             BindUnder(d1, p, [j \in DOMAIN p.ps |-> el])))
    [] p.k = "Ctor" /\ p.n \in {"True", "False"} -> Unify(c, t, Prim("Bool"))
    [] p.k = "Ctor" /\ p.n \notin {"True", "False"} ->
         IF p.n \notin DOMAIN c.data.ctors THEN Fail(c, "name.unbound")
         ELSE IF Len(p.ps) # Len(c.data.ctors[p.n].args) THEN Fail(c, "pattern.arity")
         ELSE LET l == CtorTypes(c, p.n)
              IN  Then(Unify(l.c, t, l.t[1]), LAMBDA d, u : BindUnder(d, p, Tail(l.t)))

\* Seeded fault: names under a constructor or in a tuple are not told of.
RecordPatternFlat(c, p, at) == IF p.k = "Var" THEN Bound(c, at, p.n, Lookup(c, p.n).ty) ELSE c

\* The ownership pass is told what a pattern's names hold.
RecordPattern(c, p, at) ==
  FoldLeft(LAMBDA d, n : Bound(d, at, n, Lookup(d, n).ty), c, PatNames(p))

(***************************************************************************)
(* Names and calls.                                                        *)
(***************************************************************************)
InferName(c, e) ==
  IF e.k = "Var" /\ e.n \in Specials
    THEN LET result == IF e.n = "len" THEN Prim("U64") ELSE Prim("Str")
         IN  IF e.n = "fmt" THEN Ok(c, Fun(Prim("Str"), Prim("Str")))
             ELSE Then(Fresh(c, "Any"), LAMBDA d, a : Ok(d, Fun(a, result)))
  ELSE IF IsBound(c, e.n) THEN Instantiate(c, Lookup(c, e.n))
  ELSE Fail(c, "name.unbound")

InferSpecial(c, e, at) ==
  LET f == e.xs[1].n
      args == [j \in 1..(Len(e.xs) - 1) |-> j + 1]
  IN  CASE f = "fmt" /\ args = <<>> -> Fail(c, "fmt.args")
        [] f = "fmt" /\ args # <<>> ->
             Then(ChildIs(c, e, at, 2, Prim("Str")), LAMBDA d, u :
               Each(d, Prim("Str"), Tail(args), LAMBDA d1, t, j :
                 Then(Child(d1, e, at, j), LAMBDA d2, w : Ok(d2, t))))
        [] f # "fmt" /\ Len(args) # 1 -> Fail(c, "arity.mismatch")
        [] OTHER ->
             Then(Child(c, e, at, 2), LAMBDA d, a :
               LET r == Resolve(d, a)
               IN  IF f = "show" THEN Ok(d, Prim("Str"))
                   ELSE IF r.k = "Con" /\ r.n \notin {"Vec", "Str", "Dict"} THEN Fail(d, "type.mismatch")
                   ELSE Ok(d, Prim("U64")))

\* One argument at a time: what the call has produced so far takes one more.
InferCall(c, e, at) ==
  Then(Child(c, e, at, 1), LAMBDA d, head :
    Each(d, head, [j \in 1..(Len(e.xs) - 1) |-> j + 1], LAMBDA d1, ft, j :
      Then(Child(d1, e, at, j), LAMBDA d2, arg :
        Then(Fresh(d2, "Any"), LAMBDA d3, rt :
          IF Resolve(d3, ft).k \notin {"Fun", "Var"} THEN Fail(d3, "arity.excess")
          ELSE Then(Unify(d3, ft, Fun(arg, rt)), LAMBDA d4, u : Ok(d4, rt))))))

InferApp(c, e, at) ==
  IF e.xs[1].k = "Var" /\ e.xs[1].n \in Specials THEN InferSpecial(c, e, at) ELSE InferCall(c, e, at)

(***************************************************************************)
(* Operators.                                                              *)
(***************************************************************************)
\* Both children have type t; the result has type r.
Both(c, ta, tb, t, r) == Then(Unify(c, ta, t), LAMBDA d, u : Then(Unify(d, tb, t), LAMBDA d1, v : Ok(d1, r)))

InferBinop(c, e, at) ==
  Then(Child(c, e, at, 1), LAMBDA d, ta : Then(Child(d, e, at, 2), LAMBDA d1, tb :
    CASE e.n \in {"&&", "||"} -> Both(d1, ta, tb, Prim("Bool"), Prim("Bool"))
      [] e.n \in {"==", "!="} -> Then(Unify(d1, ta, tb), LAMBDA d2, u : Ok(d2, Prim("Bool")))
      [] e.n = "++"           -> Both(d1, ta, tb, Prim("Str"), Prim("Str"))
      [] OTHER ->
           Then(Fresh(d1, "Num"), LAMBDA d2, n :
             Both(d2, ta, tb, n, IF e.n \in {"<", "<=", ">", ">="} THEN Prim("Bool") ELSE n))))

InferUnary(c, e, at) ==
  IF e.k = "Not"
    THEN Then(ChildIs(c, e, at, 1, Prim("Bool")), LAMBDA d, u : Ok(d, Prim("Bool")))
    ELSE Then(Child(c, e, at, 1), LAMBDA d, t : Then(Fresh(d, "Num"), LAMBDA d1, n :
           Then(Unify(d1, t, n), LAMBDA d2, u : Ok(d2, n))))

(***************************************************************************)
(* Compounds and binders.                                                  *)
(***************************************************************************)
InferTuple(c, e, at) ==
  Each(c, Tup(<<>>), Indices(e.xs), LAMBDA d, t, j :
    Then(Child(d, e, at, j), LAMBDA d1, u : Ok(d1, Tup(Append(t.xs, u)))))

InferList(c, e, at) ==
  Then(Fresh(c, "Any"), LAMBDA d, el :
    Each(d, Con("Vec", <<el>>), Indices(e.xs), LAMBDA d1, t, j :
      Then(ChildIs(d1, e, at, j, el), LAMBDA d2, u : Ok(d2, t))))

InferLambda(c, e, at) ==
  LET f  == FreshFor(PushScope(c), Indices(e.ns))
      ts == [j \in DOMAIN e.ns |-> f.to[j]]
      inside == FoldLeft(LAMBDA d, j : Define(d, e.ns[j], Mono(ts[j])), f.c, Indices(e.ns))
  IN  Then(Child(inside, e, at, 1), LAMBDA d, t : Ok(PopScope(d), Arrows(ts, t)))

\* The body of a binder, with what it binds in scope.
Scoped(c, e, at, t) ==
  Then(Child(Define(Bound(PushScope(c), Append(at, 2), e.n, t), e.n, Mono(t)), e, at, 2),
       LAMBDA d, u : Ok(PopScope(d), u))

InferLet(c, e, at) == Then(Child(c, e, at, 1), LAMBDA d, t : Scoped(d, e, at, t))

\* Seeded fault: the block is as pure as its last line.
InferBindPure(c, e, at) ==
  Then(Child(c, e, at, 1), LAMBDA d, t : Then(Fresh(d, "Any"), LAMBDA d1, inner :
    Then(Unify(d1, t, Eff(inner)), LAMBDA d2, u : Scoped(d2, e, at, inner))))

InferBind(c, e, at) ==
  LET performed(d, t) == Then(Scoped(d, e, at, t), LAMBDA d1, u :
                           LET r == Resolve(d1, u) IN Ok(d1, IF r.k = "Eff" THEN u ELSE Eff(u)))
  IN  Then(Child(c, e, at, 1), LAMBDA d, t :
        LET r == Resolve(d, t)
        IN  CASE r.k = "Eff" -> performed(d, r.xs[1])
              [] r.k = "Var" -> Then(Fresh(d, "Any"), LAMBDA d1, inner :
                                  Then(Unify(d1, t, Eff(inner)), LAMBDA d2, u : performed(d2, inner)))
              [] OTHER -> Fail(d, "effect.pure_bind"))

\* An arm may be effectful where another is not: the match is then effectful.
InferMatch(c, e, at) ==
  LET arm(d, effectful, j, scrut, res) ==
        Then(BindPattern(PushScope(d), e.ps[j], scrut), LAMBDA d1, u :
          Then(Child(RecordPattern(d1, e.ps[j], Append(at, j + 1)), e, at, j + 1), LAMBDA d2, bt :
            LET b == Resolve(d2, bt)
                performs == b.k = "Eff"
            IN  Then(Unify(d2, IF performs THEN b.xs[1] ELSE bt, res), LAMBDA d3, w :
                  Ok(PopScope(d3), effectful \/ performs))))
  IN  Then(Child(c, e, at, 1), LAMBDA d, scrut : Then(Fresh(d, "Any"), LAMBDA d1, res :
        Then(Each(d1, FALSE, Indices(e.ps), LAMBDA d2, eff, j : arm(d2, eff, j, scrut, res)),
             LAMBDA d3, effectful :
               Ok([d3 EXCEPT !.pending = Append(@, [at |-> at, ty |-> scrut, pats |-> e.ps])],
                  IF effectful THEN Eff(res) ELSE res))))

(***************************************************************************)
(* Records.                                                                *)
(***************************************************************************)
IsRecord(c, t) == t.k = "Con" /\ t.n \in DOMAIN c.data.records
FieldNames(c, r) == ToSet(c.data.records[r].fields)
FieldType(c, r, f) ==
  LET rec == c.data.records[r] IN rec.types[CHOOSE j \in DOMAIN rec.fields : rec.fields[j] = f]

Decide(c, at, owner) == [c EXCEPT !.fieldOf = [x \in DOMAIN @ \cup {at} |-> IF x = at THEN owner ELSE @[x]]]

ReadField(c, at, owner, f) ==
  LET d == Decide(c, at, owner)
      l == Lower(d, <<FieldType(c, owner, f)>>)
  IN  IF f \in FieldNames(c, owner) THEN Ok(l.c, l.t[1]) ELSE Fail(d, "field.unknown")

InferField(c, e, at) ==
  Then(Child(c, e, at, 1), LAMBDA d, base :
    LET r == Resolve(d, base)
        f == e.n
    IN  CASE IsRecord(d, r) -> ReadField(d, at, r.n, f)
          [] r.k = "Var" /\ f \in d.data.ambiguous -> Fail(d, "field.ambiguous")
          [] r.k = "Var" /\ f \notin DOMAIN d.data.fieldOwner -> Fail(d, "field.unknown")
          [] r.k = "Var" /\ f \in DOMAIN d.data.fieldOwner \ d.data.ambiguous ->
               Then(Unify(d, base, Prim(d.data.fieldOwner[f])), LAMBDA d1, u :
                 ReadField(d1, at, d.data.fieldOwner[f], f))
          [] OTHER -> Fail(d, "field.not_record"))

\* The record an update builds; t of the result is its name.
UpdateOwner(c, e, at) ==
  Then(Child(c, e, at, 1), LAMBDA d, base :
    LET r == Resolve(d, base)
    IN  CASE IsRecord(d, r) -> Ok(d, r.n)
          [] r.k = "Var" /\ ToSet(e.ns) \cap d.data.ambiguous # {} -> Fail(d, "field.ambiguous")
          [] r.k = "Var" /\ e.ns[1] \in DOMAIN d.data.fieldOwner -> Ok(d, d.data.fieldOwner[e.ns[1]])
          [] r.k = "Var" -> Fail(d, "record.unknown")
          [] OTHER -> Fail(d, "record.not_record"))

\* The record with exactly these fields; the function's result decides between
\* several.
LiteralOwner(c, e) ==
  LET candidates == {r \in DOMAIN c.data.records :
                       FieldNames(c, r) = ToSet(e.ns) /\ Len(c.data.records[r].fields) = Len(e.ns)}
  IN  CASE candidates = {} -> Fail(c, "record.nomatch")
        [] Cardinality(candidates) = 1 -> Ok(c, CHOOSE r \in candidates : TRUE)
        [] Cardinality(candidates) > 1 /\ c.result \in candidates -> Ok(c, c.result)
        [] OTHER -> Fail(c, "record.ambiguous")

InferRecord(c, e, at) ==
  LET first == Len(e.xs) - Len(e.ns)      \* an update's base comes before the values
      set(d, owner, j) ==
        IF e.ns[j] \notin FieldNames(d, owner) THEN Fail(d, "field.unknown")
        ELSE LET l == Lower(d, <<FieldType(d, owner, e.ns[j])>>)
             IN  Then(ChildIs(l.c, e, at, first + j, l.t[1]), LAMBDA d1, u : Ok(d1, owner))
  IN  Then(IF e.k = "With" THEN UpdateOwner(c, e, at) ELSE LiteralOwner(c, e), LAMBDA d, owner :
        Then(Each(Decide(d, at, owner), owner, Indices(e.ns), set), LAMBDA d1, o : Ok(d1, Prim(o))))

Infer(c, e, at) ==
  CASE e.k = "Int"    -> IntLiteral(c, e.n = "huge")
    [] e.k = "Float"  -> Fresh(c, "Float")
    [] e.k \in {"Str", "Bool", "Unit"} -> Ok(c, Prim(e.k))
    [] e.k = "Borrow" -> Child(c, e, at, 1)
    [] e.k \in {"Var", "Ctor"} -> InferName(c, e)
    [] e.k = "App"    -> InferApp(c, e, at)
    [] e.k = "Binop"  -> InferBinop(c, e, at)
    [] e.k \in {"Neg", "Not"} -> InferUnary(c, e, at)
    [] e.k = "Tuple"  -> InferTuple(c, e, at)
    [] e.k = "List"   -> InferList(c, e, at)
    [] e.k = "Lambda" -> InferLambda(c, e, at)
    [] e.k = "Let"    -> InferLet(c, e, at)
    [] e.k = "Bind"   -> InferBind(c, e, at)
    [] e.k = "Match"  -> InferMatch(c, e, at)
    [] e.k = "Field"  -> InferField(c, e, at)
    [] e.k \in {"Record", "With"} -> InferRecord(c, e, at)

Child(c, e, at, j) == Infer(c, e.xs[j], Append(at, j))
=============================================================================
