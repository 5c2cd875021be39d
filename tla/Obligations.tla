------------------------------ MODULE Obligations ------------------------------
(***************************************************************************)
(* The obligations of a function's body (src/src/refine.rs, Gen and        *)
(* postconditions).                                                        *)
(*                                                                         *)
(* A module m is [funs, records, ctors, posts]: a function is [name,       *)
(* params, ret, body], a parameter [n, t, refines], a record [fields,      *)
(* types, refines], a constructor [tag, params, args], and posts what is   *)
(* inferred of the functions.  A generator g is a record; operators that   *)
(* translate return [g, t, k], k being the sort of t or Outside, when the  *)
(* solver's fragment has no such term.  Left out: floats, Nat, `ext c`     *)
(* signatures and ghost functions.                                         *)
(***************************************************************************)
EXTENDS Infer, Smt

CONSTANT Bounds   \* the least and the greatest value of each integer type

Outside == "outside"
Out(g, t, k) == [g |-> g, t |-> t, k |-> k]
NoTerm(g)    == Out(g, Broken, Outside)
Arena(n, b)  == Node("Arena", n, 0, <<>>, <<>>, <<b>>)

(***************************************************************************)
(* Types, as far as the solver is told of them: the name of a type, or "". *)
(***************************************************************************)
RECURSIVE BaseName(_), Strip(_), Conjuncts(_)
BaseName(t) == CASE t.k = "Con" -> t.n [] t.k \in {"Ref", "Eff"} -> BaseName(t.xs[1]) [] OTHER -> ""
Strip(e)    == IF e.k = "Borrow" THEN Strip(e.xs[1]) ELSE e
Conjuncts(e) == IF e.k = "Binop" /\ e.n = "&&" THEN Conjuncts(Strip(e.xs[1])) \o Conjuncts(Strip(e.xs[2])) ELSE <<e>>
AsName(e)   == IF Strip(e).k \in {"Var", "Ctor"} THEN Strip(e).n ELSE ""

RECURSIVE TyArgs(_)
TyArgs(t) == CASE t.k = "Con" -> [j \in DOMAIN t.xs |-> BaseName(t.xs[j])]
               [] t.k \in {"Ref", "Eff"} -> TyArgs(t.xs[1])
               [] OTHER -> <<>>

\* A type of a constructor's payload, for the arguments the owner has.
Inst(t, params, args) ==
  LET at == {j \in DOMAIN params \cap DOMAIN args : t = Named(params[j])}
  IN  IF t.k # "Named" THEN BaseName(t) ELSE IF at = {} THEN "" ELSE args[CHOOSE j \in at : TRUE]
RECURSIVE InstArgs(_, _, _)
InstArgs(t, params, args) ==
  CASE t.k = "Con" -> [j \in DOMAIN t.xs |-> Inst(t.xs[j], params, args)]
    [] t.k \in {"Ref", "Eff"} -> InstArgs(t.xs[1], params, args)
    [] OTHER -> <<>>

Ranged(ty)      == ty \in DOMAIN Bounds
IsUnsigned(ty)  == ty \in {"U8", "U16", "U32", "U64", "Size"}
IsContainer(ty) == ty \in {"Vec", "Str"}
SortOf(ty)      == IF ty = "Bool" THEN "Bool" ELSE "Int"
IsScalar(ty)    == ty = "Bool" \/ Ranged(ty)
Within(t, ty)   == {Op(">=", <<t, Lit(Bounds[ty][1])>>), Op("<=", <<t, Lit(Bounds[ty][2])>>)}

Conversions == [u8 |-> "U8", u64 |-> "U64", i8 |-> "I8", i64 |-> "I64", size |-> "Size"]
Widens(from, to) == Ranged(from) /\ Bounds[to][1] <= Bounds[from][1] /\ Bounds[from][2] <= Bounds[to][2]
IsChecked(n) == n \in {"div_checked", "get_checked"}
NumericPrelude == [byte_at |-> [arity |-> 2, ret |-> "U8"]]

\* The types of the fields; no two records of a module have one of the same name.
FieldTys(rec) == [s \in {<<rec.fields[j]>> : j \in DOMAIN rec.fields} |->
                    BaseName(rec.types[CHOOSE j \in DOMAIN rec.fields : <<rec.fields[j]>> = s])]
OwnerOf(g, f) == CHOOSE r \in DOMAIN g.m.records : f \in ToSet(g.m.records[r].fields)
FieldTy(g, f) == FieldTys(g.m.records[OwnerOf(g, f)])[<<f>>]

NoType == Type("none", "", 0, <<>>)
FunNamed(m, n) == SelectSeq(m.funs, LAMBDA f : f.name = n)
RetTy(g, n, argc) ==
  LET fs == FunNamed(g.m, n) IN IF fs # <<>> /\ Len(fs[1].params) = argc THEN fs[1].ret ELSE NoType

(***************************************************************************)
(* Symbols and hypotheses.                                                 *)
(***************************************************************************)
Without(f, k) == [x \in DOMAIN f \ {k} |-> f[x]]
VarSym(g, n)  == IF n \in DOMAIN g.renames THEN g.renames[n] ELSE <<n>>

\* Seeded fault: a binder that reuses a name takes its symbol, and all that is
\* known of it.
FreshNameSame(g, n) == [g |-> [g EXCEPT !.seen = @ \cup {n}], s |-> <<n>>]

\* A binder that reuses a name gets a symbol of its own.
FreshName(g, n) ==
  LET s == <<n, ToString(g.shadows + 1)>>
  IN  IF n \notin g.seen
        THEN [g |-> [g EXCEPT !.seen = @ \cup {n}, !.renames = Without(@, n)], s |-> <<n>>]
        ELSE [g |-> [g EXCEPT !.shadows = @ + 1, !.renames = (n :> s) @@ @], s |-> s]

\* The first use of a symbol decides its sort.
Declare(g, s, k) ==
  IF s \in DOMAIN g.syms THEN Out(g, Sym(s), g.syms[s]) ELSE Out([g EXCEPT !.syms = (s :> k) @@ @], Sym(s), k)
Assume(g, hs) == [g EXCEPT !.hyps = @ \cup hs]
Known(g, s)   == IF s \in DOMAIN g.tys THEN g.tys[s] ELSE ""

RangeHyp(g, s) ==
  IF ~Ranged(Known(g, s)) THEN g ELSE Assume(Declare(g, s, "Int").g, Within(Sym(s), g.tys[s]))

LenOf(v) == Prefixed("len_", v)
LenSym(g, v) == Assume(Declare(g, LenOf(v), "Int").g, Within(Sym(LenOf(v)), "Size"))

RECURSIVE TermOf(_, _), TyOf(_, _)

\* Those of the terms that the fragment has, and are said to hold.
Said(r) == IF r.k = "Bool" THEN Assume(r.g, {r.t}) ELSE r.g
AssumeAll(g, es) == FoldLeft(LAMBDA h, e : Said(TermOf(h, e)), g, es)

\* A value of a record type satisfies the record's invariant: it is said of the
\* names of the fields, and they are replaced by those of the value's.
FieldSymOf(v, n) == Suffixed(v, "_" \o n)
InvTerms(r, s)   == [g |-> s.g, ts |-> IF s.k = "Bool" THEN Append(r.ts, s.t) ELSE r.ts]
NameField(r, v, n, t) ==
  [g  |-> Declare(r.g, FieldSymOf(v, n), SortOf(BaseName(t))).g,
   ts |-> [i \in DOMAIN r.ts |-> ReplaceSym(r.ts[i], n, Sym(FieldSymOf(v, n)))]]
InvAssumed(g, named, keep) ==
  Assume([named.g EXCEPT !.tys = g.tys, !.syms = [s \in DOMAIN @ \cap keep |-> @[s]]], ToSet(named.ts))
InvOf(g, v, rec) ==
  InvAssumed(g,
    FoldLeft(LAMBDA r, j : NameField(r, v, rec.fields[j], rec.types[j]),
             FoldLeft(LAMBDA r, e : InvTerms(r, TermOf(r.g, e)), [g |-> [g EXCEPT !.tys = FieldTys(rec)], ts |-> <<>>], rec.refines),
             Indices(rec.fields)),
    DOMAIN g.syms \cup {FieldSymOf(v, n) : n \in ToSet(rec.fields)})
InvHyps(g, v) ==
  IF Known(g, v) \notin DOMAIN g.m.records \/ g.m.records[g.tys[v]].refines = <<>> THEN g
  ELSE InvOf(g, v, g.m.records[g.tys[v]])

(***************************************************************************)
(* Terms.                                                                  *)
(***************************************************************************)
FieldSym(g, s, ty) ==
  LET r == Declare(g, s, SortOf(ty)) IN IF Ranged(ty) THEN [r EXCEPT !.g = Assume(@, Within(r.t, ty))] ELSE r
FieldTerm(g, e) ==
  IF AsName(e.xs[1]) = "" THEN NoTerm(g) ELSE FieldSym(g, <<AsName(e.xs[1]) \o "_" \o e.n>>, FieldTy(g, e.n))

OpTerm(op, a, b) ==
  LET is(o, k) == Out(b.g, Op(o, <<a.t, b.t>>), k)
  IN  CASE a.k = Outside -> a
        [] a.k # Outside /\ b.k = Outside -> b
        [] a.k # Outside /\ b.k # Outside ->
             CASE op = "==" -> is("=", "Bool")
               [] op = "!=" -> Out(b.g, Op("not", <<is("=", "Bool").t>>), "Bool")
               [] op \in {"<", "<=", ">", ">="} -> is(op, "Bool")
               [] op = "&&" -> is("and", "Bool")
               [] op = "||" -> is("or", "Bool")
               [] op \in {"+", "-", "*"} -> is(op, a.k)
               [] op = "/" -> is("div", a.k)
               [] op = "%" -> is("mod", a.k)
               [] OTHER -> NoTerm(b.g)

LenTerm(g, v) == Out(LenSym(g, v), Sym(LenOf(v)), "Int")

\* A conversion is the identity where it keeps the value.
ConvTerm(a, x, from, to) ==
  LET keeps == IF Strip(x).k = "Int" THEN Bounds[to][1] <= Strip(x).i /\ Strip(x).i <= Bounds[to][2] ELSE Widens(from, to)
  IN  IF a.k = Outside \/ (a.k = "Int" /\ keeps) THEN a ELSE NoTerm(a.g)

AppTerm(g, f, x) ==
  CASE f = "len" /\ AsName(x) # "" -> LenTerm(g, VarSym(g, AsName(x)))
    [] f \in DOMAIN Conversions    -> ConvTerm(TermOf(g, x), x, TyOf(g, x), Conversions[f])
    [] OTHER -> NoTerm(g)

VarTerm(g, v)      == Declare(g, v, SortOf(Known(g, v)))
Around(a, op, k)   == IF a.k = Outside THEN a ELSE Out(a.g, Op(op, <<a.t>>), k)
Second(a, e)       == IF a.k = Outside THEN a ELSE TermOf(a.g, e)
BinopTerm(op, a, e) == OpTerm(op, a, Second(a, e))
TermOf(g, e) ==
  CASE e.k = "Int"    -> Out(g, Lit(e.i), "Int")
    [] e.k = "Bool"   -> Out(g, Op("=", <<Lit(e.i), Lit(1)>>), "Bool")
    [] e.k = "Var"    -> VarTerm(g, VarSym(g, e.n))
    [] e.k = "Borrow" -> TermOf(g, e.xs[1])
    [] e.k = "Field"  -> FieldTerm(g, e)
    [] e.k = "Neg"    -> LET a == TermOf(g, e.xs[1]) IN Around(a, "neg", a.k)
    [] e.k = "Not"    -> Around(TermOf(g, e.xs[1]), "not", "Bool")
    [] e.k = "Binop"  -> BinopTerm(e.n, TermOf(g, e.xs[1]), e.xs[2])
    [] e.k = "App" /\ Len(e.xs) = 2 -> AppTerm(g, AsName(e.xs[1]), e.xs[2])
    [] OTHER          -> NoTerm(g)

(***************************************************************************)
(* The type of an expression, where the signature makes it obvious.        *)
(***************************************************************************)
Either(ty, other) == IF ty # "" THEN ty ELSE other
NumericCall(f, argc) ==
  IF f \in DOMAIN NumericPrelude /\ NumericPrelude[f].arity = argc THEN NumericPrelude[f].ret ELSE ""
AppTy(g, f, argc) ==
  CASE f = "len" -> "Size"
    [] argc = 1 /\ f \in DOMAIN Conversions -> Conversions[f]
    [] OTHER -> Either(BaseName(RetTy(g, f, argc)), NumericCall(f, argc))
TyOf(g, e) ==
  CASE e.k = "Var" -> Known(g, VarSym(g, e.n))
    [] e.k \in {"Borrow", "Neg"} -> TyOf(g, e.xs[1])
    [] e.k = "Field" -> FieldTy(g, e.n)
    [] e.k = "Binop" /\ e.n \in {"+", "-", "*", "/", "%"} -> Either(TyOf(g, e.xs[1]), TyOf(g, e.xs[2]))
    [] e.k = "App" -> AppTy(g, AsName(e.xs[1]), Len(e.xs) - 1)
    [] OTHER -> ""

RECURSIVE TyArgsOf(_, _)
TyArgsOf(g, e) ==
  CASE e.k = "Var" -> LET v == VarSym(g, e.n) IN IF v \in DOMAIN g.tyargs THEN g.tyargs[v] ELSE <<>>
    [] e.k \in {"Borrow", "Neg"} -> TyArgsOf(g, e.xs[1])
    [] e.k = "App" -> TyArgs(RetTy(g, AsName(e.xs[1]), Len(e.xs) - 1))
    [] OTHER -> <<>>

(***************************************************************************)
(* What a pattern teaches.                                                 *)
(***************************************************************************)
\* n, whose symbol is s, names the value at v.
Equated(g, a, b) == Assume(g, {Op("=", <<Sym(a), Sym(b)>>)})
AliasValue(g, s, v, ty) ==
  IF IsScalar(ty) THEN Equated(Declare(Declare(g, s, SortOf(ty)).g, v, SortOf(ty)).g, s, v) ELSE g
AliasLen(g, s, v, ty) ==
  IF IsContainer(ty) \/ ty = "" THEN Equated(LenSym(LenSym(g, s), v), LenOf(s), LenOf(v)) ELSE g
Taking(g, s, ty, args) ==
  [g EXCEPT !.tyargs = IF args = <<>> THEN @ ELSE (s :> args) @@ @, !.tys = IF ty = "" THEN @ ELSE (s :> ty) @@ @]
NameValue(g, s, v, ty, args) ==
  IF s = v THEN g
  ELSE InvHyps(RangeHyp(AliasLen(AliasValue(Taking(g, s, ty, args), s, v, ty), s, v, ty), s), s)
BindName(f, v, ty, args) == NameValue(f.g, f.s, v, ty, args)

\* A guard, or none.
Guarded(g, t) == Out(g, t, "Bool")

RECURSIVE PatFacts(_, _, _, _, _)
\* The constructor, and what its payload is; the guard is negated below.
AndAlso(ts, s)  == [g |-> s.g, ts |-> IF s.k = Outside THEN ts ELSE Append(ts, s.t)]
AllOf(r)        == Guarded(r.g, Op("and", r.ts))
Tagged(tag, i)  == [g |-> tag.g, ts |-> <<Op("=", <<tag.t, Lit(i)>>)>>]
Payload(r, v, args, info, p, j) ==
  AndAlso(r.ts, PatFacts(r.g, Suffixed(v, "_" \o ToString(j - 1)), Inst(info.args[j], info.params, args),
                         InstArgs(info.args[j], info.params, args), p.ps[j]))
CtorFacts(g, v, args, p, info) ==
  AllOf(FoldLeft(LAMBDA r, j : Payload(r, v, args, info, p, j),
                 Tagged(Declare(g, Prefixed("tag_", v), "Int"), info.tag), Indices(p.ps)))

PatFacts(g, v, ty, args, p) ==
  CASE p.k = "Var"  -> NoTerm(BindName(FreshName(g, p.n), v, ty, args))
    [] p.k = "Int"  -> Guarded(Declare(g, v, "Int").g, Op("=", <<Sym(v), Lit(p.i)>>))
    [] p.k = "List" -> Guarded(LenSym(g, v), Op("=", <<Sym(LenOf(v)), Lit(Len(p.ps))>>))
    [] p.k = "Ctor" /\ p.n \in {"True", "False"} ->
         Guarded(Declare(g, v, "Bool").g, Op("=", <<Sym(v), Lit(Truth(p.n = "True"))>>))
    [] p.k = "Ctor" /\ p.n \notin {"True", "False"} -> CtorFacts(g, v, args, p, g.m.ctors[p.n])
    [] OTHER -> NoTerm(g)

\* What is inferred of the function that v is the result of.
PostHyp(g, v, p) ==
  LET posts == g.m.posts[g.src[v]]
  IN  IF Len(p.ps) = 1 /\ v \in DOMAIN g.src /\ p.n \in DOMAIN posts
        THEN LET l == LenOf(Suffixed(v, "_0"))
             IN  Assume(LenSym(g, Suffixed(v, "_0")), {Op(">=", <<Sym(l), Lit(posts[p.n])>>)})
        ELSE g

NotePost(g, s, e) ==
  LET f == AsName(Strip(e).xs[1])
  IN  IF Strip(e).k = "App" /\ f \notin g.seen /\ f \in DOMAIN g.m.posts
        THEN [g EXCEPT !.src = (s :> f) @@ @] ELSE g

IsBool(p)  == p.k = "Ctor" /\ p.n \in {"True", "False"}
\* What an arm says of the scrutinee, s being its term and v its symbol.
Lengthened(l, n) == Guarded(l.g, Op("=", <<l.t, Lit(n)>>))
NotedPost(r, v, p) == [r EXCEPT !.g = PostHyp(@, v, p)]
ArmHyp(g, s, e, v, p) ==
  CASE p.k = "Ctor" /\ ~IsBool(p) ->
         IF AsName(e) = "" THEN NoTerm(g) ELSE NotedPost(PatFacts(g, v, TyOf(g, e), TyArgsOf(g, e), p), v, p)
    [] p.k = "Int" /\ s.k = "Int" -> Guarded(g, Op("=", <<s.t, Lit(p.i)>>))
    [] IsBool(p) /\ s.k = "Bool" -> Guarded(g, IF p.n = "True" THEN s.t ELSE Op("not", <<s.t>>))
    [] p.k = "List" /\ s.k # Outside /\ AsName(e) # "" -> Lengthened(Declare(g, LenOf(v), "Int"), Len(p.ps))
    [] OTHER -> NoTerm(g)

(***************************************************************************)
(* Obligations.                                                            *)
(***************************************************************************)
\* `of` tells apart what is asked at one place.
Ask(g, at, code, of, goal) ==
  [g EXCEPT !.obs = Append(@, [at |-> at, code |-> code, of |-> of, goal |-> goal, hyps |-> g.hyps, syms |-> g.syms])]
Skip(g, at) == [g EXCEPT !.skipped = Append(@, at)]

\* With the terms of two operands, if there are both.
OnBoth(a, b, at, K(_, _, _)) == IF a.k = Outside \/ b.k = Outside THEN Skip(b.g, at) ELSE K(b.g, a.t, b.t)
OnTerms(a, e, at, K(_, _, _)) == OnBoth(a, TermOf(a.g, e.xs[2]), at, K)

Overflow(g, e, at, ty) ==
  IF ~Ranged(ty) THEN g
  ELSE OnTerms(TermOf(g, e.xs[1]), e, at, LAMBDA h, a, b :
         Ask(h, at, "overflow", Void, Op("and", Arranged(Within(Op(e.n, <<a, b>>), ty)))))
Underflow(g, e, at) ==
  OnTerms(TermOf(g, e.xs[1]), e, at, LAMBDA h, a, b : Ask(h, at, "underflow", Void, Op(">=", <<a, b>>)))
Division(b, at) ==
  IF b.k = Outside THEN Skip(b.g, at) ELSE Ask(b.g, at, "div0", Void, Op("not", <<Op("=", <<b.t, Lit(0)>>)>>))

Arith(g, e, at, ty) ==
  CASE e.n \in {"/", "%"} -> Division(TermOf(g, e.xs[2]), at)
    [] e.n = "-" /\ IsUnsigned(ty) -> Underflow(g, e, at)
    [] e.n \in {"+", "*"} \/ (e.n = "-" /\ ~IsUnsigned(ty)) -> Overflow(g, e, at, ty)
    [] OTHER -> g

\* An element of a vector or a string by its index.
Inside(l, i, at) ==
  [Ask(Assume(l.g, {Op(">=", <<l.t, Lit(0)>>)}), at, "bounds", Void,
       Op("and", <<Op("<", <<i.t, l.t>>), Op(">=", <<i.t, Lit(0)>>)>>)) EXCEPT !.hyps = l.g.hyps]
Index(i, v, at) ==
  IF v = "" \/ i.k = Outside THEN Skip(i.g, at) ELSE Inside(Declare(i.g, LenOf(VarSym(i.g, v)), "Int"), i, at)

\* The greatest or the least of a vector.
Pick(g, v, at) ==
  IF v = "" THEN Skip(g, at)
  ELSE Ask(LenSym(g, VarSym(g, v)), at, "refine.unproven", Void, Op(">", <<Sym(LenOf(VarSym(g, v))), Lit(0)>>))

\* A substitution is a list of [from, to].  The code's is a HashMap, which it walks
\* in no order of its own: the generator says which of two.
InOrder(g, subs) == IF g.backward THEN Reverse(subs) ELSE subs
Substituted(t, subs) == FoldLeft(LAMBDA u, s : ReplaceSym(u, s.from, s.to), t, subs)
Adding(subs, p, a)   == IF a.k = Outside THEN subs ELSE Append(subs, [from |-> p, to |-> a.t])

\* The refinements of r, in the names tys is of, then renamed.
AskOne(g, s, at, r, rename(_)) ==
  IF s.k # "Bool" THEN Skip([s.g EXCEPT !.tys = g.tys], at)
  ELSE Ask([s.g EXCEPT !.tys = g.tys], at, "refine.unproven", r, rename(s.t))
AskEach(g, at, refines, tys, rename(_)) ==
  FoldLeft(LAMBDA h, r : AskOne(h, TermOf([h EXCEPT !.tys = tys], r), at, r, rename), g, refines)

\* The preconditions of a function of the module: an argument gives its term,
\* and, if it is a name, its length.
Arg(r, p, a, l, named) ==
  [g |-> IF named THEN l.g ELSE a.g, terms |-> Adding(r.terms, p, a), lens |-> IF named THEN Adding(r.lens, "len_" \o p, l) ELSE r.lens]
ArgOf(r, p, a, v) == Arg(r, p, a, Declare(a.g, LenOf(VarSym(a.g, v)), "Int"), v # "")
Args(g, f, e) ==
  FoldLeft(LAMBDA r, j : ArgOf(r, f.params[j].n, TermOf(r.g, e.xs[j + 1]), AsName(e.xs[j + 1])),
           [g |-> g, terms |-> <<>>, lens |-> <<>>], SelectSeq(Indices(f.params), LAMBDA j : j < Len(e.xs)))
\* A name whose length is spoken of is left as it is.
InCaller(t, args) ==
  LET spoken(u, p) == Mentions(u, "len_" \o p) /\ \E s \in ToSet(args.lens) : s.from = "len_" \o p
  IN  FoldLeft(LAMBDA u, s : IF spoken(u, s.from) THEN u ELSE ReplaceSym(u, s.from, s.to),
               Substituted(t, InOrder(args.g, args.lens)), InOrder(args.g, args.terms))
AskCall(args, at, refines, full) ==
  IF full THEN AskEach(args.g, at, refines, [s \in {} |-> ""], LAMBDA t : InCaller(t, args)) ELSE args.g
Precondition(g, f, e, at) ==
  LET refines == FlattenSeq([j \in DOMAIN f.params |-> f.params[j].refines])
  IN  IF refines = <<>> THEN g ELSE AskCall(Args(g, f, e), at, refines, Len(e.xs) > Len(f.params))

Call(g, e, at, f, argc) ==
  CASE IsChecked(f) \/ f = "" -> g
    [] f = "max_by" /\ argc = 2 -> Pick(g, AsName(e.xs[3]), at)
    [] f \in {"get", "byte_at", "set"} /\ argc >= 2 -> Index(TermOf(g, e.xs[3]), AsName(e.xs[2]), at)
    [] OTHER -> IF FunNamed(g.m, f) = <<>> THEN g ELSE Precondition(g, FunNamed(g.m, f)[1], e, at)

\* The invariant of the record that is built; an update keeps the other fields.
Put(r, n, a)  == [g |-> a.g, subs |-> Adding(r.subs, n, a)]
Given(g, e)   == FoldLeft(LAMBDA r, j : Put(r, e.ns[j], TermOf(r.g, e.xs[Len(e.xs) - Len(e.ns) + j])), [g |-> g, subs |-> <<>>], Indices(e.ns))
KeepField(r, base, n, t) ==
  IF \E s \in ToSet(r.subs) : s.from = n THEN r
  ELSE Put(r, n, Declare(r.g, <<base \o "_" \o n>>, SortOf(BaseName(t))))
KeptFields(r, base, rec) ==
  IF base = "" THEN r ELSE FoldLeft(LAMBDA s, j : KeepField(s, base, rec.fields[j], rec.types[j]), r, Indices(rec.fields))
AskBuilt(r, rec, at) == AskEach(r.g, at, rec.refines, FieldTys(rec), LAMBDA t : Substituted(t, InOrder(r.g, r.subs)))
Built(g, e, at, rec) ==
  IF rec.refines = <<>> THEN g
  ELSE AskBuilt(KeptFields(Given(g, e), IF e.k = "With" THEN AsName(e.xs[1]) ELSE "", rec), rec, at)
RecordOf(g, e) == g.m.records[OwnerOf(g, e.ns[1])]

(***************************************************************************)
(* A walk of the body.  What is assumed on the way into a part is given up *)
(* on the way out; so are the names a binder has changed.                  *)
(***************************************************************************)
RECURSIVE Walk(_, _, _)
WalkEach(g, e, at, js) == FoldLeft(LAMBDA h, j : Walk(h, e.xs[j], Append(at, j)), g, js)
Scoped1(g, h)          == [h EXCEPT !.renames = g.renames, !.src = g.src]

\* `&&` and `||` run their right side only as the left one allows.
AssumeNot(t) == IF t.k = "Bool" THEN Assume(t.g, {Op("not", <<t.t>>)}) ELSE t.g
Allowed(g, e) ==
  CASE e.n = "&&" -> AssumeAll(g, Conjuncts(Strip(e.xs[1])))
    [] e.n = "||" -> AssumeNot(TermOf(g, e.xs[1]))
    [] OTHER      -> TermOf(g, e.xs[1]).g
Operated(b, e, at, hyps) == Arith([b EXCEPT !.hyps = hyps], e, at, Either(TyOf(b, e.xs[1]), TyOf(b, e.xs[2])))
WalkRight(a, e, at) == Operated(Walk(Allowed(a, e), e.xs[2], Append(at, 2)), e, at, a.hyps)
WalkBinop(g, e, at) == WalkRight(Walk(g, e.xs[1], Append(at, 1)), e, at)

BindAs(v, f, e, at) == Scoped1(v, Walk(NotePost(f.g, f.s, e.xs[1]), e.xs[2], Append(at, 2)))
WalkBind(g, e, at) ==
  LET v == Walk(g, e.xs[1], Append(at, 1)) IN BindAs(v, FreshName(v, e.n), e, at)

\* The value is translated before the name is introduced.
EqualTerm(d, t) == Assume(d.g, {Op("=", <<d.t, t>>)})
EqualTo(g, s, val) == IF val.k = Outside THEN g ELSE EqualTerm(Declare(g, s, val.k), val.t)
LetAs(v, f, val, ty, args, e, at) ==
  [Scoped1(v, Walk(RangeHyp(Taking(EqualTo(NotePost(f.g, f.s, e.xs[1]), f.s, val), f.s, ty, args), f.s), e.xs[2], Append(at, 2)))
     EXCEPT !.hyps = v.hyps]
WalkLetOf(v, val, e, at) == LetAs(v, FreshName(val.g, e.n), val, TyOf(v, e.xs[1]), TyArgsOf(v, e.xs[1]), e, at)
WalkLet(g, e, at) ==
  LET v == Walk(g, e.xs[1], Append(at, 1)) IN WalkLetOf(v, TermOf(v, e.xs[1]), e, at)

\* An arm is reached when those above it did not fit.
UnderArm(h, e, p) ==
  CASE h.k # Outside -> Assume(h.g, {h.t})
    [] h.k = Outside /\ IsBool(p) /\ p.n = "True" -> AssumeAll(h.g, Conjuncts(Strip(e.xs[1])))
    [] OTHER -> h.g
AfterArm(r, b, h) ==
  [g     |-> [b EXCEPT !.hyps = r.g.hyps, !.tys = r.g.tys, !.tyargs = r.g.tyargs],
   above |-> IF h.k = Outside THEN r.above ELSE r.above \cup {Op("not", <<h.t>>)}]
WalkArm(r, h, e, at, j) == AfterArm(r, Walk(UnderArm(h, e, e.ps[j]), e.xs[j + 1], Append(at, j + 1)), h)
WalkArms(s, e, at) ==
  FoldLeft(LAMBDA r, j : WalkArm(r, ArmHyp(Assume(r.g, r.above), s, e.xs[1], VarSym(r.g, AsName(e.xs[1])), e.ps[j]), e, at, j),
           [g |-> s.g, above |-> {}], Indices(e.ps)).g
WalkMatch(g, e, at) == WalkArms(TermOf(Walk(g, e.xs[1], Append(at, 1)), e.xs[1]), e, at)

Walk(g, e, at) ==
  CASE e.k = "Binop" -> WalkBinop(g, e, at)
    [] e.k = "App"   -> Call(WalkEach(g, e, at, Tail(Indices(e.xs))), e, at, AsName(e.xs[1]), Len(e.xs) - 1)
    [] e.k = "Record" -> Built(WalkEach(g, e, at, Indices(e.xs)), e, at, RecordOf(g, e))
    [] e.k = "With"  -> Built(WalkEach(g, e, at, Append(Tail(Indices(e.xs)), 1)), e, at, RecordOf(g, e))
    [] e.k \in {"Neg", "Not", "Borrow", "Field", "Tuple", "List", "Lambda"} -> WalkEach(g, e, at, Indices(e.xs))
    [] e.k = "Bind"  -> WalkBind(g, e, at)
    [] e.k = "Let"   -> WalkLet(g, e, at)
    [] e.k = "Match" -> WalkMatch(g, e, at)
    [] OTHER         -> g

(***************************************************************************)
(* A function: what its signature says, then its body.                     *)
(***************************************************************************)
Start(m, f, backward) ==
  LET named == {f.params[j].n : j \in DOMAIN f.params}
      param(s) == CHOOSE q \in ToSet(f.params) : <<q.n>> = s
      syms(P(_)) == {s \in {<<n>> : n \in named} : P(param(s).t)}
  IN  [m |-> m, tys |-> [s \in syms(LAMBDA t : BaseName(t) # "") |-> BaseName(param(s).t)],
       tyargs |-> [s \in {<<n>> : n \in named} |-> TyArgs(param(s).t)],
       syms |-> [s \in {} |-> ""], hyps |-> {}, obs |-> <<>>, skipped |-> <<>>,
       renames |-> [n \in {} |-> <<>>], seen |-> named, shadows |-> 0, src |-> [s \in {} |-> ""],
       backward |-> backward]

Generate(m, f, i, backward) ==
  LET said == AssumeAll(Start(m, f, backward), FlattenSeq([j \in DOMAIN f.params |-> f.params[j].refines]))
      known == FoldLeft(LAMBDA g, j : InvHyps(RangeHyp(g, <<f.params[j].n>>), <<f.params[j].n>>), said, Indices(f.params))
  IN  Walk(known, f.body, <<i>>)

(***************************************************************************)
(* Postconditions: what a constructor's payload is at least as long as.    *)
(***************************************************************************)
Irrefutable(ps) == \A j \in DOMAIN ps : Open(ps[j])
Drop(env, ns)   == [n \in DOMAIN env \ ns |-> env[n]]

\* Seeded fault: a list is taken to be told apart by its length alone.
ArmLensAny(p, above, env) ==
  LET excluded == {Len(q.ps[1].ps) : q \in {r \in above : r.k = "Ctor" /\ r.n = p.n /\ Len(r.ps) = 1 /\ r.ps[1].k = "List"}}
      k == CHOOSE n \in 0..(Cardinality(excluded)) : n \notin excluded /\ \A l \in 0..(n - 1) : l \in excluded
      rest == Drop(env, ToSet(PatNames(p)))
  IN  IF p.k = "Ctor" /\ Len(p.ps) = 1 /\ p.ps[1].k = "Var" /\ k > 0 THEN (p.ps[1].n :> k) @@ rest ELSE rest

\* Below arms for the shorter lists, a name is of a longer one.
ArmLens(p, above, env) ==
  LET excluded == {Len(q.ps[1].ps) : q \in {r \in above : /\ r.k = "Ctor" /\ r.n = p.n /\ Len(r.ps) = 1
                                                          /\ r.ps[1].k = "List" /\ Irrefutable(r.ps[1].ps)}}
      k == CHOOSE n \in 0..(Cardinality(excluded)) : n \notin excluded /\ \A l \in 0..(n - 1) : l \in excluded
      rest == Drop(env, ToSet(PatNames(p)))
  IN  IF p.k = "Ctor" /\ Len(p.ps) = 1 /\ p.ps[1].k = "Var" /\ k > 0 THEN (p.ps[1].n :> k) @@ rest ELSE rest

\* The constructors the tails return, each with the bound of its payload; a tail
\* that is anything else may be any of them.
RECURSIVE Tails(_, _)
Tails(e, env) ==
  LET head  == IF e.k = "App" THEN e.xs[1] ELSE e
      bound == IF e.k = "App" /\ Len(e.xs) = 2 /\ AsName(e.xs[2]) \in DOMAIN env THEN env[AsName(e.xs[2])] ELSE 0
  IN  CASE e.k \in {"Let", "Bind"} -> Tails(e.xs[2], Drop(env, {e.n}))
        [] e.k = "Arena" -> Tails(e.xs[1], Drop(env, {e.n}))
        [] e.k = "Match" -> UNION {Tails(e.xs[j + 1], ArmLens(e.ps[j], {e.ps[i] : i \in 1..(j - 1)}, env)) : j \in DOMAIN e.ps}
        [] OTHER -> IF head.k = "Ctor" THEN {[c |-> head.n, k |-> bound]} ELSE {[c |-> "", k |-> 0]}

PostOf(f) ==
  LET ts == Tails(f.body, [n \in {} |-> 0])
      least(c) == CHOOSE k \in {t.k : t \in {u \in ts : u.c = c}} : \A t \in ts : t.c = c => k <= t.k
      some == {t.c : t \in ts}
  IN  IF "" \in some THEN [c \in {} |-> 0] ELSE [c \in {d \in some : least(d) > 0} |-> least(c)]

Postconditions(m) ==
  LET posts(n) == PostOf(FunNamed(m, n)[1])
  IN  [n \in {f.name : f \in {g \in ToSet(m.funs) : posts(g.name) # [c \in {} |-> 0]}} |-> posts(n)]
===============================================================================
