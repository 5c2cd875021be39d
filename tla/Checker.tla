------------------------------- MODULE Checker -------------------------------
(***************************************************************************)
(* Checking a module (src/src/infer.rs, check), phase by phase: the types, *)
(* the values they and the prelude give, the signatures, each body, the    *)
(* record invariants, and at the end defaults and exhaustiveness.          *)
(*                                                                         *)
(* A program is [types, exts, funs, exports].  A type declaration is       *)
(* [name, params, fields, types, refines, variants], the last a sequence   *)
(* of [name, args] and empty for a record; a function is [name, params,    *)
(* ret, refines, measure, body], a parameter [n, t]; Missing is a type     *)
(* that is not written.                                                    *)
(***************************************************************************)
EXTENDS Infer, TLC

CONSTANT Programs

VARIABLES program, c, stage,
          next       \* the function whose body is checked next

checkerVars == <<program, c, stage, next>>

Missing == Type("Missing", "", 0, <<>>)
Empty   == [n \in {} |-> 0]

\* The prelude, as far as it is modelled.
Prelude ==
  LET a == Named("a")
      b == Named("b")
      vec(t) == Con("Vec", <<t>>)
      arrows == [dup    |-> <<<<Ref(a)>>, a>>,          empty |-> <<<<>>, vec(a)>>,
                 single |-> <<<<a>>, vec(a)>>,          push  |-> <<<<vec(a), a>>, vec(a)>>,
                 map    |-> <<<<Fun(a, b), Ref(vec(a))>>, vec(b)>>,
                 each   |-> <<<<Fun(a, Eff(Unit)), Ref(vec(a))>>, Eff(Unit)>>,
                 concat |-> <<<<Ref(Prim("Str")), Ref(Prim("Str"))>>, Prim("Str")>>,
                 read   |-> <<<<Ref(Prim("Str"))>>, Eff(Prim("Str"))>>,
                 out    |-> <<<<Ref(Prim("Str"))>>, Eff(Unit)>>]
  IN  [n \in DOMAIN arrows |-> Arrows(arrows[n][1], arrows[n][2])]

PreludeTypes ==
  << [name |-> "Opt", params |-> <<"t">>, fields |-> <<>>, types |-> <<>>, refines |-> <<>>,
      variants |-> <<[name |-> "Some", args |-> <<Named("t")>>], [name |-> "None", args |-> <<>>]>>] >>

NewChecker ==
  [subst |-> <<>>, kinds |-> <<>>, env |-> <<Empty>>, sigs |-> Empty, exts |-> {},
   binds |-> <<>>, fieldOf |-> [x \in {} |-> ""], pending |-> <<>>, result |-> "", errors |-> {},
   data |-> [records |-> Empty, ctors |-> Empty, variants |-> Empty,
             fieldOwner |-> [n \in {} |-> ""], ambiguous |-> {}]]

\* What a diagnostic is known by: the declaration or the match, and its code.
Problem(path, at, code) == [path |-> path, at |-> at, code |-> code]
Report(d, path, code)   == [d EXCEPT !.errors = @ \cup {Problem(path, <<>>, code)}]
Noted(r, path) == IF r.err = NoError THEN r.c ELSE Report(r.c, path, r.err)

(***************************************************************************)
(* 1. Types.                                                               *)
(***************************************************************************)
CollectRecord(data, t) ==
  LET fs   == ToSet(t.fields)
      seen == DOMAIN data.fieldOwner
  IN  [data EXCEPT
         !.ambiguous  = @ \cup {f \in fs \cap seen : data.fieldOwner[f] # t.name},
         !.fieldOwner = @ @@ [f \in fs |-> t.name],
         !.records    = (t.name :> [fields |-> t.fields, types |-> t.types, refines |-> t.refines]) @@ @]

\* Seeded fault: the last record to declare a field owns it.
CollectRecordLast(data, t) ==
  [data EXCEPT
     !.fieldOwner = [f \in ToSet(t.fields) |-> t.name] @@ @,
     !.records    = (t.name :> [fields |-> t.fields, types |-> t.types, refines |-> t.refines]) @@ @]

CollectVariants(data, t) ==
  LET info(v) == [owner |-> t.name, params |-> t.params, args |-> v.args]
  IN  [data EXCEPT
         !.ctors    = [n \in {v.name : v \in ToSet(t.variants)} |->
                         info(CHOOSE v \in ToSet(t.variants) : v.name = n)] @@ @,
         !.variants = (t.name :> [j \in DOMAIN t.variants |-> t.variants[j].name]) @@ @]

CollectType(d, t) ==
  LET known == t.name \in DOMAIN d.data.records \cup DOMAIN d.data.variants
      e     == IF known THEN Report(d, t.name, "name.duplicate") ELSE d
  IN  [e EXCEPT !.data = IF t.variants = <<>> THEN CollectRecord(@, t) ELSE CollectVariants(@, t)]

DeclareTypes(d, p) == FoldLeft(CollectType, d, PreludeTypes \o p.types)

(***************************************************************************)
(* 2-4. The prelude, the constructors, and what comes from C.              *)
(***************************************************************************)
DefineSig(d, n, t) ==
  LET l == Lower(d, <<t>>) IN [l.c EXCEPT !.sigs = (n :> Generalise(l.c, l.t[1])) @@ @]

CtorSig(d, n) ==
  LET l == CtorTypes(d, n)
  IN  [l.c EXCEPT !.sigs = (n :> Generalise(l.c, Arrows(Tail(l.t), Head(l.t)))) @@ @]

RECURSIVE ReturnsEff(_)
ReturnsEff(t) == IF t.k = "Fun" THEN ReturnsEff(t.xs[2]) ELSE t.k = "Eff"

ExtSig(d, x) ==
  LET e == IF ReturnsEff(x.ty) THEN d ELSE Report(d, x.name, "ext.pure")
  IN  [DefineSig(e, x.name, x.ty) EXCEPT !.exts = @ \cup {x.name}]

DefineValues(d, p) ==
  LET prelude == FoldLeft(LAMBDA e, n : DefineSig(e, n, Prelude[n]), d, Listed(DOMAIN Prelude))
      ctors   == FoldLeft(CtorSig, prelude, Listed(DOMAIN d.data.ctors))
  IN  FoldLeft(ExtSig, ctors, p.exts)

(***************************************************************************)
(* 5. Signatures: only what is written in full has more than one type.     *)
(***************************************************************************)
Written(f) == [j \in 1..Len(f.params) + 1 |-> IF j > Len(f.params) THEN f.ret ELSE f.params[j].t]

FunSig(d, f) ==
  LET known == f.name \in DOMAIN d.sigs \ d.exts
      e     == IF known THEN Report(d, f.name, "name.duplicate") ELSE d
      given == Written(f)
      open  == SelectSeq(Indices(given), LAMBDA j : given[j] = Missing)
      l     == Lower(e, given)
      g     == FreshFor(l.c, open)
      tys   == [j \in DOMAIN given |-> IF j \in ToSet(open) THEN g.to[j] ELSE l.t[j]]
      ty    == Arrows(Front(tys), Last(tys))
  IN  [g.c EXCEPT !.sigs = (f.name :> IF open = <<>> THEN Generalise(g.c, ty) ELSE Mono(ty)) @@ @]

DefineSignatures(d, p) == FoldLeft(FunSig, d, p.funs)

(***************************************************************************)
(* 6. Bodies.                                                              *)
(***************************************************************************)
\* What a function is made of, as a node: its refinements, its measure, its body.
FunNode(f) == Node("Fun", f.name, 0, <<>>, <<>>, f.refines \o f.measure \o <<f.body>>)

InferBool(d, e, at, j) == ChildIs(d, e, at, j, Prim("Bool"))

\* A pure body is one that performs nothing; a pure function's must be.
FitBody(d, declared, body) ==
  LET b == Resolve(d, body)
  IN  CASE declared.k = "Eff" /\ b.k = "Eff" -> Unify(d, b, declared)
        [] declared.k = "Eff" /\ b.k # "Eff" -> Unify(d, b, declared.xs[1])
        [] declared.k # "Eff" /\ b.k = "Eff" -> Fail(d, "effect.missing")
        [] OTHER -> Unify(d, b, declared)

\* Seeded fault: the effects of a body are dropped, as those of a let are.
FitBodyLoosely(d, declared, body) ==
  LET pure(t) == IF t.k = "Eff" THEN t.xs[1] ELSE t
  IN  Unify(d, pure(Resolve(d, body)), pure(declared))

RECURSIVE Codomain(_, _)
Codomain(t, n) == IF n = 0 THEN t ELSE Codomain(t.xs[2], n - 1)

\* A function in a scope of its own, which is left open.
InScope(d, f, i) ==
  LET inst == Instantiate(d, d.sigs[f.name])
      n    == Len(f.params)
      ty   == inst.t
      declared == Codomain(ty, n)
      entered  == FoldLeft(LAMBDA e, j : Define(e, f.params[j].n, Mono(Codomain(ty, j - 1).xs[1])),
                           PushScope(inst.c), [j \in 1..n |-> j])
      result(e) == LET r == Resolve(e, declared) IN [e EXCEPT !.result = IF IsRecord(e, r) THEN r.n ELSE ""]
      fun  == FunNode(f)
      part(e, u, j) ==
        Then(Child(IF j < Len(fun.xs) THEN e ELSE result(e), fun, <<i>>, j), LAMBDA e1, t :
          IF j <= Len(f.refines) THEN Unify(e1, t, Prim("Bool")) ELSE Ok(e1, t))
      clear(r) == [r EXCEPT !.c.result = ""]
  IN  Then(clear(Each(entered, Unit, Indices(fun.xs), part)), LAMBDA e, t :
        FitBody(e, declared, t))

\* Seeded fault: the scope is never closed.
CheckFunUnpopped(d, f, i) == InScope(d, f, i)

\* Only an error leaves it open.
CheckFun(d, f, i) == Then(InScope(d, f, i), LAMBDA e, u : Ok(PopScope(e), Unit))

CheckBody(d, p, i) == Noted(CheckFun(d, p.funs[i], i), p.funs[i].name)

(***************************************************************************)
(* 7-8. Record invariants, exports, and the end.                           *)
(***************************************************************************)
RecordInvariant(d, r) ==
  LET rec == d.data.records[r]
      field(e, j) == LET l == Lower(e, <<rec.types[j]>>) IN Define(l.c, rec.fields[j], Mono(l.t[1]))
      inside == FoldLeft(field, PushScope(d), Indices(rec.fields))
      stated == Node("Record", r, 0, <<>>, <<>>, rec.refines)
  IN  IF rec.refines = <<>> THEN d
      ELSE PopScope(FoldLeft(LAMBDA e, j : Noted(InferBool(e, stated, <<0>>, j), r), inside, Indices(rec.refines)))

CheckInvariants(d) == FoldLeft(RecordInvariant, d, Listed(DOMAIN d.data.records))

CheckExports(d, p) ==
  LET names == {f.name : f \in ToSet(p.funs)}
  IN  FoldLeft(LAMBDA e, n : IF n \in names THEN e ELSE Report(e, n, "export.unknown"), d, p.exports)

CheckExhaustiveness(d) ==
  [d EXCEPT !.errors = @ \cup {Problem("", m.at, "match.nonexhaustive") :
     m \in {x \in ToSet(d.pending) : NotCovered(d.data, x.pats)}}]

Finish(d, p) == CheckExhaustiveness(DefaultNumerics(CheckExports(CheckInvariants(d), p)))

RECURSIVE AffineBase(_)
AffineBase(t) ==
  CASE t.k = "Con" -> ~IsScalarName(t.n)
    [] t.k = "Var" -> TRUE
    [] t.k = "Tup" -> \E j \in DOMAIN t.xs : AffineBase(t.xs[j])
    [] t.k \in {"Fun", "Eff"} -> FALSE

\* What the ownership pass knows of a binder.
Affine(d, at, n) == \E b \in ToSet(d.binds) : b.at = at /\ b.n = n /\ AffineBase(Resolve(d, b.t))

(***************************************************************************)
(* The phases.                                                             *)
(***************************************************************************)
CheckerInit ==
  /\ program \in Programs
  /\ c = NewChecker
  /\ stage = "types" /\ next = 1

Phase(from, to, d) == stage = from /\ c' = d /\ stage' = to /\ UNCHANGED <<program, next>>

Declare == Phase("types", "values", DeclareTypes(c, program))
Values  == Phase("values", "signatures", DefineValues(c, program))
Signed  == Phase("signatures", "bodies", DefineSignatures(c, program))

Body ==
  /\ stage = "bodies" /\ next \in DOMAIN program.funs
  /\ c' = CheckBody(c, program, next)
  /\ next' = next + 1
  /\ UNCHANGED <<program, stage>>

End ==
  /\ next \notin DOMAIN program.funs
  /\ LET d == Finish(c, program)
     IN  Phase("bodies", IF d.errors = {} THEN "accepted" ELSE "refused", d)

CheckerNext == Declare \/ Values \/ Signed \/ Body \/ End

\* The errors of the bodies, at once.
RECURSIVE Bodies(_, _, _)
Bodies(d, p, i) == IF i > Len(p.funs) THEN d ELSE Bodies(CheckBody(d, p, i), p, i + 1)
BodyErrors(p) ==
  Bodies(DefineSignatures(DefineValues(DeclareTypes(NewChecker, p), p), p), p, 1).errors
=============================================================================
