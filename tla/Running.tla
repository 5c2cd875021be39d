------------------------------- MODULE Running -------------------------------
(***************************************************************************)
(* What the type checker promises, judged by running what it accepts.      *)
(*                                                                         *)
(* A value knows what it is, as in the runtime (src/runtime/vibert.h).  An *)
(* operation on a value that is not of its kind, or on the wrong record,   *)
(* is "stuck"; a match no arm of which fits is "unmatched"; a binder that  *)
(* the ownership pass was not told of, and that holds what must be freed,  *)
(* is "untracked".  Calls deeper than MaxCalls are not followed.              *)
(***************************************************************************)
EXTENDS Checker

CONSTANTS Depth,    \* how deep the values of a recursive type are given as inputs
          MaxCalls  \* how deep calls are followed

VARIABLES outcome,
          called      \* the function that was run

vars == <<checkerVars, outcome, called>>

Value(k, n, i, vs) == [k |-> k, n |-> n, i |-> i, vs |-> vs, code |-> Void, env |-> Empty, at |-> <<>>]
VNum(i)      == Value("Num", "", i, <<>>)
VFlt         == Value("Flt", "", 0, <<>>)
VStr(s)      == Value("Str", s, 0, <<>>)
VBool(b)     == Value("Bool", "", IF b THEN 1 ELSE 0, <<>>)
VUnit        == Value("Unit", "", 0, <<>>)
VTup(vs)     == Value("Tup", "", 0, vs)
VVec(vs)     == Value("Vec", "", 0, vs)
VData(n, vs) == Value("Data", n, 0, vs)
VRec(n, vs)  == Value("Rec", n, 0, vs)
VFn(n, vs)   == Value("Fn", n, 0, vs)          \* a name, and the arguments it has
Closure(e, env, at) == [VFn("", <<>>) EXCEPT !.code = e, !.env = env, !.at = at]

\* What must be freed.
RECURSIVE Freed(_)
Freed(v) == v.k \in {"Str", "Vec", "Data", "Rec"} \/ (v.k = "Tup" /\ \E j \in DOMAIN v.vs : Freed(v.vs[j]))

Done(v)    == [k |-> "value", v |-> v, performed |-> FALSE]
Stuck      == [k |-> "stuck", v |-> VUnit, performed |-> FALSE]
Ended(why) == [Stuck EXCEPT !.k = why]
Perform(r) == [r EXCEPT !.performed = TRUE]
AndThen(r, K(_)) ==
  IF r.k # "value" THEN r ELSE LET s == K(r.v) IN [s EXCEPT !.performed = @ \/ r.performed]
Guarded(ok, r) == IF ok THEN r ELSE Stuck

(***************************************************************************)
(* Matching.                                                               *)
(***************************************************************************)
IsCtor(n) == n \in DOMAIN c.data.ctors
Owner(n)  == c.data.ctors[n].owner

Alike(p, v) ==
  CASE p.k = "Int"  -> v.k \in {"Num", "Flt"}
    [] p.k = "Str"  -> v.k = "Str"
    [] p.k = "Tup"  -> v.k = "Tup" /\ Len(v.vs) = Len(p.ps)
    [] p.k = "List" -> v.k = "Vec"
    [] p.k = "Ctor" -> IF p.n \in {"True", "False"} THEN v.k = "Bool"
                       ELSE v.k = "Data" /\ Owner(v.n) = Owner(p.n)
    [] OTHER -> TRUE

Same(p, v) ==
  CASE p.k = "Int"  -> v.k = "Num" /\ v.i = p.i
    [] p.k = "Str"  -> v.n = p.n
    [] p.k = "List" -> Len(v.vs) = Len(p.ps)
    [] p.k = "Ctor" -> IF p.n \in {"True", "False"} THEN v.i = (IF p.n = "True" THEN 1 ELSE 0) ELSE v.n = p.n
    [] OTHER -> TRUE

RECURSIVE Fits(_, _), WellPut(_, _)
Fits(p, v) == Same(p, v) /\ (Open(p) \/ \A j \in DOMAIN p.ps : Fits(p.ps[j], v.vs[j]))
\* Every question the pattern asks can be asked of the value.
WellPut(p, v) ==
  Alike(p, v) /\ (Open(p) \/ ~Same(p, v) \/ \A j \in DOMAIN p.ps : WellPut(p.ps[j], v.vs[j]))

RECURSIVE Names(_, _)
Names(p, v) ==
  IF p.k = "Var" THEN p.n :> v
  ELSE FoldLeft(LAMBDA f, j : Names(p.ps[j], v.vs[j]) @@ f, Empty, Indices(p.ps))

(***************************************************************************)
(* Evaluation.                                                             *)
(***************************************************************************)
FunOf(n)  == CHOOSE i \in DOMAIN program.funs : program.funs[i].name = n
IsFun(n)  == \E i \in DOMAIN program.funs : program.funs[i].name = n
RECURSIVE ArrowsIn(_)
ArrowsIn(t) == IF t.k = "Fun" THEN 1 + ArrowsIn(t.xs[2]) ELSE 0

\* `const` and `perform` are functions given as inputs: the second acts.
Arity(f) ==
  CASE f.n = "" -> Len(f.code.ns)
    [] f.n \in {"const", "perform"} -> 2
    [] f.n \in Specials -> 1
    [] IsFun(f.n) -> Len(program.funs[FunOf(f.n)].params)
    [] IsCtor(f.n) -> Len(c.data.ctors[f.n].args)
    [] OTHER -> ArrowsIn(c.sigs[f.n].ty)

Tracked(at, env) == \A n \in DOMAIN env : Freed(env[n]) => Affine(c, at, n)

RECURSIVE Sub(_, _, _, _, _), Apply(_, _, _)

EvalAll(e, js, env, at, d) ==
  FoldLeft(LAMBDA r, j : AndThen(r, LAMBDA t : AndThen(Sub(e, j, env, at, d),
                                    LAMBDA v : Done(VTup(Append(t.vs, v))))),
           Done(VTup(<<>>)), js)

OverVec(f, vec, d) ==
  FoldLeft(LAMBDA r, v : AndThen(r, LAMBDA t : AndThen(Apply(f, v, d), LAMBDA w : Done(VTup(Append(t.vs, w))))),
           Done(VTup(<<>>)), vec.vs)

Builtin(n, vs, d) ==
  CASE n = "dup"    -> Done(vs[1])
    [] n = "empty"  -> Done(VVec(<<>>))
    [] n = "single" -> Done(VVec(vs))
    [] n = "push"   -> Guarded(vs[1].k = "Vec", Done(VVec(Append(vs[1].vs, vs[2]))))
    [] n = "map"    -> Guarded(vs[2].k = "Vec", AndThen(OverVec(vs[1], vs[2], d), LAMBDA t : Done(VVec(t.vs))))
    [] n = "each"   -> Guarded(vs[2].k = "Vec", AndThen(OverVec(vs[1], vs[2], d), LAMBDA t : Done(VUnit)))
    [] n = "concat" -> Guarded(vs[1].k = "Str" /\ vs[2].k = "Str", Done(VStr("b")))
    [] n = "read"   -> Guarded(vs[1].k = "Str", Perform(Done(VStr("b"))))
    [] n = "out"    -> Guarded(vs[1].k = "Str", Perform(Done(VUnit)))
    [] n = "const"  -> Done(vs[1])
    [] n = "perform" -> Perform(Done(vs[1]))
    [] n \in c.exts -> Perform(Done(VUnit))
    [] n \in {"show", "fmt"} -> Done(VStr("b"))
    [] n = "len" -> Guarded(vs[1].k \in {"Str", "Vec"}, Done(VNum(Len(vs[1].vs))))

\* A function with all its arguments.
Invoke(f, d) ==
  IF d = 0 THEN Ended("deep")
  ELSE IF f.n = "" THEN
    LET args == [n \in ToSet(f.code.ns) |-> f.vs[CHOOSE j \in DOMAIN f.vs : f.code.ns[j] = n]]
    IN  Sub(f.code, 1, args @@ f.env, f.at, d - 1)
  ELSE IF IsFun(f.n) THEN
    LET g == program.funs[FunOf(f.n)]
        fun == FunNode(g)
    IN  Sub(fun, Len(fun.xs), [n \in {g.params[j].n : j \in DOMAIN g.params} |->
                                 f.vs[CHOOSE j \in DOMAIN f.vs : g.params[j].n = n]], <<FunOf(f.n)>>, d - 1)
  ELSE IF IsCtor(f.n) THEN Done(VData(f.n, f.vs))
  ELSE Builtin(f.n, f.vs, d - 1)

Saturated(f, d) == IF Len(f.vs) = Arity(f) THEN Invoke(f, d) ELSE Done(f)
Apply(f, v, d)  == Guarded(f.k = "Fn", Saturated([f EXCEPT !.vs = Append(@, v)], d))

\* In order: && and || may end at the first.
EvalBinop(e, env, at, d) ==
  AndThen(Sub(e, 1, env, at, d), LAMBDA a :
    IF e.n \in {"&&", "||"} /\ a.k = "Bool" /\ a.i = (IF e.n = "&&" THEN 0 ELSE 1) THEN Done(a)
    ELSE AndThen(Sub(e, 2, env, at, d), LAMBDA b :
      LET numbers == {a.k, b.k} \subseteq {"Num", "Flt"}
      IN  CASE e.n \in {"&&", "||"} -> Guarded(a.k = "Bool" /\ b.k = "Bool", Done(b))
            [] e.n = "==" -> Done(VBool(a.k = b.k /\ a.n = b.n /\ a.i = b.i))
            [] e.n = "++" -> Guarded(a.k = "Str" /\ b.k = "Str", Done(VStr("b")))
            [] e.n = "<"  -> Guarded(numbers, Done(VBool(a.i < b.i)))
            [] OTHER -> Guarded(numbers, Done(IF "Flt" \in {a.k, b.k} THEN VFlt ELSE VNum((a.i + b.i) % 3)))))

EvalMatch(e, env, at, d) ==
  AndThen(Sub(e, 1, env, at, d), LAMBDA v :
    LET fit  == {j \in DOMAIN e.ps : WellPut(e.ps[j], v) /\ Fits(e.ps[j], v)}
        j    == CHOOSE i \in fit : \A h \in fit : i <= h
        arm  == Append(at, j + 1)
        here == Names(e.ps[j], v)
    IN  IF \E i \in DOMAIN e.ps : (\A h \in fit : i < h) /\ ~WellPut(e.ps[i], v) THEN Stuck
        ELSE IF fit = {} THEN Ended("unmatched")
        ELSE IF ~Tracked(arm, here) THEN Ended("untracked")
        ELSE Sub(e, j + 1, here @@ env, at, d))

PosOf(rec, f) == LET fs == c.data.records[rec].fields IN CHOOSE j \in DOMAIN fs : fs[j] = f

\* Fields are reached by their position in the record inference decided on.
EvalRecord(e, env, at, d) ==
  LET owner == c.fieldOf[at]
      n     == Len(c.data.records[owner].fields)
      put(r, vs) == FoldLeft(LAMBDA s, j : [s EXCEPT ![PosOf(owner, e.ns[j])] = vs[j]], r, Indices(e.ns))
  IN  AndThen(EvalAll(e, Indices(e.xs), env, at, d), LAMBDA t :
        IF e.k = "Record" THEN Done(VRec(owner, put([j \in 1..n |-> VUnit], t.vs)))
        ELSE Guarded(t.vs[1].k = "Rec" /\ t.vs[1].n = owner, Done(VRec(owner, put(t.vs[1].vs, Tail(t.vs))))))

EvalApp(e, env, at, d) ==
  AndThen(EvalAll(e, [j \in 1..(Len(e.xs) - 1) |-> j + 1], env, at, d), LAMBDA t :
    IF e.xs[1].k = "Var" /\ e.xs[1].n \in Specials
      THEN Builtin(e.xs[1].n, t.vs, d)
      ELSE AndThen(Sub(e, 1, env, at, d), LAMBDA f :
             FoldLeft(LAMBDA r, v : AndThen(r, LAMBDA g : Apply(g, v, d)), Done(f), t.vs)))

EvalBinder(e, env, at, d) ==
  AndThen(Sub(e, 1, env, at, d), LAMBDA v :
    IF ~Tracked(Append(at, 2), e.n :> v) THEN Ended("untracked")
    ELSE Sub(e, 2, (e.n :> v) @@ env, at, d))

Eval(e, env, at, d) ==
  CASE e.k = "Int"   -> Done(VNum(e.i))
    [] e.k = "Float" -> Done(VFlt)
    [] e.k = "Str"   -> Done(VStr("a"))
    [] e.k = "Bool"  -> Done(VBool(e.i = 1))
    [] e.k = "Unit"  -> Done(VUnit)
    [] e.k = "Borrow" -> Sub(e, 1, env, at, d)
    [] e.k \in {"Var", "Ctor"} -> IF e.n \in DOMAIN env THEN Done(env[e.n]) ELSE Saturated(VFn(e.n, <<>>), d)
    [] e.k = "App"   -> EvalApp(e, env, at, d)
    [] e.k = "Binop" -> EvalBinop(e, env, at, d)
    [] e.k = "Neg"   -> AndThen(Sub(e, 1, env, at, d), LAMBDA v : Guarded(v.k \in {"Num", "Flt"}, Done(v)))
    [] e.k = "Not"   -> AndThen(Sub(e, 1, env, at, d), LAMBDA v : Guarded(v.k = "Bool", Done(VBool(v.i = 0))))
    [] e.k = "Tuple" -> EvalAll(e, Indices(e.xs), env, at, d)
    [] e.k = "List"  -> AndThen(EvalAll(e, Indices(e.xs), env, at, d), LAMBDA t : Done(VVec(t.vs)))
    [] e.k = "Lambda" -> Done(Closure(e, env, at))
    [] e.k \in {"Let", "Bind"} -> EvalBinder(e, env, at, d)
    [] e.k = "Match" -> EvalMatch(e, env, at, d)
    [] e.k = "Field" -> AndThen(Sub(e, 1, env, at, d), LAMBDA v :
                          Guarded(v.k = "Rec" /\ v.n = c.fieldOf[at], Done(v.vs[PosOf(v.n, e.n)])))
    [] e.k \in {"Record", "With"} -> EvalRecord(e, env, at, d)

Sub(e, j, env, at, d) == Eval(e.xs[j], env, Append(at, j), d)

(***************************************************************************)
(* The values of a type.                                                   *)
(***************************************************************************)
\* The types of a constructor's arguments, in a type with these arguments.
ArgTypes(n, xs) ==
  LET info == c.data.ctors[n]
      to == [v \in {Named(info.params[j]) : j \in DOMAIN info.params} |->
               xs[CHOOSE j \in DOMAIN info.params : Named(info.params[j]) = v]]
  IN  [j \in DOMAIN info.args |-> Replace(Erase(info.args[j]), to)]
RecTypes(n) == [j \in DOMAIN c.data.records[n].types |-> Erase(c.data.records[n].types[j])]

RECURSIVE HasType(_, _)
HasAll(vs, ts) == Len(vs) = Len(ts) /\ \A j \in DOMAIN vs : HasType(vs[j], ts[j])
HasType(v, t) ==
  CASE t.k = "Var" -> TRUE
    [] t.k = "Fun" -> v.k = "Fn"
    [] t.k = "Eff" -> HasType(v, t.xs[1])
    [] t.k = "Tup" -> v.k = "Tup" /\ HasAll(v.vs, t.xs)
    [] OTHER ->
         CASE t.n \in IntTypes   -> v.k = "Num"
           [] t.n \in FloatTypes -> v.k \in {"Num", "Flt"}
           [] t.n \in {"Str", "Bool", "Unit"} -> v.k = t.n
           [] t.n = "Vec" -> v.k = "Vec" /\ \A j \in DOMAIN v.vs : HasType(v.vs[j], t.xs[1])
           [] t.n \in DOMAIN c.data.records -> v.k = "Rec" /\ v.n = t.n /\ HasAll(v.vs, RecTypes(t.n))
           [] OTHER -> v.k = "Data" /\ Owner(v.n) = t.n /\ HasAll(v.vs, ArgTypes(v.n, t.xs))

\* One of each kind that a match or an operation could tell apart: numbers and
\* lengths past any that the programs name.
OneOf(vs) == IF vs = {} THEN {} ELSE {CHOOSE v \in vs : TRUE}
RECURSIVE Inhabitants(_, _)
Rowed(ts, d) ==
  FoldLeft(LAMBDA rows, t : {Append(r, v) : r \in rows, v \in Inhabitants(t, d)}, {<<>>}, ts)
Inhabitants(t, d) ==
  CASE t.k = "Var" -> {VUnit}
    [] t.k = "Fun" -> {VFn(IF t.xs[2].k = "Eff" THEN "perform" ELSE "const", <<v>>) : v \in OneOf(Inhabitants(t.xs[2], d))}
    [] t.k = "Eff" -> Inhabitants(t.xs[1], d)
    [] t.k = "Tup" -> {VTup(r) : r \in Rowed(t.xs, d)}
    [] OTHER ->
         CASE t.n \in IntTypes   -> {VNum(i) : i \in 0..2}
           [] t.n \in FloatTypes -> {VFlt}
           [] t.n = "Str"  -> {VStr("a"), VStr("b")}
           [] t.n = "Bool" -> {VBool(TRUE), VBool(FALSE)}
           [] t.n = "Unit" -> {VUnit}
           [] t.n = "Vec"  -> UNION {{VVec(r) : r \in Rowed([j \in 1..n |-> t.xs[1]], d - 1)} : n \in 0..(IF d = 0 THEN 0 ELSE 2)}
           [] t.n \in DOMAIN c.data.records -> {VRec(t.n, r) : r \in Rowed(RecTypes(t.n), d)}
           [] OTHER -> UNION {{VData(n, r) : r \in IF d = 0 /\ ArgTypes(n, t.xs) # <<>> THEN {}
                                                   ELSE Rowed(ArgTypes(n, t.xs), d - 1)}
                              : n \in ToSet(c.data.variants[t.n])}

(***************************************************************************)
(* The steps.                                                              *)
(***************************************************************************)
Init == CheckerInit /\ outcome = Ended("none") /\ called = 0

Checking == CheckerNext /\ UNCHANGED <<outcome, called>>

ParamTypes(f) ==
  LET ty == c.sigs[f.name].ty IN [j \in DOMAIN f.params |-> Resolve(c, Codomain(ty, j - 1).xs[1])]
ResultType(f) == Resolve(c, Codomain(c.sigs[f.name].ty, Len(f.params)))

Run ==
  /\ stage = "accepted"
  /\ stage' = "ran"
  /\ \E i \in DOMAIN program.funs :
       LET f == program.funs[i]
       IN  \E vs \in Rowed(ParamTypes(f), Depth) :
             /\ called' = i
             /\ outcome' = Invoke(VFn(f.name, vs), MaxCalls)
  /\ UNCHANGED <<program, c, next>>

Next == Checking \/ Run

Spec == Init /\ [][Next]_vars

(***************************************************************************)
(* Properties.                                                             *)
(***************************************************************************)
Result == ResultType(program.funs[called])

\* What is accepted does not go wrong: no operation meets a value of another
\* kind, no field is read from another record, and what is returned has the
\* type the signature gives (infer.rs; Checked::field_of, "the record every
\* `.field` read ... resolved to").
Sound == stage = "ran" => outcome.k # "stuck" /\ (outcome.k = "value" => HasType(outcome.v, Result))

\* An accepted function that is typed as pure performs nothing ("A function
\* calling an `E!` function must be `E!`", spec 5.2).
Pure == stage = "ran" /\ outcome.performed => Result.k = "Eff"

\* A match is refused exactly if some value of what it looks at fits no arm, the
\* constructors named as missing are those of such values, and no match that
\* was accepted falls through (check_exhaustiveness).
Uncovered(m) ==
  {v \in Inhabitants(Resolve(c, m.ty), Depth) : \A j \in DOMAIN m.pats : ~Fits(m.pats[j], v)}
Exhaustive ==
  /\ outcome.k # "unmatched"
  /\ stage \in {"accepted", "refused"} =>
       \A m \in ToSet(c.pending) :
         /\ (Problem("", m.at, "match.nonexhaustive") \in c.errors) <=> Uncovered(m) # {}
         /\ \A h \in MissingHeads(c.data, m.pats) : h.k = "Ctor" /\ IsCtor(h.n) =>
              \E v \in Uncovered(m) : v.n = h.n

\* Every binder that holds what must be freed is one the ownership pass knows
\* of (Checked::affine: "an absent key means the binder is not affine").
BindersKnown == outcome.k # "untracked"

\* No variable stands for a type that it is part of, at any time: resolving
\* ends (occurs).
RECURSIVE Within(_, _)
Within(v, n) ==
  IF n = 0 THEN {v}
  ELSE LET t == c.subst[v]
       IN  {v} \cup UNION {Within(u.i, n - 1) : u \in ToSet(CollectVars(t))}
Acyclic ==
  \A v \in DOMAIN c.subst :
    \A u \in ToSet(CollectVars(c.subst[v])) : v \notin Within(u.i, Len(c.subst))

\* Where signatures are written in full, a function is right or wrong by itself,
\* wherever it stands: one is accused of what it does wrong alone, and of nothing
\* else, as long as none before it is wrong (infer.rs: "Errors are collected per
\* declaration so one run reports everything that is wrong").  Those after one
\* that is wrong are checked with the scopes it left open.
Alone(f) ==
  LET stub(g) == [g EXCEPT !.body = App(Var(g.name), [j \in DOMAIN g.params |-> Var(g.params[j].n)]),
                           !.refines = <<>>, !.measure = <<>>]
      mine(g) == g.name = f
      rest    == SelectSeq(program.funs, LAMBDA g : ~mine(g))
      only    == [program EXCEPT !.funs = SelectSeq(@, mine) \o [j \in DOMAIN rest |-> stub(rest[j])]]
  IN  {x.code : x \in {y \in BodyErrors(only) : y.path = f}}
Accused(f) == {x.code : x \in {y \in c.errors : y.path = f}}
InFull == \A j \in DOMAIN program.funs : \A k \in DOMAIN Written(program.funs[j]) :
            Written(program.funs[j])[k] # Missing
WrongByItself ==
  LET name(i) == program.funs[i].name
  IN  stage \in {"accepted", "refused"} /\ Len(program.funs) > 1 /\ InFull =>
        \A i \in DOMAIN program.funs :
          (\A j \in 1..(i - 1) : Accused(name(j)) = {}) => Accused(name(i)) = Alone(name(i))
=============================================================================
