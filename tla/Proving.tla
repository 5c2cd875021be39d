-------------------------------- MODULE Proving --------------------------------
(***************************************************************************)
(* What a proved program promises, judged by running it: the obligations   *)
(* of each function, the solver's verdicts, and then a call of any         *)
(* function with values its signature allows.                              *)
(*                                                                         *)
(* A fault is what an obligation is about: a division by zero, a result    *)
(* outside its type, an index outside its vector, a refinement that does   *)
(* not hold.  Arithmetic is that of src/runtime/vibert.c, where a division *)
(* truncates; refinements speak of integers without bounds.                *)
(***************************************************************************)
EXTENDS Obligations

CONSTANTS Programs,  \* the modules: functions, records, constructors
          Longest,   \* the longest vector given as an input
          MaxCalls   \* how deep calls are followed

VARIABLES program,   \* with what is inferred of its functions
          stage,
          obs,       \* the obligations, with their hypotheses
          skipped,   \* where something could not be put to the solver
          open,      \* the obligations that are not proved
          called, outcome

vars == <<program, stage, obs, skipped, open, called, outcome>>

Value(k, n, i, vs) == [k |-> k, n |-> n, i |-> i, vs |-> vs]
VNum(ty, i)  == Value("Num", ty, i, <<>>)      \* of this type; "" for a literal
VBool(b)     == Value("Bool", "", Truth(b), <<>>)
VUnit        == Value("Unit", "", 0, <<>>)
VVec(vs)     == Value("Vec", "", 0, vs)
VData(n, vs) == Value("Data", n, 0, vs)
VRec(n, vs)  == Value("Rec", n, 0, vs)

Done(v)            == [k |-> "value", v |-> v, at |-> <<>>, code |-> "", of |-> Void]
Ended(why)         == [Done(VUnit) EXCEPT !.k = why]
Fault(at, code, r) == [Ended("fault") EXCEPT !.at = at, !.code = code, !.of = r]
AndThen(r, K(_))   == IF r.k = "value" THEN K(r.v) ELSE r
Unless(bad, fault, r) == IF bad THEN fault ELSE r

Absolute(x)     == IF x < 0 THEN -x ELSE x
Truncated(x, y) == (IF (x < 0) = (y < 0) THEN 1 ELSE -1) * (Absolute(x) \div Absolute(y))
Wrapped(i, ty)  == Bounds[ty][1] + ((i - Bounds[ty][1]) % (Bounds[ty][2] - Bounds[ty][1] + 1))
Fitting(i, ty)  == ty = "" \/ (Bounds[ty][1] <= i /\ i <= Bounds[ty][2])

\* A literal has the type it is used at.
Typed(v, t) == IF v.k = "Num" /\ v.n = "" THEN [v EXCEPT !.n = BaseName(t)] ELSE v

FunOf(n) == CHOOSE i \in DOMAIN program.funs : program.funs[i].name = n
IsFun(n) == \E i \in DOMAIN program.funs : program.funs[i].name = n
PosOf(rec, f) == LET fs == program.records[rec].fields IN CHOOSE j \in DOMAIN fs : fs[j] = f
FieldOf(v, f) == v.vs[PosOf(v.n, f)]

(***************************************************************************)
(* Refinements.                                                            *)
(***************************************************************************)
RECURSIVE Amount(_, _)
Amount(e, env) ==
  LET x == Amount(e.xs[1], env)
      y == Amount(e.xs[2], env)
  IN  CASE e.k = "Int" -> e.i
        [] e.k = "Var" -> env[e.n].i
        [] e.k = "Borrow" -> x
        [] e.k = "Field" -> FieldOf(env[e.xs[1].n], e.n).i
        [] e.k = "App" -> Len(env[AsName(e.xs[2])].vs)
        [] e.k = "Not" -> 1 - x
        [] e.k = "Binop" ->
             CASE e.n = "+" -> x + y [] e.n = "-" -> x - y
               [] e.n = "==" -> Truth(x = y) [] e.n = "!=" -> Truth(x # y)
               [] e.n = "<" -> Truth(x < y) [] e.n = "<=" -> Truth(x <= y)
               [] e.n = ">" -> Truth(x > y) [] e.n = ">=" -> Truth(x >= y)
               [] e.n = "&&" -> x * y [] e.n = "||" -> Truth(x + y > 0)

\* The first of the refinements that does not hold is a fault here.
Refine(refines, env, at, r) ==
  LET broken == SelectSeq(refines, LAMBDA q : Amount(q, env) = 0)
  IN  IF broken = <<>> THEN r ELSE Fault(at, "refine.unproven", broken[1])

ParamEnv(f, vs)   == [n \in {f.params[j].n : j \in DOMAIN f.params} |->
                        LET j == CHOOSE i \in DOMAIN f.params : f.params[i].n = n IN Typed(vs[j], f.params[j].t)]
RefinesOf(f)      == FlattenSeq([j \in DOMAIN f.params |-> f.params[j].refines])
RecordEnv(rec, vs) == [n \in ToSet(program.records[rec].fields) |-> vs[PosOf(rec, n)]]

(***************************************************************************)
(* Evaluation.                                                             *)
(***************************************************************************)
RECURSIVE Fits(_, _), Names(_, _)
Fits(p, v) ==
  /\ CASE p.k = "Int"  -> v.i = p.i
       [] p.k = "List" -> Len(v.vs) = Len(p.ps)
       [] p.k = "Str"  -> v.vs = <<>>
       [] p.k = "Ctor" -> IF IsBool(p) THEN v.i = Truth(p.n = "True") ELSE v.n = p.n
       [] OTHER -> TRUE
  /\ \A j \in DOMAIN p.ps : Fits(p.ps[j], v.vs[j])
Names(p, v) ==
  IF p.k = "Var" THEN p.n :> v
  ELSE FoldLeft(LAMBDA f, j : Names(p.ps[j], v.vs[j]) @@ f, [n \in {} |-> v], Indices(p.ps))

RECURSIVE Eval(_, _, _, _)
Sub(e, j, env, at, d) == Eval(e.xs[j], env, Append(at, j), d)
EvalAll(e, js, env, at, d) ==
  FoldLeft(LAMBDA r, j : AndThen(r, LAMBDA t : AndThen(Sub(e, j, env, at, d), LAMBDA v : Done(VVec(Append(t.vs, v))))),
           Done(VVec(<<>>)), js)

\* On machine integers, and comparisons.
Operate(op, a, b, at) ==
  LET ty  == IF a.n # "" THEN a.n ELSE b.n
      x   == a.i
      y   == b.i
      all == CASE op = "+" -> x + y [] op = "-" -> x - y [] op = "*" -> x * y
      is(t) == Done(VBool(t))
  IN  CASE op = "/" ->
             LET q == Truncated(x, y)
             IN  Unless(y = 0, Fault(at, "div0", Void),
                        Done(VNum(ty, IF Fitting(q, ty) THEN q ELSE Wrapped(q, ty))))
        [] op = "-" /\ IsUnsigned(ty) -> Unless(x < y, Fault(at, "underflow", Void), Done(VNum(ty, all)))
        [] op \in {"+", "*"} \/ (op = "-" /\ ~IsUnsigned(ty)) ->
             Unless(~Fitting(all, ty), Fault(at, "overflow", Void), Done(VNum(ty, all)))
        [] op = "==" -> is(x = y) [] op = "!=" -> is(x # y) [] op = "<" -> is(x < y) [] op = "<=" -> is(x <= y)
        [] op = ">" -> is(x > y)  [] op = ">=" -> is(x >= y) [] op \in {"&&", "||"} -> Done(b)

EvalBinop(e, env, at, d) ==
  AndThen(Sub(e, 1, env, at, d), LAMBDA a :
    IF e.n \in {"&&", "||"} /\ a.i = Truth(e.n = "||") THEN Done(a)
    ELSE AndThen(Sub(e, 2, env, at, d), LAMBDA b : Operate(e.n, a, b, at)))

EvalMatch(e, env, at, d) ==
  AndThen(Sub(e, 1, env, at, d), LAMBDA v :
    LET fit == {j \in DOMAIN e.ps : Fits(e.ps[j], v)}
        j   == CHOOSE i \in fit : \A h \in fit : i <= h
    IN  IF fit = {} THEN Ended("unmatched") ELSE Sub(e, j + 1, Names(e.ps[j], v) @@ env, at, d))

\* Indices start at 0.
Element(v, i, at, K(_)) == Unless(i >= Len(v.vs), Fault(at, "bounds", Void), K(i + 1))

EvalCall(n, vs, at, d) ==
  CASE n = "len" -> Done(VNum("Size", Len(vs[1].vs)))
    [] n \in DOMAIN Conversions -> Done(VNum(Conversions[n], Wrapped(vs[1].i, Conversions[n])))
    [] n \in {"get", "byte_at"} -> Element(vs[1], vs[2].i, at, LAMBDA i : Done(vs[1].vs[i]))
    [] n = "set" -> Element(vs[1], vs[2].i, at, LAMBDA i : Done([vs[1] EXCEPT !.vs[i] = vs[3]]))
    [] n = "max_by" -> Unless(vs[2].vs = <<>>, Fault(at, "refine.unproven", Void), Done(vs[2].vs[1]))
    [] n = "empty" -> Done(VVec(<<>>))
    [] n = "push" -> Done(VVec(Append(vs[1].vs, vs[2])))
    [] n \in DOMAIN program.ctors -> Done(VData(n, vs))
    [] IsFun(n) ->
         LET f   == program.funs[FunOf(n)]
             env == ParamEnv(f, vs)
         IN  IF d = 0 THEN Ended("deep")
             ELSE Refine(RefinesOf(f), env, at,
                          AndThen(Eval(f.body, env, <<FunOf(n)>>, d - 1), LAMBDA v : Done(Typed(v, f.ret))))

EvalRecord(e, env, at, d) ==
  LET rec    == OwnerOf([m |-> program], e.ns[1])
      fields == program.records[rec].fields
      first  == Len(e.xs) - Len(e.ns)
      put(vs, t) == [j \in DOMAIN fields |-> IF fields[j] \in ToSet(e.ns)
                       THEN Typed(t.vs[first + (CHOOSE i \in DOMAIN e.ns : e.ns[i] = fields[j])], program.records[rec].types[j])
                       ELSE vs[j]]
      base(t) == IF e.k = "With" THEN t.vs[1].vs ELSE [j \in DOMAIN fields |-> VUnit]
  IN  AndThen(EvalAll(e, Indices(e.xs), env, at, d), LAMBDA t :
        LET vs == put(base(t), t) IN Refine(program.records[rec].refines, RecordEnv(rec, vs), at, Done(VRec(rec, vs))))

Eval(e, env, at, d) ==
  CASE e.k = "Int"  -> Done(VNum("", e.i))
    [] e.k = "Bool" -> Done(VBool(e.i = 1))
    [] e.k = "Unit" -> Done(VUnit)
    [] e.k = "Var"  -> Done(IF e.n \in DOMAIN env THEN env[e.n] ELSE VUnit)
    [] e.k = "Ctor" -> Done(VData(e.n, <<>>))
    [] e.k \in {"Borrow", "Arena"} -> Sub(e, 1, env, at, d)
    [] e.k = "Not"  -> AndThen(Sub(e, 1, env, at, d), LAMBDA v : Done(VBool(v.i = 0)))
    [] e.k = "Field" -> AndThen(Sub(e, 1, env, at, d), LAMBDA v : Done(FieldOf(v, e.n)))
    [] e.k = "Binop" -> EvalBinop(e, env, at, d)
    [] e.k = "List" -> EvalAll(e, Indices(e.xs), env, at, d)
    [] e.k = "App"  -> AndThen(EvalAll(e, Tail(Indices(e.xs)), env, at, d), LAMBDA t : EvalCall(AsName(e.xs[1]), t.vs, at, d))
    [] e.k \in {"Record", "With"} -> EvalRecord(e, env, at, d)
    [] e.k \in {"Let", "Bind"} -> AndThen(Sub(e, 1, env, at, d), LAMBDA v : Sub(e, 2, (e.n :> v) @@ env, at, d))
    [] e.k = "Match" -> EvalMatch(e, env, at, d)

(***************************************************************************)
(* The values of a type: every number; vectors of one value, repeated;     *)
(* records with their invariant.                                           *)
(***************************************************************************)
RECURSIVE Inhabitants(_)
Rowed(ts) == FoldLeft(LAMBDA rows, t : {Append(r, v) : r \in rows, v \in Inhabitants(t)}, {<<>>}, ts)
Argument(t, info, xs) == IF t.k = "Named" THEN xs[CHOOSE j \in DOMAIN info.params : info.params[j] = t.n] ELSE t
Inhabitants(t) ==
  CASE t.k \in {"Ref", "Eff"} -> Inhabitants(t.xs[1])
    [] t.n = "Bool" -> {VBool(TRUE), VBool(FALSE)}
    [] t.n \in DOMAIN Bounds -> {VNum(t.n, i) : i \in Bounds[t.n][1]..Bounds[t.n][2]}
    [] t.n \in {"Vec", "Str"} ->
         LET of == IF t.n = "Str" THEN Prim("U8") ELSE t.xs[1]
         IN  {VVec([j \in 1..n |-> v]) : n \in 0..Longest, v \in Inhabitants(of)}
    [] t.n \in DOMAIN program.records ->
         {VRec(t.n, r) : r \in {s \in Rowed(program.records[t.n].types) :
            \A q \in ToSet(program.records[t.n].refines) : Amount(q, RecordEnv(t.n, s)) = 1}}
    [] OTHER ->
         UNION {LET info == program.ctors[n]
                IN  {VData(n, r) : r \in Rowed([j \in DOMAIN info.args |-> Argument(info.args[j], info, t.xs)])}
                : n \in {c \in DOMAIN program.ctors : program.ctors[c].owner = t.n}}

(***************************************************************************)
(* The steps.                                                              *)
(***************************************************************************)
Init ==
  /\ program \in Programs
  /\ stage = "read"
  /\ obs = <<>> /\ skipped = {} /\ open = {}
  /\ called = 0 /\ outcome = Ended("none")

InferPosts ==
  /\ stage = "read"
  /\ stage' = "known"
  /\ program' = [program EXCEPT !.posts = Postconditions(program)]
  /\ UNCHANGED <<obs, skipped, open, called, outcome>>

GenerateAll ==
  /\ stage = "known"
  /\ stage' = "asked"
  /\ \E backward \in BOOLEAN :
       LET gs == [i \in DOMAIN program.funs |-> Generate(program, program.funs[i], i, backward)]
       IN  /\ obs' = FlattenSeq([i \in DOMAIN gs |-> gs[i].obs])
           /\ skipped' = UNION {ToSet(gs[i].skipped) : i \in DOMAIN gs}
  /\ UNCHANGED <<program, open, called, outcome>>

Discharge ==
  /\ stage = "asked"
  /\ stage' = "judged"
  /\ open' = {[at |-> o.at, code |-> o.code, of |-> o.of] : o \in {p \in ToSet(obs) : ~Proves(p.syms, p.hyps, p.goal)}}
  /\ obs' = <<>>
  /\ UNCHANGED <<program, skipped, called, outcome>>

Run ==
  /\ stage = "judged"
  /\ stage' = "ran"
  /\ \E i \in DOMAIN program.funs :
       LET f == program.funs[i]
       IN  \E vs \in Rowed([j \in DOMAIN f.params |-> f.params[j].t]) :
             /\ \A q \in ToSet(RefinesOf(f)) : Amount(q, ParamEnv(f, vs)) = 1
             /\ called' = i
             /\ outcome' = Eval(f.body, ParamEnv(f, vs), <<i>>, MaxCalls)
  /\ UNCHANGED <<program, obs, skipped, open>>

Next == InferPosts \/ GenerateAll \/ Discharge \/ Run
Spec == Init /\ [][Next]_vars

(***************************************************************************)
(* Properties.                                                             *)
(***************************************************************************)
\* What goes wrong in a run was an obligation at that place that is not proved,
\* or was counted as one that could not be asked: a proof that holds is never
\* of something false, and nothing that may fail is passed over (spec 7.2;
\* refine.rs, "a question never asked, so it is counted rather than forgotten").
Safe ==
  stage = "ran" /\ outcome.k = "fault" =>
    outcome.at \in skipped \/ [at |-> outcome.at, code |-> outcome.code, of |-> outcome.of] \in open

\* A function keeps what is inferred of it: "if f returns C x, then len x >= k"
\* (refine.rs, postconditions).
PostsHold ==
  LET posts == program.posts
      name  == program.funs[called].name
  IN  stage = "ran" /\ outcome.k = "value" /\ name \in DOMAIN posts /\ outcome.v.n \in DOMAIN posts[name] =>
        Len(outcome.v.vs[1].vs) >= posts[name][outcome.v.n]
=============================================================================
