------------------------------ MODULE Totality ------------------------------
(***************************************************************************)
(* Termination checking (src/src/total.rs): every pure recursive function  *)
(* needs a measure, written or inferred, that every call inside its group  *)
(* lowers.  What is accepted is then run: a chain of calls, each with the  *)
(* arguments its expressions evaluate to, in words that wrap around.       *)
(*                                                                         *)
(* A program is a sequence of functions [name, params, effect, unsigned,   *)
(* body, measure]: `unsigned` says of which kind their numbers are, and a  *)
(* measure is a sequence of expressions, empty if not written.             *)
(***************************************************************************)
EXTENDS Components, FiniteSets

CONSTANTS Depth,      \* the expressions of the modules, and how deep each is
          Programs,   \* the modules that are checked
          Words       \* how many values a number may have: 2^64 (vibert.c)

Node(k, n, c, xs) == [k |-> k, n |-> n, c |-> c, xs |-> xs]
Num(c)        == Node("Num", "", c, <<>>)
Var(n)        == Node("Var", n, 0, <<>>)      \* a variable, or a function's name
Op(o, a, b)   == Node(o, "", 0, <<a, b>>)
Neg(a)        == Node("neg", "", 0, <<a>>)
App(f, xs)    == Node("App", f, 0, xs)        \* the head is a name
Let(n, v, b)  == Node("Let", n, 0, <<v, b>>)
Fn(n, b)      == Node("Lambda", n, 0, <<b>>)
Match(xs)     == Node("Match", "", 0, xs)     \* the scrutinee, then the arms

Exprs == DOMAIN Depth

Distinct(xs) == \A i, j \in DOMAIN xs : xs[i] = xs[j] => i = j

\* Expressions are trees, and finite.  No two functions have one name (infer.rs,
\* name.duplicate), nor two parameters of a function (the C compiler refuses it).
ASSUME TotalityAssumption ==
  /\ IsFiniteSet(Exprs)
  /\ \A e \in Exprs :
       /\ e = Node(e.k, e.n, e.c, e.xs) /\ e.c \in Int /\ e.xs \in Seq(Exprs)
       /\ Depth[e] \in Nat /\ \A j \in DOMAIN e.xs : Depth[e.xs[j]] < Depth[e]
       /\ e.k = "Var" => e = Var(e.n)
       /\ e.k = "neg" => Len(e.xs) = 1
       /\ e.k \in {"+", "-", "*"} => Len(e.xs) = 2
  /\ Words \in Nat
  /\ \A prog \in Programs :
       /\ prog \in Seq(Range(prog))
       /\ Distinct([i \in DOMAIN prog |-> prog[i].name])
       /\ \A i \in DOMAIN prog :
            LET f == prog[i]
            IN  /\ f.body \in Exprs /\ f.measure \in Seq(Exprs) /\ f.effect \in BOOLEAN
                /\ f.params \in Seq(Range(f.params)) /\ Distinct(f.params)
                /\ \A p \in DOMAIN f.params : Var(f.params[p]) \in Exprs

VARIABLES program,
          stage,    \* "components", "refused", "accepted", "running", "returned"
          at,       \* the call that runs: [f, env]
          turn      \* tells a call from the next one, which may look the same,
                    \* and whether its arguments are exact

vars == <<tarjanVars, program, stage, at, turn>>

IndexOf(n) == {i \in DOMAIN program : program[i].name = n}
Params(i)  == program[i].params

(***************************************************************************)
(* calls_in: calls with their arguments, and mentions of a function as a   *)
(* value, with none.                                                       *)
(***************************************************************************)
Call(i, xs) == [callee |-> i, args |-> xs]

\* Seeded fault: who hands a function on does not call it.
ScanHeads(prog) ==
  LET named(n) == {i \in DOMAIN prog : prog[i].name = n}
      scan[e \in Exprs] ==
        LET inner == FlattenSeq([j \in DOMAIN e.xs |-> scan[e.xs[j]]])
        IN  IF e.k # "App" \/ named(e.n) = {} THEN inner
            ELSE <<Call(CHOOSE i \in named(e.n) : TRUE, e.xs)>> \o inner
  IN  scan

Scan(prog) ==
  LET named(n) == {i \in DOMAIN prog : prog[i].name = n}
      scan[e \in Exprs] ==
        LET inner == FlattenSeq([j \in DOMAIN e.xs |-> scan[e.xs[j]]])
        IN  IF e.k \notin {"App", "Var"} \/ named(e.n) = {} THEN inner
            ELSE <<Call(CHOOSE i \in named(e.n) : TRUE, e.xs)>> \o inner
  IN  scan

(***************************************************************************)
(* Lin: a measure as a sum of coefficients times atoms, and a constant.    *)
(***************************************************************************)
LinNum(k) == [terms |-> [a \in {} |-> 0], c |-> k]
Zero      == LinNum(0)
LinVar(a) == [terms |-> [x \in {a} |-> 1], c |-> 0]
Coef(l, a) == IF a \in DOMAIN l.terms THEN l.terms[a] ELSE 0
AddScaled(l, o, k) ==
  LET coef(a) == Coef(l, a) + Coef(o, a) * k
      atoms   == {a \in DOMAIN l.terms \cup DOMAIN o.terms : coef(a) # 0}
  IN  [terms |-> [a \in atoms |-> coef(a)], c |-> l.c + o.c * k]

\* What lin makes of an expression, of what it makes of its parts.
LinOf(e, lin) ==
  CASE e.k = "Num" -> LinNum(e.c)
    [] e.k = "neg" -> AddScaled(Zero, lin[e.xs[1]], -1)
    [] e.k = "+"   -> AddScaled(lin[e.xs[1]], lin[e.xs[2]], 1)
    [] e.k = "-"   -> AddScaled(lin[e.xs[1]], lin[e.xs[2]], -1)
    [] e.k = "*"   -> IF e.xs[1].k = "Num" THEN AddScaled(Zero, lin[e.xs[2]], e.xs[1].c)
                      ELSE IF e.xs[2].k = "Num" THEN AddScaled(Zero, lin[e.xs[1]], e.xs[2].c)
                      ELSE LinVar(e)
    [] OTHER       -> LinVar(e)   \* opaque, known by how it is written

Lin[e \in Exprs] == LinOf(e, Lin)

\* The sum of a sequence of numbers.
SumTo(f) == LET sumTo[i \in 0..Len(f)] == IF i = 0 THEN 0 ELSE sumTo[i - 1] + f[i] IN sumTo
SumAll(f)  == SumTo(f)[Len(f)]

(***************************************************************************)
(* delta and lex_decreases.  NoGap, where no difference holds for every    *)
(* value: it refuses the call just as one that grows.                      *)
(***************************************************************************)
NoGap == -1
AtomsOf(j) == {Var(Params(j)[p]) : p \in DOMAIN Params(j)}

\* What arguments put in for the callee's parameters add to its component: to
\* the coefficient of an atom, and to the constant.
AtomIn(callee, j, args, a) ==
  SumAll([p \in DOMAIN args |-> Coef(callee, Var(Params(j)[p])) * Coef(Lin[args[p]], a)])
ConstIn(callee, j, args) ==
  SumAll([p \in DOMAIN args |-> Coef(callee, Var(Params(j)[p])) * Lin[args[p]].c])

Cancel(caller, callee, j, args) ==
  \A a \in DOMAIN caller.terms \cup UNION {DOMAIN Lin[args[p]].terms : p \in DOMAIN args} :
    Coef(caller, a) = AtomIn(callee, j, args, a)
Substitutes(callee, j, args) ==
  Len(args) = Len(Params(j)) /\ DOMAIN callee.terms \subseteq AtomsOf(j)

\* Seeded fault: the constant of the callee's measure is forgotten.
DeltaNoConstant(caller, callee, j, args) ==
  IF Substitutes(callee, j, args) /\ Cancel(caller, callee, j, args)
  THEN caller.c - ConstIn(callee, j, args)
  ELSE NoGap

Delta(caller, callee, j, args) ==
  IF Substitutes(callee, j, args) /\ Cancel(caller, callee, j, args)
  THEN caller.c - ConstIn(callee, j, args) - callee.c
  ELSE NoGap

\* One component drops and none before it moves.
LexDecreases(caller, callee, j, args) ==
  /\ Len(caller) = Len(callee)
  /\ \E p \in DOMAIN caller :
       /\ Delta(caller[p], callee[p], j, args) \in Nat \ {0}
       /\ \A q \in 1..(p - 1) : Delta(caller[q], callee[q], j, args) = 0

(***************************************************************************)
(* check.                                                                  *)
(***************************************************************************)
SameGroup(i, j) == comp[i] = comp[j]
Recursive(i) == \/ \E j \in Funs \ {i} : SameGroup(i, j)
                \/ \E k \in DOMAIN calls[i] : calls[i][k].callee = i

\* Inference is for direct recursion only.
Solo(i) == \A k \in DOMAIN calls[i] :
             calls[i][k].callee = i \/ ~SameGroup(i, calls[i][k].callee)
Shrinks(i, p) ==
  LET l == LinVar(Var(Params(i)[p]))
  IN  \A k \in DOMAIN calls[i] :
        calls[i][k].callee = i => Delta(l, l, i, calls[i][k].args) \in Nat \ {0}
Inferred(i) == {p \in DOMAIN Params(i) : Solo(i) /\ Shrinks(i, p)}

NoMeasure == <<>>
Written(i) == [p \in DOMAIN program[i].measure |-> Lin[program[i].measure[p]]]

\* The measure a function has, for the functions that need one.
Needs(i) == Recursive(i) /\ ~program[i].effect
Measure(i) ==
  CASE ~Needs(i) -> NoMeasure
    [] Needs(i) /\ program[i].measure # <<>> ->
         IF \A p \in DOMAIN Written(i) : DOMAIN Written(i)[p].terms \subseteq AtomsOf(i)
           THEN Written(i) ELSE NoMeasure
    [] OTHER ->
         IF Inferred(i) = {} THEN NoMeasure
         ELSE <<LinVar(Var(Params(i)[CHOOSE p \in Inferred(i) : \A q \in Inferred(i) : p <= q]))>>

Refused ==
  \/ \E i \in Funs : Needs(i) /\ Measure(i) = NoMeasure      \* total.no_measure
  \/ \E i \in Funs : \E k \in DOMAIN calls[i] :              \* total.not_decreasing
       LET c == calls[i][k]
       IN  /\ SameGroup(i, c.callee)
           /\ Measure(i) # NoMeasure /\ Measure(c.callee) # NoMeasure
           /\ ~LexDecreases(Measure(i), Measure(c.callee), c.callee, c.args)

(***************************************************************************)
(* Running.  What a call or a match yields, and a name bound inside the    *)
(* body, may be any number, but the same wherever one call writes it: what *)
(* is pure has one value.                                                  *)
(***************************************************************************)
Numbers(i) == IF program[i].unsigned THEN 0..(Words - 1)
              ELSE (-(Words \div 2))..(Words \div 2 - 1)
Frames(i, vals) == [f |-> i, env |-> [n \in Range(Params(i)) |->
                      vals[CHOOSE p \in DOMAIN Params(i) : Params(i)[p] = n]]]
AnyFrames(i) == {Frames(i, vals) : vals \in [DOMAIN Params(i) -> Numbers(i)]}

BoundOver(e, j) == IF (e.k = "Let" /\ j = 2) \/ e.k = "Lambda" THEN {e.n} ELSE {}

\* What an expression is made of, each with the names bound around it.
Sites[e \in Exprs] ==
  {<<e, {}>>} \cup UNION {{<<s[1], s[2] \cup BoundOver(e, j)>> : s \in Sites[e.xs[j]]}
                         : j \in DOMAIN e.xs}

Arithmetic == {"Num", "neg", "+", "-", "*"}
Unknown(e, env) ==
  {s \in {t[1] : t \in Sites[e]} : s.k \notin Arithmetic /\ ~(s.k = "Var" /\ s.n \in DOMAIN env)}

\* The value of an expression, where the names have the values env gives them
\* and what is unknown has the value given.
Evaluated(e, value, env, given) ==
  CASE e.k = "Num" -> e.c
    [] e.k = "Var" /\ e.n \in DOMAIN env -> env[e.n]
    [] e.k = "neg" -> -value[e.xs[1]]
    [] e.k = "+"   -> value[e.xs[1]] + value[e.xs[2]]
    [] e.k = "-"   -> value[e.xs[1]] - value[e.xs[2]]
    [] e.k = "*"   -> value[e.xs[1]] * value[e.xs[2]]
    [] OTHER       -> IF e \in DOMAIN given THEN given[e] ELSE 0
Value(env, given) == LET value[e \in Exprs] == Evaluated(e, value, env, given) IN value

\* What the machine makes of it, if it goes on: numbers wrap around, but for an
\* unsigned difference below zero, which stops the program.
Wrap(i, x) == IF program[i].unsigned THEN x % Words
              ELSE ((x + (Words \div 2)) % Words) - (Words \div 2)
Computed(i, e, computed, value) ==
  LET xs == computed[e.xs[1]]
      ys == computed[e.xs[2]]
  IN  CASE e.k = "neg" -> {Wrap(i, -x) : x \in xs}
        [] e.k = "+"   -> {Wrap(i, x + y) : x \in xs, y \in ys}
        [] e.k = "-"   -> {Wrap(i, z[1] - z[2]) :
                             z \in {z \in xs \X ys : program[i].unsigned => z[1] >= z[2]}}
        [] e.k = "*"   -> {Wrap(i, x * y) : x \in xs, y \in ys}
        [] OTHER       -> {Wrap(i, value[e])}
Machine(i, env, given) ==
  LET computed[e \in Exprs] == Computed(i, e, computed, Value(env, given)) IN computed

\* The arguments of a call that the machine makes, exactly those its expressions
\* say, or others because a number has wrapped around.
Passed(i, args, vals, env, given, exact) ==
  LET ps == DOMAIN vals \cap DOMAIN args
  IN  /\ exact <=> \A p \in ps : vals[p] = Value(env, given)[args[p]]
      /\ \A p \in ps : vals[p] \in Machine(i, env, given)[args[p]]

\* The calls that function i makes where e stands: of a function, with the
\* arguments there are, or by whoever is handed the function, with any.
CallsAt(i, e, env, exact) ==
  CASE e.k = "App" -> UNION {{Frames(j, vals) : vals \in
         {vs \in [DOMAIN Params(j) -> Numbers(j)] :
            \E given \in [Unknown(e, env) -> Numbers(i)] : Passed(i, e.xs, vs, env, given, exact)}}
         : j \in IndexOf(e.n)}
    [] e.k = "Var" /\ e.n \notin DOMAIN env /\ exact -> UNION {AnyFrames(j) : j \in IndexOf(e.n)}
    [] OTHER -> {}

Inside(i, env, ns) ==
  {[n \in DOMAIN env \cup ns |-> IF n \in ns THEN new[n] ELSE env[n]] : new \in [ns -> Numbers(i)]}

\* The calls a function may make.
Made(i, env, exact) ==
  UNION {UNION {CallsAt(i, s[1], inner, exact) : inner \in Inside(i, env, s[2])}
         : s \in Sites[program[i].body]}

Nowhere == [f |-> 0, env |-> Zero.terms]

Init ==
  /\ program \in Programs
  /\ calls = [i \in DOMAIN program |-> Scan(program)[program[i].body]]
  /\ ComponentsInit
  /\ stage = "components"
  /\ at = Nowhere
  /\ turn = <<0, TRUE>>

Group ==
  /\ stage = "components"
  /\ ComponentsNext
  /\ UNCHANGED <<program, stage, at, turn>>

Check ==
  /\ stage = "components" /\ ComponentsDone
  /\ stage' = IF Refused THEN "refused" ELSE "accepted"
  /\ UNCHANGED <<tarjanVars, program, at, turn>>

Run ==
  /\ stage = "accepted"
  /\ stage' = "running"
  /\ \E i \in Funs : at' \in AnyFrames(i)
  /\ UNCHANGED <<tarjanVars, program, turn>>

\* The chain ends: an arm without a call, or a difference that stops the program.
Return ==
  /\ stage = "running"
  /\ stage' = "returned"
  /\ UNCHANGED <<tarjanVars, program, at, turn>>

Step(exact) ==
  /\ stage = "running"
  /\ turn' = <<1 - turn[1], exact>>
  /\ at' \in Made(at.f, at.env, exact)
  /\ UNCHANGED <<tarjanVars, program, stage>>

Enter    == Step(TRUE)
Overflow == Step(FALSE)

Next == Group \/ Check \/ Run \/ Return \/ Enter \/ Overflow

\* The checker and the program run on.
Spec == Init /\ [][Next]_vars /\ WF_vars(Next)

\* What the theorems take of the programs: no parameter is bound again, and what
\* is pure calls nothing that is not (inference sees to it, but see README.md).
Untouched ==
  \A prog \in Programs : \A i \in DOMAIN prog :
    \A s \in Sites[prog[i].body] : s[2] \cap Range(prog[i].params) = {}
PureCallsPure ==
  \A prog \in Programs : \A i \in DOMAIN prog :
    LET cs == Scan(prog)[prog[i].body]
    IN  \A k \in DOMAIN cs : prog[cs[k].callee].effect => prog[i].effect

(***************************************************************************)
(* Properties.                                                             *)
(***************************************************************************)
\* The value of a measure of function i.
ValueOf(i, l, env) ==
  l.c + SumAll([p \in DOMAIN Params(i) |-> Coef(l, Var(Params(i)[p])) * env[Params(i)[p]]])
ValuesOf(f) == [p \in DOMAIN Measure(f.f) |-> ValueOf(f.f, Measure(f.f)[p], f.env)]
LexLess(a, b)   == \E p \in DOMAIN a : a[p] < b[p] /\ \A q \in 1..(p - 1) : a[q] = b[q]

Pure(i) == ~program[i].effect

\* Each call inside a group whose arguments are what its expressions say lowers
\* the measure the group was accepted with, as a tuple of numbers and not of
\* expressions (total.rs, delta: the gap "holds for every value they take").
Descends ==
  [][Enter /\ SameGroup(at.f, at'.f) /\ Measure(at.f) # NoMeasure
       => LexLess(ValuesOf(at'), ValuesOf(at))]_vars

\* A pure function that was accepted returns, whatever arm it takes and whatever
\* it is called with: no chain of calls is endless ("Pure functions must be
\* total", spec 6.1).
Terminates == (stage = "running" /\ Pure(at.f)) ~> (stage = "returned")

\* What is left of that where numbers wrap around, and a measure has no least
\* value: a chain of calls ends unless a number wraps around in it over and over.
Returns == []<><<Overflow>>_vars \/ Terminates
=============================================================================
