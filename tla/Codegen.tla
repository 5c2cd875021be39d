------------------------------ MODULE Codegen ------------------------------
(***************************************************************************)
(* Where src/src/codegen.rs puts the frees the ownership analysis decided. *)
(*                                                                         *)
(* `ex` gives an expression as C text and appends statements to the text   *)
(* before it: a module call, a `let`, a match and a record become          *)
(* statements, while a literal, a built-in, a constructor, an operator, a  *)
(* tuple and a field stay inside the expression that uses them, and are    *)
(* evaluated only where that is.  That split is what decides the order of  *)
(* reads and frees, so it is modelled as it is; the C text itself is not.  *)
(*                                                                         *)
(*   a C variable    <<place, name>>                                       *)
(*   a C expression  [f, c, i, xs]: the runtime function, a variable, an   *)
(*                   index or literal, the arguments                       *)
(*   a statement     [op, d, e, arms]                                      *)
(* g holds what codegen is given: the function and its analysis.           *)
(***************************************************************************)
EXTENDS Own, TLC

CVar(at, n)     == <<at, n>>
Param(n)        == CVar(<<0>>, n)

Ref(c)          == [f |-> "var", c |-> c, i |-> 0, xs |-> <<>>]
Num(i)          == [f |-> "int", c |-> <<>>, i |-> i, xs |-> <<>>]
Call(f, i, xs)  == [f |-> f, c |-> <<>>, i |-> i, xs |-> xs]

Stmt(op, d, e, arms) == [op |-> op, d |-> d, e |-> e, arms |-> arms]
Assign(d, e)         == Stmt("assign", d, e, <<>>)
Free(c)              == Stmt("free", c, Num(0), <<>>)
If(kind, s, arms)    == Stmt(kind, s, Num(0), arms)
Return(e)            == Stmt("return", <<>>, e, <<>>)
Continue             == Stmt("continue", <<>>, Num(0), <<>>)

Frees(cs) == [i \in DOMAIN cs |-> Free(cs[i])]

\* An expression with the statements that must come before it.
Emit(code, v) == [code |-> code, v |-> v]

FieldIndex(f) == IF f = "q" THEN 2 ELSE 1

\* drops_at: the variables to free at a place.  The name is looked up in the
\* scope codegen has there; only = {} stands for any name.
DropsAt(g, sc, at, when, only) ==
  SetToSeq({sc[d.name] : d \in {x \in g.own.drops :
              /\ x.at = at /\ x.when = when
              /\ x.name \in DOMAIN sc
              /\ only = {} \/ x.name \in only}})

IsTemp(g, at) == \E d \in g.own.drops : d.at = at /\ d.when = "Temp"

\* Seeded fault: a compound result is left to be read after the frees.
SettleNever(r, at) == r

\* A result that is already a name needs nothing; a compound one is read now.
Settle(r, at) ==
  IF r.v.f = "var" THEN r
  ELSE Emit(Append(r.code, Assign(CVar(at, "settled"), r.v)), Ref(CVar(at, "settled")))

Bind(sc, n, c) == (n :> c) @@ sc

\* What the arm i of a match binds before its body: the payload of Some.
PatBind(e, at, i, sv) ==
  IF PatNames(e, i) = {} THEN <<>>
  ELSE <<Assign(CVar(Append(at, i), e.n), Call("field", 1, <<Ref(sv)>>))>>
ArmScope(e, at, i, sc) ==
  IF PatNames(e, i) = {} THEN sc ELSE Bind(sc, e.n, CVar(Append(at, i), e.n))

Operators == [o \in {"+", "-", "==", "++"} |->
                CASE o = "+"  -> "add"
                  [] o = "-"  -> "sub"
                  [] o = "==" -> "eq"
                  [] OTHER    -> "concat"]

(***************************************************************************)
(* ex: an expression in value position.                                    *)
(***************************************************************************)
RECURSIVE Ex(_, _, _, _)

\* args_with_temps: operands in source order, each borrowed temporary forced
\* into a variable.  Only an argument of a call is ever a borrowed temporary.
Operands(e, at, sc, g) ==
  FoldLeft(LAMBDA acc, i :
             LET here == Append(at, i)
                 r    == Ex(e.xs[i], here, sc, g)
                 t    == CVar(here, "temp")
             IN  IF IsTemp(g, InnerAt(e.xs[i], here))
                 THEN [code  |-> acc.code \o Append(r.code, Assign(t, r.v)),
                       vs    |-> Append(acc.vs, Ref(t)),
                       temps |-> Append(acc.temps, t)]
                 ELSE [acc EXCEPT !.code = @ \o r.code, !.vs = Append(@, r.v)],
           [code |-> <<>>, vs |-> <<>>, temps |-> <<>>],
           [j \in DOMAIN e.xs |-> j])

\* Seeded fault: the temporaries a call borrowed are never freed.
CallNowLeaky(at, call, a) ==
  Emit(Append(a.code, Assign(CVar(at, "call"), call)), Ref(CVar(at, "call")))

\* The call as a statement, its temporaries freed behind it.
CallNow(at, call, a) ==
  LET d == CVar(at, "call")
  IN  Emit(Append(a.code, Assign(d, call)) \o Frees(a.temps), Ref(d))

\* after_call: a call that borrowed no temporary stays an expression.
AfterCall(at, call, a) ==
  IF a.temps = <<>> THEN Emit(a.code, call) ELSE CallNow(at, call, a)

ExApp(e, at, sc, g) ==
  LET a == Operands(e, at, sc, g)
      f == CASE at \in g.own.inplace -> e.n \o "_owned"
             [] e.n = "Some"         -> "obj"
             [] OTHER                -> e.n
  IN  IF e.n \in ModuleFns
      THEN CallNow(at, Call(f, 0, a.vs), a)
      ELSE AfterCall(at, Call(f, 1, a.vs), a)

\* The base is evaluated before the new value, and the update is a statement.
ExWith(e, at, sc, g) ==
  LET b   == Ex(e.xs[1], Append(at, 1), sc, g)
      x   == Ex(e.xs[2], Append(at, 2), sc, g)
      new == CVar(at, "new")
      d   == CVar(at, "record")
      upd == IF at \in g.own.inplace THEN "set_fields" ELSE "with"
  IN  Emit(b.code \o x.code
             \o <<Assign(new, x.v), Assign(d, Call(upd, FieldIndex(e.n), <<b.v, Ref(new)>>))>>,
           Ref(d))

ExRecord(e, at, sc, g) ==
  LET a == Operands(e, at, sc, g)
      d == CVar(at, "record")
  IN  Emit(Append(a.code, Assign(d, Call("obj", 0, a.vs))), Ref(d))

\* In value position the scope ends behind the body, so its value is settled
\* before the frees.
ExLet(e, at, sc, g) ==
  LET v     == Ex(e.xs[1], Append(at, 1), sc, g)
      c     == CVar(at, e.n)
      inner == Bind(sc, e.n, c)
      r     == Ex(e.xs[2], Append(at, 2), inner, g)
      ds    == DropsAt(g, inner, Append(at, 2), "ScopeEnd", {e.n})
      out   == IF ds = <<>> THEN r ELSE Settle(r, at)
  IN  Emit(Append(v.code, Assign(c, v.v)) \o out.code \o Frees(ds), out.v)

\* match_chain with a destination.
ExArm(e, at, i, sv, d, sc, g) ==
  LET inner == ArmScope(e, at, i, sc)
      r     == Ex(e.xs[i], Append(at, i), inner, g)
  IN  PatBind(e, at, i, sv) \o Append(r.code, Assign(d, r.v))
        \o Frees(DropsAt(g, inner, Append(at, i), "ScopeEnd", {}))

ExMatch(e, at, sc, g) ==
  LET s  == Ex(e.xs[1], Append(at, 1), sc, g)
      sv == CVar(at, "scrut")
      d  == CVar(at, "value")
  IN  Emit(s.code \o <<Assign(d, Num(0)), Assign(sv, s.v),
                       If(e.k, sv, [i \in 1..2 |-> ExArm(e, at, i + 1, sv, d, sc, g)])>>,
           Ref(d))

Ex(e, at, sc, g) ==
  CASE e.k = "Int"    -> Emit(<<>>, Num(e.i))
    [] e.k = "Str"    -> Emit(<<>>, Call("strz", 1, <<>>))
    [] e.k = "Var"    -> Emit(<<>>, Ref(sc[e.n]))
    [] e.k = "Borrow" -> Ex(e.xs[1], Append(at, 1), sc, g)
    [] e.k = "App"    -> ExApp(e, at, sc, g)
    [] e.k = "With"   -> ExWith(e, at, sc, g)
    [] e.k = "Record" -> ExRecord(e, at, sc, g)
    [] e.k = "Let"    -> ExLet(e, at, sc, g)
    [] IsMatch(e)     -> ExMatch(e, at, sc, g)
    [] OTHER          ->
         LET a == Operands(e, at, sc, g)
         IN  Emit(a.code, CASE e.k = "Tuple" -> Call("obj", 0, a.vs)
                            [] e.k = "Field" -> Call("field", FieldIndex(e.n), a.vs)
                            [] OTHER         -> Call(Operators[e.n], 0, a.vs))

(***************************************************************************)
(* tail: an expression in tail position.  pending holds the frees of the   *)
(* enclosing scopes, outermost first.                                      *)
(***************************************************************************)
Flush(pending) == Frees(Reverse(pending))

TailValue(e, at, sc, pending, g) ==
  LET r == Ex(e, at, sc, g)
      s == IF pending = <<>> THEN r ELSE Settle(r, at)
  IN  s.code \o Append(Flush(pending), Return(s.v))

\* A self-call has its arguments read first, without a call to free their
\* temporaries behind.
NewArgs(e, at, sc, g) ==
  FoldLeft(LAMBDA acc, i :
             LET r == Ex(e.xs[i], Append(at, i), sc, g)
             IN  [code |-> acc.code \o r.code, vs |-> Append(acc.vs, r.v)],
           [code |-> <<>>, vs |-> <<>>], [j \in DOMAIN e.xs |-> j])

NextVar(at, i) == CVar(Append(at, i), "next")
ReadNext(at, args) == [i \in DOMAIN args.vs |-> Assign(NextVar(at, i), args.vs[i])]
Rebind(at, ps)     == [i \in DOMAIN ps |-> Assign(Param(ps[i].n), Ref(NextVar(at, i)))]

\* Seeded fault: a name pending in an enclosing scope is freed there as well.
BackFreesTwice(at, sc, pending, g) ==
  Frees(DropsAt(g, sc, at, "BackEdge", {})) \o Flush(pending)

\* What the back edge frees, and what is pending and not freed by it already.
BackFrees(at, sc, pending, g) ==
  LET back == DropsAt(g, sc, at, "BackEdge", {})
  IN  Frees(back) \o Flush(SelectSeq(pending, LAMBDA c : ~Contains(back, c)))

\* Seeded fault: the frees come before the new arguments have read anything.
BackEdgeEarly(e, at, sc, pending, g) ==
  LET args == NewArgs(e, at, sc, g)
  IN  BackFrees(at, sc, pending, g) \o args.code \o ReadNext(at, args)
        \o Rebind(at, g.fn.params) \o <<Continue>>

\* A saturated self-call: read the new arguments, free what the back edge and
\* the enclosing scopes lose, rebind the parameters.
BackEdge(e, at, sc, pending, g) ==
  LET args == NewArgs(e, at, sc, g)
  IN  args.code \o ReadNext(at, args) \o BackFrees(at, sc, pending, g)
        \o Rebind(at, g.fn.params) \o <<Continue>>

RECURSIVE TailEx(_, _, _, _, _)

TailLet(e, at, sc, pending, g) ==
  LET v     == Ex(e.xs[1], Append(at, 1), sc, g)
      c     == CVar(at, e.n)
      inner == Bind(sc, e.n, c)
      ds    == DropsAt(g, inner, Append(at, 2), "ScopeEnd", {e.n})
  IN  Append(v.code, Assign(c, v.v))
        \o TailEx(e.xs[2], Append(at, 2), inner, pending \o ds, g)

TailArm(e, at, i, sv, sc, pending, g) ==
  LET inner == ArmScope(e, at, i, sc)
      ds    == DropsAt(g, inner, Append(at, i), "ScopeEnd", {})
  IN  PatBind(e, at, i, sv) \o TailEx(e.xs[i], Append(at, i), inner, pending \o ds, g)

TailMatch(e, at, sc, pending, g) ==
  LET s  == Ex(e.xs[1], Append(at, 1), sc, g)
      sv == CVar(at, "scrut")
  IN  s.code \o <<Assign(sv, s.v),
                  If(e.k, sv, [i \in 1..2 |-> TailArm(e, at, i + 1, sv, sc, pending, g)])>>

TailEx(e, at, sc, pending, g) ==
  CASE e.k = "Let"          -> TailLet(e, at, sc, pending, g)
    [] IsMatch(e)           -> TailMatch(e, at, sc, pending, g)
    [] IsBackEdge(g.fn, e)  -> BackEdge(e, at, sc, pending, g)
    [] OTHER                -> TailValue(e, at, sc, pending, g)

(***************************************************************************)
(* function: the body inside its loop, and the frees behind the loop.      *)
(***************************************************************************)
ParamScope(fn) ==
  [n \in ParamNames(fn, TRUE) \cup ParamNames(fn, FALSE) |-> Param(n)]

Body(g)     == TailEx(g.fn.body, <<>>, ParamScope(g.fn), <<>>, g)

\* Seeded fault: nothing is freed behind the loop.
EpilogueEmpty(g) == <<>>

Epilogue(g) == Frees(DropsAt(g, ParamScope(g.fn), <<>>, "ScopeEnd", {}))

\* What the compiler makes of an analysed function: nothing when a diagnostic
\* stops it.
Emitted(g) ==
  IF g.own.errors # {}
  THEN [accepted |-> FALSE, body |-> <<>>, epilogue |-> <<>>, suppressed |-> 0]
  ELSE [accepted |-> TRUE, body |-> Body(g), epilogue |-> Epilogue(g),
        suppressed |-> g.own.suppressed]

Compile(fn) == Emitted([fn |-> fn, own |-> Analyse(fn)])
===========================================================================
