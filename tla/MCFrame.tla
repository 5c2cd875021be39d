------------------------------ MODULE MCFrame ------------------------------
(***************************************************************************)
(* Frame on every program of a few small grammars.                         *)
(*                                                                         *)
(* s is an owned Str parameter, b a borrowed one, k a Num, o an Opt Str,   *)
(* v an owned Vec Str, w a borrowed one, r a record.                       *)
(***************************************************************************)
EXTENDS Frame

P(n, t)     == [n |-> n, t |-> t, lent |-> FALSE]
L(n, t)     == [n |-> n, t |-> t, lent |-> TRUE]
Fn(ps, body) == [name |-> "f", params |-> ps, ret |-> body.t, body |-> body]

S == Var("s", "Str")
B == Var("b", "Str")
X == Var("x", "Str")
Y == Var("y", "Num")
K == Var("k", "Num")
O == Var("o", "Opt")
V == Var("v", "Vec")
W == Var("w", "Vec")
R == Var("r", "Rec")

Eat(e)        == App("eat", "Num", <<e>>)
Keep(e)       == App("keep", "Str", <<e>>)
Peek(e)       == App("peek", "Num", <<e>>)
LenOf(e)      == App("len", "Num", <<e>>)
Show(e)       == App("show", "Str", <<e>>)
DupOf(e, t)   == App("dup", t, <<e>>)
Concat(d, e)  == App("concat", "Str", <<d, e>>)
PushStr(d, e) == App("push_str", "Str", <<d, e>>)
Push(d, e)    == App("push", "Vec", <<d, e>>)
Get(e)        == App("get", "Str", <<e, Lit(0)>>)
Single(e)     == App("single", "Vec", <<e>>)
SomeOf(e)     == App("Some", "Opt", <<e>>)
Plus(d, e)    == Binop("+", d, e)
Minus(d, e)   == Binop("-", d, e)

\* The arguments: enough to tell one value from another.
Str(i)      == [i |-> i, kids |-> <<>>]
MCInputs(t) ==
  CASE t = "Num" -> {Str(0), Str(2)}
    [] t = "Str" -> {Str(2)}
    [] t = "Opt" -> {Str(0), [i |-> 1, kids |-> <<Str(2)>>]}
    [] t = "Vec" -> {[i |-> 0, kids |-> <<Str(2)>>]}
    [] t = "Rec" -> {[i |-> 0, kids |-> <<Str(2), Str(1)>>]}

(***************************************************************************)
(* The restriction on the grammars the passing runs check.  An operand     *)
(* that stays inside a C expression is read after every statement the      *)
(* operands after it became: Settled says that no name such an operand     *)
(* reads is consumed inside a later one.  The run deferred_read checks     *)
(* what the code does without it.                                          *)
(***************************************************************************)
IsCall(e) == e.k = "App" /\ e.n \in ModuleFns

\* What the C expression of e still reads.
RECURSIVE Deferred(_)
Deferred(e) ==
  CASE e.k = "Var"                                   -> {e.n}
    [] IsCall(e) \/ IsMatch(e) \/ e.k \in {"With", "Record"} -> {}
    [] e.k = "Let"                                   -> Deferred(e.xs[2])
    [] OTHER                                         -> UNION {Deferred(x) : x \in ToSet(e.xs)}

Operand(e)        == e.k \in {"App", "Binop", "Tuple", "Record", "With"}
LentTo(e, j)      == /\ e.k = "App"
                     /\ \/ e.n \in Specials
                        \/ e.n \in DOMAIN Signatures /\ Signatures[e.n][j]

RECURSIVE Consumes(_)
Consumes(e) ==
  CASE e.k = "App" ->
         UNION {IF LentTo(e, j) /\ Inner(e.xs[j]).k = "Var" THEN {} ELSE
                  IF e.xs[j].k = "Var" THEN {e.xs[j].n} ELSE Consumes(e.xs[j]) : j \in DOMAIN e.xs}
    [] e.k \in {"Tuple", "Record", "With"} ->
         UNION {IF e.xs[j].k = "Var" THEN {e.xs[j].n} ELSE Consumes(e.xs[j]) : j \in DOMAIN e.xs}
    [] OTHER -> UNION {Consumes(x) : x \in ToSet(e.xs)}

RECURSIVE Settled(_)
Settled(e) ==
  /\ Operand(e) => \A i, j \in DOMAIN e.xs :
                     i < j /\ e.xs[j].k # "Var" => Deferred(e.xs[i]) \cap Consumes(e.xs[j]) = {}
  /\ \A x \in ToSet(e.xs) : Settled(x)

Functions(ps, bodies) == {Fn(ps, e) : e \in {d \in bodies : Settled(d)}}

RECURSIVE Mentions(_)
Mentions(e) == (IF e.k = "Var" THEN {e.n} ELSE {}) \cup UNION {Mentions(x) : x \in ToSet(e.xs)}
Needed(ps, e) == SelectSeq(ps, LAMBDA p : p.n \in Mentions(e))

(***************************************************************************)
(* Calls: one owned and one borrowed string through calls, lets and        *)
(* matches, in value and in tail position.                                 *)
(***************************************************************************)
\* Reads of the names in `names`, and of a temporary; uses of `mine`.
Lends(names)      == names \cup {Borrow(S), Concat(S, B), Text}
Counts(names)     == {LenOf(e) : e \in Lends(names)} \cup {Peek(e) : e \in Lends(names)}
Takes(mine)       == {Eat(e) : e \in mine} \cup {Eat(Keep(e)) : e \in mine}
Counted(names, mine) == {Lit(1)} \cup Counts(names) \cup Takes(mine)
Strings(mine)     == mine \cup {Keep(e) : e \in mine} \cup {PushStr(e, B) : e \in mine}
                          \cup {DupOf(S, "Str"), Text, Concat(S, B)}

Few == {Lit(1), LenOf(S), Peek(S), Eat(S), LenOf(Concat(S, B))}
FewX == {Lit(1), LenOf(X), Peek(X), Eat(X), Eat(S), LenOf(Concat(X, S))}

CallBodies ==
  \* operators and tuples over what a name gives and what a call leaves
       {Plus(d, e) : d, e \in Counted({S, B}, {S})}
  \cup {Tuple(<<d, e>>) : d \in Few, e \in Strings({S})}
  \* a let in tail position, in value position, and one inside another
  \cup {Let("x", d, e) : d \in Strings({S}), e \in Counted({X, S}, {X, S}) \cup Strings({X})}
  \cup {Plus(Let("x", d, e), c) : d \in Strings({S}), e \in FewX, c \in Few}
  \cup {Let("y", d, Let("x", c, Plus(Y, e))) : d \in Few, c \in Strings({S}), e \in FewX}
  \* a match in tail and in value position, and one under a let
  \cup {IfZero(K, d, e) : d, e \in Counted({S, B}, {S})}
  \cup {IfZero(K, d, e) : d, e \in Strings({S})}
  \cup {Plus(IfZero(K, d, e), c) : d, e, c \in Few}
  \cup {Let("y", IfZero(K, d, e), Plus(Y, c)) : d, e, c \in Few}
  \cup {Let("x", d, IfZero(K, c, e)) : d \in Strings({S}), c, e \in FewX}
  \cup {Let("x", IfZero(K, d, e), c) : d, e \in Strings({S}), c \in FewX}

CallPrograms == Functions(<<P("k", "Num"), P("s", "Str"), L("b", "Str")>>, CallBodies)

(***************************************************************************)
(* Loops: a self-call in tail position, under lets and matches, with an    *)
(* accumulator that is passed on, rebuilt, updated in place or replaced.   *)
(***************************************************************************)
Again(t, acc) == App("f", t, <<Minus(K, Lit(1)), acc, B>>)

Base    == {LenOf(S), Eat(S)}
BaseStr == {S}
Next1   == {S, Keep(S), Text, DupOf(B, "Str"), Concat(S, B), PushStr(S, B),
            PushStr(Keep(S), B)}
NextX   == Next1 \cup {X, Keep(X), Concat(S, X), PushStr(X, S), PushStr(S, X)}
Made    == {Concat(S, B), DupOf(S, "Str"), Keep(S), Text}

Rounds(t, bases) ==
       {IfZero(K, d, Again(t, c)) : d \in bases, c \in Next1}
  \cup {IfZero(K, d, Let("x", e, Again(t, c))) : d \in bases, e \in Made, c \in NextX}
  \cup {IfZero(K, d, Let("x", e, IfZero(LenOf(X), d, Again(t, c)))) :
         d \in bases, e \in Made, c \in NextX}
  \cup {Let("x", e, IfZero(K, d, Again(t, c))) : d \in bases, e \in Made, c \in NextX}
  \cup {IfZero(K, d, IfZero(Peek(S), Again(t, e), Again(t, c))) :
         d \in bases, c, e \in Next1}

\* Two accumulators, each round built from the other's.
C == Var("c", "Str")
Pairs == {<<Concat(S, C), S>>, <<C, S>>, <<C, Concat(S, C)>>, <<PushStr(C, S), S>>,
          <<Concat(S, C), Concat(C, S)>>}
TwoByTwo == {IfZero(K, d, App("f", "Num", <<Minus(K, Lit(1)), p[1], p[2]>>)) :
               d \in {LenOf(C), Eat(C), Plus(LenOf(S), Peek(C)), Lit(0)},
               p \in Pairs}

LoopPrograms ==
  LET ps == <<P("k", "Num"), P("s", "Str"), L("b", "Str")>>
  IN  Functions(ps, Rounds("Num", Base)) \cup Functions(ps, Rounds("Str", BaseStr))
        \cup Functions(<<P("k", "Num"), P("s", "Str"), P("c", "Str")>>, TwoByTwo)

(***************************************************************************)
(* Sharing: names that point into a value somebody else owns (an element,  *)
(* a field, a payload), and the updates in place beside them.              *)
(***************************************************************************)
Part    == {Get(W), Field(R, "s")}
OfX     == {LenOf(X), Peek(X), Eat(DupOf(X, "Str")), LenOf(Concat(X, S)), Eat(S)}
Payload == OfX \cup {Eat(X), Eat(Keep(X))}
Handed  == {X, Keep(X), DupOf(X, "Str")}
Other   == {S, DupOf(S, "Str"), Text}
Set(e)  == {With(e, "q", Lit(3)), With(e, "q", LenOf(S)), With(e, "s", DupOf(S, "Str")),
            With(e, "s", S)}
Grown   == {Push(V, S), Push(V, Text), Push(Push(V, Text), DupOf(S, "Str")),
            Push(Single(Text), S), Push(DupOf(W, "Vec"), S)}

Z(t) == Var("z", t)

SharingBodies ==
       {Let("x", d, e) : d \in Part, e \in OfX \cup {LenOf(PushStr(X, B)), PushStr(X, B)}}
  \cup {LenOf(PushStr(d, B)) : d \in Part} \cup {PushStr(d, B) : d \in Part}
  \cup {Let("x", d, Let("y", e, Plus(Y, c))) : d \in Part, e, c \in OfX}
  \cup {IfSome(O, "x", d, e) : d \in Payload, e \in Few}
  \cup {IfSome(O, "x", d, e) : d \in Handed, e \in Other}
  \cup {Let("z", IfSome(O, "x", d, e), c) : d \in Handed, e \in Other,
                                         c \in {Peek(Z("Str")), Eat(Z("Str")), Z("Str")}}
  \cup {Plus(IfSome(O, "x", d, e), c) : d \in Payload, e, c \in Few}
  \cup {Let("z", d, e) : d \in Set(R), e \in {Z("Rec"), Field(Z("Rec"), "q"),
                                           Peek(Field(Z("Rec"), "s"))}}
  \cup {Let("z", d, e) : d \in Set(R), e \in {With(Z("Rec"), "q", Lit(4))}}
  \cup {Let("x", Field(R, "s"), Let("z", d, Plus(Field(Z("Rec"), "q"), Peek(X)))) : d \in Set(R)}
  \cup {IfZero(K, d, e) : d, e \in Set(R) \cup {R}}
  \cup {Let("z", d, e) : d \in Grown, e \in {Z("Vec"), LenOf(Z("Vec")), Push(Z("Vec"), Text),
                                           Let("x", Get(Z("Vec")), Peek(X))}}
  \cup {Let("x", Get(V), Let("z", d, Plus(LenOf(Z("Vec")), Peek(X)))) : d \in Grown}
  \cup {Let("x", SomeOf(d), IfSome(Var("x", "Opt"), "z", e, Lit(0))) : d \in Other,
           e \in {Peek(Z("Str")), Eat(Z("Str")), LenOf(Z("Str"))}}

SharingPrograms ==
  LET ps == <<P("k", "Num"), P("s", "Str"), P("o", "Opt"), P("r", "Rec"), P("v", "Vec"),
              L("w", "Vec"), L("b", "Str")>>
  IN  {Fn(Needed(ps, e), e) : e \in {d \in SharingBodies : Settled(d)}}

\* What a frame does, straight through, round a loop and beside what is shared.
FramePrograms == CallPrograms \cup (LoopPrograms \cup SharingPrograms)

(***************************************************************************)
(* The programs behind the findings, each accepted by the analysis.        *)
(***************************************************************************)
One(ps, e) == {Fn(ps, e)}

\* len s + eat s
DeferredRead == One(<<P("s", "Str")>>, Plus(LenOf(S), Eat(S)))
\* (len v, push v s)
OperandOrder == One(<<P("v", "Vec"), P("s", "Str")>>, Tuple(<<LenOf(V), Push(V, S)>>))
\* show {r with q=3}
ShallowWith == One(<<P("r", "Rec")>>, Show(With(R, "q", Lit(3))))
\* eat &s
BorrowAsOwned == One(<<P("s", "Str")>>, Eat(Borrow(S)))
\* ?o |Some x -> 3 |None -> eat x end
ShadowedArm ==
  One(<<P("x", "Str"), P("o", "Opt")>>, IfSome(O, "x", Lit(3), Eat(X)))
\* let y = eat x in let x = 2 in y + x
ShadowedLet ==
  One(<<P("x", "Str")>>, Let("y", Eat(X), Let("x", Lit(2), Plus(Y, Var("x", "Num")))))
\* ?(let x = s in len x) |0 -> 1 |_ -> 2 end
LetInBorrow ==
  One(<<P("s", "Str")>>, IfZero(Let("x", S, LenOf(X)), Lit(1), Lit(2)))
\* s == x
ComparedStrings == One(<<P("s", "Str"), P("x", "Str")>>, Binop("==", S, X))
\* f (k:U64) (b:&Str) : Size = ?k |0 -> len b |_ -> f (k - 1) (concat b b) end
LentToTheLoop ==
  One(<<P("k", "Num"), L("b", "Str")>>,
      IfZero(K, LenOf(B), App("f", "Num", <<Minus(K, Lit(1)), Concat(B, B)>>)))
===========================================================================
