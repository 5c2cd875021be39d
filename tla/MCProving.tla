------------------------------- MODULE MCProving -------------------------------
(***************************************************************************)
(* Proving on every module of a few small grammars.                        *)
(*                                                                         *)
(* Integer types are a few values wide.  A symbol of the solver ranges     *)
(* over MCInts, which holds every value of every type.                     *)
(***************************************************************************)
EXTENDS Proving

MCBounds == [U8 |-> <<0, 2>>, U64 |-> <<0, 3>>, Size |-> <<0, 3>>, I8 |-> <<-2, 1>>, I64 |-> <<-3, 3>>]
MCInts   == -4..7

Boolean  == Prim("Bool")
U8       == Prim("U8")
U64      == Prim("U64")
Size     == Prim("Size")
I8       == Prim("I8")
Vec(t)   == Con("Vec", <<t>>)
Opt(t)   == Con("Opt", <<t>>)

A == Var("a")
B == Var("b")
C == Var("c")
N == Var("n")
O == Var("o")
V == Var("v")
X == Var("x")
V0 == Num(0)
V1 == Num(1)
V2 == Num(2)

Param(n, t, rs)       == [n |-> n, t |-> t, refines |-> rs]
Fn(n, ps, t, e)       == [name |-> n, params |-> ps, ret |-> t, body |-> e]
Ctor1(owner, tag, as) == [owner |-> owner, tag |-> tag, params |-> IF owner = "Opt" THEN <<"t">> ELSE <<>>, args |-> as]
Data ==
  [None |-> Ctor1("Opt", 0, <<>>), Some |-> Ctor1("Opt", 1, <<Named("t")>>),
   Dot  |-> Ctor1("Shape", 0, <<>>), Line |-> Ctor1("Shape", 1, <<U64>>), Both |-> Ctor1("Shape", 2, <<Opt(U64), Boolean>>)]
Rec(fs, ts, rs) == [fields |-> fs, types |-> ts, refines |-> rs]
Records ==
  [Tx  |-> Rec(<<"q", "p">>, <<U64, U64>>, <<Binop(">", Var("q"), V0), Binop("<=", Var("p"), Var("q"))>>),
   Lot |-> Rec(<<"r">>, <<U64>>, <<>>)]
Module(fs)       == [funs |-> fs, records |-> Records, ctors |-> Data, posts |-> [n \in {} |-> 0]]
One(ps, es)      == {Module(<<Fn("f", ps, U64, e)>>) : e \in es}
And(a, b)        == Binop("&&", a, b)
Bin(ops, es, fs) == {Binop(op, a, b) : op \in ops, a \in es, b \in fs}
If(c, a, b)      == Match(c, <<PBool(TRUE), PBool(FALSE)>>, <<a, b>>)
Length(e)         == App(Var("len"), <<e>>)
Get(v, i)        == App(Var("get"), <<v, i>>)

(***************************************************************************)
(* Arithmetic over two numbers, under refinements, guards and lets.        *)
(***************************************************************************)
Signatures(t) ==
  {<<Param("a", t, ra), Param("b", t, rb)>> : ra \in {<<>>, <<Binop(">", A, V0)>>},
     rb \in {<<>>, <<Binop("!=", B, V0)>>, <<And(Binop(">", B, V0), Binop(">=", A, B))>>, <<Binop("<", Binop("+", A, B), Num(4))>>}}
Ops  == {"+", "-", "*", "/"}
E1   == Bin(Ops, {A, B}, {A, B, V1})
Conditions ==
  {Binop("==", B, V0), Binop(">=", A, B), Not(Binop("<", A, B)), And(Binop("<=", A, V1), Binop("<=", B, V1)),
   Binop("||", Binop("==", B, V0), Binop("<", B, A)), And(Binop("!=", B, V0), Binop("<", Binop("/", A, B), V2)),
   Binop("||", Binop("==", B, V0), Binop("<", Binop("/", A, B), V2)), Bool(TRUE)}
Used == {Binop("/", V1, B), Binop("-", A, B), Binop("+", A, B), Binop("-", A, V1)}
OfC == {Binop("/", V1, C), Binop("+", C, A), Binop("-", A, C), Binop("-", C, B)}
OfA == {Binop("/", V1, A), Binop("+", A, B), Binop("-", B, A)}
Guards  == {If(c, a, V0) : c \in Conditions, a \in Used} \cup {If(c, V0, a) : c \in Conditions, a \in Used}
Lets    == {Let("c", v, e) : v \in E1, e \in OfC} \cup {Let("a", v, e) : v \in E1, e \in OfA}
           \cup {Binop("+", Let("a", v, A), e) : v \in {V0, B}, e \in Used}
Deeper  == {If(c, Let(n, v, If(g, Binop("/", V1, B), Binop("-", A, B))), V0) :
              c \in Conditions, g \in {Binop("==", B, V0), Binop("<", A, B)}, n \in {"a", "b"}, v \in {V1, Binop("-", A, B)}}
Numbers == UNION {One(ps, E1 \cup Guards \cup Lets \cup Deeper) : ps \in Signatures(U64)}
           \cup UNION {One(ps, E1 \cup Guards) : ps \in Signatures(I8)}

\* Conversions: what widens keeps its value, what narrows may not.
Conv(f, e) == App(Var(f), <<e>>)
Converted ==
  One(<<Param("a", U8, <<>>), Param("b", U64, <<Binop("!=", B, V0)>>)>>,
      {Let("c", Conv(f, v), e) : f \in {"u8", "u64", "i8", "i64"}, v \in {A, B, V1, Num(3)},
         e \in {Binop("/", V1, C), Binop("+", C, V1), Binop("*", C, C)}}
      \cup {Binop("/", B, Conv("u64", A)), Binop("+", Conv("u64", A), B), Binop("/", A, Conv("u8", B)), Binop("-", Conv("u64", A), B)})

(***************************************************************************)
(* Matches, and what their patterns teach.                                 *)
(***************************************************************************)
Some(p) == PCtor("Some", <<p>>)
None    == PCtor("None", <<>>)
Z       == PVar("x")
Arms(ps)  == UNION {[1..k -> ps] : k \in 1..3}
Nn       == Param("n", U64, <<Binop(">", N, V0)>>)
\* Matches that inference accepts; `known` are the names about them.
RECURSIVE NamesIn(_)
NamesIn(e) == (IF e.k = "Var" THEN {e.n} ELSE {}) \cup UNION {NamesIn(e.xs[j]) : j \in DOMAIN e.xs}
Variants  == [Opt |-> <<"None", "Some">>, Shape |-> <<"Dot", "Line", "Both">>]
Covering(ps) == ~NotCovered([ctors |-> Data, variants |-> Variants], ps)
Chosen(e, ps, known, bodies) ==
  UNION {{Match(e, arms, [j \in DOMAIN arms |-> IF j = Len(arms) THEN b ELSE V0]) :
            b \in {c \in bodies : NamesIn(c) \subseteq known \cup ToSet(PatNames(arms[Len(arms)]))}}
         : arms \in {as \in Arms(ps) : Covering(as)}}
Patterns ==
  One(<<Param("o", Opt(U64), <<>>), Nn>>,
      Chosen(O, {Wild, None, Some(PInt(0)), Some(PInt(1)), Some(Z), Some(PVar("n")), Some(Wild)}, {"n"},
             {Binop("/", V1, X), Binop("/", V1, N), Binop("-", X, N)}))
  \cup One(<<Param("o", Prim("Shape"), <<>>), Nn>>,
      Chosen(O, {Wild, PCtor("Dot", <<>>), PCtor("Line", <<PInt(0)>>), PCtor("Line", <<Z>>), PCtor("Line", <<PVar("n")>>),
                 PCtor("Both", <<Some(Z), PBool(TRUE)>>), PCtor("Both", <<Some(PInt(0)), Wild>>), PCtor("Both", <<None, PVar("b")>>)}, {"n"},
             {Binop("/", V1, X), Binop("/", V1, N)}))
  \cup One(<<Param("a", U64, <<>>), Nn>>, Chosen(A, {Wild, PInt(0), PInt(1), Z}, {"a", "n"}, {Binop("/", V1, A), Binop("-", A, N)}))
  \cup One(<<Param("o", Opt(Vec(U64)), <<>>), Param("v", Vec(U64), <<Binop(">", Length(V), V0)>>)>>,
      Chosen(O, {Wild, None, Some(PList(<<>>)), Some(PList(<<Wild>>)), Some(Z), Some(PVar("v"))}, {"v", "get"}, {Get(X, V0), Get(X, V1), Get(V, V0)}))
  \cup One(<<Param("v", Vec(U64), <<>>)>>,
      Chosen(V, {Wild, PList(<<>>), PList(<<Wild>>), PList(<<Z>>)}, {"v", "get"}, {Get(V, V0), Get(V, V1)}))

(***************************************************************************)
(* Vectors and strings by index.                                           *)
(***************************************************************************)
I     == Var("i")
Sized == {Binop("<", I, Length(V)), Binop("<=", I, Length(V)), Binop("==", Length(V), I), Binop(">", Length(V), V0)}
At(e) == {Get(Borrow(V), e), App(Var("set"), <<V, e, V1>>)}
End  == Binop("-", Length(V), V1)
Indexed ==
  UNION {One(<<Param("v", Vec(U64), <<>>), Param("i", Size, rs)>>,
             At(I) \cup {If(c, g, V0) : c \in Sized, g \in At(I) \cup At(V0) \cup At(End) \cup At(Binop("-", I, V1)) \cup At(Binop("+", I, V1))}
             \cup {Let("c", End, g) : g \in At(C)} \cup {If(c, Let("v", App(Var("push"), <<V, V1>>), g), V0) : c \in Sized, g \in At(I)}
             \cup {App(Var("max_by"), <<Var("id"), V>>), If(Binop("==", Length(V), V0), V0, App(Var("max_by"), <<Var("id"), V>>)),
                   Get(App(Var("push"), <<V, V1>>), I)})
         : rs \in {<<>>, <<Binop("<", I, Length(V))>>, <<Binop("<", Binop("+", I, V1), Length(V))>>}}
  \cup One(<<Param("s", Prim("Str"), <<Binop(">", Length(Var("s")), V0)>>), Param("b", U8, <<>>)>>,
      {Let("c", App(Var("byte_at"), <<Var("s"), i>>), e) : i \in {V0, V1}, e \in {Binop("/", B, C), Binop("+", B, C), Binop("+", C, V1)}})

(***************************************************************************)
(* Calls and their preconditions; records and their invariants.            *)
(***************************************************************************)
K  == Var("k")
G(rs)  == Fn("g", <<Param("a", U64, <<>>), Param("b", U64, rs)>>, U64, Binop("/", A, B))
H(rs)  == Fn("h", <<Param("v", Vec(U64), rs), Param("i", Size, <<>>)>>, U64, Get(V, I))
Called ==
  {Module(<<Fn("f", <<Param("k", U64, rs), Param("n", U64, <<>>)>>, U64, e), G(gs)>>) :
     rs \in {<<>>, <<Binop(">", K, V0)>>}, gs \in {<<>>, <<Binop("!=", B, V0)>>, <<And(Binop(">", B, V0), Binop("<=", B, A))>>},
     e \in {App(Var("g"), <<a, b>>) : a \in {K, N, V1, Binop("+", K, N)}, b \in {K, N, V0, Binop("-", K, V1), App(Var("g"), <<N, K>>)}}
           \cup {If(Binop("<", N, K), App(Var("g"), <<K, N>>), V0), Let("n", V1, App(Var("g"), <<K, N>>)), Let("c", App(Var("g"), <<N, K>>), Binop("/", K, C))}}
  \cup {Module(<<Fn("f", <<Param("xs", Vec(U64), rs), Param("n", Size, <<>>)>>, U64, e), H(hs)>>) :
     rs \in {<<>>, <<Binop(">", Length(Var("xs")), V0)>>}, hs \in {<<>>, <<Binop(">", Length(V), V0)>>, <<Binop("<", I, Length(V))>>},
     e \in {App(Var("h"), <<Var("xs"), i>>) : i \in {V0, N, Binop("-", Length(Var("xs")), V1)}}
           \cup {If(Binop("<", N, Length(Var("xs"))), App(Var("h"), <<Var("xs"), N>>), V0),
                 App(Var("h"), <<App(Var("push"), <<Var("xs"), V1>>), N>>),
                 Let("xs", App(Var("push"), <<Var("xs"), V1>>), App(Var("h"), <<Var("xs"), V0>>))}}
T == Var("t")
Invariants ==
  UNION {One(<<Param("t", Prim("Tx"), <<>>), Param("a", U64, rs)>>,
      {Binop(op, x, y) : op \in {"/", "-", "+"}, x \in {A, Field(T, "q"), Field(T, "p")}, y \in {Field(T, "q"), Field(T, "p")}}
      \cup {Field(Record(<<"q", "p">>, <<x, y>>), "q") : x \in {A, V1, V0, Field(T, "q")}, y \in {A, V0, Field(T, "p")}}
      \cup {Field(Record(<<"p", "q">>, <<x, y>>), "q") : x \in {A, V0}, y \in {A, Field(T, "p")}}
      \cup {Field(With(T, <<f>>, <<x>>), "q") : f \in {"q", "p"}, x \in {A, V0, V1, Field(T, "q"), Field(T, "p")}}
      \cup {If(Binop("<", A, Field(T, "q")), With(T, <<"p">>, <<A>>), T),
            If(Binop("<", Field(T, "q"), A), With(T, <<"q">>, <<A>>), T)})
      : rs \in {<<>>, <<Binop(">", A, V0)>>, <<Binop("<=", A, Field(T, "p"))>>}}
  \cup One(<<Param("o", Opt(Prim("Tx")), <<>>), Param("a", U64, <<>>)>>,
      Chosen(O, {None, Some(PVar("t")), Some(Wild)}, {"a"}, {Binop("/", A, Field(T, "q")), Binop("-", Field(T, "q"), Field(T, "p"))}))

(***************************************************************************)
(* Postconditions: what a function returns, and what is made of it.        *)
(***************************************************************************)
Returned == {None, Some(PList(<<>>)), Some(PList(<<Wild>>)), Some(PList(<<PInt(0)>>)), Some(Z), Wild}
ToReturn == {Ctor("None"), App(Ctor("Some"), <<X>>), App(Ctor("Some"), <<List(<<V1>>)>>), Let("x", List(<<>>), App(Ctor("Some"), <<X>>)), Var("o")}
Sound(ps, bs) == \A j \in DOMAIN bs : X \in ToSet(bs[j].xs) /\ bs[j].k = "App" => ps[j] = Some(Z)
Load(ps, bs) == Fn("load", <<Param("o", Opt(Vec(U64)), <<>>)>>, Opt(Vec(U64)), Match(O, ps, bs))
Loads == {Load(ps, [j \in 1..k |-> IF j < k THEN Ctor("None") ELSE b]) : k \in {1, 3}, ps \in UNION {[1..n -> Returned] : n \in {1, 3}}, b \in ToReturn}
Inferred ==
  {Module(<<Fn("f", <<Param("o", Opt(Vec(U64)), <<>>)>>, U64, e), l>>) :
     l \in {h \in Loads : Len(h.body.ps) = Len(h.body.xs) - 1 /\ Sound(h.body.ps, Tail(h.body.xs))},
     e \in {Let("t", App(Var("load"), <<O>>), Match(T, <<None, Some(Z)>>, <<V0, Get(X, V0)>>)),
            Bind("t", App(Var("load"), <<O>>), Match(T, <<Some(PVar("o")), Wild>>, <<Get(Var("o"), V1), V0>>)),
            Let("t", App(Var("load"), <<O>>), Let("t", O, Match(T, <<None, Some(Z)>>, <<V0, Get(X, V0)>>)))}}

(***************************************************************************)
(* What Safe does not hold of: one program for each reason (README).       *)
(***************************************************************************)
\* An arm that did not fit because of an element, or of a string, counts as one
\* whose constructor or length did not.
Negated ==
  One(<<Param("v", Vec(U64), <<>>), Nn>>, {Match(V, <<PList(<<PInt(0)>>), PList(<<Z>>), Wild>>, <<V0, Get(V, V1), V0>>)})
Strung ==
  One(<<Param("o", Opt(Prim("Str")), <<>>), Param("n", U64, <<>>)>>,
       {Match(O, <<Some(PStr("s")), Some(Wild), None>>, <<V0, Binop("/", V1, N), V0>>)})
\* A name bound by a whole pattern, or in a lambda, keeps what was known of it.
Kept == One(<<Param("a", U64, <<>>), Nn>>, {Match(A, <<PVar("n")>>, <<Binop("/", V1, N)>>)})
\* Substituted one after the other.
Swapped ==
  {Module(<<Fn("f", <<Param("a", U64, <<>>), Param("b", U64, <<>>)>>, U64, App(Var("g"), <<B, A>>)),
            Fn("g", <<Param("a", U64, <<>>), Param("b", U64, <<Binop("<=", A, B)>>)>>, U64, Binop("-", B, A))>>)}
\* A field of a name that was bound again.
Reread ==
  One(<<Param("t", Prim("Tx"), <<>>), Param("a", U64, <<>>)>>,
      {If(Binop("<", A, Field(Var("t"), "q")), Let("t", Record(<<"q", "p">>, <<V1, V0>>), Binop("-", Field(Var("t"), "q"), A)), V0)})
\* The body of an arena is not looked at.
Unseen == One(<<Param("a", U64, <<>>), Param("b", U64, <<>>)>>, {Arena("r", Binop("/", A, B))})
\* A name bound again in an arm has no type in those below.
Untyped == One(<<Param("o", Opt(U64), <<>>), Nn>>, {Match(O, <<Some(PVar("n")), None>>, <<V0, Binop("+", N, N)>>)})
\* What a callee's refinement says of a name of its own is read of the caller's.
Captured ==
  {Module(<<Fn("f", <<Param("v", Vec(U64), <<Binop(">", Length(V), V0)>>)>>, U64, App(Var("h"), <<App(Var("empty"), <<V>>)>>)),
            Fn("h", <<Param("v", Vec(U64), <<Binop(">", Length(V), V0)>>)>>, U64, Get(V, V0))>>)}

MCPrograms == Numbers \cup Converted \cup Patterns \cup Indexed \cup Called \cup Invariants \cup Inferred
=============================================================================
