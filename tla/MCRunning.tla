------------------------------ MODULE MCRunning ------------------------------
(***************************************************************************)
(* The type checker on small modules: one grammar per part of it.          *)
(***************************************************************************)
EXTENDS Running

Declared(n, params, variants) ==
  [name |-> n, params |-> params, fields |-> <<>>, types |-> <<>>, refines |-> <<>>, variants |-> variants]
Fields(n, fs, ts, refines) ==
  [name |-> n, params |-> <<>>, fields |-> fs, types |-> ts, refines |-> refines, variants |-> <<>>]
Variant(n, args) == [name |-> n, args |-> args]

U64 == Prim("U64")
Str == Prim("Str")
Boolean == Prim("Bool")
Opt(t) == Con("Opt", <<t>>)

Shape  == Declared("Shape", <<>>, <<Variant("Dot", <<>>), Variant("Line", <<U64>>),
                                    Variant("Both", <<Opt(Boolean), Boolean>>)>>)
Tx     == Fields("Tx", <<"s", "q">>, <<Str, U64>>, <<Binop("<", Num(0), Var("q"))>>)
Lot    == Fields("Lot", <<"q", "r">>, <<U64, Boolean>>, <<>>)
Stock  == Fields("Stock", <<"q", "s">>, <<U64, Str>>, <<>>)

Param(n, t) == [n |-> n, t |-> t]
Fn(n, ps, ret, body) ==
  [name |-> n, params |-> ps, ret |-> ret, refines |-> <<>>, measure |-> <<>>, body |-> body]
Module(types, funs) == [types |-> types, exts |-> <<>>, funs |-> funs, exports |-> <<>>]
One(types, ps, rets, bodies) == {Module(types, <<Fn("f", ps, r, e)>>) : r \in rets, e \in bodies}

X == Var("x")
Y == Var("y")
S == Var("s")
B == Var("b")
N == Var("n")

(***************************************************************************)
(* Functions as values: no types are written.                              *)
(***************************************************************************)
Higher(es, fs) ==
  {Lambda(<<"y">>, a) : a \in es} \cup {App(a, <<b>>) : a \in fs, b \in es} \cup {Tuple(<<a, b>>) : a \in fs, b \in es}
H0 == {X, Y, Txt}
H1 == H0 \cup Higher(H0, H0)
Functions == One(<<>>, <<Param("x", Missing), Param("y", Missing)>>, {Missing}, H1 \cup Higher(H1, H1))

(***************************************************************************)
(* Numbers, strings and booleans.                                          *)
(***************************************************************************)
A0 == {N, S, B, Num(1), Flt}
Operated(ops, es, fs) ==
  {Binop(op, a, b) : op \in ops, a \in es, b \in fs}
  \cup {Neg(a) : a \in es} \cup {Not(a) : a \in es} \cup {Let("x", a, b) : a \in es, b \in fs \cup {X}}
A1 == A0 \cup Operated({"+", "<", "==", "&&", "++"}, A0, A0)
A2 == Operated({"+", "<", "&&"}, Operated({"+", "=="}, {N, Num(1), Flt}, {N, Num(1), Flt}), {N, Flt})
Scalars ==
  One(<<>>, <<Param("n", U64), Param("s", Str), Param("b", Boolean)>>, {Missing, U64, Prim("F64")}, A1 \cup A2)
  \cup One(<<>>, <<Param("n", Missing), Param("s", Missing), Param("b", Missing)>>, {Missing}, A1)

(***************************************************************************)
(* Matches.                                                                *)
(***************************************************************************)
Arms(ps) == UNION {[1..n -> ps] : n \in 1..3}
Matches(t, ps) ==
  {Module(<<Shape>>, <<Fn("f", <<Param("x", t)>>, U64, Match(X, arms, [j \in DOMAIN arms |-> Num(0)]))>>) :
     arms \in Arms(ps)}
Some(p) == PCtor("Some", <<p>>)
None    == PCtor("None", <<>>)
Z       == PVar("z")
Covers ==
  Matches(Opt(Boolean), {Wild, Z, None, Some(Z), Some(PBool(TRUE)), Some(PBool(FALSE))})
  \cup Matches(Tup(<<Boolean, Opt(Boolean)>>),
         {Wild, PTup(<<PBool(TRUE), Z>>), PTup(<<PBool(FALSE), None>>), PTup(<<Wild, Some(Z)>>),
          PTup(<<Z, Some(PBool(TRUE))>>), PTup(<<Wild, None>>)})
  \cup Matches(U64, {PInt(0), PInt(1), Z})
  \cup Matches(Con("Vec", <<Boolean>>), {Wild, PList(<<>>), PList(<<Z>>), PList(<<PBool(TRUE)>>), PList(<<Z, PBool(FALSE)>>)})
  \cup Matches(Con("Shape", <<>>),
         {Wild, PCtor("Dot", <<>>), PCtor("Line", <<PInt(0)>>), PCtor("Line", <<Z>>),
          PCtor("Both", <<None, Wild>>), PCtor("Both", <<Wild, PBool(TRUE)>>), PCtor("Both", <<Some(Wild), PBool(FALSE)>>)})
  \cup Matches(Missing, {Z, PInt(0), None, Some(Z), PCtor("Line", <<>>), PCtor("Void", <<>>), PStr("a"), PBool(TRUE)})
  \cup Matches(Missing, {Z, None, PTup(<<Z, Wild>>), PList(<<Z>>)})

(***************************************************************************)
(* Effects, where they may stand: bound, at the end of a block, in an arm, *)
(* in a function given to `each`.                                          *)
(***************************************************************************)
Arms2(a, b) == Match(B, <<PBool(TRUE), PBool(FALSE)>>, <<a, b>>)
P0 == {S, Void}
E0 == {App(Var("out"), <<S>>), App(Var("read"), <<App(Var("concat"), <<S, S>>)>>)}
Blocks(es, ps) ==
  {Bind("x", a, b) : a \in es \cup ps, b \in es \cup ps \cup {X}}
  \cup {Arms2(a, b) : a \in es \cup ps, b \in es \cup ps}
  \cup {Let("x", a, b) : a \in ps, b \in es \cup {X}}
  \cup {App(Var("each"), <<Lambda(<<"y">>, a), List(<<S>>)>>) : a \in es \cup ps}
E1 == E0 \cup Blocks(E0, P0)
Main(f) == [f EXCEPT !.funs = Append(@, Fn("main", <<>>, Eff(Unit), App(Var("out"), <<Txt>>)))]
Effects ==
  {Main(m) : m \in One(<<>>, <<Param("s", Str), Param("b", Boolean)>>, {Unit, Str, Eff(Unit), Eff(Str), Missing},
                       E1 \cup {Bind("x", App(Var("main"), <<>>), X)} \cup {Bind("x", a, b) : a \in E1, b \in E0 \cup {X}} \cup {Arms2(a, X) : a \in E1})}
  \cup One(<<>>, <<Param("x", Missing)>>, {Missing, Eff(Unit)},
           {Bind("y", X, Y), Bind("y", App(X, <<Void>>), Y), App(Var("each"), <<X, List(<<Txt>>)>>)})

(***************************************************************************)
(* Records: Tx and Lot share the field q, Tx and Stock have the same ones. *)
(***************************************************************************)
Reads == {Field(X, f) : f \in {"s", "q", "r", "zz"}}
Built == {Record(<<"s", "q">>, <<Txt, Num(1)>>), Record(<<"q", "s">>, <<Field(X, "q"), Txt>>),
          Record(<<"q", "r">>, <<Num(1), Bool(TRUE)>>), Record(<<"q">>, <<Num(1)>>), Record(<<"s", "q">>, <<Num(1), Num(1)>>)}
Updates(e) == {With(e, <<"q">>, <<Num(2)>>), With(e, <<"s">>, <<Txt>>), With(e, <<"q">>, <<Txt>>),
               With(e, <<"r", "q">>, <<Bool(TRUE), Num(0)>>)}
TxType  == Prim("Tx")
LotType == Prim("Lot")
Records ==
  UNION {One(types, <<Param("x", t)>>, {Missing, U64, TxType, Prim("Stock")},
             Reads \cup Built \cup (IF t = Missing THEN {} ELSE Updates(X))
             \cup {Field(e, "q") : e \in Built} \cup UNION {Updates(e) : e \in Built})
         : types \in {<<Tx, Lot, Stock>>, <<Lot, Tx>>, <<Tx, Tx, Lot>>}, t \in {Missing, TxType, LotType, U64}}

(***************************************************************************)
(* Two functions, with and without written types; sharing, and mistakes.   *)
(***************************************************************************)
A == Named("a")
Id(t) == Fn("id", <<Param("x", t)>>, t, X)
Uses == {Tuple(<<App(Var("id"), <<Num(1)>>), App(Var("id"), <<Txt>>)>>), App(Var("id"), <<X>>),
         App(App(Var("id"), <<Var("id")>>), <<Num(1)>>), App(Var("id"), <<X, X>>), App(Var("map"), <<Var("id"), List(<<X>>)>>),
         App(Var("show"), <<X>>), App(Var("fmt"), <<Txt, X>>), App(Var("fmt"), <<X>>),
         App(Var("map"), <<Var("len"), List(<<Txt>>)>>), App(Var("len"), <<X, X>>), App(Var("zz"), <<X>>),
         App(Var("push"), <<App(Var("single"), <<X>>), App(Var("id"), <<X>>)>>), Borrow(Huge), App(Ctor("Some"), <<X>>),
         App(Var("f"), <<X>>), App(Ctor("Line"), <<X>>)}
Shared ==
  {Module(<<Shape>>, <<Fn("f", <<Param("x", t)>>, r, e), Id(i)>>) :
     t \in {Missing, U64, Str}, r \in {Missing, U64}, e \in Uses, i \in {Missing, A, U64}}
  \cup One(<<>>, <<Param("x", Str), Param("y", U64)>>, {U64}, {App(Var("len"), <<a>>) : a \in {X, Y, List(<<Y>>)}})

\* Both functions in full; the bodies are right or wrong in different ways.
Bodies2 == {Num(1), Txt, X, Var("zz"), App(Var("g"), <<X>>), App(Var("f"), <<Txt>>), App(Var("f"), <<Num(1)>>),
            Let("x", Txt, X), Match(X, <<PInt(0), Z>>, <<X, Txt>>), Lambda(<<"g">>, Var("g"))}
Refined(f) == [f EXCEPT !.refines = <<Binop("<", Num(0), X)>>, !.measure = <<X>>]
Whole ==
  {Module(<<>>, <<Fn("f", <<Param("x", t)>>, U64, a), Refined(Fn("g", <<Param("x", U64)>>, t, b))>>) :
     t \in {U64, Str}, a \in Bodies2, b \in Bodies2}
  \cup {Module(<<>>, <<Fn("f", <<Param("x", A)>>, A, X), Fn("g", <<Param("x", U64)>>, U64, a), Fn("h", <<Param("x", Str)>>, Str, a)>>) :
          a \in {App(Var("f"), <<X>>), App(Var("f"), <<Num(1)>>)}}

\* The functions after one are checked with the scopes it left open: `id` is a
\* parameter, a function, or nothing at all.
Scopes ==
  {Module(<<>>, <<Fn("f", <<Param("id", t)>>, U64, a), Fn("g", <<Param("y", U64)>>, U64, b)>> \o rest) :
     t \in {U64, Fun(U64, U64)}, a \in {Num(1), Txt, Var("id"), App(Var("id"), <<Num(1)>>)},
     b \in {Y, Txt, Var("id"), App(Var("id"), <<Y>>), App(Var("f"), <<Y>>)}, rest \in {<<>>, <<Id(A)>>}}

Foreign ==
  {[Module(<<Tx>>, <<Fn("f", <<Param("x", U64)>>, r, App(Var("puts"), <<Txt>>))>>)
      EXCEPT !.exts = <<[name |-> "puts", ty |-> Fun(Str, t)]>>, !.exports = <<n>>] :
     r \in {Unit, Eff(Unit)}, t \in {Unit, Eff(Unit)}, n \in {"f", "zz"}}

(***************************************************************************)
(* What the properties do not hold of (README.md): an effect               *)
(* given to `let`, `show` or a tuple; a variable written in a signature    *)
(* that stands for one type; `len` of what is not yet known, of a tuple or *)
(* of a function; a number that is matched with a tuple; an update of what *)
(* is not yet known.                                                       *)
(***************************************************************************)
Leaks   == One(<<>>, <<Param("s", Str)>>, {U64, Str, Missing},
               {Let("x", App(Var("out"), <<S>>), Num(1)), App(Var("show"), <<App(Var("out"), <<S>>)>>)})
Unsound ==
  One(<<Tx, Lot>>, <<Param("x", A)>>, {U64}, {X})
  \cup One(<<>>, <<Param("x", U64)>>, {A}, {X, Txt})
  \cup One(<<>>, <<Param("x", Missing)>>, {U64},
           {App(Var("len"), <<a>>) : a \in {X, Tuple(<<X, X>>), Lambda(<<"y">>, Y)}}
           \cup {Match(X, <<PInt(0), Z, PTup(<<Z, Wild>>)>>, <<Num(0), Num(0), Num(0)>>)})
  \cup One(<<Tx>>, <<Param("x", Missing)>>, {Missing}, {With(X, <<"q">>, <<Num(2)>>)})

MCPrograms == Functions \cup Scalars \cup Covers \cup Effects \cup Records \cup Shared \cup Whole \cup Scopes \cup Foreign
=============================================================================
