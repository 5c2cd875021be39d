------------------------------ MODULE Syntax ------------------------------
(***************************************************************************)
(* The expressions of the language (src/src/ast.rs) as inference leaves    *)
(* them: every node carries its type, and its place in the tree, a path of *)
(* child indices, stands for the span the compiler keys its tables by.     *)
(*                                                                         *)
(* Modelled: the first-order part over Num, Str, Vec (of Str), Opt (of     *)
(* Str), a record type Rec with the fields s:Str and q:Num, and Tup.  Left *)
(* out: lambdas and closures, `ext c` calls, dictionaries, arenas.         *)
(***************************************************************************)
EXTENDS Naturals, Sequences

\* A node: its kind, the name it mentions or binds, a literal's value, its
\* type, its children.
Node(k, n, i, t, xs) == [k |-> k, n |-> n, i |-> i, t |-> t, xs |-> xs]

Lit(i)           == Node("Int", "", i, "Num", <<>>)
Text             == Node("Str", "", 0, "Str", <<>>)
Var(n, t)        == Node("Var", n, 0, t, <<>>)
Borrow(e)        == Node("Borrow", "", 0, e.t, <<e>>)
Field(e, f)      == Node("Field", f, 0, IF f = "q" THEN "Num" ELSE "Str", <<e>>)
App(f, t, xs)    == Node("App", f, 0, t, xs)
Binop(op, a, b)  == Node("Binop", op, 0, IF op = "++" THEN "Str" ELSE "Num", <<a, b>>)
Tuple(xs)        == Node("Tuple", "", 0, "Tup", xs)
Record(s, q)     == Node("Record", "", 0, "Rec", <<s, q>>)
With(r, f, v)    == Node("With", f, 0, "Rec", <<r, v>>)
Let(n, v, body)  == Node("Let", n, 0, body.t, <<v, body>>)

\* `?e |0 -> a |_ -> b end`, and `?e |Some n -> a |None -> b end`.
IfZero(e, a, b)      == Node("IfZero", "", 0, a.t, <<e, a, b>>)
IfSome(e, n, a, b)   == Node("IfSome", n, 0, a.t, <<e, a, b>>)

IsMatch(e) == e.k \in {"IfZero", "IfSome"}

\* Pat::names: what the pattern of arm i (the child i of the match) binds.
\* Every payload of the model is a Str.
PatNames(e, i) == IF e.k = "IfSome" /\ i = 2 THEN {e.n} ELSE {}

\* Scalars are copied; everything with a payload is affine.
IsAffine(t) == t # "Num"

\* A function: [name, params, ret, body], a parameter being [n, t, lent].
ParamNames(fn, lent) ==
  {p.n : p \in {fn.params[i] : i \in {j \in DOMAIN fn.params : fn.params[j].lent = lent}}}
AffineParams(fn) ==
  {fn.params[i].n : i \in {j \in DOMAIN fn.params :
                             ~fn.params[j].lent /\ IsAffine(fn.params[j].t)}}

(***************************************************************************)
(* Which argument positions a callee borrows.  The module functions eat,   *)
(* keep and peek are the ones of src/tests/drop_arm.vibe, drop_pass.vibe   *)
(* and borrow_ok.vibe: eat consumes its Str, keep hands it back, peek      *)
(* only reads it.                                                          *)
(***************************************************************************)
Signatures ==
  [dup      |-> <<TRUE>>,         single |-> <<FALSE>>,
   concat   |-> <<TRUE, TRUE>>,   push   |-> <<FALSE, FALSE>>,
   push_str |-> <<FALSE, TRUE>>,  get    |-> <<TRUE, FALSE>>,
   eat      |-> <<FALSE>>,        keep   |-> <<FALSE>>,
   peek     |-> <<TRUE>>,         Some   |-> <<FALSE>>]

Specials       == {"len", "show"}
PreludeShares  == {"get"}
ModuleFns      == {"eat", "keep", "peek"}
===========================================================================
