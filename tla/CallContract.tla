--------------------------- MODULE CallContract ---------------------------
(***************************************************************************)
(* What a call of a function promises its caller, with no memory in it: an *)
(* expression means a value, a call returns once with the value its body   *)
(* means, and what the caller lent is afterwards what it was before.       *)
(*                                                                         *)
(* A value is a tree [i, kids].                                            *)
(***************************************************************************)
EXTENDS Syntax, Integers, SequencesExt, TLC

CONSTANTS Programs,       \* the functions
          Inputs(_)       \* the values of a parameter of a type

Leaf(i)         == [i |-> i, kids |-> <<>>]
TreeNode(i, ts) == [i |-> i, kids |-> ts]

\* The length of what `show` writes, standing for its text.
RECURSIVE Width(_)
Width(t) == 1 + t.i + FoldLeft(LAMBDA sum, k : sum + Width(k), 0, t.kids)

\* A value of the meaning of a built-in or a module function.
Primitive(f, vs) ==
  CASE f \in {"dup", "keep"}          -> vs[1]
    [] f \in {"eat", "peek"}          -> Leaf(vs[1].i)
    [] f = "single"                   -> TreeNode(0, vs)
    [] f \in {"concat", "push_str"}   -> Leaf(vs[1].i + vs[2].i)
    [] f = "push"                     -> TreeNode(0, Append(vs[1].kids, vs[2]))
    [] f = "get"                      -> vs[1].kids[vs[2].i + 1]
    [] f = "len"                      -> Leaf(vs[1].i + Len(vs[1].kids))
    [] f = "show"                     -> Leaf(Width(vs[1]))
    [] f = "Some"                     -> TreeNode(1, vs)

Arithmetic(op, a, b) ==
  CASE op = "+"  -> Leaf(a.i + b.i)
    [] op = "-"  -> Leaf(a.i - b.i)
    [] op = "==" -> Leaf(IF a = b THEN 1 ELSE 0)
    [] op = "++" -> Leaf(a.i + b.i)

FieldAt(f) == IF f = "q" THEN 2 ELSE 1

Extend(rho, n, v) == (n :> v) @@ rho

RECURSIVE Meaning(_, _, _)
Meaning(e, rho, fn) ==
  LET M(i) == Meaning(e.xs[i], rho, fn)
      all  == [i \in DOMAIN e.xs |-> M(i)]
  IN  CASE e.k = "Int"    -> Leaf(e.i)
        [] e.k = "Str"    -> Leaf(1)
        [] e.k = "Var"    -> rho[e.n]
        [] e.k = "Borrow" -> M(1)
        [] e.k = "Field"  -> M(1).kids[FieldAt(e.n)]
        [] e.k = "Binop"  -> Arithmetic(e.n, M(1), M(2))
        [] e.k \in {"Tuple", "Record"} -> TreeNode(0, all)
        [] e.k = "With"   -> [M(1) EXCEPT !.kids[FieldAt(e.n)] = M(2)]
        [] e.k = "Let"    -> Meaning(e.xs[2], Extend(rho, e.n, M(1)), fn)
        [] e.k = "IfZero" -> IF M(1).i = 0 THEN M(2) ELSE M(3)
        [] e.k = "IfSome" -> IF M(1).i = 1
                             THEN Meaning(e.xs[2], Extend(rho, e.n, M(1).kids[1]), fn)
                             ELSE M(3)
        [] e.k = "App" /\ e.n = fn.name ->
             Meaning(fn.body, [n \in {fn.params[i].n : i \in DOMAIN fn.params} |->
                                 all[CHOOSE i \in DOMAIN fn.params : fn.params[i].n = n]], fn)
        [] OTHER          -> Primitive(e.n, all)

\* The arguments of a call, by position, and the ones only lent to it.
Arguments(f) ==
  LET all == UNION {Inputs(f.params[i].t) : i \in DOMAIN f.params}
  IN  {as \in [DOMAIN f.params -> all] :
         \A i \in DOMAIN f.params : as[i] \in Inputs(f.params[i].t)}
Lent(f) == {i \in DOMAIN f.params : f.params[i].lent}

Answer(f, as) ==
  Meaning(f.body, [n \in {f.params[i].n : i \in DOMAIN f.params} |->
                     as[CHOOSE i \in DOMAIN f.params : f.params[i].n = n]], f)

VARIABLES fn,         \* the function called
          given,      \* its arguments
          lent,       \* what the caller's borrowed arguments are now
          status,     \* "running" or "returned"
          answer      \* what came back

contract == <<fn, given, lent, status, answer>>

Nothing == Leaf(-1)

Init ==
  /\ fn \in Programs
  /\ given \in Arguments(fn)
  /\ lent = [i \in Lent(fn) |-> given[i]]
  /\ status = "running"
  /\ answer = Nothing

ReturnTo ==
  /\ status = "running"
  /\ status' = "returned"
  /\ answer' = Answer(fn, given)
  /\ UNCHANGED <<fn, given, lent>>

Spec == Init /\ [][ReturnTo]_contract /\ WF_contract(ReturnTo)
===========================================================================
