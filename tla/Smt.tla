---------------------------------- MODULE Smt ----------------------------------
(***************************************************************************)
(* The questions refine.rs puts to z3: terms over symbols, and whether a   *)
(* goal follows from hypotheses.                                           *)
(*                                                                         *)
(* A symbol is the sequence of words a `.` in it separates, because that   *)
(* is what replacing a word in the text of a term goes by.  Integers range *)
(* over SolverInts, and booleans over 0 and 1.  What z3 may choose for a   *)
(* division by zero is 0 here: it finds fewer counterexamples than it      *)
(* could, and so proves more.  The values TLC finds take the place of z3's *)
(* search: symbols are tried one by one, those first that share least with *)
(* the rest.                                                               *)
(***************************************************************************)
EXTENDS Integers, Sequences, FiniteSets, SequencesExt, TLC

CONSTANT SolverInts

Term(op, sym, i, xs) == [op |-> op, sym |-> sym, i |-> i, xs |-> xs]
Lit(i)     == Term("int", <<>>, i, <<>>)
Sym(s)     == Term("sym", s, 0, <<>>)
Op(op, xs) == Term(op, <<>>, 0, xs)
Broken     == Op("broken", <<>>)        \* text z3 does not read

Prefixed(word, s) == <<word \o Head(s)>> \o Tail(s)
Suffixed(s, word) == Append(Front(s), Last(s) \o word)

RECURSIVE TermsIn(_)
TermsIn(t) == {t} \cup UNION {TermsIn(t.xs[j]) : j \in DOMAIN t.xs}
SymsOf(t)  == {u.sym : u \in {v \in TermsIn(t) : v.op = "sym"}}

\* Replacing a word changes every symbol that has it, in whole or in part.
RECURSIVE ReplaceSym(_, _, _)
ReplaceSym(t, from, to) ==
  IF t.op # "sym" THEN [t EXCEPT !.xs = [j \in DOMAIN t.xs |-> ReplaceSym(t.xs[j], from, to)]]
  ELSE IF from \notin ToSet(t.sym) THEN t
  ELSE IF Len(t.sym) = 1 THEN to
  ELSE IF to.op = "sym" THEN Sym(FlattenSeq([j \in DOMAIN t.sym |-> IF t.sym[j] = from THEN to.sym ELSE <<t.sym[j]>>]))
  ELSE Broken

\* The text of a term has a word in it somewhere.
Mentions(t, word) ==
  \E s \in SymsOf(t) : \E j \in DOMAIN s : \E i \in 1..Len(s[j]) :
    i + Len(word) - 1 <= Len(s[j]) /\ SubSeq(s[j], i, i + Len(word) - 1) = word

Truth(b) == IF b THEN 1 ELSE 0

\* Rounding leaves a remainder that is not negative.
Quotient(x, y) == IF y = 0 THEN 0 ELSE IF y > 0 THEN x \div y ELSE -(x \div (-y))

RECURSIVE Meaning(_, _)
Meaning(t, a) ==
  LET x == Meaning(t.xs[1], a)
      y == Meaning(t.xs[2], a)
  IN  CASE t.op = "int" -> t.i
        [] t.op = "sym" -> a[t.sym]
        [] t.op = "neg" -> -x
        [] t.op = "not" -> 1 - x
        [] t.op = "="   -> Truth(x = y)
        [] t.op = "<"   -> Truth(x < y)
        [] t.op = "<="  -> Truth(x <= y)
        [] t.op = ">"   -> Truth(x > y)
        [] t.op = ">="  -> Truth(x >= y)
        [] t.op = "and" -> Truth(\A j \in DOMAIN t.xs : Meaning(t.xs[j], a) = 1)
        [] t.op = "or"  -> Truth(\E j \in DOMAIN t.xs : Meaning(t.xs[j], a) = 1)
        [] t.op = "+"   -> x + y
        [] t.op = "-"   -> x - y
        [] t.op = "*"   -> x * y
        [] t.op = "div" -> Quotient(x, y)
        [] t.op = "mod" -> x - y * Quotient(x, y)

Holds(h, a)  == Meaning(h, a) = 1
Arranged(xs) == FoldSet(LAMBDA x, s : Append(s, x), <<>>, xs)

\* Those of the symbols that a fact shares with others still to come.
Shared(facts, syms) == {s \in syms : \E f \in facts : s \in f.on /\ ~(f.on \subseteq syms)}
\* An order in which few symbols are shared with what is to come.
NextSym(facts, done, rest) ==
  LET left(s) == Cardinality(Shared(facts, done \cup {s}))
  IN  CHOOSE s \in rest : \A t \in rest : left(s) <= left(t)
OrderOf(facts, used) ==
  FoldLeft(LAMBDA order, j : Append(order, NextSym(facts, ToSet(order), used \ ToSet(order))),
           <<>>, [j \in 1..Cardinality(used) |-> j])

\* The values of a symbol that the facts about it alone allow.
ValuesOf(sorts, facts, s) ==
  {v \in IF sorts[s] = "Bool" THEN {0, 1} ELSE SolverInts : \A f \in facts : f.on = {s} => Holds(f.h, s :> v)}

\* The assignments as of a part, with one more symbol; those that the facts
\* known by then allow, as far as they matter later.
Extend(facts, as, done, s, values) ==
  LET due  == {f.h : f \in {g \in facts : s \in g.on /\ g.on \subseteq done \cup {s}}}
      keep == Shared(facts, done \cup {s})
  IN  {[t \in keep |-> b[t]] : b \in {c \in {a @@ (s :> v) : a \in as, v \in values} : \A h \in due : Holds(h, c)}}

Unassigned == [s \in {} |-> 0]

\* Some values of the symbols make all of it hold.
Solvable(sorts, facts, order) ==
  /\ \A f \in facts : f.on = {} => Holds(f.h, Unassigned)
  /\ FoldLeft(LAMBDA as, j : Extend(facts, as, {order[i] : i \in 1..(j - 1)}, order[j], ValuesOf(sorts, facts, order[j])),
              {Unassigned}, [j \in DOMAIN order |-> j]) # {}

\* z3 answers `unsat` to the hypotheses and the negated goal; it reads only text
\* whose symbols are declared.
Unsat(sorts, facts, used) ==
  /\ used \subseteq DOMAIN sorts
  /\ \A f \in facts : Broken \notin TermsIn(f.h)
  /\ ~Solvable(sorts, facts, OrderOf(facts, used))
Proves(sorts, hyps, goal) ==
  LET facts == {[h |-> h, on |-> SymsOf(h)] : h \in hyps \cup {Op("not", <<goal>>)}}
  IN  Unsat(sorts, facts, UNION {f.on : f \in facts})
=============================================================================
