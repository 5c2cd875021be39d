------------------------------ MODULE Program ------------------------------
(***************************************************************************)
(* From the files to one flat module (src/src/load.rs, program): when all  *)
(* are read, every name a module declares becomes `Mod.name`, unless a     *)
(* local binder hides it, and a qualified name is checked against the      *)
(* module it names.                                                        *)
(*                                                                         *)
(* A module is [name, funs, ctors], a function [name, params, refine,      *)
(* body].  An expression is the sequence of its nodes as they are walked,  *)
(* a node before its parts; one that binds names says in which stretch of  *)
(* those behind it they are seen.  Types, which follow the rule of         *)
(* constructors, are left out.                                             *)
(***************************************************************************)
EXTENDS Loader, SequencesExt

\* A name n or a constructor c, either with a module m in front of it or not;
\* the names ns are seen in the span nodes that follow the next skip ones.
Plain(k, m, c, n) == [k |-> k, m |-> m, c |-> c, n |-> n, ns |-> {}, skip |-> 0, span |-> 0]
Binding(e, ns, skip, span) == [e EXCEPT !.ns = ns, !.skip = skip, !.span = span]

\* `n`, `m.n` after flattening; a constructor, with the module in its name or not.
Var(m, n)        == <<Plain("Var", m, "", n)>>
Ctor(m, c)       == <<Plain("Ctor", m, c, "")>>
Field(e, n)      == <<Plain("Field", "", "", n)>> \o e
\* `Csv.parse` is written like a field of the constructor Csv.
Qualified(c, n)  == <<Plain("Dot", "", c, n)>>
App(xs)          == <<Plain("App", "", "", "")>> \o FlattenSeq(xs)
Let(n, v, b)     == <<Binding(Plain("Let", "", "", ""), {n}, Len(v), Len(b))>> \o v \o b
Lambda(ns, b)    == <<Binding(Plain("Lambda", "", "", ""), ns, 0, Len(b))>> \o b
\* One arm: a pattern of constructor m.c that binds ns.
Match(e, m, c, ns, b) == <<Binding(Plain("Match", m, c, ""), ns, Len(e), Len(b))>> \o e \o b

IsQualified(e) == e.k = "Dot" /\ e.m = ""
HasCtor(e)     == e.k \in {"Ctor", "Match", "Dot"}

\* The binders of a name around the i-th node.
Binders(t, i, n) ==
  {j \in DOMAIN t : n \in t[j].ns /\ i - j > t[j].skip /\ i - j <= t[j].skip + t[j].span}

(***************************************************************************)
(* What a module names: the bodies are searched, the refinements are not.  *)
(***************************************************************************)
\* Seeded fault: patterns are not searched.
FindQualifiersInBodies(e) ==
  CASE IsQualified(e)           -> <<e.c>>
    [] e.k = "Ctor" /\ e.m # "" -> <<e.m>>
    [] OTHER                    -> <<>>

FindQualifiers(e) ==
  CASE IsQualified(e)                        -> <<e.c>>
    [] e.k \in {"Ctor", "Match"} /\ e.m # "" -> <<e.m>>
    [] OTHER                                 -> <<>>

QualifiersOf(mod) ==
  FlattenSeq([j \in DOMAIN mod.funs |->
    FlattenSeq([i \in DOMAIN mod.funs[j].body |-> FindQualifiers(mod.funs[j].body[i])])])

\* In whatever order.
Searched ==
  \A d \in Disks : \A p \in DOMAIN d :
    \A j \in DOMAIN d[p].funs : \A i \in DOMAIN d[p].funs[j].body :
      LET ns == FindQualifiers(d[p].funs[j].body[i])
      IN  \A x \in DOMAIN ns : ns[x] \in NamesOf(d[p])

(***************************************************************************)
(* Mangler.                                                                *)
(***************************************************************************)
Units     == [i \in DOMAIN order |-> disk[order[i]]]
UnitNames == {disk[order[i]].name : i \in DOMAIN order}
Vals(mod) == {mod.funs[i].name : i \in DOMAIN mod.funs}
\* Two units of one name: the later one is the one the table keeps.
Table(m) ==
  LET unit(i) == disk[order[i]]
  IN  unit(CHOOSE i \in DOMAIN order : /\ unit(i).name = m
                                       /\ \A j \in DOMAIN order : j > i => unit(j).name # m)

Mine(mod, e) == [e EXCEPT !.m = mod.name]
Called(e)    == [e EXCEPT !.k = "Var", !.m = e.c, !.c = ""]

\* Seeded fault: the names an arm binds do not hide the module's own.
MangleOpenArms(t, mod, params) ==
  [i \in DOMAIN t |->
    LET e == t[i]
    IN  IF IsQualified(e) /\ e.c \in UnitNames
        THEN IF e.n \in Vals(Table(e.c)) THEN Called(e) ELSE e
        ELSE IF \/ e.k = "Var" /\ e.n \in Vals(mod) \ params
                  /\ \A j \in Binders(t, i, e.n) : t[j].k = "Match"
                \/ HasCtor(e) /\ e.m = "" /\ e.c \in mod.ctors
        THEN Mine(mod, e)
        ELSE e]

\* Whether a name is a binder's.
Local(t, i, n, params) == n \in params \/ Binders(t, i, n) # {}

Mangle(t, mod, params) ==
  [i \in DOMAIN t |->
    LET e == t[i]
    IN  IF IsQualified(e) /\ e.c \in UnitNames
        THEN IF e.n \in Vals(Table(e.c)) THEN Called(e) ELSE e
        ELSE IF \/ e.k = "Var" /\ e.n \in Vals(mod) /\ ~Local(t, i, e.n, params)
                \/ HasCtor(e) /\ e.m = "" /\ e.c \in mod.ctors
        THEN Mine(mod, e)
        ELSE e]

\* mod.no_name: a qualified name its module does not declare.
HasErrors(t) ==
  \E i \in DOMAIN t :
    LET e == t[i]
    IN  \/ IsQualified(e) /\ e.c \in UnitNames /\ e.n \notin Vals(Table(e.c))
        \/ e.k \in {"Ctor", "Match"} /\ e.m \in UnitNames /\ e.c \notin Table(e.m).ctors

MangleFun(f, mod) ==
  [name   |-> f.name, params |-> f.params,
   refine |-> Mangle(f.refine, mod, f.params),
   body   |-> Mangle(f.body, mod, f.params)]

\* The names it declares have its own in front of them from here on.
MangleUnit(mod) ==
  [home |-> mod.name, ctors |-> mod.ctors,
   funs |-> [j \in DOMAIN mod.funs |-> MangleFun(mod.funs[j], mod)]]

Refused == \E i \in DOMAIN order : \E j \in DOMAIN Units[i].funs :
             HasErrors(Units[i].funs[j].refine) \/ HasErrors(Units[i].funs[j].body)

VARIABLES flat,     \* the units of the flat module
          errors    \* whether names were refused

programVars == <<vars, flat, errors>>

\* What the parser makes: a constructor may have a module in its name, any other
\* name has none, and no module is nameless.
Words == Names \cup STRING
Nodes == [k : {"Var", "Ctor", "Field", "Dot", "App", "Let", "Lambda", "Match"},
          m : Words, c : Words, n : Words, ns : SUBSET Words, skip : Nat, span : Nat]
Written(t) == /\ t \in Seq(Nodes)
              /\ \A i \in DOMAIN t : t[i].m # "" => t[i].k \in {"Ctor", "Match"}

ASSUME ProgramAssumption ==
  \A d \in Disks : \A p \in DOMAIN d :
    /\ d[p].name # ""
    /\ \A j \in DOMAIN d[p].funs : Written(d[p].funs[j].body) /\ Written(d[p].funs[j].refine)

ProgramInit == Init /\ flat = <<>> /\ errors = FALSE

Load == Next /\ UNCHANGED <<flat, errors>>

Flatten ==
  /\ result = "ok"
  /\ flat = <<>> /\ ~errors
  /\ errors' = Refused
  /\ flat' = IF Refused THEN <<>> ELSE [i \in DOMAIN order |-> MangleUnit(Units[i])]
  /\ UNCHANGED vars

ProgramNext == Load \/ Flatten

ProgramSpec == ProgramInit /\ [][ProgramNext]_programVars /\ WF_programVars(ProgramNext)

(***************************************************************************)
(* Properties.                                                             *)
(***************************************************************************)
\* The file a module's name stands for: the root's own is the root.
Meant(m) == IF m = disk[root].name THEN root ELSE Found(disk, m)

Shape(e) == <<e.k, e.c, e.n, e.ns, e.skip, e.span>>

\* What the i-th node stands for in file p: a parameter or the binders around
\* it, a declaration of a file, or the prelude's.
SourceMeaning(p, t, i, params) ==
  LET e == t[i]
  IN  IF e.k = "Var"
      THEN IF Local(t, i, e.n, params) THEN <<"local", e.n, Binders(t, i, e.n)>>
           ELSE <<"value", e.n, IF e.n \in Vals(disk[p]) THEN {p} ELSE {}>>
      ELSE IF IsQualified(e) /\ e.c \in UnitNames
      THEN <<"value", e.n, {Meant(e.c)}>>
      ELSE <<"form", Shape(e), IF ~HasCtor(e) THEN {}
                               ELSE IF e.m = "" THEN (IF e.c \in disk[p].ctors THEN {p} ELSE {})
                               ELSE IF e.m \in UnitNames THEN {Meant(e.m)} ELSE {}>>

\* The files whose declaration `m.n` is in the flat module, which knows no file.
ValueOf(m, n) == {order[i] : i \in {j \in DOMAIN flat : flat[j].home = m /\ n \in Vals(flat[j])}}
CtorOf(m, c)  == {order[i] : i \in {j \in DOMAIN flat : flat[j].home = m /\ c \in flat[j].ctors}}

\* There a name with a module is a declaration, one without a binder's or the
\* prelude's.
FlatMeaning(t, i, params) ==
  LET e == t[i]
  IN  IF e.k = "Var"
      THEN IF e.m # "" THEN <<"value", e.n, ValueOf(e.m, e.n)>>
           ELSE IF Local(t, i, e.n, params) THEN <<"local", e.n, Binders(t, i, e.n)>>
           ELSE <<"value", e.n, {}>>
      ELSE <<"form", Shape(e), IF HasCtor(e) /\ e.m # "" THEN CtorOf(e.m, e.c) ELSE {}>>

Same(p, source, text, params) ==
  /\ DOMAIN text = DOMAIN source
  /\ \A i \in DOMAIN text : FlatMeaning(text, i, params) = SourceMeaning(p, source, i, params)

\* Flattening changes no meaning: each name stands for what it stood for in its
\* own file, behind the same binders, or the same declaration of the same file,
\* though the flat module knows it by no more than `Mod.name` (tests/modules.rs:
\* "a bare `cents` inside `App` means App's").
SameMeaning ==
  \A i \in DOMAIN flat : \A j \in DOMAIN flat[i].funs :
    LET was == disk[order[i]].funs[j]
        is  == flat[i].funs[j]
    IN  Same(order[i], was.body, is.body, was.params) /\ Same(order[i], was.refine, is.refine, was.params)

\* What flattening accepts needs no other file: whatever has a module in its
\* name is declared by a module that was read.  Reading finds the names by one
\* walk (qualifiers), flattening by another (Mangler), and they must agree on
\* bodies; refinements only the second one walks.
NothingDangles ==
  \A i \in DOMAIN flat : \A j \in DOMAIN flat[i].funs :
    LET t == flat[i].funs[j].body
    IN  \A x \in DOMAIN t :
          /\ ~IsQualified(t[x])
          /\ t[x].m # "" => IF t[x].k = "Var" THEN ValueOf(t[x].m, t[x].n) # {}
                            ELSE CtorOf(t[x].m, t[x].c) # {}
=============================================================================
