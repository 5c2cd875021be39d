----------------------------- MODULE MCProgram -----------------------------
(***************************************************************************)
(* Program on small file systems: one set has every way three modules may  *)
(* name each other, the other every small body over the names that may be  *)
(* taken for one another.                                                  *)
(***************************************************************************)
EXTENDS Program, TLC

MCNames == {"App", "app", "MoneyBox", "money_box", "Csv", "csv"}
MCDirs  == <<"the root's", "lib">>
MCSnakeCase(n) == CASE n = "App" -> "app" [] n = "MoneyBox" -> "money_box" [] n = "Csv" -> "csv"
                    [] OTHER -> n
MCSquash(n)    == CASE n = "App" -> "app" [] n \in {"MoneyBox", "money_box"} -> "moneybox"
                    [] n = "Csv" -> "csv" [] OTHER -> n

Fun(n, ps, r, b)  == [name |-> n, params |-> ps, refine |-> r, body |-> b]
Module(n, fs, cs) == [name |-> n, funs |-> fs, ctors |-> cs]

(***************************************************************************)
(* Who names whom: each of three modules names up to two, in any order,    *)
(* and MoneyBox may be missing, beside the root, in the library, or both.  *)
(***************************************************************************)
Used     == {"App", "MoneyBox", "Csv"}
Lists    == {l \in UNION {[1..k -> Used] : k \in 0..2} : \A i, j \in DOMAIN l : l[i] = l[j] => i = j}
Uses(n, l) == Module(n, <<Fun("f", {}, Var("", "f"),
                              App([i \in DOMAIN l |-> Qualified(l[i], "f")]))>>, {})

Boxes(l) == {<<1, "MoneyBox">> :> Uses("MoneyBox", l), <<1, "money_box">> :> Uses("MoneyBox", l),
             <<2, "money_box">> :> Uses("MoneyBox", l),
             <<1, "money_box">> :> Uses("MoneyBox", l) @@ <<2, "MoneyBox">> :> Uses("MoneyBox", <<>>)}

Graphs3 == {(<<1, "app">> :> Uses("App", a)) @@ b @@ (<<2, "csv">> :> Uses("Csv", c)) :
              a \in Lists, b \in {<<>>} \cup UNION {Boxes(l) : l \in Lists}, c \in Lists}

(***************************************************************************)
(* What a name is taken for: App and Csv both declare x, App has the       *)
(* constructor Cell and Csv has Row, and y is the prelude's.               *)
(***************************************************************************)
Leaves == {Var("", "x"), Var("", "y"), Var("", "parse"), Qualified("Csv", "x"),
           Qualified("Csv", "y"), Ctor("", "Cell"), Ctor("", "Row"), Ctor("Csv", "Row"),
           Ctor("Csv", "Cell")}
Forms(as, bs) ==
       {Let("x", a, b) : a \in as, b \in bs}
  \cup {Lambda({"x", "y"}, b) : b \in bs}
  \cup {Match(a, "Csv", "Row", {"x"}, b) : a \in as, b \in bs}
  \cup {Match(a, "", "Cell", {"y"}, b) : a \in as, b \in bs}
  \cup {App(<<a, b>>) : a \in as, b \in bs} \cup {Field(b, "x") : b \in {e \in bs : e[1].k # "Ctor"}}

Bodies == Forms(Leaves, Leaves) \cup Forms({Var("", "x")}, Forms({Var("", "x"), Ctor("", "Cell")}, Leaves))

Csv == Module("Csv", <<Fun("x", {}, Var("", "y"), Var("", "parse")),
                       Fun("parse", {}, Var("", "y"), Var("", "x"))>>, {"Row"})
Scoped(ps, r, b) ==
  (<<1, "app">> :> Module("App", <<Fun("x", ps, r, b)>>, {"Cell"})) @@ (<<1, "Csv">> :> Csv)
Scopes == {Scoped(ps, Var("", "x"), b) : ps \in {{}, {"x"}}, b \in Bodies}

\* A refinement may name what the body does not, and so what is not read.
Refined == {Scoped(ps, r, b) : ps \in {{}, {"x"}}, r \in Forms(Leaves, Leaves),
                               b \in {Var("", "y"), Qualified("Csv", "x")}}

\* A file that holds a module of another name.
Misfiled == {(<<1, "app">> :> Uses("App", <<"Csv">>)) @@ (<<2, "csv">> :> Uses("MoneyBox", <<>>))}

MCDisks == Graphs3 \cup Scopes \cup Refined \cup Misfiled

\* What the proofs assume of the files (LoaderProofs, ProgramProofs) is so here.
ASSUME AsAssumed == Disks = MCDisks => Spelled /\ RootFound /\ Searched

\* csv.vibe holds `mod CSV`, and names itself.
Misspelled == {(<<1, "app">> :> Uses("App", <<"Csv">>))
                 @@ (<<1, "csv">> :> Uses("CSV", <<"Csv">>))}
MoreNames  == MCNames \cup {"CSV", "c_s_v"}
MoreSnakeCase(n) == IF n = "CSV" THEN "c_s_v" ELSE MCSnakeCase(n)
MoreSquash(n)    == IF n = "CSV" THEN "csv" ELSE MCSquash(n)
=============================================================================
