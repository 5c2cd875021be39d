------------------------------ MODULE MCPatch ------------------------------
(***************************************************************************)
(* Two agents, and a program of two files: Main, which calls Lib.f, and    *)
(* Lib, whose g calls f.                                                   *)
(***************************************************************************)
EXTENDS Patch, SequencesExt

CONSTANTS Main, Lib

\* The agents are alike.
Alike == Permutations(Agents)

Fun(n, t, body) == <<Decl("fun", n), Word(t), EQ>> \o body
Blank == <<NL, NL>>
Mod   == <<Word("mod"), NL, NL>>

MCInitial ==
  {(Main :> (Mod \o Fun("main", "A", <<Word("Lib.f")>>) \o <<NL>>)) @@
   (Lib  :> (Mod \o Fun("f", "A", <<Word("a")>>) \o <<NL, NL, Note, NL>>
                 \o Fun("g", "A", <<SP, Word("f")>>) \o <<NL>>))}

MCPaths == [file : {Main}, decl : {"main"}, part : {"body"}]
             \cup [file : {Lib}, decl : {"f"}, part : Parts]
             \cup [file : {Lib}, decl : {"g"}, part : {"body"}]

\* Texts of one node, and of more, or less, than one.
MCReplacements(p) ==
  CASE p.part = "body"  -> {<<Word("b")>>, <<Word("1"), NL>>,
                            <<Word("1")>> \o Blank \o Fun("h", "A", <<Word("a")>>)}
    [] p.part = "sig"   -> {<<Decl("fun", p.decl), Word("B")>>}
    [] p.part = "whole" -> {Fun(p.decl, "B", <<Word("b")>>), Fun("h", "A", <<Word("1")>>), <<>>}

(***************************************************************************)
(* Compiling, as far as these texts go: `1` is of any type, `a` and `b`    *)
(* are of type A and B, and a name has the type of the function it names.  *)
(***************************************************************************)
Tokens(src, i) == SelectSeq(SubSeq(src, i, DeclEnd(src, i)), LAMBDA t : t \notin {NL, SP, Note})

\* What a source declares: [n, t, w], the name, the type and the body.
Declared(src) == LET DeclAt(ts) == [ok |-> Len(ts) = 4 /\ ts[2].k = "word" /\ ts[3] = EQ /\ ts[4].k = "word",
                                    ts |-> ts]
                 IN  {DeclAt(Tokens(src, i)) : i \in Starts(src)}

Parses(src) ==
  /\ Len(src) > 1 /\ src[1] = Word("mod") /\ src[2] = NL
  /\ \A i \in DOMAIN src :
       /\ src[i].k = "fun" => src[i - 1] = NL
       /\ src[i] = Note /\ i < Len(src) => src[i + 1] = NL
  /\ \A d \in Declared(src) : d.ok
  /\ Cardinality({d.ts[1].n : d \in Declared(src)}) = Cardinality(Starts(src))

TypeOf(src, n) == {d.ts[2].n : d \in {c \in Declared(src) : c.ts[1].n = n}}

Fits(w, t, src, srcs) ==
  CASE w = "1"     -> TRUE
    [] w = "a"     -> t = "A"
    [] w = "b"     -> t = "B"
    [] w = "Lib.f" -> Lib \in DOMAIN srcs /\ t \in TypeOf(srcs[Lib], "f")
    [] OTHER       -> t \in TypeOf(src, w)

Compiles(srcs) ==
  \A f \in DOMAIN srcs : \A src \in {srcs[f]} :
    Parses(src) /\ \A d \in Declared(src) : Fits(d.ts[4].n, d.ts[2].n, src, srcs)

MCTogether(files) == \A srcs \in {files} : Compiles(srcs)
MCAlone(source) == \A src \in {source} : Compiles(Main :> src)
MCCanon(src) == SelectSeq(src, LAMBDA t : t # SP)
\* Nothing, some declarations, or all of it.
MCCuts(src)  == {0, Len(src)} \cup {i - 1 : i \in Starts(src)}
MCNames(src) == IF Word("Lib.f") \in ToSet(src) THEN {Lib} ELSE {}
============================================================================
