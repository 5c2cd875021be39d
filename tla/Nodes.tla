------------------------------- MODULE Nodes -------------------------------
(***************************************************************************)
(* The addressable nodes of a source file, and replacing one of them       *)
(* (src/src/patch.rs).                                                     *)
(*                                                                         *)
(* A source is a sequence of tokens.  A declaration begins with a token    *)
(* that names it, in the first column; everything up to the next one       *)
(* belongs to it, comments too, except the newlines at its end.  A         *)
(* function has three nodes: the whole of it, its signature and its body.  *)
(***************************************************************************)
EXTENDS Integers, Sequences, FiniteSetsExt

NL == [k |-> "newline"]
SP == [k |-> "space"]
EQ == [k |-> "equals"]          \* a bare `=`: `==`, `<=` and the like are words
Note == [k |-> "comment"]
Word(n)    == [k |-> "word", n |-> n]
Decl(d, n) == [k |-> d, n |-> n]

DeclKinds == {"fun", "type", "ext", "exp"}
Parts     == {"whole", "sig", "body"}

\* Where the declarations of a source begin, and where the one at i ends.
Starts(src)     == {i \in DOMAIN src : src[i].k \in DeclKinds}
NextDecl(src, i) == Min({j \in Starts(src) : j > i} \cup {Len(src) + 1})
DeclEnd(src, i) == Max({j \in i..(NextDecl(src, i) - 1) : src[j] # NL})

\* The `=` that ends the head of the function at i: the first bare one.
Equals(src, i)  == {e \in i..DeclEnd(src, i) : src[e] = EQ}
Split(src, i)   == Min(Equals(src, i))
SigEnd(src, i)  == Max({j \in i..(Split(src, i) - 1) : src[j] \notin {NL, SP}})
BodyAt(src, i)  == Min({j \in (Split(src, i) + 1)..DeclEnd(src, i) : src[j] # SP}
                         \cup {DeclEnd(src, i) + 1})

Extent(first, last) == [first |-> first, last |-> last]
HasPart(src, i, part) == part = "whole" \/ (src[i].k = "fun" /\ Equals(src, i) # {})
\* Seeded fault: the body of a function runs to the end of the file.
PartOfToTheEnd(src, i, part) ==
  CASE part = "whole" -> Extent(i, DeclEnd(src, i))
    [] part = "sig"   -> Extent(i, SigEnd(src, i))
    [] part = "body"  -> Extent(BodyAt(src, i), Max({j \in DOMAIN src : src[j] # NL}))

PartOf(src, i, part) ==
  CASE part = "whole" -> Extent(i, DeclEnd(src, i))
    [] part = "sig"   -> Extent(i, SigEnd(src, i))
    [] part = "body"  -> Extent(BodyAt(src, i), DeclEnd(src, i))

\* The nodes that answer to a path; the first of them is meant.
NodesAt(src, decl, part) ==
  {PartOf(src, i, part) : i \in {s \in Starts(src) : src[s].n = decl /\ HasPart(src, s, part)}}
Has(src, decl, part)  == NodesAt(src, decl, part) # {}
Find(src, decl, part) == CHOOSE x \in NodesAt(src, decl, part) :
                           \A y \in NodesAt(src, decl, part) : x.first <= y.first

\* The text of a node.  Its hash stands for it: two texts with one 64-bit
\* hash are not told apart by the code, and are not modelled.
TextAt(src, decl, part) ==
  SubSeq(src, Find(src, decl, part).first, Find(src, decl, part).last)

\* The newlines at the end of a replacement are dropped.
Trim(new) == SubSeq(new, 1, Max({j \in DOMAIN new : new[j] # NL} \cup {0}))

Apply(src, decl, part, new) ==
  SubSeq(src, 1, Find(src, decl, part).first - 1)
    \o Trim(new)
    \o SubSeq(src, Find(src, decl, part).last + 1, Len(src))
============================================================================
