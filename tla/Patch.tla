------------------------------- MODULE Patch -------------------------------
(***************************************************************************)
(* `vibe patch` and `vibe fmt` run by several agents over the files of one *)
(* program (src/src/main.rs, do_patch and run).                            *)
(*                                                                         *)
(* A command reads the files of its program one after the other, decides   *)
(* on what it read, and writes one of them in place: the file is emptied   *)
(* and then filled, and the process may die, or the write fail, anywhere   *)
(* in between.  Nothing is locked: two commands may be at work on one file *)
(* in any order, and `late` keeps who is overtaken by another's write.     *)
(***************************************************************************)
EXTENDS Nodes

CONSTANTS Agents, Files, Initial, Paths, Replacements(_), Alone(_), Canon(_),
          Names(_),      \* the files a source names
          Together(_),   \* the files that were read are a program that compiles
          Cuts(_),       \* how much of a source a broken write may leave
          MaxCommands    \* bound: commands that are run

VARIABLES disk,   \* what each file holds
          view,   \* the node each agent last saw, and what it said
          pc,     \* "idle", "reading", "writing"
          cmd,    \* the command each agent runs
          got,    \* the files it has read so far
          out,    \* what it writes into the file, and what it then prints
          ran,    \* how many commands have been run
          late    \* the agents that are overtaken: it says what happened, and
                  \* decides nothing

patchVars == <<disk, view, pc, cmd, got, out, ran, late>>

Edited(src, p, new)  == Apply(src, p.decl, p.part, new)
Current(src, p, old) == Has(src, p.decl, p.part) /\ TextAt(src, p.decl, p.part) = old

\* An agent that has not looked yet can only guess.
Guess == [node |-> CHOOSE p \in Paths : TRUE, text |-> <<>>]

\* What is done, and the file on the command line.  A patch is of the node
\* its agent last saw, with the hash it then saw; that node says which file
\* is written.  The node a look asks for, and the new text of a patch, are
\* chosen when they are first used.
Command == [do : {"look", "patch", "fmt"}, file : Files]
Idle    == [do |-> "look", file |-> Guess.node.file]
Nothing == [src |-> <<>>, view |-> Guess]

Init ==
  /\ disk \in Initial
  /\ view = [a \in Agents |-> Guess]
  /\ pc = [a \in Agents |-> "idle"]
  /\ cmd = [a \in Agents |-> Idle]
  /\ got = [a \in Agents |-> <<>>]
  /\ out = [a \in Agents |-> Nothing]
  /\ ran = 0
  /\ late = {}

\* The file a command writes, if it writes one.
Target(a, c) == IF c.do = "patch" THEN view[a].node.file ELSE c.file
File(a)      == Target(a, cmd[a])
Writers(f)   == {a \in Agents : pc[a] = "writing" /\ File(a) = f}

Start(a) ==
  /\ pc[a] = "idle" /\ ran < MaxCommands
  /\ \E c \in Command : cmd' = [cmd EXCEPT ![a] = c]
  /\ pc'  = [pc EXCEPT ![a] = "reading"]
  /\ ran' = ran + 1
  /\ UNCHANGED <<disk, view, got, out, late>>

\* The process is gone, and what it knew with it.
End(a) ==
  /\ pc'  = [pc EXCEPT ![a] = "idle"]
  /\ cmd' = [cmd EXCEPT ![a] = Idle]
  /\ got' = [got EXCEPT ![a] = <<>>]
  /\ out' = [out EXCEPT ![a] = Nothing]
  /\ UNCHANGED ran

\* The files of a program are the one that was named and what they name.
Unread(a) == ({cmd[a].file} \cup UNION {Names(got[a][f]) : f \in DOMAIN got[a]}) \ DOMAIN got[a]

Read(a) ==
  /\ pc[a] = "reading"
  /\ \E f \in Unread(a) :
       got' = [got EXCEPT ![a] = [g \in DOMAIN got[a] \cup {f} |->
                                    IF g = f THEN disk[f] ELSE got[a][g]]]
  /\ UNCHANGED <<disk, view, pc, cmd, out, ran, late>>

\* Everything is read, and compiles.
Checked(a) == pc[a] = "reading" /\ Unread(a) = {} /\ Together(got[a])
Source(a)  == got[a][File(a)]

\* With no hash: print the node and its hash.
Report(a) ==
  /\ Checked(a) /\ cmd[a].do = "look"
  /\ \E p \in Paths :
       /\ p.file \in DOMAIN got[a]
       /\ Has(got[a][p.file], p.decl, p.part)
       /\ view' = [view EXCEPT ![a] = [node |-> p, text |-> TextAt(got[a][p.file], p.decl, p.part)]]
  /\ End(a) /\ late' = late \ {a} /\ UNCHANGED disk

\* Seeded fault: the hash is not compared.
PatchedUnseen(a) ==
  LET p == view[a].node IN
  /\ cmd[a].do = "patch"
  /\ File(a) \in DOMAIN got[a]
  /\ Has(Source(a), p.decl, p.part)
  /\ \E n \in Replacements(p) :
       /\ Alone(Edited(Source(a), p, n))
       /\ out' = [out EXCEPT ![a] = [src  |-> Edited(Source(a), p, n),
                                     view |-> [node |-> p, text |-> Trim(n)]]]

\* Seeded fault: the hash that is printed is of the new text as it was given.
PatchedUntrimmed(a) ==
  LET p == view[a].node IN
  /\ cmd[a].do = "patch"
  /\ File(a) \in DOMAIN got[a]
  /\ Current(Source(a), p, view[a].text)
  /\ \E n \in Replacements(p) :
       /\ Alone(Edited(Source(a), p, n))
       /\ out' = [out EXCEPT ![a] = [src  |-> Edited(Source(a), p, n),
                                     view |-> [node |-> p, text |-> n]]]

\* With one: the node must be there and say what its hash was taken of, and
\* the file must compile with the new node in it.
Patched(a) ==
  LET p == view[a].node IN
  /\ cmd[a].do = "patch"
  /\ File(a) \in DOMAIN got[a]
  /\ Current(Source(a), p, view[a].text)
  /\ \E n \in Replacements(p) :
       /\ Alone(Edited(Source(a), p, n))
       /\ out' = [out EXCEPT ![a] = [src  |-> Edited(Source(a), p, n),
                                     view |-> [node |-> p, text |-> Trim(n)]]]

Formatted(a) ==
  /\ cmd[a].do = "fmt"
  /\ Canon(Source(a)) # Source(a)
  /\ out' = [out EXCEPT ![a] = [src |-> Canon(Source(a)), view |-> view[a]]]

\* std::fs::write empties the file, whoever else is writing it,
Empty(a) ==
  /\ Checked(a) /\ (Patched(a) \/ Formatted(a))
  /\ pc'   = [pc EXCEPT ![a] = "writing"]
  /\ disk' = [disk EXCEPT ![File(a)] = <<>>]
  /\ late' = IF Writers(File(a)) = {} THEN late ELSE late \cup {a}
  /\ UNCHANGED <<view, cmd, got, ran>>

\* and writes from its beginning, over what somebody else may have put there.
Over(s, t)  == s \o SubSeq(t, Len(s) + 1, Len(t))
Put(a, s)   == disk' = [disk EXCEPT ![File(a)] = Over(s, disk[File(a)])]

\* Whoever has read the file to write it too is now late.
Taken       == [a \in Agents |-> IF cmd[a].do # "look" /\ File(a) \in DOMAIN got[a]
                                 THEN {File(a)} ELSE {}]
Overtake(a) == late' = (late \cup {b \in Agents : File(a) \in Taken[b]}) \ {a}

Fill(a) ==
  /\ pc[a] = "writing"
  /\ Put(a, out[a].src)
  /\ view' = [view EXCEPT ![a] = out[a].view]
  /\ End(a) /\ Overtake(a)

\* The disk is full, or the process is killed: some of it is written.
Break(a) ==
  /\ pc[a] = "writing"
  /\ \E n \in Cuts(out[a].src) \cap 0..Len(out[a].src) : Put(a, SubSeq(out[a].src, 1, n))
  /\ End(a) /\ Overtake(a) /\ UNCHANGED view

\* Refused, nothing to do, or killed before it wrote anything.
Leave(a) == pc[a] = "reading" /\ End(a) /\ late' = late \ {a} /\ UNCHANGED <<disk, view>>

Next == \E a \in Agents : \/ Start(a) \/ Read(a) \/ Report(a) \/ Empty(a)
                          \/ Fill(a) \/ Break(a) \/ Leave(a)

Spec == Init /\ [][Next]_patchVars

(***************************************************************************)
(* Properties.                                                             *)
(***************************************************************************)

\* Until a write that is not overtaken is over, the file still says what its
\* author read.
Prompt(f) == Writers(f) \ late
Said == [f \in Files |-> IF Prompt(f) = {} THEN disk[f] ELSE got[CHOOSE a \in Prompt(f) : TRUE][f]]

Opened == [a \in Agents |-> IF pc[a] = "writing" THEN {File(a)} ELSE {}]

S == INSTANCE Store WITH text <- Said, base <- Taken, open <- Opened

\* Whatever the agents do at the same time: an edit happens at once, on the text
\* its author last saw, and only if the file then compiles by itself; whoever
\* reads a file half written, and whatever breaks off.  Only an edit that another
\* one overtook, by ending on the file after its author had read it or by being
\* under way there when its author began to write, does what it likes to that
\* file (main.rs:344, do_patch).
Applied == S!StoreSpec

\* The new text is one node of the kind it replaces.
Whole(p, new) ==
  /\ p.part \in {"whole", "sig"} => Starts(new) = {1} /\ new[1].n = p.decl
  /\ p.part = "body" => Starts(new) = {} /\ new # <<>> /\ new[1] # SP
  /\ p.part = "sig" => new[1].k = "fun" /\ \A j \in DOMAIN new : new[j] \notin {EQ, SP}

\* Agent a puts in the place of a node of file f one of the same kind.
Patches(a, f) == /\ pc[a] = "writing" /\ cmd[a].do = "patch" /\ File(a) = f
                 /\ view'[a] = out[a].view /\ disk'[f] = out[a].src
                 /\ Whole(view'[a].node, view'[a].text)

\* What agent a read of the other declarations of f they still say, and the
\* hashes of them are the same.
RestStays(a, f) == \A p \in Paths :
  p.file = f /\ p.decl # view[a].node.decl /\ Has(got[a][f], p.decl, p.part)
    => Current(disk'[f], p, TextAt(got[a][f], p.decl, p.part))

\* Agent a begins to write f, and is not overtaken.
Begins(a, f) == /\ pc[a] = "reading" /\ pc'[a] = "writing" /\ File(a) = f
                /\ a \notin late'

Keeps(a, f) == /\ Begins(a, f)  => disk[f] = got[a][f]
               /\ Patches(a, f) => RestStays(a, f)

\* A patch that gives a node one new text leaves every other declaration, and
\* the hashes agents hold of it, as its author read them; and the file it begins
\* to write holds what its author read, unless another's write overtakes it
\* (patch.rs:4, apply).
Kept == [][\A a \in Agents : \A f \in Files : Keeps(a, f)]_patchVars

\* The hash a patch prints is the one the next look at the node would print:
\* a caller can go on from it (main.rs:415).
ReadBack == [][\A a \in Agents : \A f \in Files : Patches(a, f) =>
                 Current(disk'[f], view'[a].node, view'[a].text)]_patchVars
============================================================================
