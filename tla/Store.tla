------------------------------- MODULE Store -------------------------------
(***************************************************************************)
(* What `vibe patch` and `vibe fmt` promise those who edit the files of a  *)
(* program: an edit happens at once, on the text its author last saw of    *)
(* the node it replaces, and only if the file then compiles.  Files are    *)
(* not locked, so the promise is to those whom no other edit of the file   *)
(* overtakes; who is overtaken, and by what, is part of it.                *)
(***************************************************************************)
EXTENDS Naturals, Sequences

CONSTANTS Agents, Files,
          Initial,           \* what the files say at first
          Paths,             \* [file, decl, part]: the nodes agents name
          Replacements(_),   \* the texts an agent may put in a node
          Current(_, _, _),  \* a node of a source says what it did
          Edited(_, _, _),   \* the source with another text in a node
          Trim(_),           \* what of the text is put there
          Alone(_),          \* the source compiles by itself
          Canon(_)           \* the canonical form of a source

VARIABLES text,    \* what each file says
          view,    \* the node each agent last saw, and what it said
          base,    \* the file each agent has taken to edit it, if any,
          open,    \* and is putting the edit into
          late     \* the agents whose edit is overtaken

storeVars == <<text, view, base, open, late>>

\* What may become of node p, which said `old`.
Allowed(src, p, old) == {n \in Replacements(p) : Current(src, p, old) /\ Alone(Edited(src, p, n))}

\* An agent that has not looked yet can only guess.
Guess == [node |-> CHOOSE p \in Paths : TRUE, text |-> <<>>]

StoreInit ==
  /\ text \in Initial
  /\ view = [a \in Agents |-> Guess]
  /\ base = [a \in Agents |-> {}]
  /\ open = [a \in Agents |-> {}]
  /\ late = {}

\* An agent learns of a node, or gives up an edit; by the time it edits what it
\* learnt may be stale.
Look(a) ==
  /\ open[a] = {}
  /\ base' = [base EXCEPT ![a] = {}]
  /\ view' = [view EXCEPT ![a] = view'[a]]
  /\ late' = late \ {a}
  /\ UNCHANGED <<text, open>>

\* It takes a file, as it now is, to edit it.
Take(a, f) ==
  /\ base[a] = {} /\ base' = [base EXCEPT ![a] = {f}]
  /\ UNCHANGED <<text, view, open, late>>

At(f) == {a \in Agents : f \in open[a]}

\* The edit begins.  Nobody sees that, unless it is overtaken, as it is if
\* another one of the file is under way.
Open(a, f) ==
  /\ f \in base[a]
  /\ open[a] = {} /\ open' = [open EXCEPT ![a] = {f}]
  /\ late' = IF At(f) = {} THEN late ELSE late \cup {a}
  /\ UNCHANGED text \/ (a \in late' /\ text' = [text EXCEPT ![f] = <<>>])
  /\ UNCHANGED <<view, base>>

\* It ends, and whoever else has taken the file is overtaken.
Close(a, f) ==
  /\ f \in open[a] /\ open' = [open EXCEPT ![a] = {}]
  /\ base' = [base EXCEPT ![a] = {}]
  /\ late' = (late \cup {b \in Agents : f \in base[b]}) \ {a}

\* It ends as it should, once for all,
Edit(a) ==
  LET p == view[a].node IN
  /\ a \notin late /\ Close(a, p.file)
  /\ \E n \in Allowed(text[p.file], p, view[a].text) :
       /\ text' = [text EXCEPT ![p.file] = Edited(text[p.file], p, n)]
       /\ view' = [view EXCEPT ![a] = [node |-> p, text |-> Trim(n)]]

Format(a, f) ==
  /\ a \notin late /\ Close(a, f)
  /\ text' = [text EXCEPT ![f] = Canon(text[f])]
  /\ UNCHANGED view

\* or breaks off, and leaves a beginning of what it would have written, all of
\* it if it breaks off too late; nobody is told.
Rewritten(a, f) ==
  {Canon(text[f])} \cup {Edited(text[f], view[a].node, n) :
                           n \in Allowed(text[f], view[a].node, view[a].text)}

Lose(a, f) ==
  /\ a \notin late /\ Close(a, f)
  /\ \E s \in Rewritten(a, f) : \E n \in 0..Len(s) : text' = [text EXCEPT ![f] = SubSeq(s, 1, n)]
  /\ UNCHANGED view

\* What an edit that is overtaken makes of its file is anybody's guess; its
\* author is told that it went well.
Clobber(a, f) ==
  /\ a \in late /\ Close(a, f)
  /\ text' = [text EXCEPT ![f] = text'[f]]
  /\ view' = [view EXCEPT ![a] = view'[a]] /\ view'[a].node = view[a].node

StoreNext ==
  \E a \in Agents : \/ Look(a) \/ Edit(a)
                    \/ \E f \in Files : Take(a, f) \/ Open(a, f) \/ Format(a, f) \/ Lose(a, f) \/ Clobber(a, f)

StoreSpec == StoreInit /\ [][StoreNext]_storeVars
============================================================================
