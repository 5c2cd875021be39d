---------------------------- MODULE PatchProofs ----------------------------
(***************************************************************************)
(* Every edit that no other one of its file overtakes happens at once: the *)
(* commands of `vibe patch` and `vibe fmt`, with all their reading,        *)
(* emptying, filling and breaking off, at work on one file or on several   *)
(* in any order, implement Store, for any agents, files, programs,         *)
(* compilers and disks.  Of a patch that puts one node in the place of     *)
(* another: the node then says what its author was told, and every other   *)
(* declaration says what its author read.                                  *)
(***************************************************************************)
EXTENDS Patch, NodesProofs

(***************************************************************************)
(* An edit of a source is a source.                                        *)
(***************************************************************************)
LEMMA EditIsSource ==
  ASSUME NEW T, NEW src \in Seq(T), NEW new \in Seq(T), NEW p, p.part \in Parts,
         Has(src, p.decl, p.part)
  PROVE  Edited(src, p, new) \in Seq(T)
<1> DEFINE x == Find(src, p.decl, p.part)
<1>1. x \in NodesAt(src, p.decl, p.part)
  BY FindIsNode
<1>2. x.first \in 1..(Len(src) + 1) /\ x.last \in 0..Len(src) /\ Len(src) \in Nat
  BY <1>1, NodeIsIn
<1> HIDE DEF x
<1>3. SubSeq(src, 1, x.first - 1) \in Seq(T)
  BY <1>2, SubSeqProperties
<1>4. SubSeq(src, x.last + 1, Len(src)) \in Seq(T)
  BY <1>2, SubSeqProperties
<1>5. Trim(new) \in Seq(T)
  BY TrimIsText
<1>6. SubSeq(src, 1, x.first - 1) \o Trim(new) \o SubSeq(src, x.last + 1, Len(src)) \in Seq(T)
  BY <1>3, <1>4, <1>5, ConcatProperties
<1>7. QED
  BY <1>6 DEF Edited, Apply, x

(***************************************************************************)
(* What agents hold, for sources that are sequences over T, whoever is at  *)
(* work on what.                                                           *)
(***************************************************************************)

\* What is given: files that hold sources, nodes that are in files, new texts
\* and a canonical form that are texts.  The compiler may be anything.
Given(T) ==
  /\ Initial \subseteq [Files -> Seq(T)]
  /\ Paths # {}
  /\ \A p \in Paths : p.file \in Files /\ p.part \in Parts /\ Replacements(p) \subseteq Seq(T)
  /\ \A s \in Seq(T) : Canon(s) \in Seq(T)

Types(T) ==
  /\ disk \in [Files -> Seq(T)]
  /\ view = [a \in Agents |-> view[a]]
  /\ \A a \in Agents : view[a].node \in Paths
  /\ pc \in [Agents -> {"idle", "reading", "writing"}]
  /\ cmd \in [Agents -> Command]
  /\ got = [a \in Agents |-> got[a]]
  /\ out = [a \in Agents |-> out[a]]
  /\ late \subseteq Agents

\* What is being written is an edit, by the rules, of what its author read.
Texts(p, src, old) == {n \in Replacements(p) : Current(src, p, old) /\ Alone(Edited(src, p, n))}

PatchReady(a) ==
  /\ cmd[a].do = "patch"
  /\ \E n \in Texts(view[a].node, Source(a), view[a].text) :
       out[a] = [src  |-> Edited(Source(a), view[a].node, n),
                 view |-> [node |-> view[a].node, text |-> Trim(n)]]

FormatReady(a) == cmd[a].do = "fmt" /\ out[a] = [src |-> Canon(Source(a)), view |-> view[a]]

\* A file holds a source, and so does what was read of it.
Held(T)  == \A a \in Agents : \A f \in Files \cap DOMAIN got[a] : got[a][f] \in Seq(T)
Ready(T) == \A a \in Agents : pc[a] = "writing" =>
              /\ Source(a) \in Seq(T) /\ File(a) \in DOMAIN got[a]
              /\ PatchReady(a) \/ FormatReady(a)
Drafts(T) == Types(T) /\ Held(T) /\ Ready(T)

\* What one agent does changes what it knows, and nobody else's.
Others(a) == \A b \in Agents \ {a} : /\ pc'[b] = pc[b]     /\ cmd'[b] = cmd[b] /\ view'[b] = view[b]
                                     /\ got'[b] = got[b] /\ out'[b] = out[b]

LEMMA GuessIsPath ==
  ASSUME NEW T, Given(T)
  PROVE  Guess.node \in Paths /\ Guess.node.file \in Files
BY DEF Given, Guess

LEMMA FileIsFile ==
  ASSUME NEW T, Given(T), Types(T), NEW a \in Agents
  PROVE  File(a) \in Files
BY DEF Given, Types, File, Target, Command

LEMMA OthersSame ==
  ASSUME NEW a \in Agents, Others(a), NEW b \in Agents \ {a}
  PROVE  /\ pc'[b] = pc[b] /\ cmd'[b] = cmd[b] /\ view'[b] = view[b] /\ got'[b] = got[b]
         /\ File(b)' = File(b) /\ Source(b)' = Source(b)
         /\ (PatchReady(b)' <=> PatchReady(b))
         /\ (FormatReady(b)' <=> FormatReady(b))
<1>1. /\ pc'[b] = pc[b] /\ cmd'[b] = cmd[b] /\ view'[b] = view[b]
      /\ got'[b] = got[b] /\ out'[b] = out[b]
  BY DEF Others
<1>2. File(b)' = File(b) /\ Source(b)' = Source(b)
  BY <1>1 DEF File, Target, Source
<1>3. PatchReady(b)' <=> PatchReady(b)
  BY <1>1, <1>2 DEF PatchReady
<1>4. FormatReady(b)' <=> FormatReady(b)
  BY <1>1, <1>2 DEF FormatReady
<1>5. QED
  BY <1>1, <1>2, <1>3, <1>4

\* What an agent knows and does does not change what the others hold.
LEMMA OthersHold ==
  ASSUME NEW T, Drafts(T), NEW a \in Agents, Others(a),
         \A f \in Files \cap DOMAIN got'[a] : got'[a][f] \in Seq(T),
         pc'[a] = "writing" => /\ Source(a)' \in Seq(T) /\ File(a)' \in DOMAIN got'[a]
                               /\ (PatchReady(a) \/ FormatReady(a))'
  PROVE  Held(T)' /\ Ready(T)'
<1>1. ASSUME NEW b \in Agents \ {a}
      PROVE  /\ \A f \in Files \cap DOMAIN got'[b] : got'[b][f] \in Seq(T)
             /\ pc'[b] = "writing" => /\ Source(b)' \in Seq(T) /\ File(b)' \in DOMAIN got'[b]
                                      /\ (PatchReady(b) \/ FormatReady(b))'
  <2>1. /\ pc'[b] = pc[b] /\ got'[b] = got[b] /\ Source(b)' = Source(b) /\ File(b)' = File(b)
        /\ (PatchReady(b)' <=> PatchReady(b)) /\ (FormatReady(b)' <=> FormatReady(b))
    BY OthersSame
  <2>2. \A f \in Files \cap DOMAIN got[b] : got[b][f] \in Seq(T)
    BY DEF Drafts, Held
  <2>3. pc[b] = "writing" => /\ Source(b) \in Seq(T) /\ File(b) \in DOMAIN got[b]
                            /\ (PatchReady(b) \/ FormatReady(b))
    BY DEF Drafts, Ready
  <2>4. QED
    BY <2>1, <2>2, <2>3
<1>2. \A b \in Agents : \A f \in Files \cap DOMAIN got'[b] : got'[b][f] \in Seq(T)
  BY <1>1
<1>3. \A b \in Agents : pc'[b] = "writing" =>
        /\ Source(b)' \in Seq(T) /\ File(b)' \in DOMAIN got'[b]
        /\ (PatchReady(b) \/ FormatReady(b))'
  BY <1>1
<1>4. QED
  BY <1>2, <1>3 DEF Held, Ready

\* A command that is over leaves a source.
LEMMA EndHolds ==
  ASSUME NEW T, Given(T), Drafts(T), NEW a \in Agents, End(a),
         NEW v, v.node \in Paths, view' = [view EXCEPT ![a] = v], disk' \in [Files -> Seq(T)],
         late' \subseteq Agents
  PROVE  Drafts(T)'
<1>1. Idle \in Command
  BY GuessIsPath DEF Idle, Command
<1>2. Types(T)' /\ Others(a)
  BY <1>1 DEF End, Drafts, Types, Others
<1>3. pc'[a] = "idle" /\ got'[a] = <<>>
  BY DEF End, Drafts, Types
<1>4. Files \cap DOMAIN got'[a] = {}
  BY <1>3
<1>5. Held(T)' /\ Ready(T)'
  BY <1>2, <1>3, <1>4, OthersHold
<1>6. QED
  BY <1>2, <1>5 DEF Drafts

\* What is written is a source, and so is what lies over an old one.
LEMMA DraftIsSource ==
  ASSUME NEW T, Given(T), Drafts(T), NEW a \in Agents, pc[a] = "writing"
  PROVE  out[a].src \in Seq(T) /\ out[a].view.node \in Paths
<1>1. Source(a) \in Seq(T) /\ (PatchReady(a) \/ FormatReady(a)) /\ view[a].node \in Paths
  BY DEF Drafts, Ready, Types
<1>2. CASE PatchReady(a)
  <2> DEFINE p == view[a].node
  <2>1. PICK n \in Texts(p, Source(a), view[a].text) :
          out[a] = [src |-> Edited(Source(a), p, n), view |-> [node |-> p, text |-> Trim(n)]]
    BY <1>2 DEF PatchReady
  <2>2. n \in Seq(T) /\ p.part \in Parts /\ Has(Source(a), p.decl, p.part)
    BY <1>1, <2>1 DEF Texts, Current, Given
  <2>3. Edited(Source(a), p, n) \in Seq(T)
    BY <1>1, <2>2, EditIsSource
  <2>4. QED
    BY <1>1, <2>1, <2>3
<1>3. CASE FormatReady(a)
  BY <1>1, <1>3 DEF FormatReady, Given
<1>4. QED
  BY <1>1, <1>2, <1>3

LEMMA OverIsSource ==
  ASSUME NEW T, NEW s \in Seq(T), NEW t \in Seq(T)
  PROVE  Over(s, t) \in Seq(T)
<1>1. Len(s) + 1 \in 1..(Len(s) + 1) /\ Len(t) \in Nat
  BY LenProperties
<1>2. SubSeq(t, Len(s) + 1, Len(t)) \in Seq(T)
  BY <1>1, SubSeqProperties
<1>3. QED
  BY <1>2, ConcatProperties DEF Over

\* What is then to be written was put together by the rules.
LEMMA EmptyPrepares ==
  ASSUME NEW T, Types(T), NEW a \in Agents, Empty(a)
  PROVE  PatchReady(a)' \/ FormatReady(a)'
<1>1. UNCHANGED <<view, cmd, got>> /\ (Patched(a) \/ Formatted(a))
  BY DEF Empty
<1>2. Source(a)' = Source(a)
  BY <1>1 DEF File, Target, Source
<1>3. ASSUME Patched(a) PROVE PatchReady(a)'
  <2> DEFINE p == view[a].node
  <2>1. PICK n \in Replacements(p) :
          /\ Alone(Edited(Source(a), p, n))
          /\ out' = [out EXCEPT ![a] = [src  |-> Edited(Source(a), p, n),
                                        view |-> [node |-> p, text |-> Trim(n)]]]
    BY <1>3 DEF Patched
  <2>2. n \in Texts(p, Source(a), view[a].text)
    BY <1>3, <2>1 DEF Patched, Texts
  <2>3. out'[a] = [src |-> Edited(Source(a), p, n), view |-> [node |-> p, text |-> Trim(n)]]
    BY <2>1 DEF Types
  <2>4. view'[a] = view[a] /\ cmd'[a] = cmd[a] /\ cmd[a].do = "patch"
    BY <1>1, <1>3 DEF Patched
  <2>5. QED
    BY <1>2, <2>2, <2>3, <2>4 DEF PatchReady
<1>4. ASSUME Formatted(a) PROVE FormatReady(a)'
  BY <1>1, <1>2, <1>4 DEF Formatted, FormatReady, Types
<1>5. QED
  BY <1>1, <1>3, <1>4

LEMMA DraftsInit ==
  ASSUME NEW T, Given(T), Init
  PROVE  Drafts(T)
<1>1. Types(T)
  BY GuessIsPath DEF Given, Init, Types, Idle, Command
<1>2. Held(T) /\ Ready(T)
  BY DEF Init, Held, Ready
<1>3. QED
  BY <1>1, <1>2 DEF Drafts

LEMMA DraftsStep ==
  ASSUME NEW T, Given(T), Drafts(T), [Next]_patchVars
  PROVE  Drafts(T)'
<1>1. ASSUME NEW a \in Agents, Start(a) PROVE Drafts(T)'
  <2>1. PICK c \in Command : cmd' = [cmd EXCEPT ![a] = c]
    BY <1>1 DEF Start
  <2>2. pc' = [pc EXCEPT ![a] = "reading"] /\ UNCHANGED <<disk, view, got, out, late>>
    BY <1>1 DEF Start
  <2>3. Types(T)' /\ Others(a) /\ pc'[a] = "reading" /\ got'[a] = got[a]
    BY <1>1, <2>1, <2>2 DEF Drafts, Types, Others
  <2>4. Held(T)' /\ Ready(T)'
    BY <1>1, <2>3, OthersHold DEF Drafts, Held
  <2>5. QED
    BY <2>3, <2>4 DEF Drafts
<1>2. ASSUME NEW a \in Agents, Read(a) PROVE Drafts(T)'
  <2>1. PICK f : got' = [got EXCEPT ![a] = [g \in DOMAIN got[a] \cup {f} |->
                                              IF g = f THEN disk[f] ELSE got[a][g]]]
    BY <1>2 DEF Read
  <2>2. pc[a] = "reading" /\ UNCHANGED <<disk, view, pc, cmd, out, late>>
    BY <1>2 DEF Read
  <2>3. Types(T)' /\ Others(a) /\ pc'[a] = "reading"
    BY <1>2, <2>1, <2>2 DEF Drafts, Types, Others
  <2>4. got'[a] = [g \in DOMAIN got[a] \cup {f} |-> IF g = f THEN disk[f] ELSE got[a][g]]
    BY <1>2, <2>1 DEF Drafts, Types
  <2>5. ASSUME NEW g \in Files \cap DOMAIN got'[a] PROVE got'[a][g] \in Seq(T)
    BY <1>2, <2>4 DEF Drafts, Types, Held
  <2>6. Held(T)' /\ Ready(T)'
    BY <1>2, <2>3, <2>5, OthersHold
  <2>7. QED
    BY <2>3, <2>6 DEF Drafts
<1>3. ASSUME NEW a \in Agents, Report(a) PROVE Drafts(T)'
  <2>1. PICK v : v.node \in Paths /\ view' = [view EXCEPT ![a] = v]
    <3>1. PICK p \in Paths :
            view' = [view EXCEPT ![a] = [node |-> p, text |-> TextAt(got[a][p.file], p.decl, p.part)]]
      BY <1>3 DEF Report
    <3>2. [node |-> p, text |-> TextAt(got[a][p.file], p.decl, p.part)].node \in Paths
      OBVIOUS
    <3>3. QED
      BY <3>1, <3>2
  <2>2. End(a) /\ disk' \in [Files -> Seq(T)] /\ late' \subseteq Agents
    BY <1>3 DEF Report, Drafts, Types
  <2>3. QED
    BY <1>3, <2>1, <2>2, EndHolds
<1>4. ASSUME NEW a \in Agents, Leave(a) PROVE Drafts(T)'
  <2>1. /\ End(a) /\ disk' \in [Files -> Seq(T)] /\ late' \subseteq Agents
        /\ view[a].node \in Paths /\ view' = [view EXCEPT ![a] = view[a]]
    BY <1>4 DEF Leave, Drafts, Types
  <2>2. QED
    BY <1>4, <2>1, EndHolds
<1>5. ASSUME NEW a \in Agents, Empty(a) PROVE Drafts(T)'
  <2>1. /\ pc[a] = "reading" /\ pc' = [pc EXCEPT ![a] = "writing"]
        /\ disk' = [disk EXCEPT ![File(a)] = <<>>] /\ UNCHANGED <<view, cmd, got>>
        /\ Patched(a) \/ Formatted(a)
        /\ cmd[a].file \in DOMAIN got[a]
    BY <1>5 DEF Empty, Checked, Unread
  <2>2. (\E o : out' = [out EXCEPT ![a] = o]) /\ late' \subseteq Agents
    BY <1>5, <2>1 DEF Patched, Formatted, Empty, Drafts, Types
  <2>3. Types(T)' /\ Others(a)
    <3>1. <<>> \in Seq(T)
      OBVIOUS
    <3>2. QED
      BY <1>5, <2>1, <2>2, <3>1 DEF Drafts, Types, Others
  <2>4. File(a) \in Files /\ File(a) \in DOMAIN got[a]
    BY <1>5, <2>1, FileIsFile DEF Drafts, Patched, Formatted, File, Target
  <2>5. Source(a) \in Seq(T) /\ Source(a)' = Source(a)
    BY <1>5, <2>1, <2>4 DEF Drafts, Held, Source, File, Target
  <2>6. (PatchReady(a) \/ FormatReady(a))'
    BY <1>5, EmptyPrepares DEF Drafts
  <2>7. \A f \in Files \cap DOMAIN got'[a] : got'[a][f] \in Seq(T)
    BY <1>5, <2>1 DEF Drafts, Held
  <2>8. File(a)' \in DOMAIN got'[a]
    BY <2>1, <2>4 DEF File, Target
  <2>9. Held(T)' /\ Ready(T)'
    BY <2>3, <2>5, <2>6, <2>7, <2>8, OthersHold
  <2>10. QED
    BY <2>3, <2>9 DEF Drafts
<1>6. ASSUME NEW a \in Agents, pc[a] = "writing", End(a),
             NEW s \in Seq(T), Put(a, s), Overtake(a),
             NEW v, v.node \in Paths, view' = [view EXCEPT ![a] = v]
      PROVE  Drafts(T)'
  <2>1. File(a) \in Files /\ disk \in [Files -> Seq(T)]
    BY <1>6, FileIsFile DEF Drafts, Types
  <2>2. Over(s, disk[File(a)]) \in Seq(T)
    BY <2>1, OverIsSource
  <2>3. disk' \in [Files -> Seq(T)]
    BY <1>6, <2>1, <2>2 DEF Put
  <2>4. late' \subseteq Agents
    BY <1>6 DEF Overtake, Drafts, Types
  <2>5. QED
    BY <1>6, <2>3, <2>4, EndHolds
<1>7. ASSUME NEW a \in Agents, Fill(a) PROVE Drafts(T)'
  BY <1>6, <1>7, DraftIsSource DEF Fill
<1>8. ASSUME NEW a \in Agents, Break(a) PROVE Drafts(T)'
  <2>1. PICK n \in 0..Len(out[a].src) : Put(a, SubSeq(out[a].src, 1, n))
    BY <1>8 DEF Break
  <2>2. /\ pc[a] = "writing" /\ End(a) /\ Overtake(a) /\ view' = [view EXCEPT ![a] = view[a]]
        /\ view[a].node \in Paths
    BY <1>8 DEF Break, Drafts, Types
  <2>3. SubSeq(out[a].src, 1, n) \in Seq(T)
    BY <1>8, <2>2, DraftIsSource, SubSeqProperties
  <2>4. QED
    BY <1>6, <2>1, <2>2, <2>3
<1>9. ASSUME UNCHANGED patchVars PROVE Drafts(T)'
  BY <1>9 DEF patchVars, Drafts, Types, Held, Ready, Source, File, Target, PatchReady, FormatReady
<1>10. QED
  BY <1>1, <1>2, <1>3, <1>4, <1>5, <1>7, <1>8, <1>9 DEF Next

(***************************************************************************)
(* The order they act in.                                                  *)
(***************************************************************************)

\* An agent that has read nothing is at work on nothing.
Unknowing == \A a \in Agents : pc[a] = "idle" => DOMAIN got[a] = {}

\* What an agent that is not late has read of the file it is to write is what
\* the file holds, but for what is being written there just now.
ToWrite(a) == pc[a] = "reading" /\ cmd[a].do # "look" /\ File(a) \in DOMAIN got[a]
UpToDate == \A a \in Agents \ late :
              ToWrite(a) /\ Writers(File(a)) = {} => Source(a) = disk[File(a)]

\* One at most of those who write a file is not late, and what it has emptied is
\* still empty.
OneWriter  == \A f \in Files : \A a, b \in Prompt(f) : a = b
StillEmpty == \A f \in Files : Prompt(f) # {} => disk[f] = <<>>

InOrder == Unknowing /\ UpToDate /\ OneWriter /\ StillEmpty
IInv(T) == Drafts(T) /\ InOrder

\* What a command was doing to files the others see as before, while it is not
\* writing.
LEMMA WritersSame ==
  ASSUME NEW a \in Agents, Others(a), late' \ {a} = late \ {a}, NEW f,
         a \notin Writers(f), a \notin Writers(f)'
  PROVE  Writers(f)' = Writers(f) /\ Prompt(f)' = Prompt(f)
<1>1. ASSUME NEW b \in Agents \ {a} PROVE b \in Writers(f)' <=> b \in Writers(f)
  BY OthersSame DEF Writers
<1>2. Writers(f)' = Writers(f)
  BY <1>1 DEF Writers
<1>3. QED
  BY <1>2 DEF Prompt

\* Who keeps off the disk keeps the order, if what it has read itself is in it.
LEMMA QuietKeeps ==
  ASSUME NEW T, IInv(T), NEW a \in Agents, Others(a), disk' = disk, late' \ {a} = late \ {a},
         pc[a] # "writing", pc'[a] # "writing",
         pc'[a] = "idle" => DOMAIN got'[a] = {},
         a \notin late' /\ ToWrite(a)' /\ Writers(File(a))' = {} => Source(a)' = disk[File(a)']
  PROVE  InOrder'
<1>1. ASSUME NEW f PROVE Writers(f)' = Writers(f) /\ Prompt(f)' = Prompt(f)
  <2>1. a \notin Writers(f) /\ a \notin Writers(f)'
    BY DEF Writers
  <2>2. QED
    BY <2>1, WritersSame
<1>2. OneWriter' /\ StillEmpty'
  BY <1>1 DEF IInv, InOrder, OneWriter, StillEmpty
<1>3. Unknowing'
  BY OthersSame DEF IInv, InOrder, Unknowing
<1>4. UpToDate'
  <2>1. ASSUME NEW b \in Agents \ {a}, b \notin late', ToWrite(b)', Writers(File(b))' = {}
        PROVE  Source(b)' = disk'[File(b)']
    <3>1. /\ ToWrite(b) /\ b \notin late /\ File(b)' = File(b) /\ Source(b)' = Source(b)
      BY <2>1, OthersSame DEF ToWrite
    <3>2. Writers(File(b)) = {}
      BY <1>1, <2>1, <3>1 DEF Writers
    <3>3. QED
      BY <3>1, <3>2 DEF IInv, InOrder, UpToDate
  <2>2. QED
    BY <2>1 DEF UpToDate
<1>5. QED
  BY <1>2, <1>3, <1>4 DEF InOrder

\* What the commands that keep off the disk do.
LEMMA QuietIsQuiet ==
  ASSUME NEW T, Given(T), IInv(T), NEW a \in Agents,
         Start(a) \/ Read(a) \/ Report(a) \/ Leave(a)
  PROVE  /\ Others(a) /\ disk' = disk /\ late' \ {a} = late \ {a}
         /\ pc[a] # "writing" /\ pc'[a] # "writing" /\ InOrder'
<1>1. /\ Others(a) /\ disk' = disk /\ late' \ {a} = late \ {a}
      /\ pc[a] # "writing" /\ pc'[a] # "writing"
  BY DEF Start, Read, Report, Leave, Checked, End, IInv, Drafts, Types, Others
<1>2. CASE Start(a)
  <2>1. pc[a] = "idle" /\ got'[a] = got[a] /\ DOMAIN got[a] = {}
    BY <1>2 DEF Start, IInv, InOrder, Unknowing
  <2>2. ~ToWrite(a)'
    BY <2>1 DEF ToWrite
  <2>3. QED
    BY <1>1, <2>1, <2>2, QuietKeeps
<1>3. CASE Read(a)
  <2>1. PICK f \in Unread(a) :
          got' = [got EXCEPT ![a] = [g \in DOMAIN got[a] \cup {f} |->
                                       IF g = f THEN disk[f] ELSE got[a][g]]]
    BY <1>3 DEF Read
  <2>2. pc[a] = "reading" /\ UNCHANGED <<disk, view, pc, cmd, out, late>>
    BY <1>3 DEF Read
  <2>3. got'[a] = [g \in DOMAIN got[a] \cup {f} |-> IF g = f THEN disk[f] ELSE got[a][g]]
    BY <2>1 DEF IInv, Drafts, Types
  <2>4. File(a)' = File(a)
    BY <2>2 DEF File, Target
  <2>5. ASSUME a \notin late', ToWrite(a)', Writers(File(a))' = {}
        PROVE  Source(a)' = disk[File(a)']
    <3>1. CASE File(a) = f
      BY <2>3, <2>4, <3>1 DEF Source
    <3>2. CASE File(a) # f
      <4>1. File(a) \in DOMAIN got[a] /\ got'[a][File(a)] = got[a][File(a)]
        BY <2>3, <2>4, <2>5, <3>2 DEF ToWrite
      <4>2. ToWrite(a) /\ a \notin late
        BY <2>2, <2>5, <4>1 DEF ToWrite, File, Target
      <4>3. Writers(File(a)) = {}
        BY <2>2, <2>5 DEF Writers, File, Target
      <4>4. QED
        BY <2>4, <4>1, <4>2, <4>3 DEF IInv, InOrder, UpToDate, Source
    <3>3. QED
      BY <3>1, <3>2
  <2>6. pc'[a] # "idle"
    BY <2>2
  <2>7. QED
    BY <1>1, <2>5, <2>6, QuietKeeps
<1>4. CASE Report(a) \/ Leave(a)
  <2>1. pc'[a] = "idle" /\ got'[a] = <<>>
    BY <1>4 DEF Report, Leave, End, IInv, Drafts, Types
  <2>2. DOMAIN got'[a] = {} /\ ~ToWrite(a)'
    BY <2>1 DEF ToWrite
  <2>3. QED
    BY <1>1, <2>2, QuietKeeps
<1>5. QED
  BY <1>1, <1>2, <1>3, <1>4

\* A file is emptied by one more writer, who is late if there was another.
LEMMA EmptyDoes ==
  ASSUME NEW T, Given(T), IInv(T), NEW a \in Agents, Empty(a), NEW f, f = File(a)
  PROVE  /\ Others(a) /\ f \in Files /\ ToWrite(a)
         /\ pc[a] = "reading" /\ pc'[a] = "writing"
         /\ UNCHANGED <<view, cmd, got>> /\ File(a)' = f /\ Source(a)' = Source(a)
         /\ disk' = [disk EXCEPT ![f] = <<>>]
         /\ Writers(f)' = Writers(f) \cup {a}
         /\ \A g : g # f => Writers(g)' = Writers(g) /\ Prompt(g)' = Prompt(g)
<1>1. /\ pc[a] = "reading" /\ pc' = [pc EXCEPT ![a] = "writing"]
      /\ disk' = [disk EXCEPT ![f] = <<>>] /\ UNCHANGED <<view, cmd, got>>
      /\ Patched(a) \/ Formatted(a)
      /\ cmd[a].file \in DOMAIN got[a]
      /\ late' \ {a} = late \ {a}
  BY DEF Empty, Checked, Unread
<1>2. \E o : out' = [out EXCEPT ![a] = o]
  BY <1>1 DEF Patched, Formatted
<1>3. Others(a) /\ pc'[a] = "writing"
  BY <1>1, <1>2 DEF IInv, Drafts, Types, Others
<1>4. f \in Files /\ ToWrite(a)
  BY <1>1, FileIsFile DEF IInv, Drafts, Patched, Formatted, File, Target, ToWrite
<1>5. File(a)' = f /\ Source(a)' = Source(a)
  BY <1>1 DEF File, Target, Source
<1>6. Writers(f)' = Writers(f) \cup {a}
  <2>1. ASSUME NEW b \in Agents \ {a} PROVE b \in Writers(f)' <=> b \in Writers(f)
    BY <1>3, OthersSame DEF Writers
  <2>2. a \in Writers(f)'
    BY <1>3, <1>5 DEF Writers
  <2>3. QED
    BY <2>1, <2>2 DEF Writers
<1>7. ASSUME NEW g, g # f PROVE Writers(g)' = Writers(g) /\ Prompt(g)' = Prompt(g)
  <2>1. a \notin Writers(g) /\ a \notin Writers(g)'
    BY <1>5, <1>7 DEF Writers
  <2>2. QED
    BY <1>1, <1>3, <2>1, WritersSame
<1>8. QED
  BY <1>1, <1>3, <1>4, <1>5, <1>6, <1>7

\* Who empties a file others are writing is late and leaves them prompt; who does
\* it alone is prompt if it was not late.
LEMMA EmptyIsPrompt ==
  ASSUME NEW T, Given(T), IInv(T), NEW a \in Agents, Empty(a), NEW f, f = File(a)
  PROVE  /\ a \in late' => Prompt(f)' = Prompt(f)
         /\ a \notin late' => Writers(f) = {} /\ a \notin late /\ Prompt(f)' = {a}
<1>1. /\ Writers(f)' = Writers(f) \cup {a} /\ pc[a] = "reading"
      /\ late' = IF Writers(f) = {} THEN late ELSE late \cup {a}
  BY EmptyDoes DEF Empty
<1>2. a \notin Writers(f)
  BY <1>1 DEF Writers
<1>3. QED
  BY <1>1, <1>2 DEF Prompt

LEMMA EmptyKeeps ==
  ASSUME NEW T, Given(T), IInv(T), NEW a \in Agents, Empty(a)
  PROVE  InOrder'
<1>1. PICK f : f = File(a)
  OBVIOUS
<1>2. /\ Others(a) /\ f \in Files
      /\ pc'[a] = "writing" /\ UNCHANGED <<view, cmd, got>>
      /\ disk' = [disk EXCEPT ![f] = <<>>]
      /\ Writers(f)' = Writers(f) \cup {a}
      /\ \A g : g # f => Writers(g)' = Writers(g) /\ Prompt(g)' = Prompt(g)
  BY <1>1, EmptyDoes
<1>3. disk'[f] = <<>> /\ (\A g \in Files \ {f} : disk'[g] = disk[g]) /\ late' \ {a} = late \ {a}
  BY <1>2 DEF IInv, Drafts, Types, Empty
<1>4. Unknowing'
  BY <1>2, OthersSame DEF IInv, InOrder, Unknowing
<1>5. UpToDate'
  <2>1. ASSUME NEW b \in Agents \ {a}, b \notin late', ToWrite(b)', Writers(File(b))' = {}
        PROVE  Source(b)' = disk'[File(b)']
    <3>1. ToWrite(b) /\ b \notin late /\ File(b)' = File(b) /\ Source(b)' = Source(b)
      BY <1>2, <1>3, <2>1, OthersSame DEF ToWrite
    <3>2. PICK g : g = File(b)
      OBVIOUS
    <3>3. Writers(g)' = {} /\ g \in Files
      BY <2>1, <3>1, <3>2, FileIsFile DEF IInv, Drafts, Writers
    <3>4. Writers(g) = {} /\ disk'[g] = disk[g]
      BY <1>2, <1>3, <3>3
    <3>5. QED
      BY <3>1, <3>2, <3>4 DEF IInv, InOrder, UpToDate
  <2>2. QED
    BY <1>2, <2>1 DEF UpToDate, ToWrite
<1>6. \A g \in Files : \A b, c \in Prompt(g)' : b = c
  <2>1. ASSUME NEW g \in Files PROVE \A b, c \in Prompt(g)' : b = c
    <3>1. \A x, y \in Prompt(g) : x = y
      BY DEF IInv, InOrder, OneWriter
    <3>2. Prompt(g)' = Prompt(g) \/ Prompt(g)' = {a}
      BY <1>1, <1>2, EmptyIsPrompt
    <3>3. QED
      BY <3>1, <3>2
  <2>2. QED
    BY <2>1
<1>7. \A g \in Files : Prompt(g)' # {} => disk'[g] = <<>>
  BY <1>2, <1>3 DEF IInv, InOrder, StillEmpty
<1>8. QED
  BY <1>4, <1>5, <1>6, <1>7 DEF InOrder, OneWriter, StillEmpty

\* What is written over a file that is empty is all that is in it.
LEMMA OverNothing ==
  ASSUME NEW T, NEW s \in Seq(T)
  PROVE  Over(s, <<>>) = s
<1>1. Len(s) \in Nat /\ Len(<<>>) = 0 /\ <<>> \in Seq(T)
  OBVIOUS
<1>2. Len(s) + 1 > 0
  BY <1>1
<1>3. SubSeq(<<>>, Len(s) + 1, 0) = <<>>
  BY <1>1, <1>2, SubSeqEmpty
<1>4. s \o <<>> = s
  BY <1>1, ConcatEmptySeq
<1>5. QED
  BY <1>1, <1>3, <1>4 DEF Over

\* What filling a file and breaking off have in common.
Closes(a, f, s) == /\ pc[a] = "writing" /\ File(a) = f
                   /\ Put(a, s) /\ End(a) /\ Overtake(a)
                   /\ \E v : view' = [view EXCEPT ![a] = v]

\* A write that is over leaves nobody prompt in its file: whoever else writes it
\* is late, and so is whoever has read it to write it.
LEMMA CloseDoes ==
  ASSUME NEW T, Given(T), IInv(T), NEW a \in Agents, NEW f, NEW s \in Seq(T), Closes(a, f, s)
  PROVE  /\ Others(a) /\ f \in Files /\ pc'[a] = "idle" /\ DOMAIN got'[a] = {}
         /\ disk' = [disk EXCEPT ![f] = Over(s, disk[f])]
         /\ \A b \in Agents \ {a} : ToWrite(b) /\ File(b) = f => b \in late'
         /\ a \notin late' /\ late \ {a} \subseteq late'
         /\ Prompt(f)' = {}
         /\ \A g : g # f => Writers(g)' = Writers(g) /\ Prompt(g)' = Prompt(g)
<1>1. Others(a) /\ pc'[a] = "idle" /\ DOMAIN got'[a] = {}
  BY DEF Closes, End, IInv, Drafts, Types, Others
<1>2. f \in Files /\ disk' = [disk EXCEPT ![f] = Over(s, disk[f])]
  BY FileIsFile DEF Closes, IInv, Drafts, Put
<1>3. ASSUME NEW b \in Agents \ {a}, pc[b] = "writing" \/ ToWrite(b), File(b) = f
      PROVE  b \in late'
  <2>1. cmd[b].do # "look" /\ File(b) \in DOMAIN got[b]
    BY <1>3 DEF IInv, Drafts, Ready, PatchReady, FormatReady, ToWrite
  <2>2. f \in Taken[b]
    BY <1>3, <2>1 DEF Taken
  <2>3. QED
    BY <2>2 DEF Closes, Overtake
<1>4. a \notin late' /\ late \ {a} \subseteq late'
  BY DEF Closes, Overtake
<1>5. ASSUME NEW b \in Agents \ {a}, File(b) # f PROVE b \in late' <=> b \in late
  <2>1. f \notin Taken[b]
    BY <1>5 DEF Taken
  <2>2. QED
    BY <2>1 DEF Closes, Overtake
<1>6. ASSUME NEW g, NEW b \in Agents \ {a} PROVE b \in Writers(g)' <=> b \in Writers(g)
  BY <1>1, OthersSame DEF Writers
<1>7. \A g : a \notin Writers(g)'
  BY <1>1 DEF Writers
<1>8. Prompt(f)' = {}
  <2>1. ASSUME NEW b \in Writers(f)' PROVE b \in late'
    <3>1. b \in Agents \ {a} /\ b \in Writers(f)
      BY <1>6, <1>7 DEF Writers
    <3>2. pc[b] = "writing" /\ File(b) = f
      BY <3>1 DEF Writers
    <3>3. QED
      BY <1>3, <3>1, <3>2
  <2>2. QED
    BY <2>1 DEF Prompt
<1>9. ASSUME NEW g, g # f PROVE Writers(g)' = Writers(g) /\ Prompt(g)' = Prompt(g)
  <2>1. a \notin Writers(g)
    BY <1>9 DEF Closes, Writers
  <2>2. Writers(g)' = Writers(g)
    BY <1>6, <1>7, <2>1 DEF Writers
  <2>3. \A b \in Writers(g) : b \in Agents \ {a} /\ File(b) # f
    BY <1>9, <2>1 DEF Writers
  <2>4. QED
    BY <1>5, <2>2, <2>3 DEF Prompt
<1>10. QED
  BY <1>1, <1>2, <1>3, <1>4, <1>8, <1>9

LEMMA CloseKeeps ==
  ASSUME NEW T, Given(T), IInv(T), NEW a \in Agents, NEW f, NEW s \in Seq(T), Closes(a, f, s)
  PROVE  InOrder'
<1>1. /\ Others(a) /\ f \in Files /\ pc'[a] = "idle" /\ DOMAIN got'[a] = {}
      /\ disk' = [disk EXCEPT ![f] = Over(s, disk[f])]
      /\ \A b \in Agents \ {a} : ToWrite(b) /\ File(b) = f => b \in late'
      /\ a \notin late' /\ late \ {a} \subseteq late'
      /\ Prompt(f)' = {}
      /\ \A g : g # f => Writers(g)' = Writers(g) /\ Prompt(g)' = Prompt(g)
  BY CloseDoes
<1>2. \A g \in Files \ {f} : disk'[g] = disk[g]
  BY <1>1 DEF IInv, Drafts, Types
<1>3. Unknowing'
  BY <1>1, OthersSame DEF IInv, InOrder, Unknowing
<1>4. UpToDate'
  <2>1. ASSUME NEW b \in Agents \ {a}, b \notin late', ToWrite(b)', Writers(File(b))' = {}
        PROVE  Source(b)' = disk'[File(b)']
    <3>1. ToWrite(b) /\ b \notin late /\ File(b)' = File(b) /\ Source(b)' = Source(b)
      BY <1>1, <2>1, OthersSame DEF ToWrite
    <3>2. PICK g : g = File(b)
      OBVIOUS
    <3>3. Writers(g)' = {} /\ g \in Files /\ g # f
      BY <1>1, <2>1, <3>1, <3>2, FileIsFile DEF IInv, Drafts, Writers
    <3>4. Writers(g) = {} /\ disk'[g] = disk[g]
      BY <1>1, <1>2, <3>3
    <3>5. QED
      BY <3>1, <3>2, <3>4 DEF IInv, InOrder, UpToDate
  <2>2. QED
    BY <1>1, <2>1 DEF UpToDate, ToWrite
<1>5. \A g \in Files : /\ \A x, y \in Prompt(g)' : x = y
                       /\ Prompt(g)' # {} => disk'[g] = <<>>
  <2>1. ASSUME NEW g \in Files \ {f} PROVE Prompt(g)' = Prompt(g) /\ disk'[g] = disk[g]
    BY <1>1, <1>2
  <2>2. ASSUME NEW g \in Files
        PROVE  (\A x, y \in Prompt(g) : x = y) /\ (Prompt(g) # {} => disk[g] = <<>>)
    BY DEF IInv, InOrder, OneWriter, StillEmpty
  <2>3. QED
    BY <1>1, <2>1, <2>2
<1>6. QED
  BY <1>3, <1>4, <1>5 DEF InOrder, OneWriter, StillEmpty

\* Filling a file and breaking off are both that.
LEMMA FillCloses ==
  ASSUME NEW T, Given(T), IInv(T), NEW a \in Agents, Fill(a)
  PROVE  /\ out[a].src \in Seq(T) /\ Closes(a, File(a), out[a].src)
         /\ view' = [view EXCEPT ![a] = out[a].view]
BY DraftIsSource DEF Fill, IInv, Closes

LEMMA BreakCloses ==
  ASSUME NEW T, Given(T), IInv(T), NEW a \in Agents, Break(a)
  PROVE  /\ view' = view
         /\ \E n \in 0..Len(out[a].src) : /\ SubSeq(out[a].src, 1, n) \in Seq(T)
                                          /\ Closes(a, File(a), SubSeq(out[a].src, 1, n))
<1>1. /\ pc[a] = "writing" /\ End(a) /\ Overtake(a)
      /\ view' = view /\ view' = [view EXCEPT ![a] = view[a]]
  BY DEF Break, IInv, Drafts, Types
<1>2. PICK n \in 0..Len(out[a].src) : Put(a, SubSeq(out[a].src, 1, n))
  BY DEF Break
<1>3. out[a].src \in Seq(T)
  BY <1>1, DraftIsSource DEF IInv
<1>4. SubSeq(out[a].src, 1, n) \in Seq(T)
  BY <1>3, SubSeqProperties
<1>5. QED
  BY <1>1, <1>2, <1>4 DEF Closes

LEMMA StepInvariant ==
  ASSUME NEW T, Given(T), IInv(T), [Next]_patchVars
  PROVE  IInv(T)'
<1>1. Drafts(T)'
  BY DraftsStep DEF IInv
<1>2. ASSUME NEW a \in Agents, Start(a) \/ Read(a) \/ Report(a) \/ Leave(a) PROVE InOrder'
  BY <1>2, QuietIsQuiet
<1>3. ASSUME NEW a \in Agents, Empty(a) PROVE InOrder'
  BY <1>3, EmptyKeeps
<1>4. ASSUME NEW a \in Agents, Fill(a) PROVE InOrder'
  BY <1>4, FillCloses, CloseKeeps
<1>5. ASSUME NEW a \in Agents, Break(a) PROVE InOrder'
  BY <1>5, BreakCloses, CloseKeeps
<1>6. ASSUME UNCHANGED patchVars PROVE InOrder'
  <2>1. /\ UNCHANGED <<disk, view, pc, cmd, got, late>>
        /\ \A a : File(a)' = File(a) /\ Source(a)' = Source(a)
    BY <1>6 DEF patchVars, File, Target, Source
  <2>2. \A f : Writers(f)' = Writers(f) /\ Prompt(f)' = Prompt(f)
    BY <2>1 DEF Writers, Prompt
  <2>3. Unknowing' /\ OneWriter' /\ StillEmpty'
    BY <2>1, <2>2 DEF IInv, InOrder, Unknowing, OneWriter, StillEmpty
  <2>4. UpToDate'
    BY <2>1 DEF IInv, InOrder, UpToDate, ToWrite, Writers
  <2>5. QED
    BY <2>3, <2>4 DEF InOrder
<1>7. InOrder'
  BY <1>2, <1>3, <1>4, <1>5, <1>6 DEF Next
<1>8. QED
  BY <1>1, <1>7 DEF IInv

LEMMA InitInvariant ==
  ASSUME NEW T, Given(T), Init
  PROVE  IInv(T)
<1>1. \A a \in Agents : pc[a] = "idle" /\ DOMAIN got[a] = {}
  BY DEF Init
<1>2. \A f \in Files : Prompt(f) = {}
  BY <1>1 DEF Prompt, Writers
<1>3. InOrder
  BY <1>1, <1>2 DEF InOrder, Unknowing, UpToDate, OneWriter, StillEmpty, ToWrite
<1>4. QED
  BY <1>3, DraftsInit DEF IInv

(***************************************************************************)
(* Every step is a step of the abstract store, or none.                    *)
(***************************************************************************)

\* A file that is on the disk as it was, and has the same prompt writers, says
\* what it said.
LEMMA SaidSame ==
  ASSUME NEW f \in Files, disk'[f] = disk[f], Prompt(f)' = Prompt(f),
         \A b \in Prompt(f) : got'[b] = got[b]
  PROVE  Said'[f] = Said[f]
<1>1. CASE Prompt(f) = {}
  BY <1>1 DEF Said
<1>2. CASE Prompt(f) # {}
  <2> DEFINE w == CHOOSE w \in Prompt(f) : TRUE
  <2>1. w \in Prompt(f)
    BY <1>2
  <2>2. got'[w] = got[w]
    BY <2>1
  <2>3. Said[f] = got[w][f]
    BY <1>2 DEF Said
  <2>4. Said'[f] = got'[w][f]
    BY <1>2 DEF Said
  <2>5. QED
    BY <2>2, <2>3, <2>4
<1>3. QED
  BY <1>1, <1>2

\* Where all files but one say what they said, only that one has changed.
LEMMA SaidBut ==
  ASSUME NEW f \in Files, \A g \in Files : g # f => Said'[g] = Said[g]
  PROVE  /\ Said' = [Said EXCEPT ![f] = Said'[f]]
         /\ Said'[f] = Said[f] => Said' = Said
<1>1. DOMAIN Said = Files /\ Said = [g \in Files |-> Said[g]]
  BY DEF Said
<1>2. DOMAIN Said' = Files /\ Said' = [g \in Files |-> Said'[g]]
  BY DEF Said
<1>3. QED
  BY <1>1, <1>2

\* A file that is being written says what its author read, if that is not late.
LEMMA PromptSays ==
  ASSUME NEW T, IInv(T), NEW f \in Files, NEW a \in Prompt(f)
  PROVE  Said[f] = got[a][f]
<1>1. Prompt(f) # {} /\ (CHOOSE b \in Prompt(f) : TRUE) = a
  BY DEF IInv, InOrder, OneWriter
<1>2. QED
  BY <1>1 DEF Said

\* To start, to read, to report and to leave change nothing that is said, and
\* open and close nothing.
LEMMA QuietSays ==
  ASSUME NEW T, Given(T), IInv(T), NEW a \in Agents,
         Start(a) \/ Read(a) \/ Report(a) \/ Leave(a)
  PROVE  Said' = Said /\ Opened' = Opened /\ Opened[a] = {}
<1>1. /\ Others(a) /\ disk' = disk /\ late' \ {a} = late \ {a}
      /\ pc[a] # "writing" /\ pc'[a] # "writing"
  BY QuietIsQuiet
<1>2. ASSUME NEW f \in Files PROVE Said'[f] = Said[f]
  <2>1. a \notin Writers(f) /\ a \notin Writers(f)'
    BY <1>1 DEF Writers
  <2>2. Prompt(f)' = Prompt(f)
    BY <1>1, <2>1, WritersSame
  <2>3. \A b \in Prompt(f) : got'[b] = got[b]
    BY <1>1, <2>1 DEF Prompt, Writers, Others
  <2>4. QED
    BY <1>1, <2>2, <2>3, SaidSame
<1>3. Opened[a] = {} /\ \A b \in Agents : Opened'[b] = Opened[b]
  BY <1>1, OthersSame DEF Opened
<1>4. QED
  BY <1>2, <1>3 DEF Said, Opened

\* Nobody takes a file for another.
LEMMA TakenSame ==
  ASSUME NEW a \in Agents, Others(a)
  PROVE  Taken' = [Taken EXCEPT ![a] = Taken'[a]]
<1>1. ASSUME NEW b \in Agents \ {a} PROVE Taken'[b] = Taken[b]
  <2>1. cmd'[b] = cmd[b] /\ got'[b] = got[b] /\ File(b)' = File(b)
    BY OthersSame
  <2>2. QED
    BY <2>1 DEF Taken
<1>2. QED
  BY <1>1 DEF Taken

\* To start is not seen.
LEMMA StartIsNone ==
  ASSUME NEW T, Given(T), IInv(T), NEW a \in Agents, Start(a)
  PROVE  UNCHANGED S!storeVars
<1>1. Said' = Said /\ Opened' = Opened /\ Others(a)
  BY QuietSays, QuietIsQuiet
<1>2. pc[a] = "idle" /\ UNCHANGED <<view, got, late>>
  BY DEF Start
<1>3. DOMAIN got[a] = {}
  BY <1>2 DEF IInv, InOrder, Unknowing
<1>4. Taken'[a] = {} /\ Taken[a] = {}
  BY <1>2, <1>3 DEF Taken
<1>5. Taken' = Taken
  BY <1>1, <1>4, TakenSame DEF Taken
<1>6. QED
  BY <1>1, <1>2, <1>5 DEF S!storeVars

\* To read takes the file that is to be written.
LEMMA ReadIsTakeOrNone ==
  ASSUME NEW T, Given(T), IInv(T), NEW a \in Agents, Read(a)
  PROVE  UNCHANGED S!storeVars \/ \E f \in Files : S!Take(a, f)
<1>1. Said' = Said /\ Opened' = Opened /\ Others(a)
  BY QuietSays, QuietIsQuiet
<1>2. UNCHANGED <<view, cmd, late>>
  BY DEF Read
<1>3. Taken' = [Taken EXCEPT ![a] = Taken'[a]]
  BY <1>1, TakenSame
<1>4. PICK f : f = File(a)
  OBVIOUS
<1>5. f \in Files /\ File(a)' = f
  BY <1>2, <1>4, FileIsFile DEF IInv, Drafts, File, Target
<1>6. DOMAIN got[a] \subseteq DOMAIN got'[a]
  <2>1. PICK g : got' = [got EXCEPT ![a] = [h \in DOMAIN got[a] \cup {g} |->
                                              IF h = g THEN disk[g] ELSE got[a][h]]]
    BY DEF Read
  <2>2. QED
    BY <2>1 DEF IInv, Drafts, Types
<1>7. Taken'[a] = Taken[a] \/ (Taken[a] = {} /\ Taken'[a] = {f})
  BY <1>2, <1>4, <1>5, <1>6 DEF Taken
<1>8. CASE Taken'[a] = Taken[a]
  <2>1. Taken' = Taken
    BY <1>3, <1>8 DEF Taken
  <2>2. QED
    BY <1>1, <1>2, <2>1 DEF S!storeVars
<1>9. CASE Taken[a] = {} /\ Taken'[a] = {f}
  <2>1. S!Take(a, f)
    BY <1>1, <1>2, <1>3, <1>9 DEF S!Take
  <2>2. QED
    BY <1>5, <2>1
<1>10. QED
  BY <1>7, <1>8, <1>9

\* To report and to leave is to look.
LEMMA ReportIsLook ==
  ASSUME NEW T, Given(T), IInv(T), NEW a \in Agents, Report(a) \/ Leave(a)
  PROVE  S!Look(a)
<1>1. Said' = Said /\ Opened' = Opened /\ Opened[a] = {} /\ Others(a)
  BY QuietSays, QuietIsQuiet
<1>2. view' = [view EXCEPT ![a] = view'[a]] /\ late' = late \ {a} /\ got'[a] = <<>>
  BY DEF Report, Leave, End, IInv, Drafts, Types
<1>3. Taken'[a] = {}
  BY <1>2 DEF Taken
<1>4. Taken' = [Taken EXCEPT ![a] = {}]
  BY <1>1, <1>3, TakenSame
<1>5. QED
  BY <1>1, <1>2, <1>4 DEF S!Look

\* Who has a file open is who writes it.
LEMMA WritersHaveOpen ==
  ASSUME NEW f
  PROVE  S!At(f) = Writers(f)
BY DEF S!At, Opened, Writers

\* What an agent opens and closes, the others do not.
LEMMA OpenedSame ==
  ASSUME NEW a \in Agents, Others(a)
  PROVE  Opened' = [Opened EXCEPT ![a] = Opened'[a]]
<1>1. ASSUME NEW b \in Agents \ {a} PROVE Opened'[b] = Opened[b]
  <2>1. pc'[b] = pc[b] /\ File(b)' = File(b)
    BY OthersSame
  <2>2. QED
    BY <2>1 DEF Opened
<1>2. QED
  BY <1>1 DEF Opened

\* To empty a file opens it, and is not seen unless it is late.
LEMMA EmptyIsOpen ==
  ASSUME NEW T, Given(T), IInv(T), NEW a \in Agents, Empty(a), NEW f, f = File(a)
  PROVE  S!Open(a, f)
<1>1. /\ Others(a) /\ f \in Files /\ ToWrite(a)
      /\ pc[a] = "reading" /\ pc'[a] = "writing"
      /\ UNCHANGED <<view, cmd, got>> /\ File(a)' = f /\ Source(a)' = Source(a)
      /\ disk' = [disk EXCEPT ![f] = <<>>]
      /\ \A g : g # f => Writers(g)' = Writers(g) /\ Prompt(g)' = Prompt(g)
  BY EmptyDoes
<1>2. Opened[a] = {} /\ Opened' = [Opened EXCEPT ![a] = {f}]
  <2>1. Opened[a] = {} /\ Opened'[a] = {f}
    BY <1>1 DEF Opened
  <2>2. QED
    BY <1>1, <2>1, OpenedSame
<1>3. f \in Taken[a] /\ Taken' = Taken
  <2>1. f \in Taken[a] /\ Taken'[a] = Taken[a]
    BY <1>1 DEF Taken, ToWrite
  <2>2. QED
    BY <1>1, <2>1, TakenSame DEF Taken
<1>4. late' = IF S!At(f) = {} THEN late ELSE late \cup {a}
  BY WritersHaveOpen DEF Empty
<1>5. ASSUME NEW g \in Files, g # f PROVE Said'[g] = Said[g]
  <2>1. disk'[g] = disk[g] /\ Prompt(g)' = Prompt(g) /\ got' = got
    BY <1>1, <1>5 DEF IInv, Drafts, Types
  <2>2. QED
    BY <2>1, SaidSame
<1>6. Said'[f] = Said[f] \/ (a \in late' /\ Said'[f] = <<>>)
  <2>1. CASE a \notin late'
    <3>1. Writers(f) = {} /\ a \notin late /\ Prompt(f)' = {a}
      BY <2>1, EmptyIsPrompt
    <3>2. Said'[f] = Source(a)
      BY <1>1, <3>1 DEF Said, Source
    <3>3. Said[f] = disk[f]
      BY <1>1, <3>1 DEF Said, Prompt
    <3>4. QED
      BY <1>1, <3>1, <3>2, <3>3 DEF IInv, InOrder, UpToDate
  <2>2. CASE a \in late'
    <3>1. Prompt(f)' = Prompt(f) /\ disk'[f] = <<>>
      BY <1>1, <2>2, EmptyIsPrompt DEF IInv, Drafts, Types
    <3>2. CASE Prompt(f) = {}
      BY <1>1, <2>2, <3>1, <3>2 DEF Said
    <3>3. CASE Prompt(f) # {}
      <4>1. disk[f] = <<>>
        BY <1>1, <3>3 DEF IInv, InOrder, StillEmpty
      <4>2. QED
        BY <1>1, <3>1, <4>1, SaidSame
    <3>4. QED
      BY <3>2, <3>3
  <2>3. QED
    BY <2>1, <2>2
<1>7. Said' = Said \/ (a \in late' /\ Said' = [Said EXCEPT ![f] = <<>>])
  BY <1>1, <1>5, <1>6, SaidBut
<1>8. QED
  BY <1>1, <1>2, <1>3, <1>4, <1>7 DEF S!Open

\* To fill it and to break off close it, and change what it says and nothing else.
LEMMA CloseIsClose ==
  ASSUME NEW T, Given(T), IInv(T), NEW a \in Agents, NEW f, NEW s \in Seq(T), Closes(a, f, s)
  PROVE  /\ f \in Files /\ S!Close(a, f)
         /\ Said' = [Said EXCEPT ![f] = Said'[f]]
         /\ a \notin late => Said[f] = Source(a) /\ Said'[f] = s
<1>1. /\ Others(a) /\ f \in Files /\ pc'[a] = "idle" /\ DOMAIN got'[a] = {}
      /\ disk' = [disk EXCEPT ![f] = Over(s, disk[f])]
      /\ Prompt(f)' = {}
      /\ \A g : g # f => Writers(g)' = Writers(g) /\ Prompt(g)' = Prompt(g)
  BY CloseDoes
<1>2. Said' = [Said EXCEPT ![f] = Said'[f]]
  <2>1. ASSUME NEW g \in Files, g # f PROVE Said'[g] = Said[g]
    <3>1. disk'[g] = disk[g] /\ Prompt(g)' = Prompt(g)
      BY <1>1, <2>1 DEF IInv, Drafts, Types
    <3>2. a \notin Prompt(g)
      BY <2>1 DEF Closes, Prompt, Writers
    <3>3. \A b \in Prompt(g) : got'[b] = got[b]
      BY <1>1, <3>2 DEF Prompt, Writers, Others
    <3>4. QED
      BY <3>1, <3>3, SaidSame
  <2>2. QED
    BY <1>1, <2>1, SaidBut
<1>3. f \in Opened[a] /\ Opened' = [Opened EXCEPT ![a] = {}]
  <2>1. f \in Opened[a] /\ Opened'[a] = {}
    BY <1>1 DEF Closes, Opened
  <2>2. QED
    BY <1>1, <2>1, OpenedSame
<1>4. Taken' = [Taken EXCEPT ![a] = {}]
  <2>1. Taken'[a] = {}
    BY <1>1 DEF Taken
  <2>2. QED
    BY <1>1, <2>1, TakenSame
<1>5. S!Close(a, f)
  BY <1>3, <1>4 DEF Closes, Overtake, S!Close
<1>6. ASSUME a \notin late PROVE Said[f] = Source(a) /\ Said'[f] = s
  <2>1. a \in Prompt(f)
    BY <1>6 DEF Closes, Prompt, Writers
  <2>2. Said[f] = Source(a) /\ disk[f] = <<>>
    BY <1>1, <2>1, PromptSays DEF Closes, Source, IInv, InOrder, StillEmpty
  <2>3. disk'[f] = s
    BY <1>1, <2>2, OverNothing DEF IInv, Drafts, Types
  <2>4. QED
    BY <1>1, <2>2, <2>3 DEF Said
<1>7. QED
  BY <1>1, <1>2, <1>5, <1>6

\* An edit that is not overtaken takes effect when the file is full.
LEMMA FillIsEdit ==
  ASSUME NEW T, Given(T), IInv(T), NEW a \in Agents, Fill(a)
  PROVE  S!Edit(a) \/ \E f \in Files : S!Format(a, f) \/ S!Clobber(a, f)
<1> DEFINE p == view[a].node
<1> PICK f : f = File(a)
  OBVIOUS
<1>1. /\ out[a].src \in Seq(T) /\ Closes(a, f, out[a].src)
      /\ view' = [view EXCEPT ![a] = out[a].view]
  BY FillCloses
<1>2. /\ f \in Files /\ S!Close(a, f)
      /\ Said' = [Said EXCEPT ![f] = Said'[f]]
      /\ a \notin late => Said[f] = Source(a) /\ Said'[f] = out[a].src
  BY <1>1, CloseIsClose
<1>3. PatchReady(a) \/ FormatReady(a)
  BY <1>1 DEF Closes, IInv, Drafts, Ready
<1>4. CASE a \in late
  <2>1. out[a].view.node = p
    <3>1. ASSUME PatchReady(a) PROVE out[a].view.node = p
      <4>1. PICK n \in Texts(p, Source(a), view[a].text) :
              out[a] = [src |-> Edited(Source(a), p, n), view |-> [node |-> p, text |-> Trim(n)]]
        BY <3>1 DEF PatchReady
      <4>2. QED
        BY <4>1
    <3>2. QED
      BY <1>3, <3>1 DEF FormatReady
  <2>2. view' = [view EXCEPT ![a] = view'[a]] /\ view'[a].node = p
    BY <1>1, <2>1 DEF IInv, Drafts, Types
  <2>3. S!Clobber(a, f)
    BY <1>2, <1>4, <2>2 DEF S!Clobber
  <2>4. QED
    BY <1>2, <2>3
<1>5. CASE a \notin late /\ PatchReady(a)
  <2>1. PICK n \in Texts(p, Source(a), view[a].text) :
          out[a] = [src |-> Edited(Source(a), p, n), view |-> [node |-> p, text |-> Trim(n)]]
    BY <1>5 DEF PatchReady
  <2>2. f = p.file
    BY <1>5 DEF PatchReady, File, Target
  <2>3. Said[p.file] = Source(a)
    BY <1>2, <1>5, <2>2
  <2>4. n \in S!Allowed(Said[p.file], p, view[a].text)
    BY <2>1, <2>3 DEF S!Allowed, Texts
  <2>5. Said' = [Said EXCEPT ![p.file] = Edited(Said[p.file], p, n)]
    <3>1. Said'[f] = Edited(Source(a), p, n)
      BY <1>2, <1>5, <2>1
    <3>2. QED
      BY <1>2, <2>2, <2>3, <3>1
  <2>6. view' = [view EXCEPT ![a] = [node |-> p, text |-> Trim(n)]]
    BY <1>1, <2>1
  <2>7. S!Edit(a)
    BY <1>2, <1>5, <2>2, <2>4, <2>5, <2>6 DEF S!Edit
  <2>8. QED
    BY <2>7
<1>6. CASE a \notin late /\ FormatReady(a)
  <2>1. Said' = [Said EXCEPT ![f] = Canon(Said[f])]
    BY <1>2, <1>6 DEF FormatReady
  <2>2. view' = view
    BY <1>1, <1>6 DEF FormatReady, IInv, Drafts, Types
  <2>3. S!Format(a, f)
    BY <1>2, <1>6, <2>1, <2>2 DEF S!Format
  <2>4. QED
    BY <1>2, <2>3
<1>7. QED
  BY <1>3, <1>4, <1>5, <1>6

\* A write that breaks off loses the rest of an edit that was allowed.
LEMMA BreakIsLose ==
  ASSUME NEW T, Given(T), IInv(T), NEW a \in Agents, Break(a)
  PROVE  \E f \in Files : S!Lose(a, f) \/ S!Clobber(a, f)
<1> DEFINE p == view[a].node
<1> PICK f : f = File(a)
  OBVIOUS
<1>1. view' = view /\ view' = [view EXCEPT ![a] = view'[a]]
  BY BreakCloses DEF IInv, Drafts, Types
<1>2. PICK n \in 0..Len(out[a].src) : /\ SubSeq(out[a].src, 1, n) \in Seq(T)
                                      /\ Closes(a, f, SubSeq(out[a].src, 1, n))
  BY BreakCloses
<1>3. /\ f \in Files /\ S!Close(a, f)
      /\ Said' = [Said EXCEPT ![f] = Said'[f]]
      /\ a \notin late => Said[f] = Source(a) /\ Said'[f] = SubSeq(out[a].src, 1, n)
  BY <1>2, CloseIsClose
<1>4. CASE a \in late
  <2>1. S!Clobber(a, f)
    BY <1>1, <1>3, <1>4 DEF S!Clobber
  <2>2. QED
    BY <1>3, <2>1
<1>5. CASE a \notin late
  <2>1. Said[f] = Source(a) /\ (PatchReady(a) \/ FormatReady(a))
    BY <1>2, <1>3, <1>5 DEF Closes, IInv, Drafts, Ready
  <2>2. out[a].src \in S!Rewritten(a, f)
    <3>1. CASE PatchReady(a)
      <4>1. PICK m \in Texts(p, Source(a), view[a].text) : out[a].src = Edited(Source(a), p, m)
        BY <3>1 DEF PatchReady
      <4>2. m \in S!Allowed(Said[f], p, view[a].text) /\ out[a].src = Edited(Said[f], p, m)
        BY <2>1, <4>1 DEF S!Allowed, Texts
      <4>3. QED
        BY <4>2 DEF S!Rewritten
    <3>2. CASE FormatReady(a)
      BY <2>1, <3>2 DEF FormatReady, S!Rewritten
    <3>3. QED
      BY <2>1, <3>1, <3>2
  <2>3. Said' = [Said EXCEPT ![f] = SubSeq(out[a].src, 1, n)]
    BY <1>3, <1>5
  <2>4. S!Lose(a, f)
    BY <1>1, <1>3, <1>5, <2>2, <2>3 DEF S!Lose
  <2>5. QED
    BY <1>3, <2>4
<1>6. QED
  BY <1>4, <1>5

LEMMA StepIsStep ==
  ASSUME NEW T, Given(T), IInv(T), [Next]_patchVars
  PROVE  [S!StoreNext]_(S!storeVars)
<1>1. ASSUME NEW a \in Agents, Start(a) PROVE UNCHANGED S!storeVars
  BY <1>1, StartIsNone
<1>2. ASSUME NEW a \in Agents, Read(a) PROVE UNCHANGED S!storeVars \/ S!StoreNext
  BY <1>2, ReadIsTakeOrNone DEF S!StoreNext
<1>3. ASSUME NEW a \in Agents, Report(a) \/ Leave(a) PROVE S!StoreNext
  BY <1>3, ReportIsLook DEF S!StoreNext
<1>4. ASSUME NEW a \in Agents, Empty(a) PROVE S!StoreNext
  <2>1. PICK f : f = File(a)
    OBVIOUS
  <2>2. f \in Files /\ S!Open(a, f)
    BY <1>4, <2>1, EmptyIsOpen, FileIsFile DEF IInv, Drafts
  <2>3. QED
    BY <2>2 DEF S!StoreNext
<1>5. ASSUME NEW a \in Agents, Fill(a) PROVE S!StoreNext
  BY <1>5, FillIsEdit DEF S!StoreNext
<1>6. ASSUME NEW a \in Agents, Break(a) PROVE S!StoreNext
  BY <1>6, BreakIsLose DEF S!StoreNext
<1>7. ASSUME UNCHANGED patchVars PROVE UNCHANGED S!storeVars
  <2>1. /\ UNCHANGED <<disk, view, pc, cmd, got, late>>
        /\ \A a : File(a)' = File(a)
    BY <1>7 DEF patchVars, File, Target
  <2>2. Opened' = Opened /\ Taken' = Taken
    BY <2>1 DEF Opened, Taken
  <2>3. \A f \in Files : Said'[f] = Said[f]
    <3>1. \A f : Prompt(f)' = Prompt(f)
      BY <2>1 DEF Writers, Prompt
    <3>2. QED
      BY <2>1, <3>1, SaidSame
  <2>4. QED
    BY <2>1, <2>2, <2>3 DEF Said, S!storeVars
<1>8. QED
  BY <1>1, <1>2, <1>3, <1>4, <1>5, <1>6, <1>7 DEF Next

\* At first the files say what they hold.
LEMMA InitIsInit ==
  ASSUME NEW T, Given(T), Init
  PROVE  S!StoreInit
<1>1. disk \in Initial /\ disk = [f \in Files |-> disk[f]]
  BY DEF Given, Init
<1>2. \A f \in Files : Prompt(f) = {}
  BY DEF Init, Writers, Prompt
<1>3. Said = disk
  BY <1>1, <1>2 DEF Said
<1>4. Opened = [a \in Agents |-> {}]
  BY DEF Init, Opened
<1>5. Taken = [a \in Agents |-> {}]
  BY DEF Init, Taken
<1>6. QED
  BY <1>1, <1>3, <1>4, <1>5 DEF S!StoreInit, Init, S!Guess, Guess

(***************************************************************************)
(* The theorems.                                                           *)
(***************************************************************************)

\* Whoever is at work on what: what is written is an edit, by the rules, of what
\* its author read; what an agent has read of the file it is to write is what the
\* file holds, and when it has emptied it nobody puts anything there, until a
\* write of another overtakes it (main.rs, do_patch).
THEOREM InvariantHolds ==
  ASSUME NEW T, Given(T)
  PROVE  Spec => []IInv(T)
<1>1. Init => IInv(T)
  BY InitInvariant
<1>2. IInv(T) /\ [Next]_patchVars => IInv(T)'
  BY StepInvariant
<1>3. QED
  BY <1>1, <1>2, PTL DEF Spec

\* So an edit that no other one overtakes happens at once, or, if its write
\* breaks off, not at all but for a beginning of it; and it happens only to the
\* text its author saw and only if the compiler takes the outcome.
THEOREM EditsHappenAtOnce ==
  ASSUME NEW T, Given(T)
  PROVE  Spec => Applied
<1>1. Init => S!StoreInit
  BY InitIsInit
<1>2. IInv(T) /\ [Next]_patchVars => [S!StoreNext]_(S!storeVars)
  BY StepIsStep
<1>3. QED
  BY <1>1, <1>2, InvariantHolds, PTL DEF Spec, Applied, S!StoreSpec

(***************************************************************************)
(* What one patch does.                                                    *)
(***************************************************************************)

\* A replacement without the newlines at its end is one node, if it is whole.
LEMMA WholeIsOne ==
  ASSUME NEW T, NEW n \in Seq(T), NEW p, p.part \in Parts, Whole(p, Trim(n))
  PROVE  OneNode(Trim(n), p.decl, p.part)
<1>1. Trim(n) # <<>>
  <2>1. CASE p.part \in {"whole", "sig"}
    BY <2>1 DEF Whole, Starts
  <2>2. CASE p.part = "body"
    BY <2>2 DEF Whole
  <2>3. QED
    BY <2>1, <2>2 DEF Parts
<1>2. Trim(n)[Len(Trim(n))] # NL
  BY <1>1, TrimEnds
<1>3. QED
  BY <1>1, <1>2 DEF Whole, OneNode

\* A patch is an edit of what its author read.
LEMMA PatchIsApply ==
  ASSUME NEW T, Given(T), Drafts(T), NEW a \in Agents, NEW f \in Files, Patches(a, f)
  PROVE  LET p == view[a].node IN
         \E n \in Seq(T) : /\ p \in Paths /\ p.part \in Parts
                           /\ Source(a) \in Seq(T) /\ Has(Source(a), p.decl, p.part)
                           /\ OneNode(Trim(n), p.decl, p.part)
                           /\ disk'[f] = Apply(Source(a), p.decl, p.part, n)
                           /\ view'[a].node = p /\ view'[a].text = Trim(n)
<1> DEFINE p == view[a].node
<1>1. /\ pc[a] = "writing" /\ cmd[a].do = "patch"
      /\ view'[a] = out[a].view /\ disk'[f] = out[a].src
      /\ Whole(view'[a].node, view'[a].text)
  BY DEF Patches
<1>2. p \in Paths /\ p.part \in Parts /\ Replacements(p) \subseteq Seq(T)
  BY DEF Given, Drafts, Types
<1>3. Source(a) \in Seq(T) /\ PatchReady(a)
  BY <1>1 DEF Drafts, Ready, FormatReady
<1>4. PICK n \in Texts(p, Source(a), view[a].text) :
        out[a] = [src |-> Edited(Source(a), p, n), view |-> [node |-> p, text |-> Trim(n)]]
  BY <1>3 DEF PatchReady
<1>5. n \in Seq(T) /\ Has(Source(a), p.decl, p.part)
  BY <1>2, <1>4 DEF Texts, Current
<1>6. view'[a].node = p /\ view'[a].text = Trim(n) /\ disk'[f] = Edited(Source(a), p, n)
  BY <1>1, <1>4
<1>7. OneNode(Trim(n), p.decl, p.part)
  BY <1>1, <1>2, <1>5, <1>6, WholeIsOne
<1>8. QED
  BY <1>2, <1>3, <1>5, <1>6, <1>7 DEF Edited

\* A patch prints the hash the next look at its node would print: for any
\* sources, any replacement that is one node, any compiler, and whoever else is
\* at work on the file, as long as the file holds what the patch wrote.
THEOREM PatchesReadBack ==
  ASSUME NEW T, Given(T)
  PROVE  Spec => ReadBack
<1>1. ASSUME Drafts(T), NEW a \in Agents, NEW f \in Files, Patches(a, f)
      PROVE  Current(disk'[f], view'[a].node, view'[a].text)
  <2> DEFINE p == view[a].node
  <2>1. PICK n \in Seq(T) : /\ p \in Paths /\ p.part \in Parts
                           /\ Source(a) \in Seq(T) /\ Has(Source(a), p.decl, p.part)
                           /\ OneNode(Trim(n), p.decl, p.part)
                           /\ disk'[f] = Apply(Source(a), p.decl, p.part, n)
                           /\ view'[a].node = p /\ view'[a].text = Trim(n)
    BY <1>1, PatchIsApply
  <2>2. Has(disk'[f], p.decl, p.part) /\ TextAt(disk'[f], p.decl, p.part) = Trim(n)
    BY <2>1, ApplySays
  <2>3. QED
    BY <2>1, <2>2 DEF Current
<1>2. Drafts(T) => [\A a \in Agents : \A f \in Files : Patches(a, f) =>
                   Current(disk'[f], view'[a].node, view'[a].text)]_patchVars
  BY <1>1
<1>3. IInv(T) => Drafts(T)
  BY DEF IInv
<1>4. QED
  BY <1>2, <1>3, InvariantHolds, PTL DEF ReadBack

\* Every other declaration of the file says what the author of the patch read,
\* and what it read is what the file held when it began to write, unless a write
\* of another overtook it: whoever is at work on the file.
THEOREM PatchesKeepTheRest ==
  ASSUME NEW T, Given(T)
  PROVE  Spec => Kept
<1>1. ASSUME Drafts(T), NEW a \in Agents, NEW f \in Files, Patches(a, f), NEW q \in Paths,
             q.file = f, q.decl # view[a].node.decl, Has(got[a][f], q.decl, q.part)
      PROVE  Current(disk'[f], q, TextAt(got[a][f], q.decl, q.part))
  <2> DEFINE p == view[a].node
  <2>1. PICK n \in Seq(T) : /\ p \in Paths /\ p.part \in Parts
                           /\ Source(a) \in Seq(T) /\ Has(Source(a), p.decl, p.part)
                           /\ OneNode(Trim(n), p.decl, p.part)
                           /\ disk'[f] = Apply(Source(a), p.decl, p.part, n)
                           /\ view'[a].node = p /\ view'[a].text = Trim(n)
    BY <1>1, PatchIsApply
  <2>2. got[a][f] = Source(a)
    BY <1>1 DEF Patches, Source
  <2>3. q.part \in Parts
    BY DEF Given
  <2>4. \A other : \A k \in Parts : other # p.decl /\ Has(Source(a), other, k)
          => /\ Has(disk'[f], other, k)
             /\ TextAt(disk'[f], other, k) = TextAt(Source(a), other, k)
    BY <2>1, ApplySays
  <2>5. QED
    BY <1>1, <2>2, <2>3, <2>4 DEF Current
<1>2. ASSUME IInv(T), [Next]_patchVars, NEW a \in Agents, NEW f \in Files, Begins(a, f)
      PROVE  disk[f] = got[a][f]
  <2>1. pc[a] = "reading" /\ pc'[a] = "writing" /\ File(a) = f /\ a \notin late'
    BY <1>2 DEF Begins
  <2>2. Empty(a)
    <3>1. ASSUME NEW b \in Agents, Start(b) \/ Read(b) \/ Report(b) \/ Leave(b) PROVE FALSE
      BY <1>2, <2>1, <3>1, QuietIsQuiet DEF Others
    <3>2. ASSUME NEW b \in Agents, Fill(b) \/ Break(b) PROVE FALSE
      BY <1>2, <2>1, <3>2 DEF Fill, Break, End, IInv, Drafts, Types
    <3>3. ASSUME NEW b \in Agents \ {a}, Empty(b) PROVE FALSE
      BY <1>2, <2>1, <3>3 DEF Empty, IInv, Drafts, Types
    <3>4. ~UNCHANGED patchVars
      BY <2>1 DEF patchVars
    <3>5. QED
      BY <1>2, <3>1, <3>2, <3>3, <3>4 DEF Next
  <2>3. Writers(f) = {} /\ a \notin late /\ ToWrite(a)
    BY <1>2, <2>1, <2>2, EmptyIsPrompt, EmptyDoes
  <2>4. QED
    BY <1>2, <2>1, <2>3 DEF IInv, InOrder, UpToDate, Source
<1>3. ASSUME IInv(T), NEW a \in Agents, NEW f \in Files, Patches(a, f) PROVE RestStays(a, f)
  <2>1. Drafts(T)
    BY <1>3 DEF IInv
  <2>2. \A q \in Paths : q.file = f /\ q.decl # view[a].node.decl /\ Has(got[a][f], q.decl, q.part)
                        => Current(disk'[f], q, TextAt(got[a][f], q.decl, q.part))
    BY <1>1, <1>3, <2>1
  <2>3. QED
    BY <2>2 DEF RestStays
<1>4. IInv(T) /\ [Next]_patchVars => [\A a \in Agents : \A f \in Files : Keeps(a, f)]_patchVars
  BY <1>2, <1>3 DEF Keeps
<1>5. QED
  BY <1>4, InvariantHolds, PTL DEF Kept, Spec
============================================================================
