------------------------------- MODULE Loader -------------------------------
(***************************************************************************)
(* Reading a program (src/src/load.rs): the root, then depth first every   *)
(* module a module names.  A name is looked for as a file, in the root's   *)
(* directory and along the search path; the file then says itself what its *)
(* module is called, which may differ in case and underscores.             *)
(***************************************************************************)
EXTENDS Naturals, Sequences, FiniteSets

CONSTANTS Names,          \* module names, and the stems of files
          Dirs,           \* the search path: the root's directory comes first
          Disks,          \* the files there may be: path -> module
          Squash(_),      \* a name without case and underscores
          SnakeCase(_),   \* TotalOk -> total_ok
          Qualifiers(_)   \* the modules a module names, in order

Paths == (1..Len(Dirs)) \X Names

ASSUME LoaderAssumption ==
  /\ Dirs # <<>>
  /\ \A n \in Names : SnakeCase(n) \in Names
  /\ \A d \in Disks : /\ DOMAIN d \subseteq Paths
                      /\ \A p \in DOMAIN d : /\ d[p].name \in Names
                                             /\ Qualifiers(d[p]) \in Seq(Names)

VARIABLES disk,     \* the files
          root,     \* the one named on the command line
          loaded,   \* module name -> the file it came from
          work,     \* the modules being followed, the root first: [path, todo]
          order,    \* the files done, dependencies first
          result    \* "loading", "ok", or the diagnostic

vars == <<disk, root, loaded, work, order, result>>

Results == {"loading", "ok", "mod.missing", "mod.unreadable", "mod.name"}

\* Loader::find: the first directory that has a file of that name, as it is or
\* in snake case.
Here(d, i, n) == {<<i, n>>, <<i, SnakeCase(n)>>} \cap DOMAIN d
Exists(d, n)  == \E i \in 1..Len(Dirs) : Here(d, i, n) # {}
Found(d, n) ==
  LET i == CHOOSE i \in 1..Len(Dirs) : /\ Here(d, i, n) # {}
                                       /\ \A j \in 1..(i - 1) : Here(d, j, n) = {}
  IN  IF <<i, n>> \in DOMAIN d THEN <<i, n>> ELSE <<i, SnakeCase(n)>>

\* `mod M` must match its file's name.
Matches(p) == Squash(disk[p].name) = Squash(p[2])

Top    == work[Len(work)]
Asked  == Head(Top.todo)
\* The unit comes back from its file with all its names still to follow.
Open(p) == [path |-> p, todo |-> Qualifiers(disk[p])]
\* Seeded fault: a module is known by its file's stem.
KnownByStem(p) == [n \in DOMAIN loaded \cup {p[2]} |-> IF n = p[2] THEN p ELSE loaded[n]]

\* What has been read is known by the name the file gives itself.
Known(p) == [n \in DOMAIN loaded \cup {disk[p].name} |->
               IF n = disk[p].name THEN p ELSE loaded[n]]

Init ==
  /\ disk \in Disks
  /\ root \in {p \in DOMAIN disk : p[1] = 1}
  /\ loaded = [n \in {} |-> root]
  /\ work = <<>>
  /\ order = <<>>
  /\ result = "loading"

Fail(why) ==
  /\ result' = why
  /\ UNCHANGED <<disk, root, loaded, work, order>>

\* Loader::read, for the root and for what a module names.
Read(p, rest) ==
  /\ Matches(p)
  /\ loaded' = Known(p)
  /\ work' = Append(rest, Open(p))
  /\ UNCHANGED <<disk, root, order, result>>

Starting == result = "loading" /\ work = <<>> /\ order = <<>>
Followed == result = "loading" /\ work # <<>> /\ Top.todo # <<>>
Rest     == [work EXCEPT ![Len(work)].todo = Tail(@)]

ReadRoot == Starting /\ Read(root, <<>>)

\* Seeded fault: a name seen before ends the module's list.
SkipTheRest ==
  /\ Followed
  /\ Asked \in DOMAIN loaded
  /\ work' = [work EXCEPT ![Len(work)].todo = <<>>]
  /\ UNCHANGED <<disk, root, loaded, order, result>>

\* Seeded fault: a module still being loaded is waited for.
SkipDone ==
  /\ Followed
  /\ Asked \in {disk[order[i]].name : i \in DOMAIN order}
  /\ work' = Rest
  /\ UNCHANGED <<disk, root, loaded, order, result>>

\* Already loaded, or being loaded: a cycle stops here.
Skip ==
  /\ Followed
  /\ Asked \in DOMAIN loaded
  /\ work' = Rest
  /\ UNCHANGED <<disk, root, loaded, order, result>>

Wanted == Followed /\ Asked \notin DOMAIN loaded

Descend == Wanted /\ Exists(disk, Asked) /\ Read(Found(disk, Asked), Rest)
Missing == Wanted /\ ~Exists(disk, Asked) /\ Fail("mod.missing")

\* The file to read next, if there is one.
ToRead == {p \in DOMAIN disk : (Starting /\ p = root)
                               \/ (Wanted /\ Exists(disk, Asked) /\ p = Found(disk, Asked))}

Misnamed == \E p \in ToRead : ~Matches(p) /\ Fail("mod.name")

\* It cannot be read, or what it holds does not parse.
Unreadable == ToRead # {} /\ Fail("mod.unreadable")

\* Seeded fault: dependencies end up behind the modules that use them.
DoneInFront ==
  /\ result = "loading"
  /\ work # <<>>
  /\ Top.todo = <<>>
  /\ order' = <<Top.path>> \o order
  /\ work' = SubSeq(work, 1, Len(work) - 1)
  /\ result' = IF Len(work) = 1 THEN "ok" ELSE "loading"
  /\ UNCHANGED <<disk, root, loaded>>

\* A module is pushed after everything it named.
Done ==
  /\ result = "loading"
  /\ work # <<>>
  /\ Top.todo = <<>>
  /\ order' = Append(order, Top.path)
  /\ work' = SubSeq(work, 1, Len(work) - 1)
  /\ result' = IF Len(work) = 1 THEN "ok" ELSE "loading"
  /\ UNCHANGED <<disk, root, loaded>>

Next == ReadRoot \/ Skip \/ Descend \/ Missing \/ Misnamed \/ Unreadable \/ Done

\* Reading a file waits for nobody.
Spec == Init /\ [][Next]_vars /\ WF_vars(Next)

(***************************************************************************)
(* Properties.                                                             *)
(***************************************************************************)
\* A module being followed, with the names still to look at.
Follows == [path : DOMAIN disk, todo : Seq(Names)]

TypeOK ==
  /\ DOMAIN disk \subseteq Paths
  /\ root \in DOMAIN disk
  /\ DOMAIN loaded \subseteq Names
  /\ \A n \in DOMAIN loaded : loaded[n] \in DOMAIN disk
  /\ work \in Seq(Follows)
  /\ order \in Seq(DOMAIN disk)
  /\ result \in Results

\* The names in a module, and in all the files of a disk.
NamesOf(m) == LET ns == Qualifiers(m) IN {ns[i] : i \in DOMAIN ns}
NamesIn(d) == UNION {NamesOf(d[p]) : p \in DOMAIN d}

\* Every module that may be read is called what those that name it call it.
Spelled ==
  \A d \in Disks : \A n \in NamesIn(d) :
    LET p == Found(d, n)
    IN  Exists(d, n) /\ Squash(d[p].name) = Squash(p[2]) => d[p].name = n

\* Whoever names the root finds the root, and no file of a like name.
RootFound ==
  \A d \in Disks : \A p \in DOMAIN d :
    LET n == d[p].name
    IN  p[1] = 1 /\ n \in NamesIn(d) /\ Exists(d, n) => Found(d, n) = p

\* A file is read once: "a second reference is free and a cycle terminates"
\* (load.rs, Loader::loaded).
ReadOnce ==
  /\ \A i, j \in DOMAIN order : i # j => order[i] # order[j]
  /\ \A i, j \in DOMAIN work : i # j => work[i].path # work[j].path
  /\ \A i \in DOMAIN order, j \in DOMAIN work : order[i] # work[j].path

\* The files the names of a file stand for, and those reached from it: they are
\* in every set that holds it, and what its members name.
NamedBy(p) == {Found(disk, n) : n \in {m \in NamesOf(disk[p]) : Exists(disk, m)}}
Reached(p) ==
  LET closed == {ps \in SUBSET DOMAIN disk : p \in ps /\ \A r \in ps : NamedBy(r) \subseteq ps}
  IN  {q \in DOMAIN disk : \A ps \in closed : q \in ps}

\* What was read is what the root names, by however many steps, and all of it:
\* a cycle cuts nothing off.
Complete == result = "ok" => {order[i] : i \in DOMAIN order} = Reached(root)

\* Dependencies come first: a module stands before one it names only if they
\* name each other, by however many steps (load.rs: `order` ends up "with
\* dependencies before the modules that use them").
DependenciesFirst ==
  result = "ok" => \A i, j \in DOMAIN order :
    i < j /\ order[j] \in NamedBy(order[i]) => order[i] \in Reached(order[j])

\* All there is to do: a file is read, each name in it looked at, and the file put
\* in its place.  This is finite, since the files and their names are.
ToDo == UNION {{p} \X (0..(Len(Qualifiers(disk[p])) + 1)) : p \in DOMAIN disk}

\* What of that is done.
Did ==
  {s \in ToDo : \/ \E i \in DOMAIN order : s[1] = order[i]
                \/ \E k \in DOMAIN work :
                     /\ s[1] = work[k].path
                     /\ s[2] + Len(work[k].todo) <= Len(Qualifiers(disk[s[1]]))}

\* Nothing is done twice, and a step that does not fail does something more: this
\* is why a load ends, whoever names whom ("a cycle terminates").
GetsOn ==
  [][Did \subseteq Did' /\ (result' \in {"loading", "ok"} => Did' # Did)]_vars

\* A load ends, whatever names whatever ("a cycle terminates").
Ends == <>(result # "loading")
=============================================================================
