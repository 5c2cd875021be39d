---------------------------- MODULE ProgramProofs ----------------------------
(***************************************************************************)
(* For any modules and any files, provided that modules are called what    *)
(* they call themselves (Spelled, RootFound): the loader reads no file     *)
(* twice, reads all that the root leads to, and leaves behind each file    *)
(* only what depends on it.  Provided, too, that the walk that looks for   *)
(* names finds those of the bodies (Searched): flattening what was loaded  *)
(* changes the meaning of no name, and what it accepts is complete.        *)
(***************************************************************************)
EXTENDS Program, Induction, SequenceTheorems

(***************************************************************************)
(* Finding a file.                                                         *)
(***************************************************************************)

\* What is found is a file, of the search path, under the name or its snake case.
LEMMA FoundIsThere ==
  ASSUME NEW d, NEW n, Exists(d, n)
  PROVE  Found(d, n) \in DOMAIN d
<1> DEFINE S == {i \in 1..Len(Dirs) : Here(d, i, n) # {}}
           i == CHOOSE i \in 1..Len(Dirs) : /\ Here(d, i, n) # {}
                                            /\ \A j \in 1..(i - 1) : Here(d, j, n) = {}
<1>1. Len(Dirs) \in Nat
  BY LoaderAssumption
<1>2. S # {} /\ S \in SUBSET Nat
  BY <1>1 DEF Exists
<1>3. PICK k \in S : \A j \in S : ~(j < k)
  BY <1>2, LeastElement
<1>4. /\ k \in 1..Len(Dirs)
      /\ Here(d, k, n) # {}
      /\ \A j \in 1..(k - 1) : Here(d, j, n) = {}
  BY <1>1, <1>3
<1>5. Here(d, i, n) # {}
  BY <1>4
<1>6. Found(d, n) = IF <<i, n>> \in DOMAIN d THEN <<i, n>> ELSE <<i, SnakeCase(n)>>
  BY DEF Found
<1> HIDE DEF i
<1>7. QED
  BY <1>5, <1>6 DEF Here

\* A file that is found is one of the disk's, and so is all that is named.
LEMMA NamedAreFiles ==
  ASSUME NEW p
  PROVE  NamedBy(p) \subseteq DOMAIN disk
BY FoundIsThere DEF NamedBy

(***************************************************************************)
(* What is reached.                                                        *)
(***************************************************************************)

\* A file reaches itself, what it names, and all that those reach.
LEMMA ReachesItself ==
  ASSUME NEW p \in DOMAIN disk
  PROVE  p \in Reached(p)
BY DEF Reached

LEMMA ReachesNamed ==
  ASSUME NEW p, NEW q \in Reached(p), NEW r \in NamedBy(q)
  PROVE  r \in Reached(p)
BY NamedAreFiles DEF Reached

LEMMA ReachesThrough ==
  ASSUME NEW p, NEW q \in Reached(p), NEW r \in Reached(q)
  PROVE  r \in Reached(p)
BY DEF Reached

\* Nothing that is closed under naming is left.
LEMMA ReachedLeast ==
  ASSUME NEW ps \in SUBSET DOMAIN disk, NEW p \in ps, \A q \in ps : NamedBy(q) \subseteq ps
  PROVE  Reached(p) \subseteq ps
BY DEF Reached

(***************************************************************************)
(* The invariant.                                                          *)
(***************************************************************************)
Files == {order[i] : i \in DOMAIN order} \cup {work[i].path : i \in DOMAIN work}
Left(k) == {work[k].todo[i] : i \in DOMAIN work[k].todo}

\* What was read is known by the name it gives itself: this is what the loader
\* asks before it reads, and all that keeps a file from being read again.
Remembered == \A p \in Files : disk[p].name \in DOMAIN loaded

\* What is known by a name has been read, and is the file the name stands for.
Rightly ==
  \A n \in DOMAIN loaded :
    /\ loaded[n] \in Files /\ disk[loaded[n]].name = n
    /\ loaded[n] = root \/ loaded[n] = Found(disk, n)

\* The names still to follow are names of the module, and what the others stand
\* for has been read.
Covered ==
  \A k \in DOMAIN work :
    /\ Left(k) \subseteq NamesOf(disk[work[k].path])
    /\ \A n \in NamesOf(disk[work[k].path]) :
         Exists(disk, n) => n \in Left(k) \/ Found(disk, n) \in Files

\* The root leads to all that was read, and each module being followed to those
\* after it.
Lineage ==
  /\ Files \subseteq Reached(root)
  /\ \A k, l \in DOMAIN work : k <= l => work[l].path \in Reached(work[k].path)

\* What a file names that is done, is done before it, or leads to it.
Behind ==
  \A i \in DOMAIN order : \A q \in NamedBy(order[i]) :
    /\ q \in Files
    /\ (\E j \in 1..(i - 1) : order[j] = q) \/ order[i] \in Reached(q)

\* No two files are known by one name, and what a module names is known, or
\* still to follow.
OneEach == \A p \in Files : loaded[disk[p].name] = p
Sought ==
  /\ \A i \in DOMAIN order : NamesOf(disk[order[i]]) \subseteq DOMAIN loaded
  /\ \A k \in DOMAIN work : NamesOf(disk[work[k].path]) \subseteq Left(k) \cup DOMAIN loaded

Begun ==
  /\ Files # {} => root \in Files
  /\ result = "ok" => work = <<>> /\ order # <<>>

Base  == disk \in Disks /\ root[1] = 1 /\ TypeOK /\ Remembered /\ ReadOnce
Reads == Rightly /\ Covered /\ Lineage /\ Behind /\ OneEach /\ Sought /\ Begun
IInv  == Base /\ Reads

LEMMA InitInvariant == Init => IInv
<1> SUFFICES ASSUME Init PROVE IInv
  OBVIOUS
<1>1. Base
  BY LoaderAssumption DEF Init, Base, TypeOK, Remembered, ReadOnce, Files, Results
<1>2. Files = {}
  BY DEF Init, Files
<1>3. Reads
  BY <1>2 DEF Init, Reads, Rightly, Covered, Lineage, Behind, OneEach, Sought, Begun
<1>4. QED
  BY <1>1, <1>3 DEF IInv

\* Reading a file that none of those read so far is, keeps the invariant.
LEMMA ReadKeeps ==
  ASSUME Base, NEW p \in DOMAIN disk, NEW rest,
         rest \in Seq(Follows),
         DOMAIN rest = DOMAIN work, \A i \in DOMAIN work : rest[i].path = work[i].path,
         p \notin Files, Read(p, rest)
  PROVE  Base'
<1>1. disk' = disk /\ order' = order /\ root' = root /\ result' = result
  BY DEF Read
<1>2. work' = Append(rest, Open(p)) /\ loaded' = Known(p)
  BY DEF Read
<1>3. Open(p) \in Follows /\ Open(p).path = p
  BY LoaderAssumption DEF Open, Base, Follows
<1>4. /\ DOMAIN loaded' = DOMAIN loaded \cup {disk[p].name}
      /\ \A n \in DOMAIN loaded' : loaded'[n] \in DOMAIN disk
  BY <1>2 DEF Known, Base, TypeOK
<1>5. disk[p].name \in Names
  BY LoaderAssumption DEF Base
<1>6. TypeOK'
  BY <1>1, <1>2, <1>3, <1>4, <1>5 DEF Base, TypeOK, Follows
<1>7. /\ Len(rest) = Len(work) /\ Len(work) \in Nat
      /\ DOMAIN work = 1..Len(work) /\ DOMAIN rest = 1..Len(work)
  BY DEF Base, TypeOK
<1>8. /\ DOMAIN work' = 1..(Len(work) + 1)
      /\ \A i \in 1..Len(work) : work'[i].path = work[i].path
      /\ work'[Len(work) + 1].path = p
  BY <1>2, <1>3, <1>7
<1>9. Files' = Files \cup {p}
  <2>1. {work'[i].path : i \in DOMAIN work'} = {work[i].path : i \in DOMAIN work} \cup {p}
    <3>1. \A i \in DOMAIN work' : work'[i].path \in {work[j].path : j \in DOMAIN work} \cup {p}
      BY <1>7, <1>8
    <3>2. \A i \in DOMAIN work : i \in DOMAIN work' /\ work'[i].path = work[i].path
      BY <1>7, <1>8
    <3>3. Len(work) + 1 \in DOMAIN work'
      BY <1>7, <1>8
    <3>4. QED
      BY <1>8, <3>1, <3>2, <3>3
  <2>2. QED
    BY <1>1, <2>1 DEF Files
<1>10. Remembered'
  BY <1>1, <1>4, <1>9 DEF Base, Remembered
<1>11. ReadOnce'
  <2>1. \A i \in DOMAIN work : work[i].path # p
    BY DEF Files
  <2>2. \A i \in DOMAIN order : order[i] # p
    BY DEF Files
  <2>3. \A i, j \in DOMAIN work' : i # j => work'[i].path # work'[j].path
    BY <1>7, <1>8, <2>1 DEF Base, ReadOnce
  <2>4. \A i \in DOMAIN order, j \in DOMAIN work' : order[i] # work'[j].path
    BY <1>7, <1>8, <2>2 DEF Base, ReadOnce
  <2>5. QED
    BY <1>1, <2>3, <2>4 DEF Base, ReadOnce
<1>12. QED
  BY <1>1, <1>6, <1>10, <1>11 DEF Base

\* Striking off the name just followed changes no file, and no other name.
LEMMA RestKeeps ==
  ASSUME TypeOK, Followed
  PROVE  /\ Asked \in Names
         /\ Rest \in Seq(Follows)
         /\ DOMAIN Rest = DOMAIN work
         /\ Len(work) \in DOMAIN work
         /\ \A i \in DOMAIN work : /\ Rest[i].path = work[i].path
                                   /\ i # Len(work) => Rest[i] = work[i]
         /\ {Rest[Len(work)].todo[i] : i \in DOMAIN Rest[Len(work)].todo} \subseteq Left(Len(work))
         /\ Left(Len(work)) = {Asked} \cup {Rest[Len(work)].todo[i] : i \in DOMAIN Rest[Len(work)].todo}
<1>1. /\ work \in Seq(Follows)
      /\ Len(work) \in DOMAIN work
  BY DEF TypeOK, Followed
<1>2. Top \in Follows
  BY <1>1 DEF Top
<1>3. Top.todo \in Seq(Names) /\ Top.todo # <<>> /\ Top.path \in DOMAIN disk
  BY <1>2 DEF Followed, Follows
<1>4. Asked \in Names /\ Tail(Top.todo) \in Seq(Names)
  BY <1>3 DEF Asked
<1> DEFINE shorter == [Top EXCEPT !.todo = Tail(Top.todo)]
<1>5. shorter \in Follows /\ shorter.path = Top.path /\ shorter.todo = Tail(Top.todo)
  BY <1>2, <1>4 DEF Follows
<1>6. Rest = [work EXCEPT ![Len(work)] = shorter]
  BY <1>1 DEF Rest, Top
<1> HIDE DEF shorter
<1>7. Rest \in Seq(Follows) /\ DOMAIN Rest = DOMAIN work
  BY <1>1, <1>5, <1>6
<1>8. ASSUME NEW i \in DOMAIN work
      PROVE  Rest[i].path = work[i].path /\ (i # Len(work) => Rest[i] = work[i])
  BY <1>1, <1>5, <1>6 DEF Top
<1>9. Rest[Len(work)].todo = Tail(work[Len(work)].todo)
  BY <1>1, <1>5, <1>6 DEF Top
<1>10. LET t == work[Len(work)].todo
           u == Tail(t)
       IN  {t[i] : i \in DOMAIN t} = {Head(t)} \cup {u[i] : i \in DOMAIN u}
  <2> DEFINE t == work[Len(work)].todo
             u == Tail(t)
  <2>1. t \in Seq(Names) /\ t # <<>>
    BY <1>3 DEF Top
  <2>2. /\ Len(t) \in Nat \ {0} /\ DOMAIN t = 1..Len(t) /\ Head(t) = t[1]
        /\ DOMAIN u = 1..(Len(t) - 1) /\ \A i \in 1..(Len(t) - 1) : u[i] = t[i + 1]
    BY <2>1
  <2>3. \A i \in DOMAIN u : u[i] = t[i + 1] /\ i + 1 \in DOMAIN t
    BY <2>2
  <2>4. \A i \in DOMAIN t : i = 1 \/ (i - 1 \in DOMAIN u /\ u[i - 1] = t[i])
    BY <2>2
  <2>5. 1 \in DOMAIN t /\ Head(t) = t[1]
    BY <2>2
  <2> HIDE DEF t, u
  <2>6. {t[i] : i \in DOMAIN t} = {Head(t)} \cup {u[i] : i \in DOMAIN u}
    BY <2>3, <2>4, <2>5
  <2>7. QED
    BY <2>6 DEF t, u
<1>11. Asked = Head(work[Len(work)].todo)
  BY DEF Asked, Top
<1>12. QED
  BY <1>1, <1>4, <1>7, <1>8, <1>9, <1>10, <1>11 DEF Left

LEMMA FollowedFile ==
  ASSUME TypeOK, NEW k \in DOMAIN work
  PROVE  work[k].path \in DOMAIN disk
<1>1. work[k] \in Follows
  BY DEF TypeOK
<1>2. QED
  BY <1>1 DEF Follows

\* A file that is found under a name not yet known was not read.
LEMMA FoundIsNew ==
  ASSUME Spelled, Base, Covered, Wanted, Exists(disk, Asked), Matches(Found(disk, Asked))
  PROVE  /\ Found(disk, Asked) \in DOMAIN disk
         /\ disk[Found(disk, Asked)].name = Asked
         /\ Found(disk, Asked) \notin Files
<1> DEFINE p == Found(disk, Asked)
<1>1. p \in DOMAIN disk
  BY FoundIsThere
<1>2. Asked \in Left(Len(work)) /\ Len(work) \in DOMAIN work
  BY RestKeeps DEF Wanted, Base
<1>3. Asked \in NamesIn(disk)
  <2>1. work[Len(work)].path \in DOMAIN disk
    BY <1>2, FollowedFile DEF Base
  <2>2. Asked \in NamesOf(disk[work[Len(work)].path])
    BY <1>2 DEF Covered
  <2>3. QED
    BY <2>1, <2>2 DEF NamesIn
<1>4. disk[p].name = Asked
  BY <1>3 DEF Matches, Spelled, Base
<1>5. p \notin Files
  BY <1>4 DEF Base, Remembered, Wanted
<1>6. QED
  BY <1>1, <1>4, <1>5

\* Every step keeps what the loader itself asks about.
LEMMA StepBase ==
  ASSUME Spelled, Base, Covered, [Next]_vars
  PROVE  Base'
<1>1. ASSUME ReadRoot PROVE Base'
  <2>1. root \in DOMAIN disk /\ root \notin Files /\ work = <<>>
    BY <1>1 DEF ReadRoot, Starting, Base, TypeOK, Files
  <2>2. QED
    BY <1>1, <2>1, ReadKeeps, EmptySeq DEF ReadRoot, Base
<1>2. ASSUME Skip PROVE Base'
  <2>1. UNCHANGED <<disk, root, loaded, order, result>> /\ work' = Rest
    BY <1>2 DEF Skip
  <2>2. /\ Rest \in Seq(Follows)
        /\ DOMAIN Rest = DOMAIN work
        /\ \A i \in DOMAIN work : Rest[i].path = work[i].path
    BY <1>2, RestKeeps DEF Skip, Base
  <2>3. TypeOK'
    BY <2>1, <2>2 DEF Base, TypeOK, Follows
  <2>4. Files' = Files
    BY <2>1, <2>2 DEF Files
  <2>5. Remembered'
    BY <2>1, <2>4 DEF Base, Remembered
  <2>6. ReadOnce'
    BY <2>1, <2>2 DEF Base, ReadOnce
  <2>7. QED
    BY <2>1, <2>3, <2>5, <2>6 DEF Base
<1>3. ASSUME Descend PROVE Base'
  <2> DEFINE p == Found(disk, Asked)
  <2>1. Wanted /\ Exists(disk, Asked) /\ Read(p, Rest)
    BY <1>3 DEF Descend
  <2>2. /\ Asked \in Left(Len(work)) /\ Len(work) \in DOMAIN work
        /\ Rest \in Seq(Follows)
        /\ DOMAIN Rest = DOMAIN work
        /\ \A i \in DOMAIN work : Rest[i].path = work[i].path
    BY <2>1, RestKeeps DEF Wanted, Base
  <2>3. p \in DOMAIN disk /\ p \notin Files
    BY <2>1, FoundIsNew DEF Read
  <2> HIDE DEF p
  <2>4. QED
    BY <2>1, <2>2, <2>3, ReadKeeps
<1>4. ASSUME NEW why \in Results, Fail(why) PROVE Base'
  BY <1>4 DEF Fail, Base, TypeOK, Follows, Remembered, ReadOnce, Files
<1>5. ASSUME Done PROVE Base'
  <2> DEFINE n == Len(work)
  <2>1. /\ n \in Nat \ {0} /\ DOMAIN work = 1..n
        /\ work[n].path \in DOMAIN disk
        /\ order' = Append(order, work[n].path)
        /\ work' = SubSeq(work, 1, n - 1)
        /\ UNCHANGED <<disk, root, loaded>>
        /\ result' \in Results
    <3>1. work \in Seq(Follows) /\ work # <<>>
      BY <1>5 DEF Done, Base, TypeOK
    <3>2. n \in Nat \ {0} /\ DOMAIN work = 1..n /\ work[n] \in Follows
      BY <3>1
    <3>3. QED
      BY <1>5, <3>2 DEF Done, Top, Results, Follows
  <2>2. /\ work' \in Seq(Follows)
        /\ DOMAIN work' = 1..(n - 1)
        /\ \A i \in 1..(n - 1) : work'[i] = work[i]
    BY <2>1 DEF Base, TypeOK
  <2>3. /\ Len(order) \in Nat /\ DOMAIN order = 1..Len(order)
        /\ order' \in Seq(DOMAIN disk)
        /\ DOMAIN order' = 1..(Len(order) + 1)
        /\ \A i \in 1..Len(order) : order'[i] = order[i]
        /\ order'[Len(order) + 1] = work[n].path
    BY <2>1 DEF Base, TypeOK
  <2>4. TypeOK'
    BY <2>1, <2>2, <2>3 DEF Base, TypeOK, Follows
  <2>5. Files' \subseteq Files
    BY <2>1, <2>2, <2>3 DEF Files
  <2>6. Remembered'
    BY <2>1, <2>5 DEF Base, Remembered
  <2>7. ReadOnce'
    BY <2>1, <2>2, <2>3 DEF Base, ReadOnce
  <2>8. QED
    BY <2>1, <2>4, <2>6, <2>7 DEF Base
<1>6. ASSUME UNCHANGED vars PROVE Base'
  BY <1>6 DEF vars, Base, TypeOK, Follows, Remembered, ReadOnce, Files
<1>7. QED
  BY <1>1, <1>2, <1>3, <1>4, <1>5, <1>6
  DEF Next, Missing, Misnamed, Unreadable, Results

(***************************************************************************)
(* What has been read, and in which order.                                 *)
(***************************************************************************)

\* As long as the disk is the same, so is what its files reach.
LEMMA SameReached ==
  ASSUME disk' = disk, NEW p
  PROVE  Reached(p)' = Reached(p) /\ NamedBy(p)' = NamedBy(p)
BY DEF Reached, NamedBy

\* What was read last.
LEMMA OpenedLast ==
  ASSUME Base, NEW p \in DOMAIN disk, NEW rest,
         rest \in Seq(Follows),
         DOMAIN rest = DOMAIN work, \A i \in DOMAIN work : rest[i].path = work[i].path,
         work' = Append(rest, Open(p)), order' = order
  PROVE  /\ Len(work) \in Nat /\ DOMAIN work = 1..Len(work)
         /\ DOMAIN work' = 1..(Len(work) + 1)
         /\ \A i \in DOMAIN work : work'[i] = rest[i]
         /\ work'[Len(work) + 1] = Open(p)
         /\ Files' = Files \cup {p}
<1>1. /\ Len(rest) = Len(work) /\ Len(work) \in Nat
      /\ DOMAIN work = 1..Len(work) /\ DOMAIN rest = 1..Len(work)
  BY DEF Base, TypeOK
<1>2. /\ DOMAIN work' = 1..(Len(work) + 1)
      /\ \A i \in 1..Len(work) : work'[i] = rest[i]
      /\ work'[Len(work) + 1] = Open(p)
  BY <1>1
<1>3. Open(p).path = p
  BY DEF Open
<1>4. \A i \in DOMAIN work' : work'[i].path \in {work[j].path : j \in DOMAIN work} \cup {p}
  BY <1>1, <1>2, <1>3
<1>5. \A i \in DOMAIN work : i \in DOMAIN work' /\ work'[i].path = work[i].path
  BY <1>1, <1>2
<1>6. Len(work) + 1 \in DOMAIN work'
  BY <1>1, <1>2
<1>7. {work'[i].path : i \in DOMAIN work'} = {work[i].path : i \in DOMAIN work} \cup {p}
  BY <1>2, <1>3, <1>4, <1>5, <1>6
<1>8. QED
  BY <1>1, <1>2, <1>7 DEF Files

\* A file just read has all its names left.
LEMMA OpenedLeft ==
  ASSUME NEW k, NEW p, work'[k] = Open(p), disk' = disk
  PROVE  Left(k)' = NamesOf(disk[p]) /\ work'[k].path = p
BY DEF Left, NamesOf, Open

\* Every step keeps what is said of the files read.
LEMMA StepReads ==
  ASSUME Spelled, RootFound, Base, Base', Reads, [Next]_vars
  PROVE  Reads'
<1>1. ASSUME ReadRoot PROVE Reads'
  <2>1. /\ root \in DOMAIN disk /\ work = <<>> /\ order = <<>> /\ result = "loading"
        /\ UNCHANGED <<disk, root, order, result>>
        /\ work' = Append(<<>>, Open(root)) /\ loaded' = Known(root)
    BY <1>1 DEF ReadRoot, Read, Starting, Base, TypeOK
  <2>2. Files = {} /\ DOMAIN loaded = {}
    <3>1. Files = {}
      BY <2>1 DEF Files
    <3>2. QED
      BY <3>1 DEF Reads, Rightly
  <2>3. /\ DOMAIN work' = {1} /\ work'[1] = Open(root) /\ Files' = {root}
    <3>1. /\ DOMAIN work' = 1..(Len(work) + 1)
          /\ work'[Len(work) + 1] = Open(root)
          /\ Files' = Files \cup {root}
      BY <2>1, OpenedLast, EmptySeq
    <3>2. Len(work) = 0
      BY <2>1
    <3>3. QED
      BY <2>2, <3>1, <3>2
  <2>4. Left(1)' = NamesOf(disk[root]) /\ work'[1].path = root
    BY <2>1, <2>3, OpenedLeft
  <2>5. Rightly'
    BY <2>1, <2>2, <2>3 DEF Rightly, Known
  <2>6. Covered'
    BY <2>1, <2>3, <2>4 DEF Covered
  <2>7. Reached(root)' = Reached(root) /\ root \in Reached(root)
    BY <2>1, SameReached, ReachesItself
  <2>8. Lineage'
    BY <2>1, <2>3, <2>4, <2>7, SameReached DEF Lineage
  <2>9. Behind' /\ Begun'
    BY <2>1, <2>3 DEF Behind, Begun
  <2>10. OneEach' /\ Sought'
    BY <2>1, <2>3, <2>4 DEF OneEach, Sought, Known
  <2>11. QED
    BY <2>5, <2>6, <2>8, <2>9, <2>10 DEF Reads
<1>2. ASSUME Skip PROVE Reads'
  <2>1. /\ UNCHANGED <<disk, root, loaded, order, result>>
        /\ work' = Rest /\ Asked \in DOMAIN loaded
    BY <1>2 DEF Skip
  <2> PICK n : n = Len(work)
    OBVIOUS
  <2>2. /\ DOMAIN Rest = DOMAIN work
        /\ n \in DOMAIN work
        /\ \A i \in DOMAIN work : /\ Rest[i].path = work[i].path
                                  /\ i # n => Rest[i] = work[i]
        /\ {Rest[n].todo[i] : i \in DOMAIN Rest[n].todo} \subseteq Left(n)
        /\ Left(n) = {Asked} \cup {Rest[n].todo[i] : i \in DOMAIN Rest[n].todo}
    BY <1>2, RestKeeps DEF Skip, Base
  <2>3. Files' = Files
    BY <2>1, <2>2 DEF Files
  <2>4. \A i \in DOMAIN work : i # n => Left(i)' = Left(i)
    BY <2>1, <2>2 DEF Left
  <2>5. Left(n)' \subseteq Left(n) /\ Left(n) = {Asked} \cup Left(n)'
    <3>1. Left(n)' = {Rest[n].todo[i] : i \in DOMAIN Rest[n].todo}
      BY <2>1 DEF Left
    <3>2. QED
      BY <2>2, <3>1
  <2>6. Exists(disk, Asked) => Found(disk, Asked) \in Files
    <3>1. work[n].path \in DOMAIN disk
      BY <2>2, FollowedFile DEF Base
    <3>2. Asked \in NamesOf(disk[work[n].path])
      BY <2>2 DEF Reads, Covered
    <3>3. Asked \in NamesIn(disk)
      BY <3>1, <3>2 DEF NamesIn
    <3>4. loaded[Asked] \in Files /\ disk[loaded[Asked]].name = Asked
          /\ (loaded[Asked] = root \/ loaded[Asked] = Found(disk, Asked))
      BY <2>1 DEF Reads, Rightly
    <3>5. disk \in Disks /\ root \in DOMAIN disk /\ root[1] = 1
      BY DEF Base, TypeOK
    <3>6. ASSUME loaded[Asked] = root, Exists(disk, Asked) PROVE Found(disk, Asked) = root
      BY <3>3, <3>4, <3>5, <3>6 DEF RootFound
    <3>7. QED
      BY <3>4, <3>6
  <2>7. Covered'
    <3>1. ASSUME NEW k \in DOMAIN work PROVE Left(k)' \subseteq NamesOf(disk[work[k].path])
      BY <2>4, <2>5 DEF Reads, Covered
    <3>2. ASSUME NEW k \in DOMAIN work, NEW m \in NamesOf(disk[work[k].path]), Exists(disk, m)
          PROVE  m \in Left(k)' \/ Found(disk, m) \in Files
      BY <2>4, <2>5, <2>6, <3>2 DEF Reads, Covered
    <3>3. QED
      BY <2>1, <2>2, <2>3, <3>1, <3>2 DEF Covered
  <2>8. Rightly'
    BY <2>1, <2>3 DEF Reads, Rightly
  <2>9. Lineage'
    BY <2>1, <2>2, <2>3, SameReached DEF Reads, Lineage
  <2>10. Behind'
    BY <2>1, <2>3, SameReached DEF Reads, Behind
  <2>11. Begun'
    BY <1>2, <2>1, <2>3 DEF Reads, Begun, Skip, Followed
  <2>12. OneEach'
    BY <2>1, <2>3 DEF Reads, OneEach
  <2>13. Sought'
    BY <2>1, <2>2, <2>4, <2>5 DEF Reads, Sought
  <2>14. QED
    BY <2>7, <2>8, <2>9, <2>10, <2>11, <2>12, <2>13 DEF Reads
<1>3. ASSUME Descend PROVE Reads'
  <2> PICK n : n = Len(work)
    OBVIOUS
  <2> DEFINE p == Found(disk, Asked)
             top == work[n].path
  <2>1. /\ UNCHANGED <<disk, root, order, result>> /\ work' = Append(Rest, Open(p))
        /\ loaded' = Known(p) /\ result = "loading" /\ TypeOK /\ Followed
        /\ Exists(disk, Asked) /\ Matches(p)
    BY <1>3 DEF Descend, Read, Wanted, Base, Followed
  <2>2. /\ Rest \in Seq(Follows)
        /\ DOMAIN Rest = DOMAIN work
        /\ n \in DOMAIN work
        /\ \A i \in DOMAIN work : /\ Rest[i].path = work[i].path
                                  /\ i # n => Rest[i] = work[i]
        /\ {Rest[n].todo[i] : i \in DOMAIN Rest[n].todo} \subseteq Left(n)
        /\ Left(n) = {Asked} \cup {Rest[n].todo[i] : i \in DOMAIN Rest[n].todo}
    BY <2>1, RestKeeps
  <2>3. p \in DOMAIN disk
    BY <2>1, FoundIsThere
  <2>4. top \in DOMAIN disk /\ Asked \in NamesOf(disk[top])
    BY <2>2, FollowedFile DEF Base, Reads, Covered
  <2>5. disk[p].name = Asked
    BY <1>3, <2>1, FoundIsNew DEF Descend, Reads
  <2>6. p \in NamedBy(top)
    BY <2>1, <2>4 DEF NamedBy
  <2> HIDE DEF p
  <2>7. /\ n \in Nat /\ DOMAIN work = 1..n
        /\ DOMAIN work' = 1..(n + 1)
        /\ \A i \in DOMAIN work : work'[i] = Rest[i]
        /\ work'[n + 1] = Open(p)
        /\ Files' = Files \cup {p}
    BY <2>1, <2>2, <2>3, OpenedLast
  <2>8. Left(n + 1)' = NamesOf(disk[p]) /\ work'[n + 1].path = p
    BY <2>1, <2>7, OpenedLeft
  <2>9. \A i \in DOMAIN work : i # n => Left(i)' = Left(i)
    BY <2>2, <2>7 DEF Left
  <2>10. /\ Left(n)' \subseteq Left(n)
         /\ \A m \in Left(n) : m = Asked \/ m \in Left(n)'
    <3>1. work'[n] = Rest[n]
      BY <2>2, <2>7
    <3>2. Left(n)' = {Rest[n].todo[i] : i \in DOMAIN Rest[n].todo}
      BY <3>1 DEF Left
    <3>3. QED
      BY <2>2, <3>2
  <2>11. /\ DOMAIN loaded' = DOMAIN loaded \cup {Asked} /\ loaded'[Asked] = p
         /\ \A m \in DOMAIN loaded : m # Asked /\ loaded'[m] = loaded[m]
    <3>1. Asked \notin DOMAIN loaded
      BY <1>3 DEF Descend, Wanted
    <3>2. QED
      BY <2>1, <2>5, <3>1 DEF Known
  <2>12. Rightly'
    <3>1. p = Found(disk, Asked)
      BY DEF p
    <3>2. QED
      BY <2>1, <2>5, <2>7, <2>11, <3>1 DEF Reads, Rightly
  <2>13. Covered'
    <3>1. ASSUME NEW k \in DOMAIN work PROVE Left(k)' \subseteq NamesOf(disk[work[k].path])
      BY <2>9, <2>10 DEF Reads, Covered
    <3>2. ASSUME NEW k \in DOMAIN work, NEW m \in NamesOf(disk[work[k].path]), Exists(disk, m)
          PROVE  m \in Left(k)' \/ Found(disk, m) \in Files'
      BY <2>7, <2>9, <2>10, <3>2 DEF p, Reads, Covered
    <3>3. \A k \in DOMAIN work : work'[k].path = work[k].path
      BY <2>2, <2>7
    <3>4. ASSUME NEW k \in DOMAIN work' PROVE k \in DOMAIN work \/ k = n + 1
      BY <2>7
    <3>5. QED
      BY <2>1, <2>8, <3>1, <3>2, <3>3, <3>4 DEF Covered
  <2>14. Lineage'
    <3>1. \A k \in DOMAIN work : top \in Reached(work[k].path)
      BY <2>2, <2>7 DEF Reads, Lineage
    <3>2. \A k \in DOMAIN work : p \in Reached(work[k].path)
      BY <2>6, <3>1, ReachesNamed
    <3>3. top \in Reached(root)
      BY <2>2 DEF Reads, Lineage, Files
    <3>4. p \in Reached(root)
      BY <2>6, <3>3, ReachesNamed
    <3>5. p \in Reached(p)
      BY <2>3, ReachesItself
    <3>6. \A k, l \in DOMAIN work' : k <= l => work'[l].path \in Reached(work'[k].path)
      <4> SUFFICES ASSUME NEW k \in DOMAIN work', NEW l \in DOMAIN work', k <= l
                   PROVE  work'[l].path \in Reached(work'[k].path)
        OBVIOUS
      <4>1. CASE l = n + 1 /\ k = n + 1
        BY <2>8, <3>5, <4>1
      <4>2. CASE l = n + 1 /\ k # n + 1
        BY <2>2, <2>7, <2>8, <3>2, <4>2
      <4>3. CASE l # n + 1
        BY <2>2, <2>7, <4>3 DEF Reads, Lineage
      <4>4. QED
        BY <4>1, <4>2, <4>3
    <3>7. Files' \subseteq Reached(root)
      BY <2>7, <3>4 DEF Reads, Lineage
    <3>8. QED
      BY <2>1, <3>6, <3>7, SameReached DEF Lineage
  <2>15. Behind'
    BY <2>1, <2>7, SameReached DEF Reads, Behind
  <2>16. Begun'
    <3>1. root \in Files
      BY <2>2 DEF Reads, Begun, Files
    <3>2. QED
      BY <2>1, <2>7, <3>1 DEF Begun
  <2>17. OneEach'
    BY <2>1, <2>5, <2>7, <2>11 DEF Reads, OneEach, Base, Remembered
  <2>18. Sought'
    <3>1. ASSUME NEW k \in DOMAIN work
          PROVE  NamesOf(disk[work[k].path]) \subseteq Left(k)' \cup DOMAIN loaded'
      BY <2>9, <2>10, <2>11 DEF Reads, Sought
    <3>2. \A k \in DOMAIN work : work'[k].path = work[k].path
      BY <2>2, <2>7
    <3>3. ASSUME NEW k \in DOMAIN work' PROVE k \in DOMAIN work \/ k = n + 1
      BY <2>7
    <3>4. QED
      BY <2>1, <2>8, <2>11, <3>1, <3>2, <3>3 DEF Reads, Sought
  <2>19. QED
    BY <2>12, <2>13, <2>14, <2>15, <2>16, <2>17, <2>18 DEF Reads
<1>4. ASSUME NEW why \in Results \ {"ok"}, Fail(why) PROVE Reads'
  <2>1. UNCHANGED <<disk, root, loaded, work, order>> /\ result' # "ok"
    BY <1>4 DEF Fail
  <2>2. Files' = Files
    BY <2>1 DEF Files
  <2>3. \A k : Left(k)' = Left(k)
    BY <2>1 DEF Left
  <2>4. QED
    BY <2>1, <2>2, <2>3, SameReached
    DEF Reads, Rightly, Covered, Lineage, Behind, OneEach, Sought, Begun
<1>5. ASSUME Done PROVE Reads'
  <2> DEFINE n == Len(work)
             top == work[Len(work)].path
  <2>1. /\ work \in Seq(Follows) /\ order \in Seq(DOMAIN disk) /\ work # <<>>
        /\ order' = Append(order, top)
        /\ work' = SubSeq(work, 1, n - 1)
        /\ UNCHANGED <<disk, root, loaded>>
        /\ work[n].todo = <<>>
        /\ result' = "ok" => n = 1
    BY <1>5 DEF Done, Top, Base, TypeOK
  <2>2. n \in Nat \ {0} /\ DOMAIN work = 1..n
    BY <2>1
  <2>3. DOMAIN work' = 1..(n - 1) /\ \A i \in 1..(n - 1) : work'[i] = work[i]
    BY <2>1, <2>2
  <2>4. /\ Len(order) \in Nat /\ DOMAIN order = 1..Len(order)
        /\ DOMAIN order' = 1..(Len(order) + 1)
        /\ \A i \in 1..Len(order) : order'[i] = order[i]
        /\ order'[Len(order) + 1] = top
    <3>1. top \in DOMAIN disk
      BY <2>2, FollowedFile DEF Base
    <3>2. QED
      BY <2>1, <3>1
  <2>5. Files' = Files
    <3>1. ASSUME NEW p \in Files PROVE p \in Files'
      <4>1. CASE \E i \in DOMAIN order : p = order[i]
        BY <2>4, <4>1 DEF Files
      <4>2. CASE \E i \in DOMAIN work : p = work[i].path
        <5>1. PICK i \in DOMAIN work : p = work[i].path
          BY <4>2
        <5>2. CASE i = n
          <6>1. Len(order) + 1 \in DOMAIN order' /\ order'[Len(order) + 1] = p
            BY <2>4, <5>1, <5>2
          <6>2. QED
            BY <6>1 DEF Files
        <5>3. CASE i # n
          <6>1. i \in DOMAIN work' /\ work'[i].path = p
            BY <2>2, <2>3, <5>1, <5>3
          <6>2. QED
            BY <6>1 DEF Files
        <5>4. QED
          BY <5>2, <5>3
      <4>3. QED
        BY <4>1, <4>2 DEF Files
    <3>2. ASSUME NEW p \in Files' PROVE p \in Files
      BY <2>2, <2>3, <2>4, <3>2 DEF Files
    <3>3. QED
      BY <3>1, <3>2
  <2>6. Rightly'
    BY <2>1, <2>5 DEF Reads, Rightly
  <2>7. Covered'
    <3>1. \A k \in DOMAIN work' : k \in DOMAIN work /\ work'[k] = work[k] /\ Left(k)' = Left(k)
      BY <2>2, <2>3 DEF Left
    <3>2. QED
      BY <2>1, <2>5, <3>1 DEF Reads, Covered
  <2>8. Lineage'
    <3>1. \A k \in DOMAIN work' : k \in DOMAIN work /\ work'[k] = work[k]
      BY <2>2, <2>3
    <3>2. QED
      BY <2>1, <2>5, <3>1, SameReached DEF Reads, Lineage
  <2>9. Behind'
    <3>1. ASSUME NEW q \in NamedBy(top)
          PROVE  /\ q \in Files
                 /\ (\E j \in 1..Len(order) : order[j] = q) \/ top \in Reached(q)
      <4>1. PICK m \in NamesOf(disk[top]) : Exists(disk, m) /\ q = Found(disk, m)
        BY <3>1 DEF NamedBy
      <4>2. Left(n) = {}
        BY <2>1 DEF Left
      <4>3. q \in Files
        BY <2>2, <4>1, <4>2 DEF Reads, Covered
      <4>4. \A k \in DOMAIN work : top \in Reached(work[k].path)
        BY <2>2 DEF Reads, Lineage
      <4>5. QED
        BY <2>4, <4>3, <4>4 DEF Files
    <3>2. ASSUME NEW i \in DOMAIN order', NEW q \in NamedBy(order'[i])
          PROVE  /\ q \in Files
                 /\ (\E j \in 1..(i - 1) : order'[j] = q) \/ order'[i] \in Reached(q)
      <4>1. CASE i = Len(order) + 1
        <5>1. q \in NamedBy(top) /\ order'[i] = top /\ i - 1 = Len(order)
          BY <2>4, <3>2, <4>1
        <5>2. QED
          BY <2>4, <3>1, <5>1
      <4>2. CASE i # Len(order) + 1
        <5>1. i \in DOMAIN order /\ order'[i] = order[i] /\ q \in NamedBy(order[i])
          BY <2>4, <3>2, <4>2
        <5>2. \A j \in 1..(i - 1) : order'[j] = order[j]
          BY <2>4, <5>1
        <5>3. QED
          BY <5>1, <5>2 DEF Reads, Behind
      <4>3. QED
        BY <4>1, <4>2
    <3>3. QED
      BY <2>1, <2>5, <3>2, SameReached DEF Behind
  <2>10. Begun'
    <3>1. root \in Files
      <4>1. n \in DOMAIN work
        BY <2>2
      <4>2. QED
        BY <4>1 DEF Reads, Begun, Files
    <3>2. result' = "ok" => work' = <<>>
      BY <2>1
    <3>3. order' # <<>>
      BY <2>4
    <3>4. QED
      BY <2>1, <2>5, <3>1, <3>2, <3>3 DEF Begun
  <2>11. OneEach'
    BY <2>1, <2>5 DEF Reads, OneEach
  <2>12. Sought'
    <3>1. Left(n) = {} /\ n \in DOMAIN work
      BY <2>1, <2>2 DEF Left
    <3>2. NamesOf(disk[top]) \subseteq DOMAIN loaded
      BY <3>1 DEF Reads, Sought
    <3>3. \A k \in DOMAIN work' : k \in DOMAIN work /\ work'[k] = work[k] /\ Left(k)' = Left(k)
      BY <2>2, <2>3 DEF Left
    <3>4. \A i \in DOMAIN order' : order'[i] = top \/ (i \in DOMAIN order /\ order'[i] = order[i])
      BY <2>4
    <3>5. QED
      BY <2>1, <3>2, <3>3, <3>4 DEF Reads, Sought
  <2>13. QED
    BY <2>6, <2>7, <2>8, <2>9, <2>10, <2>11, <2>12 DEF Reads
<1>6. ASSUME UNCHANGED vars PROVE Reads'
  <2>1. UNCHANGED <<disk, root, loaded, work, order, result>>
    BY <1>6 DEF vars
  <2>2. Files' = Files
    BY <2>1 DEF Files
  <2>3. \A k : Left(k)' = Left(k)
    BY <2>1 DEF Left
  <2>4. QED
    BY <2>1, <2>2, <2>3, SameReached
    DEF Reads, Rightly, Covered, Lineage, Behind, OneEach, Sought, Begun
<1>7. QED
  BY <1>1, <1>2, <1>3, <1>4, <1>5, <1>6
  DEF Next, Missing, Misnamed, Unreadable, Results

(***************************************************************************)
(* Nothing is done twice.                                                  *)
(***************************************************************************)

\* No more names are still to be looked at than the module has.
Fewer == \A k \in DOMAIN work : Len(work[k].todo) <= Len(Qualifiers(disk[work[k].path]))

\* What there is to do with one file, which is the same at every step.
LEMMA InToDo ==
  ASSUME Base, NEW p \in DOMAIN disk
  PROVE  /\ Len(Qualifiers(disk[p])) \in Nat
         /\ \A i \in 0..(Len(Qualifiers(disk[p])) + 1) : <<p, i>> \in ToDo
<1>1. Qualifiers(disk[p]) \in Seq(Names)
  BY LoaderAssumption DEF Base
<1>2. QED
  BY <1>1 DEF ToDo

LEMMA FromToDo ==
  ASSUME Base, NEW s \in ToDo
  PROVE  s[1] \in DOMAIN disk /\ s[2] \in Nat /\ Len(Qualifiers(disk[s[1]])) \in Nat
<1>1. PICK p \in DOMAIN disk : s \in {p} \X (0..(Len(Qualifiers(disk[p])) + 1))
  BY DEF ToDo
<1>2. QED
  BY <1>1, InToDo

LEMMA SameToDo ==
  ASSUME disk' = disk
  PROVE  ToDo' = ToDo
BY DEF ToDo

\* The list of what is being followed, its last name struck off.
LEMMA RestShorter ==
  ASSUME TypeOK, Followed
  PROVE  /\ Len(work) \in Nat \ {0} /\ DOMAIN work = 1..Len(work)
         /\ \A i \in DOMAIN work : Len(work[i].todo) \in Nat
         /\ DOMAIN Rest = DOMAIN work
         /\ \A i \in DOMAIN work : /\ Rest[i].path = work[i].path
                                   /\ i # Len(work) => Rest[i] = work[i]
         /\ Len(work[Len(work)].todo) > 0
         /\ Len(Rest[Len(work)].todo) = Len(work[Len(work)].todo) - 1
<1>1. work \in Seq(Follows) /\ work # <<>> /\ work[Len(work)].todo # <<>>
  BY DEF TypeOK, Followed, Top
<1>2. Len(work) \in Nat \ {0} /\ DOMAIN work = 1..Len(work)
  BY <1>1
<1>3. \A i \in DOMAIN work : work[i] \in Follows
  BY <1>1
<1>4. \A i \in DOMAIN work : work[i].todo \in Seq(Names) /\ Len(work[i].todo) \in Nat
  BY <1>3 DEF Follows
<1>5. Rest[Len(work)].todo = Tail(work[Len(work)].todo)
  BY <1>2, <1>3 DEF Rest, Follows
<1>6. work[Len(work)].todo \in Seq(Names) \ {<<>>}
  BY <1>1, <1>2, <1>4
<1>7. Len(work[Len(work)].todo) > 0 /\ Len(Rest[Len(work)].todo) = Len(work[Len(work)].todo) - 1
  BY <1>5, <1>6
<1>8. QED
  BY <1>2, <1>4, <1>7, RestKeeps

\* A file that was not read is opened: it is done that it was read, and what was
\* done before stays done.
LEMMA OpenGetsOn ==
  ASSUME Base, Fewer, NEW p \in DOMAIN disk, p \notin Files, NEW rest,
         rest \in Seq(Follows), DOMAIN rest = DOMAIN work,
         \A i \in DOMAIN work : /\ rest[i].path = work[i].path
                                /\ Len(rest[i].todo) \in Nat
                                /\ Len(rest[i].todo) <= Len(work[i].todo),
         Read(p, rest)
  PROVE  Fewer' /\ Did \subseteq Did' /\ Did' # Did
<1>1. UNCHANGED <<disk, order>> /\ work' = Append(rest, Open(p))
  BY DEF Read
<1>2. /\ DOMAIN work = 1..Len(work) /\ DOMAIN work' = 1..(Len(work) + 1) /\ Len(work) \in Nat
      /\ \A i \in DOMAIN work : work'[i] = rest[i]
      /\ work'[Len(work) + 1] = Open(p)
  BY <1>1, OpenedLast
<1>3. ToDo' = ToDo
  BY <1>1, SameToDo
<1>4. \A i \in DOMAIN work : Len(work[i].todo) \in Nat /\ Len(Qualifiers(disk[work[i].path])) \in Nat
  <2>1. \A i \in DOMAIN work : work[i] \in Follows
    BY DEF Base, TypeOK
  <2>2. QED
    BY <2>1, InToDo DEF Follows
<1>5. Fewer'
  <2>1. ASSUME NEW k \in DOMAIN work PROVE Len(work'[k].todo) <= Len(Qualifiers(disk[work'[k].path]))
    BY <1>2, <1>4 DEF Fewer
  <2>2. Len(work'[Len(work) + 1].todo) <= Len(Qualifiers(disk[work'[Len(work) + 1].path]))
    BY <1>2, InToDo DEF Open
  <2>3. QED
    BY <1>1, <1>2, <2>1, <2>2 DEF Fewer
<1>6. Did \subseteq Did'
  <2> SUFFICES ASSUME NEW s \in Did PROVE s \in Did'
    OBVIOUS
  <2>1. CASE \E i \in DOMAIN order : s[1] = order[i]
    BY <1>1, <1>3, <2>1 DEF Did
  <2>2. CASE \E k \in DOMAIN work : /\ s[1] = work[k].path
                                    /\ s[2] + Len(work[k].todo) <= Len(Qualifiers(disk[s[1]]))
    <3>1. PICK k \in DOMAIN work : /\ s[1] = work[k].path
                                   /\ s[2] + Len(work[k].todo) <= Len(Qualifiers(disk[s[1]]))
      BY <2>2
    <3>2. s \in ToDo /\ s[2] \in Nat
      BY FromToDo DEF Did
    <3>3. k \in DOMAIN work' /\ work'[k].path = s[1]
          /\ s[2] + Len(work'[k].todo) <= Len(Qualifiers(disk[s[1]]))
      BY <1>2, <1>4, <3>1, <3>2
    <3>4. QED
      BY <1>1, <1>3, <3>2, <3>3 DEF Did
  <2>3. QED
    BY <2>1, <2>2 DEF Did
<1>7. <<p, 0>> \in ToDo /\ <<p, 0>> \notin Did
  BY InToDo DEF Did, Files
<1>8. <<p, 0>> \in Did'
  <2>1. /\ Len(work) + 1 \in DOMAIN work' /\ work'[Len(work) + 1].path = p
        /\ 0 + Len(work'[Len(work) + 1].todo) <= Len(Qualifiers(disk[p]))
    BY <1>2, InToDo DEF Open
  <2>2. QED
    BY <1>1, <1>3, <1>7, <2>1 DEF Did
<1>9. QED
  BY <1>3, <1>5, <1>6, <1>7, <1>8

\* Each step that does not fail does something that was not done.
LEMMA StepGetsOn ==
  ASSUME Spelled, IInv, Fewer, [Next]_vars
  PROVE  /\ Fewer' /\ Did \subseteq Did'
         /\ result' \in {"loading", "ok"} /\ vars' # vars => Did' # Did
<1> DEFINE Goal == /\ Fewer' /\ Did \subseteq Did'
                   /\ result' \in {"loading", "ok"} /\ vars' # vars => Did' # Did
<1>1. ASSUME ReadRoot PROVE Goal
  <2>1. root \in DOMAIN disk /\ root \notin Files /\ work = <<>> /\ Read(root, <<>>)
    BY <1>1 DEF ReadRoot, Starting, IInv, Base, TypeOK, Files
  <2>2. <<>> \in Seq(Follows) /\ DOMAIN work = {}
    BY <2>1, EmptySeq
  <2>3. Fewer' /\ Did \subseteq Did' /\ Did' # Did
    BY <2>1, <2>2, OpenGetsOn DEF IInv
  <2>4. QED
    BY <2>3
<1>2. ASSUME Descend PROVE Goal
  <2> DEFINE p == Found(disk, Asked)
  <2>1. Wanted /\ Exists(disk, Asked) /\ Matches(p) /\ Read(p, Rest) /\ Followed
    BY <1>2 DEF Descend, Read, Wanted
  <2>2. p \in DOMAIN disk /\ p \notin Files
    BY <2>1, FoundIsNew DEF IInv, Reads
  <2> HIDE DEF p
  <2>3. Rest \in Seq(Follows)
    BY <2>1, RestKeeps DEF IInv, Base
  <2>4. /\ DOMAIN Rest = DOMAIN work
        /\ \A i \in DOMAIN work : /\ Rest[i].path = work[i].path
                                  /\ Len(Rest[i].todo) \in Nat
                                  /\ Len(Rest[i].todo) <= Len(work[i].todo)
    BY <2>1, RestShorter DEF IInv, Base
  <2>5. QED
    BY <2>1, <2>2, <2>3, <2>4, OpenGetsOn DEF IInv
<1>3. ASSUME Skip PROVE Goal
  <2> PICK n : n = Len(work)
    OBVIOUS
  <2> PICK top : top = work[n].path
    OBVIOUS
  <2>1. UNCHANGED <<disk, order>> /\ work' = Rest /\ Followed
    BY <1>3 DEF Skip
  <2>2. /\ n \in DOMAIN work
        /\ \A i \in DOMAIN work : Len(work[i].todo) \in Nat
        /\ DOMAIN work' = DOMAIN work
        /\ \A i \in DOMAIN work : /\ work'[i].path = work[i].path
                                  /\ i # n => work'[i] = work[i]
        /\ Len(work[n].todo) > 0
        /\ Len(work'[n].todo) = Len(work[n].todo) - 1
    BY <2>1, RestShorter DEF IInv, Base
  <2>3. \A i \in DOMAIN work : work[i].path \in DOMAIN disk /\ Len(Qualifiers(disk[work[i].path])) \in Nat
    BY FollowedFile, InToDo DEF IInv, Base
  <2>4. \A i \in DOMAIN work : Len(work'[i].todo) <= Len(work[i].todo) /\ Len(work'[i].todo) \in Nat
    BY <2>2
  <2>5. Fewer'
    BY <2>1, <2>2, <2>3, <2>4 DEF Fewer
  <2>6. ToDo' = ToDo
    BY <2>1, SameToDo
  <2>7. Did \subseteq Did'
    <3> SUFFICES ASSUME NEW s \in Did PROVE s \in Did'
      OBVIOUS
    <3>1. s \in ToDo /\ s[2] \in Nat /\ s[1] \in DOMAIN disk
      BY FromToDo DEF Did, IInv
    <3>2. CASE \E i \in DOMAIN order : s[1] = order[i]
      BY <2>1, <2>6, <3>1, <3>2 DEF Did
    <3>3. CASE \E k \in DOMAIN work : /\ s[1] = work[k].path
                                      /\ s[2] + Len(work[k].todo) <= Len(Qualifiers(disk[s[1]]))
      <4>1. PICK k \in DOMAIN work : /\ s[1] = work[k].path
                                     /\ s[2] + Len(work[k].todo) <= Len(Qualifiers(disk[s[1]]))
        BY <3>3
      <4>2. k \in DOMAIN work' /\ work'[k].path = s[1]
            /\ s[2] + Len(work'[k].todo) <= Len(Qualifiers(disk[s[1]]))
        BY <2>2, <2>3, <2>4, <3>1, <4>1
      <4>3. QED
        BY <2>1, <2>6, <3>1, <4>2 DEF Did
    <3>4. QED
      BY <3>2, <3>3 DEF Did
  <2> DEFINE i == Len(Qualifiers(disk[top])) - Len(work[n].todo) + 1
  <2>8. /\ Len(Qualifiers(disk[top])) \in Nat /\ Len(work[n].todo) <= Len(Qualifiers(disk[top]))
        /\ top \in DOMAIN disk /\ Len(work[n].todo) \in Nat /\ Len(work[n].todo) > 0
        /\ Len(work'[n].todo) = Len(work[n].todo) - 1
    BY <2>2, <2>3 DEF Fewer
  <2>9. /\ i \in 0..(Len(Qualifiers(disk[top])) + 1)
        /\ i + Len(work'[n].todo) <= Len(Qualifiers(disk[top]))
        /\ ~(i + Len(work[n].todo) <= Len(Qualifiers(disk[top])))
    <3>1. \A a, b \in Nat : b > 0 /\ b <= a => /\ a - b + 1 \in 0..(a + 1)
                                               /\ (a - b + 1) + (b - 1) <= a
                                               /\ ~((a - b + 1) + b <= a)
      OBVIOUS
    <3>2. QED
      BY <2>8, <3>1
  <2> HIDE DEF i
  <2>10. <<top, i>> \in ToDo
    BY <2>8, <2>9, InToDo DEF IInv
  <2>11. <<top, i>> \in Did'
    BY <2>1, <2>2, <2>6, <2>9, <2>10 DEF Did
  <2>12. <<top, i>> \notin Did
    <3>1. \A k \in DOMAIN order : order[k] # top
      BY <2>2 DEF IInv, Base, ReadOnce
    <3>2. \A k \in DOMAIN work : work[k].path = top => k = n
      BY <2>2 DEF IInv, Base, ReadOnce
    <3>3. QED
      BY <2>9, <3>1, <3>2 DEF Did
  <2>13. QED
    BY <2>5, <2>6, <2>7, <2>11, <2>12
<1>4. ASSUME Done PROVE Goal
  <2> PICK n : n = Len(work)
    OBVIOUS
  <2> PICK top : top = work[n].path
    OBVIOUS
  <2>1. /\ work \in Seq(Follows) /\ order \in Seq(DOMAIN disk) /\ work # <<>>
        /\ order' = Append(order, top) /\ work' = SubSeq(work, 1, n - 1) /\ disk' = disk
        /\ work[n].todo = <<>>
    BY <1>4 DEF Done, Top, IInv, Base, TypeOK
  <2>2. n \in Nat \ {0} /\ DOMAIN work = 1..n /\ n \in DOMAIN work
    BY <2>1
  <2>3. DOMAIN work' = 1..(n - 1) /\ \A i \in 1..(n - 1) : work'[i] = work[i]
    BY <2>1, <2>2
  <2>4. top \in DOMAIN disk
    BY <2>2, FollowedFile DEF IInv, Base
  <2>5. /\ Len(order) \in Nat /\ DOMAIN order = 1..Len(order)
        /\ DOMAIN order' = 1..(Len(order) + 1)
        /\ \A i \in 1..Len(order) : order'[i] = order[i]
        /\ order'[Len(order) + 1] = top
    BY <2>1, <2>4
  <2>6. Fewer'
    BY <2>1, <2>2, <2>3 DEF Fewer
  <2>7. ToDo' = ToDo
    BY <2>1, SameToDo
  <2>8. Did \subseteq Did'
    <3> SUFFICES ASSUME NEW s \in Did PROVE s \in Did'
      OBVIOUS
    <3>1. s \in ToDo
      BY DEF Did
    <3>2. CASE \E i \in DOMAIN order : s[1] = order[i]
      BY <2>5, <2>7, <3>1, <3>2 DEF Did
    <3>3. CASE \E k \in DOMAIN work : /\ s[1] = work[k].path
                                      /\ s[2] + Len(work[k].todo) <= Len(Qualifiers(disk[s[1]]))
      <4>1. PICK k \in DOMAIN work : /\ s[1] = work[k].path
                                     /\ s[2] + Len(work[k].todo) <= Len(Qualifiers(disk[s[1]]))
        BY <3>3
      <4>2. CASE k = n
        <5>1. Len(order) + 1 \in DOMAIN order' /\ s[1] = order'[Len(order) + 1]
          BY <2>5, <4>1, <4>2
        <5>2. QED
          BY <2>7, <3>1, <5>1 DEF Did
      <4>3. CASE k # n
        <5>1. k \in DOMAIN work' /\ work'[k] = work[k]
          BY <2>2, <2>3, <4>3
        <5>2. QED
          BY <2>1, <2>7, <3>1, <4>1, <5>1 DEF Did
      <4>4. QED
        BY <4>2, <4>3
    <3>4. QED
      BY <3>2, <3>3 DEF Did
  <2> DEFINE i == Len(Qualifiers(disk[top])) + 1
  <2>9. <<top, i>> \in ToDo /\ Len(Qualifiers(disk[top])) \in Nat
    BY <2>4, InToDo DEF IInv
  <2>10. <<top, i>> \in Did'
    <3>1. Len(order) + 1 \in DOMAIN order'
      BY <2>5
    <3>2. QED
      BY <2>5, <2>7, <2>9, <3>1 DEF Did
  <2>11. <<top, i>> \notin Did
    <3>1. \A k \in DOMAIN order : order[k] # top
      BY <2>2 DEF IInv, Base, ReadOnce
    <3>2. \A k \in DOMAIN work : work[k].path = top => k = n
      BY <2>2 DEF IInv, Base, ReadOnce
    <3>3. Len(work[n].todo) = 0
      BY <2>1
    <3>4. ~(i + Len(work[n].todo) <= Len(Qualifiers(disk[top])))
      BY <2>9, <3>3
    <3>5. QED
      BY <3>1, <3>2, <3>4 DEF Did
  <2> HIDE DEF i
  <2>12. QED
    BY <2>6, <2>7, <2>8, <2>10, <2>11
<1>5. ASSUME UNCHANGED <<disk, work, order>> PROVE Fewer' /\ ToDo' = ToDo /\ Did' = Did
  BY <1>5, SameToDo DEF Fewer, Did
<1>6. ASSUME Missing \/ Misnamed \/ Unreadable PROVE Goal
  <2>1. UNCHANGED <<disk, work, order>> /\ result' \notin {"loading", "ok"}
    BY <1>6 DEF Missing, Misnamed, Unreadable, Fail
  <2>2. QED
    BY <1>5, <2>1
<1>7. ASSUME UNCHANGED vars PROVE Goal
  BY <1>5, <1>7 DEF vars
<1>8. QED
  BY <1>1, <1>2, <1>3, <1>4, <1>6, <1>7 DEF Next

(***************************************************************************)
(* The theorems.                                                           *)
(***************************************************************************)

\* The invariant holds in every state.
THEOREM InvariantHolds == ASSUME Spelled, RootFound PROVE Spec => []IInv
<1>1. IInv /\ [Next]_vars => IInv'
  BY StepBase, StepReads DEF IInv, Reads
<1>2. QED
  BY InitInvariant, <1>1, PTL DEF Spec

\* A file is read once, whatever names whatever and wherever the files are, as
\* long as every module is called what it calls itself (load.rs: "a second
\* reference is free and a cycle terminates").
THEOREM EveryFileOnce == ASSUME Spelled, RootFound PROVE Spec => []ReadOnce
<1>1. IInv => ReadOnce
  BY DEF IInv, Base
<1>2. QED
  BY InvariantHolds, <1>1, PTL

\* What was read is all that the root leads to, and nothing else, however the
\* modules name each other: a cycle cuts nothing off (load.rs, Loader::follow).
THEOREM NothingIsLeftOut == ASSUME Spelled, RootFound PROVE Spec => []Complete
<1>1. ASSUME IInv, result = "ok"
      PROVE  {order[i] : i \in DOMAIN order} = Reached(root)
  <2> DEFINE done == {order[i] : i \in DOMAIN order}
  <2>1. done = Files
    BY <1>1 DEF IInv, Reads, Begun, Files
  <2>2. order # <<>> /\ order \in Seq(DOMAIN disk)
    BY <1>1 DEF IInv, Base, TypeOK, Reads, Begun
  <2>3. root \in done
    BY <1>1, <2>1, <2>2 DEF IInv, Reads, Begun
  <2>4. done \in SUBSET DOMAIN disk
    BY <2>2
  <2>5. \A q \in done : NamedBy(q) \subseteq done
    BY <1>1, <2>1 DEF IInv, Reads, Behind
  <2>6. done \subseteq Reached(root)
    BY <1>1, <2>1 DEF IInv, Reads, Lineage
  <2> HIDE DEF done
  <2>7. Reached(root) \subseteq done
    BY <2>3, <2>4, <2>5, ReachedLeast
  <2>8. done = Reached(root)
    BY <2>6, <2>7
  <2>9. QED
    BY <2>8 DEF done
<1>2. IInv => Complete
  BY <1>1 DEF Complete
<1>3. QED
  BY InvariantHolds, <1>2, PTL

\* A module stands before one it names only if the two lead to each other
\* (load.rs: "with dependencies before the modules that use them").
THEOREM DependenciesComeFirst == ASSUME Spelled, RootFound PROVE Spec => []DependenciesFirst
<1>1. ASSUME IInv, NEW i \in DOMAIN order, NEW j \in DOMAIN order,
             i < j, order[j] \in NamedBy(order[i])
      PROVE  order[i] \in Reached(order[j])
  <2>1. order \in Seq(DOMAIN disk)
    BY <1>1 DEF IInv, Base, TypeOK
  <2>2. Len(order) \in Nat /\ DOMAIN order = 1..Len(order)
    BY <2>1
  <2>3. ASSUME NEW k \in 1..(i - 1) PROVE order[k] # order[j]
    BY <1>1, <2>2 DEF IInv, Base, ReadOnce
  <2>4. QED
    BY <1>1, <2>3 DEF IInv, Reads, Behind
<1>2. IInv => DependenciesFirst
  BY <1>1 DEF DependenciesFirst
<1>3. QED
  BY InvariantHolds, <1>2, PTL

\* Every step that does not fail reads a file that was not read, looks at a name
\* of a file that was not looked at, or is the one that is done with a file.  The
\* files and their names are finitely many: so a load ends (load.rs: "a cycle
\* terminates").
THEOREM NothingTwice == ASSUME Spelled, RootFound PROVE Spec => GetsOn
<1>1. Init => Fewer
  BY DEF Init, Fewer
<1>2. IInv /\ Fewer /\ [Next]_vars => Fewer'
  BY StepGetsOn
<1>3. IInv /\ Fewer /\ [Next]_vars =>
        [Did \subseteq Did' /\ (result' \in {"loading", "ok"} => Did' # Did)]_vars
  BY StepGetsOn
<1>4. QED
  BY InvariantHolds, <1>1, <1>2, <1>3, PTL DEF Spec, GetsOn

(***************************************************************************)
(* Flattening, and its invariant.                                          *)
(***************************************************************************)
Whole == [i \in DOMAIN order |-> MangleUnit(Units[i])]

\* There is a flat module only once all is read and every name was found.
Flattened == flat = <<>> \/ (result = "ok" /\ ~Refused /\ flat = Whole)
ProgramInv == IInv /\ Flattened

\* A load that has ended stays as it is.
LEMMA NextLoads == ASSUME Next PROVE result = "loading"
BY DEF Next, ReadRoot, Skip, Descend, Missing, Misnamed, Unreadable, Done, ToRead,
       Wanted, Starting, Followed

\* The same files in the same order are flattened in the same way.
LEMMA SameWhole ==
  ASSUME UNCHANGED <<disk, order>>
  PROVE  Refused' = Refused /\ Whole' = Whole
<1>1. UnitNames' = UnitNames /\ Units' = Units
  BY DEF UnitNames, Units
<1>2. \A m : Table(m)' = Table(m)
  BY DEF Table
<1>3. \A t : HasErrors(t)' = HasErrors(t)
  BY <1>1, <1>2 DEF HasErrors
<1>4. ASSUME NEW t, NEW mod, NEW params
      PROVE  Mangle(t, mod, params)' = Mangle(t, mod, params)
  BY <1>1, <1>2 DEF Mangle
<1>5. \A mod : MangleUnit(mod)' = MangleUnit(mod)
  BY <1>4 DEF MangleUnit, MangleFun
<1>6. QED
  BY <1>1, <1>3, <1>5 DEF Refused, Whole

LEMMA StepProgram ==
  ASSUME Spelled, RootFound, ProgramInv, [ProgramNext]_programVars
  PROVE  ProgramInv'
<1>1. CASE Load
  <2>1. result = "loading" /\ flat' = flat
    BY <1>1, NextLoads DEF Load
  <2>2. IInv'
    BY <1>1, StepBase, StepReads DEF Load, ProgramInv, IInv, Reads
  <2>3. QED
    BY <2>1, <2>2 DEF ProgramInv, Flattened
<1>2. CASE Flatten
  <2>1. UNCHANGED vars /\ result = "ok"
        /\ flat' = IF Refused THEN <<>> ELSE Whole
    BY <1>2 DEF Flatten, Whole
  <2>2. IInv'
    BY <2>1, StepBase, StepReads DEF ProgramInv, IInv, Reads
  <2>3. Refused' = Refused /\ Whole' = Whole /\ result' = "ok"
    BY <2>1, SameWhole DEF vars
  <2>4. QED
    BY <2>1, <2>2, <2>3 DEF ProgramInv, Flattened
<1>3. CASE UNCHANGED programVars
  <2>1. UNCHANGED vars /\ flat' = flat
    BY <1>3 DEF programVars
  <2>2. IInv'
    BY <2>1, StepBase, StepReads DEF ProgramInv, IInv, Reads
  <2>3. Refused' = Refused /\ Whole' = Whole /\ result' = result
    BY <2>1, SameWhole DEF vars
  <2>4. QED
    BY <2>1, <2>2, <2>3 DEF ProgramInv, Flattened
<1>4. QED
  BY <1>1, <1>2, <1>3 DEF ProgramNext

LEMMA ProgramInvariant == ASSUME Spelled, RootFound PROVE ProgramSpec => []ProgramInv
<1>1. ProgramInit => ProgramInv
  BY InitInvariant DEF ProgramInit, ProgramInv, Flattened
<1>2. ProgramInv /\ [ProgramNext]_programVars => ProgramInv'
  BY StepProgram
<1>3. QED
  BY <1>1, <1>2, PTL DEF ProgramSpec

(***************************************************************************)
(* Modules and files.                                                      *)
(***************************************************************************)

\* A unit's name means its file, and no other unit has that name.
LEMMA UnitFile ==
  ASSUME IInv, NEW i \in DOMAIN order
  PROVE  /\ order[i] \in DOMAIN disk /\ disk[order[i]].name \in UnitNames
         /\ Meant(disk[order[i]].name) = order[i]
         /\ disk[order[i]].name # ""
<1> DEFINE p == order[i]
           m == disk[p].name
<1>1. p \in Files /\ p \in DOMAIN disk /\ disk \in Disks
  BY DEF Files, IInv, Base, TypeOK
<1>2. m \in DOMAIN loaded /\ loaded[m] = p
  BY <1>1 DEF IInv, Base, Remembered, Reads, OneEach
<1>3. p = root \/ p = Found(disk, m)
  BY <1>2 DEF IInv, Reads, Rightly
<1>4. root \in Files
  BY <1>1 DEF IInv, Reads, Begun
<1>5. loaded[disk[root].name] = root
  BY <1>4 DEF IInv, Reads, OneEach
<1>6. Meant(m) = p
  BY <1>2, <1>3, <1>5 DEF Meant
<1>7. m \in UnitNames
  BY DEF UnitNames
<1>8. m # ""
  BY <1>1, ProgramAssumption
<1>9. QED
  BY <1>1, <1>6, <1>7, <1>8

\* The table has, for each name, the one unit of that name.
LEMMA TableIs ==
  ASSUME IInv, NEW m \in UnitNames
  PROVE  /\ Table(m) = disk[Meant(m)] /\ m # ""
         /\ \E i \in DOMAIN order : order[i] = Meant(m) /\ disk[order[i]].name = m
<1>1. PICK i \in DOMAIN order : disk[order[i]].name = m
  BY DEF UnitNames
<1>2. order[i] = Meant(m) /\ m # ""
  BY <1>1, UnitFile
<1>3. \A j \in DOMAIN order : disk[order[j]].name = m => j = i
  <2> SUFFICES ASSUME NEW j \in DOMAIN order, disk[order[j]].name = m, j # i PROVE FALSE
    OBVIOUS
  <2>1. order[j] = Meant(m)
    BY UnitFile
  <2>2. QED
    BY <1>2, <2>1 DEF IInv, Base, ReadOnce
<1>4. DOMAIN order \subseteq Nat
  BY DEF IInv, Base, TypeOK
<1> DEFINE Latest(k) == /\ disk[order[k]].name = m
                        /\ \A j \in DOMAIN order : j > k => disk[order[j]].name # m
           k0 == CHOOSE k \in DOMAIN order : Latest(k)
<1>5. Latest(i)
  BY <1>1, <1>3, <1>4
<1>6. k0 \in DOMAIN order /\ Latest(k0)
  BY <1>5
<1>7. k0 = i
  BY <1>3, <1>6
<1>8. Table(m) = disk[order[k0]]
  BY DEF Table
<1> HIDE DEF k0
<1>9. QED
  BY <1>1, <1>2, <1>7, <1>8

\* What the flat module declares under `m.n` is what the file declares that m means.
LEMMA FlatDeclares ==
  ASSUME IInv, flat = Whole, NEW m, NEW n
  PROVE  /\ m \in UnitNames => ValueOf(m, n) = IF n \in Vals(disk[Meant(m)]) THEN {Meant(m)} ELSE {}
         /\ m \in UnitNames => CtorOf(m, n) = IF n \in disk[Meant(m)].ctors THEN {Meant(m)} ELSE {}
         /\ m \notin UnitNames => ValueOf(m, n) = {} /\ CtorOf(m, n) = {}
<1>1. DOMAIN flat = DOMAIN order
  BY DEF Whole
<1>2. ASSUME NEW i \in DOMAIN order
      PROVE  /\ flat[i].home = disk[order[i]].name /\ flat[i].ctors = disk[order[i]].ctors
             /\ Vals(flat[i]) = Vals(disk[order[i]])
  <2>1. flat[i] = MangleUnit(disk[order[i]])
    BY DEF Whole, Units
  <2>2. /\ flat[i].home = disk[order[i]].name /\ flat[i].ctors = disk[order[i]].ctors
        /\ flat[i].funs = [j \in DOMAIN disk[order[i]].funs |->
                             MangleFun(disk[order[i]].funs[j], disk[order[i]])]
    BY <2>1 DEF MangleUnit
  <2>3. \A j \in DOMAIN disk[order[i]].funs : flat[i].funs[j].name = disk[order[i]].funs[j].name
    BY <2>2 DEF MangleFun
  <2>4. QED
    BY <2>2, <2>3 DEF Vals
<1>3. ASSUME NEW i \in DOMAIN order, disk[order[i]].name = m PROVE order[i] = Meant(m)
  BY <1>3, UnitFile
<1>4. m \notin UnitNames => \A i \in DOMAIN order : disk[order[i]].name # m
  BY DEF UnitNames
<1>5. m \in UnitNames => \E i \in DOMAIN order : order[i] = Meant(m) /\ disk[order[i]].name = m
  BY TableIs
<1>6. /\ ValueOf(m, n) = {order[i] : i \in {j \in DOMAIN order : disk[order[j]].name = m
                                                                /\ n \in Vals(disk[order[j]])}}
      /\ CtorOf(m, n) = {order[i] : i \in {j \in DOMAIN order : disk[order[j]].name = m
                                                               /\ n \in disk[order[j]].ctors}}
  BY <1>1, <1>2 DEF ValueOf, CtorOf
<1>7. CASE m \notin UnitNames
  BY <1>4, <1>6, <1>7
<1>8. CASE m \in UnitNames
  <2>1. PICK i \in DOMAIN order : order[i] = Meant(m) /\ disk[order[i]].name = m
    BY <1>5, <1>8
  <2>2. QED
    BY <1>3, <1>6, <1>8, <2>1
<1>9. QED
  BY <1>7, <1>8

(***************************************************************************)
(* Expressions.                                                            *)
(***************************************************************************)

\* A node of an expression that the parser made.
LEMMA WrittenNode ==
  ASSUME NEW t, Written(t), NEW i \in DOMAIN t
  PROVE  t[i] \in Nodes /\ (t[i].m # "" => t[i].k \in {"Ctor", "Match"})
<1>1. t \in Seq(Nodes)
  BY DEF Written
<1>2. t[i] \in Nodes
  BY <1>1
<1>3. t[i].m # "" => t[i].k \in {"Ctor", "Match"}
  BY DEF Written
<1>4. QED
  BY <1>2, <1>3

\* Whether the i-th node names something of its own module, and has nothing before it.
Own(t, mod, params, i) ==
  \/ t[i].k = "Var" /\ t[i].n \in Vals(mod) /\ ~Local(t, i, t[i].n, params)
  \/ HasCtor(t[i]) /\ t[i].m = "" /\ t[i].c \in mod.ctors
Resolved(e) == IsQualified(e) /\ e.c \in UnitNames

\* What becomes of a node: a qualified name is resolved, the module's own get its
\* name, and the others stay as they are.
LEMMA Mangled ==
  ASSUME NEW t, NEW mod, NEW params, NEW i \in DOMAIN t
  PROVE  /\ Resolved(t[i]) /\ t[i].n \in Vals(Table(t[i].c)) =>
              Mangle(t, mod, params)[i] = Called(t[i])
         /\ Resolved(t[i]) /\ t[i].n \notin Vals(Table(t[i].c)) =>
              Mangle(t, mod, params)[i] = t[i]
         /\ ~Resolved(t[i]) /\ Own(t, mod, params, i) => Mangle(t, mod, params)[i] = Mine(mod, t[i])
         /\ ~Resolved(t[i]) /\ ~Own(t, mod, params, i) => Mangle(t, mod, params)[i] = t[i]
<1>1. Mangle(t, mod, params)[i] =
        IF Resolved(t[i])
        THEN IF t[i].n \in Vals(Table(t[i].c)) THEN Called(t[i]) ELSE t[i]
        ELSE IF Own(t, mod, params, i) THEN Mine(mod, t[i]) ELSE t[i]
  BY DEF Mangle, Own, Resolved
<1>2. QED
  BY <1>1

\* None of it changes what binds what.
LEMMA MangledBinds ==
  ASSUME NEW t, NEW mod, NEW params, Written(t)
  PROVE  /\ DOMAIN Mangle(t, mod, params) = DOMAIN t
         /\ \A i, n : Binders(Mangle(t, mod, params), i, n) = Binders(t, i, n)
<1> DEFINE out == Mangle(t, mod, params)
<1>1. DOMAIN out = DOMAIN t
  BY DEF Mangle
<1>2. ASSUME NEW i \in DOMAIN t
      PROVE  out[i].ns = t[i].ns /\ out[i].skip = t[i].skip /\ out[i].span = t[i].span
  <2>1. out[i] \in {t[i], Called(t[i]), Mine(mod, t[i])}
    BY Mangled
  <2>2. t[i] \in Nodes
    BY WrittenNode
  <2> HIDE DEF out
  <2>3. QED
    BY <2>1, <2>2 DEF Called, Mine, Nodes
<1> HIDE DEF out
<1>3. \A i, n : Binders(out, i, n) = Binders(t, i, n)
  BY <1>1, <1>2 DEF Binders
<1>4. QED
  BY <1>1, <1>3 DEF out

\* What is refused is a qualified name that the module it names does not declare.
LEMMA NotRefused ==
  ASSUME NEW t, ~HasErrors(t), NEW i \in DOMAIN t
  PROVE  /\ IsQualified(t[i]) /\ t[i].c \in UnitNames => t[i].n \in Vals(Table(t[i].c))
         /\ t[i].k \in {"Ctor", "Match"} /\ t[i].m \in UnitNames => t[i].c \in Table(t[i].m).ctors
BY DEF HasErrors

\* A node of unit p means the same in the expression that Mangler makes of its own.
LEMMA NodeMeansTheSame ==
  ASSUME IInv, flat = Whole, NEW u \in DOMAIN order, NEW p, p = order[u], NEW mod, mod = disk[p],
         NEW t, NEW params, Written(t), ~HasErrors(t), NEW out, out = Mangle(t, mod, params),
         NEW i \in DOMAIN t, NEW e, e = t[i], NEW f, f = out[i]
  PROVE  FlatMeaning(out, i, params) = SourceMeaning(p, t, i, params)
<1>1. mod.name \in UnitNames /\ Meant(mod.name) = p /\ mod.name # ""
  BY UnitFile
<1>2. \A n : Binders(out, i, n) = Binders(t, i, n)
  BY MangledBinds
<1>3. Local(out, i, e.n, params) <=> Local(t, i, e.n, params)
  BY <1>2 DEF Local
<1>4. e \in Nodes /\ (e.m # "" => e.k \in {"Ctor", "Match"})
  BY WrittenNode
<1> DEFINE own == Own(t, mod, params, i)
<1>5. /\ Resolved(e) /\ e.n \in Vals(Table(e.c)) => f = Called(e)
      /\ ~Resolved(e) /\ own => f = Mine(mod, e)
      /\ ~Resolved(e) /\ ~own => f = e
  BY Mangled
<1>6. own <=> \/ e.k = "Var" /\ e.n \in Vals(mod) /\ ~Local(t, i, e.n, params)
              \/ HasCtor(e) /\ e.m = "" /\ e.c \in mod.ctors
  BY DEF Own
<1> HIDE DEF own
<1>7. CASE Resolved(e)
  <2>1. e.n \in Vals(Table(e.c)) /\ e.c \in UnitNames
    BY <1>7, NotRefused DEF Resolved
  <2>2. e.c # "" /\ ValueOf(e.c, e.n) = {Meant(e.c)}
    BY <2>1, TableIs, FlatDeclares
  <2>3. f.k = "Var" /\ f.m = e.c /\ f.n = e.n
    BY <1>4, <1>5, <1>7, <2>1 DEF Called, Nodes
  <2>4. FlatMeaning(out, i, params) = <<"value", e.n, {Meant(e.c)}>>
    BY <2>2, <2>3 DEF FlatMeaning
  <2>5. SourceMeaning(p, t, i, params) = <<"value", e.n, {Meant(e.c)}>>
    BY <1>7 DEF SourceMeaning, IsQualified, Resolved
  <2>6. QED
    BY <2>4, <2>5
<1>8. CASE e.k = "Var" /\ own
  <2>1. ~Resolved(e) /\ ~HasCtor(e)
    BY <1>8 DEF IsQualified, HasCtor, Resolved
  <2>2. e.n \in Vals(mod) /\ ~Local(t, i, e.n, params)
    BY <1>6, <1>8, <2>1
  <2>3. f.k = "Var" /\ f.m = mod.name /\ f.n = e.n
    BY <1>4, <1>5, <1>8, <2>1 DEF Mine, Nodes
  <2>4. ValueOf(mod.name, e.n) = {p}
    BY <1>1, <2>2, FlatDeclares
  <2>5. FlatMeaning(out, i, params) = <<"value", e.n, {p}>>
    BY <1>1, <2>3, <2>4 DEF FlatMeaning
  <2>6. SourceMeaning(p, t, i, params) = <<"value", e.n, {p}>>
    BY <1>8, <2>2 DEF SourceMeaning
  <2>7. QED
    BY <2>5, <2>6
<1>9. CASE e.k = "Var" /\ ~own
  <2> DEFINE meaning == IF Local(t, i, e.n, params) THEN <<"local", e.n, Binders(t, i, e.n)>>
                        ELSE <<"value", e.n, {}>>
  <2>1. f = e /\ e.m = ""
    BY <1>4, <1>5, <1>9 DEF IsQualified, Resolved
  <2>2. e.n \in Vals(mod) => Local(t, i, e.n, params)
    BY <1>6, <1>9
  <2>3. FlatMeaning(out, i, params) = meaning
    BY <1>2, <1>3, <1>9, <2>1 DEF FlatMeaning
  <2>4. SourceMeaning(p, t, i, params) = meaning
    BY <1>9, <2>2 DEF SourceMeaning
  <2>5. QED
    BY <2>3, <2>4
<1>10. CASE e.k # "Var" /\ ~Resolved(e)
  <2> DEFINE files == IF ~HasCtor(e) THEN {}
                      ELSE IF e.m = "" THEN (IF e.c \in mod.ctors THEN {p} ELSE {})
                      ELSE IF e.m \in UnitNames THEN {Meant(e.m)} ELSE {}
  <2>1. SourceMeaning(p, t, i, params) = <<"form", Shape(e), files>>
    BY <1>10 DEF SourceMeaning, Resolved
  <2>2. f = IF own THEN Mine(mod, e) ELSE e
    BY <1>5, <1>10
  <2>3. /\ f.k = e.k /\ f.c = e.c /\ f.n = e.n /\ f.ns = e.ns /\ f.skip = e.skip /\ f.span = e.span
        /\ f.m = IF own THEN mod.name ELSE e.m
    BY <1>4, <2>2 DEF Mine, Nodes
  <2>4. Shape(f) = Shape(e) /\ (HasCtor(f) <=> HasCtor(e))
    BY <2>3 DEF Shape, HasCtor
  <2>5. FlatMeaning(out, i, params) = <<"form", Shape(e), IF HasCtor(e) /\ f.m # ""
                                                          THEN CtorOf(f.m, e.c) ELSE {}>>
    BY <1>10, <2>3, <2>4 DEF FlatMeaning
  <2>6. ASSUME HasCtor(e), own PROVE f.m # "" /\ CtorOf(f.m, e.c) = files
    <3>1. f.m = mod.name /\ e.m = "" /\ e.c \in mod.ctors
      BY <1>6, <1>10, <2>3, <2>6
    <3>2. CtorOf(mod.name, e.c) = {p}
      BY <1>1, <3>1, FlatDeclares
    <3>3. QED
      BY <1>1, <2>6, <3>1, <3>2
  <2>7. ASSUME HasCtor(e), ~own, f.m # "" PROVE CtorOf(f.m, e.c) = files
    <3>1. f.m = e.m /\ e.k \in {"Ctor", "Match"}
      BY <1>4, <2>3, <2>7
    <3>2. CASE e.m \in UnitNames
      <4>1. e.c \in Table(e.m).ctors /\ Table(e.m) = disk[Meant(e.m)]
        BY <3>1, <3>2, NotRefused, TableIs
      <4>2. CtorOf(e.m, e.c) = {Meant(e.m)}
        BY <3>2, <4>1, FlatDeclares
      <4>3. QED
        BY <2>7, <3>1, <3>2, <4>2
    <3>3. CASE e.m \notin UnitNames
      BY <2>7, <3>1, <3>3, FlatDeclares
    <3>4. QED
      BY <3>2, <3>3
  <2>8. ASSUME HasCtor(e), f.m = "" PROVE files = {}
    <3>1. ~own /\ e.m = ""
      BY <1>1, <2>3, <2>8
    <3>2. QED
      BY <1>6, <2>8, <3>1
  <2>9. files = IF HasCtor(e) /\ f.m # "" THEN CtorOf(f.m, e.c) ELSE {}
    BY <2>6, <2>7, <2>8
  <2> HIDE DEF files
  <2>10. QED
    BY <2>1, <2>5, <2>9
<1>11. QED
  BY <1>7, <1>8, <1>9, <1>10

LEMMA MangledMeansTheSame ==
  ASSUME IInv, flat = Whole, NEW u \in DOMAIN order, NEW p, p = order[u], NEW mod, mod = disk[p],
         NEW t, NEW params, Written(t), ~HasErrors(t), NEW out, out = Mangle(t, mod, params)
  PROVE  Same(p, t, out, params)
<1>1. DOMAIN out = DOMAIN t
  BY MangledBinds
<1>2. QED
  BY <1>1, NodeMeansTheSame DEF Same

(***************************************************************************)
(* The theorems.                                                           *)
(***************************************************************************)

\* The units of a flat module are the modules read, each of its texts mangled.
LEMMA FlatTexts ==
  ASSUME ProgramInv, NEW i \in DOMAIN flat, NEW j \in DOMAIN flat[i].funs, flat # <<>>
  PROVE  LET mod == disk[order[i]]
             was == mod.funs[j]
             is  == flat[i].funs[j]
         IN  /\ flat = Whole /\ result = "ok" /\ i \in DOMAIN order /\ j \in DOMAIN mod.funs
             /\ is.body = Mangle(was.body, mod, was.params)
             /\ is.refine = Mangle(was.refine, mod, was.params)
             /\ Written(was.body) /\ Written(was.refine)
             /\ ~HasErrors(was.body) /\ ~HasErrors(was.refine)
<1> DEFINE mod == disk[order[i]]
<1>1. flat = Whole /\ result = "ok" /\ ~Refused
  BY DEF ProgramInv, Flattened
<1>2. i \in DOMAIN order
  BY <1>1 DEF Whole
<1>3. flat[i] = MangleUnit(mod)
  BY <1>1, <1>2 DEF Whole, Units
<1>4. /\ j \in DOMAIN mod.funs
      /\ flat[i].funs[j] = MangleFun(mod.funs[j], mod)
  BY <1>3 DEF MangleUnit
<1>5. mod \in {disk[q] : q \in DOMAIN disk} /\ disk \in Disks
  BY <1>2, UnitFile DEF ProgramInv, IInv, Base
<1>6. Written(mod.funs[j].body) /\ Written(mod.funs[j].refine)
  BY <1>2, <1>4, <1>5, UnitFile, ProgramAssumption DEF ProgramInv
<1>7. ~HasErrors(mod.funs[j].body) /\ ~HasErrors(mod.funs[j].refine)
  BY <1>1, <1>2, <1>4 DEF Refused, Units
<1>8. QED
  BY <1>1, <1>2, <1>4, <1>6, <1>7 DEF MangleFun

\* Flattening changes the meaning of no name, whatever the modules declare and
\* however they name each other (load.rs, Mangler; tests/modules.rs: "a bare
\* `cents` inside `App` means App's").
THEOREM NamesKeepTheirMeaning ==
  ASSUME Spelled, RootFound PROVE ProgramSpec => []SameMeaning
<1>1. ASSUME ProgramInv PROVE SameMeaning
  <2> SUFFICES ASSUME NEW i \in DOMAIN flat, NEW j \in DOMAIN flat[i].funs
               PROVE  LET was == disk[order[i]].funs[j]
                          is  == flat[i].funs[j]
                      IN  /\ Same(order[i], was.body, is.body, was.params)
                          /\ Same(order[i], was.refine, is.refine, was.params)
    BY DEF SameMeaning
  <2> PICK mod : mod = disk[order[i]]
    OBVIOUS
  <2> PICK was : was = mod.funs[j]
    OBVIOUS
  <2> PICK is : is = flat[i].funs[j]
    OBVIOUS
  <2>1. /\ flat = Whole /\ i \in DOMAIN order
        /\ is.body = Mangle(was.body, mod, was.params)
        /\ is.refine = Mangle(was.refine, mod, was.params)
        /\ Written(was.body) /\ Written(was.refine)
        /\ ~HasErrors(was.body) /\ ~HasErrors(was.refine)
    <3>1. flat # <<>>
      OBVIOUS
    <3>2. QED
      BY <1>1, <3>1, FlatTexts
  <2>2. IInv
    BY <1>1 DEF ProgramInv
  <2>3. Same(order[i], was.body, is.body, was.params)
    BY <2>1, <2>2, MangledMeansTheSame
  <2>4. Same(order[i], was.refine, is.refine, was.params)
    BY <2>1, <2>2, MangledMeansTheSame
  <2>5. QED
    BY <2>3, <2>4
<1>2. QED
  BY ProgramInvariant, <1>1, PTL

\* If a node names a module, it was read.
ModuleRead(e) ==
  /\ IsQualified(e) => e.c \in UnitNames
  /\ e.k \in {"Ctor", "Match"} /\ e.m # "" => e.m \in UnitNames

\* What the body of a module read names, is a module read.
LEMMA NamedIsRead ==
  ASSUME ProgramInv, Searched, result = "ok", NEW u \in DOMAIN order,
         NEW j \in DOMAIN disk[order[u]].funs, NEW i \in DOMAIN disk[order[u]].funs[j].body
  PROVE  ModuleRead(disk[order[u]].funs[j].body[i])
<1> DEFINE p == order[u]
           e == disk[p].funs[j].body[i]
<1>1. p \in DOMAIN disk /\ disk \in Disks
  BY UnitFile DEF ProgramInv, IInv, Base
<1>2. \A n \in NamesOf(disk[p]) : n \in UnitNames
  <2> SUFFICES ASSUME NEW n \in NamesOf(disk[p]) PROVE n \in UnitNames
    OBVIOUS
  <2>1. n \in DOMAIN loaded
    BY DEF ProgramInv, IInv, Reads, Sought
  <2>2. loaded[n] \in Files /\ disk[loaded[n]].name = n
    BY <2>1 DEF ProgramInv, IInv, Reads, Rightly
  <2>3. PICK k \in DOMAIN order : order[k] = loaded[n]
    BY <2>2 DEF ProgramInv, IInv, Reads, Begun, Files
  <2>4. QED
    BY <2>2, <2>3 DEF UnitNames
<1>3. \A x \in DOMAIN FindQualifiers(e) : FindQualifiers(e)[x] \in UnitNames
  BY <1>1, <1>2 DEF Searched
<1> HIDE DEF e
<1>4. ASSUME IsQualified(e) PROVE e.c \in UnitNames
  <2>1. FindQualifiers(e) = <<e.c>>
    BY <1>4 DEF FindQualifiers, IsQualified
  <2>2. QED
    BY <1>3, <2>1
<1>5. ASSUME e.k \in {"Ctor", "Match"}, e.m # "" PROVE e.m \in UnitNames
  <2>1. FindQualifiers(e) = <<e.m>>
    BY <1>5 DEF FindQualifiers, IsQualified
  <2>2. QED
    BY <1>3, <2>1
<1>6. QED
  BY <1>4, <1>5 DEF e, ModuleRead

\* What Mangler makes of a node whose module, if it names one, was read, is declared.
LEMMA NodeDeclared ==
  ASSUME IInv, flat = Whole, NEW u \in DOMAIN order, NEW mod, mod = disk[order[u]],
         NEW t, NEW params, Written(t), ~HasErrors(t), NEW out, out = Mangle(t, mod, params),
         NEW i \in DOMAIN t, NEW e, e = t[i], ModuleRead(e), NEW f, f = out[i]
  PROVE  /\ ~IsQualified(f)
         /\ f.m # "" => IF f.k = "Var" THEN ValueOf(f.m, f.n) # {} ELSE CtorOf(f.m, f.c) # {}
<1>0. /\ IsQualified(e) /\ e.c \in UnitNames => e.n \in Vals(Table(e.c))
      /\ e.k \in {"Ctor", "Match"} /\ e.m \in UnitNames => e.c \in Table(e.m).ctors
  BY NotRefused
<1>1. mod.name \in UnitNames /\ Meant(mod.name) = order[u] /\ mod.name # ""
  BY UnitFile
<1>2. e \in Nodes /\ (e.m # "" => e.k \in {"Ctor", "Match"})
  BY WrittenNode
<1> DEFINE own == Own(t, mod, params, i)
<1>3. /\ Resolved(e) /\ e.n \in Vals(Table(e.c)) => f = Called(e)
      /\ ~Resolved(e) /\ own => f = Mine(mod, e)
      /\ ~Resolved(e) /\ ~own => f = e
  BY Mangled
<1>4. own => IF e.k = "Var" THEN e.n \in Vals(mod) ELSE e.c \in mod.ctors
  <2>1. own <=> \/ e.k = "Var" /\ e.n \in Vals(mod) /\ ~Local(t, i, e.n, params)
                \/ HasCtor(e) /\ e.m = "" /\ e.c \in mod.ctors
    BY DEF Own
  <2> HIDE DEF own
  <2>2. QED
    BY <2>1 DEF HasCtor
<1> HIDE DEF own
<1>5. CASE IsQualified(e)
  <2>1. e.c \in UnitNames /\ e.n \in Vals(Table(e.c)) /\ Resolved(e)
    BY <1>0, <1>5 DEF Resolved, ModuleRead
  <2>2. f.k = "Var" /\ f.m = e.c /\ f.n = e.n
    BY <1>2, <1>3, <2>1 DEF Called, Nodes
  <2>3. ValueOf(e.c, e.n) = {Meant(e.c)}
    BY <2>1, TableIs, FlatDeclares
  <2>4. QED
    BY <2>2, <2>3 DEF IsQualified
<1>6. CASE ~IsQualified(e) /\ own
  <2>1. f = Mine(mod, e)
    BY <1>3, <1>6 DEF Resolved
  <2>2. f.k = e.k /\ f.m = mod.name /\ f.n = e.n /\ f.c = e.c
    BY <1>2, <2>1 DEF Mine, Nodes
  <2>3. IF e.k = "Var" THEN ValueOf(mod.name, e.n) # {} ELSE CtorOf(mod.name, e.c) # {}
    BY <1>1, <1>4, <1>6, FlatDeclares
  <2>4. QED
    BY <1>1, <2>2, <2>3 DEF IsQualified
<1>7. CASE ~IsQualified(e) /\ ~own
  <2>1. f = e
    BY <1>3, <1>7 DEF Resolved
  <2>2. ASSUME e.m # "" PROVE e.k # "Var" /\ CtorOf(e.m, e.c) # {}
    <3>1. e.k \in {"Ctor", "Match"} /\ e.m \in UnitNames
      BY <1>2, <2>2 DEF ModuleRead
    <3>2. e.c \in Table(e.m).ctors
      BY <1>0, <3>1
    <3>3. Table(e.m) = disk[Meant(e.m)]
      BY <3>1, TableIs
    <3> DEFINE m == e.m
               n == e.c
    <3>4. m \in UnitNames /\ n \in disk[Meant(m)].ctors
      BY <3>1, <3>2, <3>3
    <3> HIDE DEF m, n
    <3>5. CtorOf(m, n) = {Meant(m)}
      BY <3>4, FlatDeclares
    <3>6. QED
      BY <3>1, <3>5 DEF m, n
  <2>3. QED
    BY <1>7, <2>1, <2>2
<1>8. QED
  BY <1>5, <1>6, <1>7

\* Whatever a body that was accepted names by its module, a module read declares:
\* the walk that finds names to read (qualifiers) leaves the one that resolves
\* them (Mangler) nothing that it cannot.
THEOREM NothingIsMissing ==
  ASSUME Spelled, RootFound, Searched PROVE ProgramSpec => []NothingDangles
<1>1. ASSUME ProgramInv PROVE NothingDangles
  <2> SUFFICES ASSUME NEW u \in DOMAIN flat, NEW j \in DOMAIN flat[u].funs,
                      NEW x \in DOMAIN flat[u].funs[j].body
               PROVE  LET f == flat[u].funs[j].body[x]
                      IN  /\ ~IsQualified(f)
                          /\ f.m # "" => IF f.k = "Var" THEN ValueOf(f.m, f.n) # {}
                                         ELSE CtorOf(f.m, f.c) # {}
    BY DEF NothingDangles
  <2> DEFINE mod == disk[order[u]]
             t   == mod.funs[j].body
             ps  == mod.funs[j].params
             out == flat[u].funs[j].body
  <2>1. /\ flat = Whole /\ result = "ok" /\ u \in DOMAIN order /\ j \in DOMAIN mod.funs
        /\ out = Mangle(t, mod, ps) /\ Written(t) /\ ~HasErrors(t) /\ IInv
    BY <1>1, FlatTexts DEF ProgramInv
  <2>2. x \in DOMAIN t
    BY <2>1 DEF Mangle
  <2>3. ModuleRead(t[x])
    BY <1>1, <2>1, <2>2, NamedIsRead
  <2>4. mod = disk[order[u]]
    OBVIOUS
  <2> HIDE DEF mod, t, ps, out
  <2>5. /\ ~IsQualified(out[x])
        /\ out[x].m # "" => IF out[x].k = "Var" THEN ValueOf(out[x].m, out[x].n) # {}
                            ELSE CtorOf(out[x].m, out[x].c) # {}
    BY <2>1, <2>2, <2>3, <2>4, NodeDeclared
  <2>6. QED
    BY <2>5 DEF out
<1>2. QED
  BY ProgramInvariant, <1>1, PTL
=============================================================================
