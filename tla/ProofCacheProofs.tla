-------------------------- MODULE ProofCacheProofs --------------------------
(***************************************************************************)
(* The certificates in `.vibe-proofs` are sound, for any number of         *)
(* processes, obligations and sources: the inductive invariant IInv of     *)
(* ProofCache, kept by every step.                                         *)
(***************************************************************************)
EXTENDS ProofCache, TLAPS, FiniteSetTheorems

(***************************************************************************)
(* Lines and files.                                                        *)
(***************************************************************************)

\* There are finitely many lines, so what flush sorts is a finite set.
LEMMA LinesFinite == IsFiniteSet(Lines)
<1>1. IsFiniteSet({Hash[o] : o \in Obligations})
  <2>1. Hash \in Surjection(Obligations, {Hash[o] : o \in Obligations})
    BY ProofAssumption DEF Surjection
  <2>2. QED
    BY <2>1, FS_Surjection, ProofAssumption
<1>2. QED
  BY <1>1, FS_AddElement DEF Lines

\* Sorting a set of lines gives a sequence of its elements.
LEMMA SortedLines ==
  ASSUME NEW S \in SUBSET Lines, NEW s \in Sorted(S)
  PROVE  s \in Seq(Lines) /\ LinesOf(s) \subseteq S
<1>1. Cardinality(S) \in Nat
  BY LinesFinite, FS_Subset, FS_CardinalityType
<1>2. s \in [1..Cardinality(S) -> S]
  BY DEF Sorted
<1>3. QED
  BY <1>1, <1>2 DEF LinesOf

\* Writing a line at its offset leaves a file, whose lines are the old ones,
\* the new one, and holes.
LEMMA PutLine ==
  ASSUME NEW f \in Seq(Lines), NEW i \in Nat \ {0}, NEW line \in Lines
  PROVE  /\ Put(f, i, line) \in Seq(Lines)
         /\ LinesOf(Put(f, i, line)) \subseteq LinesOf(f) \cup {line, Torn}
<1> DEFINE g == Put(f, i, line)
           n == IF i <= Len(f) THEN Len(f) ELSE i
<1>1. Torn \in Lines
  BY DEF Lines
<1>2. Len(f) \in Nat /\ DOMAIN f = 1..Len(f)
  OBVIOUS
<1>3. n \in Nat /\ DOMAIN f \cup 1..i = 1..n
  BY <1>2
<1>4. \A j \in 1..n : g[j] = IF j = i THEN line ELSE IF j \in DOMAIN f THEN f[j] ELSE Torn
  BY <1>3 DEF Put
<1>5. g \in [1..n -> Lines]
  BY <1>1, <1>3, <1>4 DEF Put
<1>6. LinesOf(g) \subseteq LinesOf(f) \cup {line, Torn}
  BY <1>3, <1>4 DEF Put, LinesOf
<1>7. QED
  BY <1>3, <1>5, <1>6

(***************************************************************************)
(* The invariant.                                                          *)
(***************************************************************************)

\* Obligations that hash alike hold alike: a cached hash that certifies
\* something certifies every obligation it is the hash of.
LEMMA HashDecides ==
  ASSUME NEW o \in Obligations, Hash[o] \in Certified
  PROVE  o \in Valid
BY ProofAssumption DEF Certified

\* The initial states satisfy the invariant: there is no file and no process.
LEMMA InitInvariant == Init => IInv
<1> SUFFICES ASSUME Init PROVE IInv
  OBVIOUS
<1>1. TypeOK
  BY DEF Init, TypeOK, Unanswered, Stages, Verdicts, Outcomes
<1>2. CertificatesHold
  BY DEF Init, CertificatesHold, LinesOf
<1>3. VerdictSound /\ Honest
  BY DEF Init, VerdictSound, Honest, Unanswered
<1>4. QED
  BY <1>1, <1>2, <1>3 DEF IInv

\* Every step of every process keeps the invariant.
LEMMA NextInvariant == IInv /\ [Next]_vars => IInv'
<1> SUFFICES ASSUME IInv, [Next]_vars PROVE IInv'
  OBVIOUS
<1> USE DEF IInv
<1>1. ASSUME NEW p \in Proc, Start(p) PROVE IInv'
  <2>1. PICK c \in {"check", "proof"}, os \in Sources :
          cmd' = [cmd EXCEPT ![p] = c] /\ obs' = [obs EXCEPT ![p] = os]
    BY <1>1 DEF Start
  <2>2. LinesOf(file) \subseteq Lines
    BY DEF TypeOK, LinesOf
  <2>3. TypeOK'
    BY <1>1, <2>1, <2>2, ProofAssumption DEF TypeOK, Start, Go, Stages
  <2>4. CertificatesHold'
    BY <1>1 DEF TypeOK, CertificatesHold, Start, LinesOf
  <2>5. outcome[p] = "none"
    BY <1>1 DEF Honest, Start
  <2>6. VerdictSound' /\ Honest'
    BY <1>1, <2>1, <2>5 DEF TypeOK, VerdictSound, Honest, Hit, Start, Go
  <2>7. QED
    BY <2>3, <2>4, <2>6
<1>2. ASSUME NEW p \in Proc, AllHit(p) PROVE IInv'
  <2>1. TypeOK'
    BY <1>2 DEF TypeOK, AllHit, Say, Go, local, Stages, Outcomes
  <2>2. CertificatesHold'
    BY <1>2 DEF CertificatesHold, AllHit, local, LinesOf
  <2>3. obs[p] \subseteq Valid
    BY <1>2, HashDecides DEF TypeOK, AllHit, Open, Hit, CertificatesHold
  <2>4. VerdictSound' /\ Honest'
    BY <1>2, <2>3 DEF TypeOK, VerdictSound, Honest, Hit, AllHit, Say, Go, local
  <2>5. QED
    BY <2>1, <2>2, <2>4
<1>3. ASSUME NEW p \in Proc, NoSolver(p) PROVE IInv'
  <2>1. TypeOK'
    BY <1>3 DEF TypeOK, NoSolver, Say, Go, local, Stages, Outcomes
  <2>2. CertificatesHold'
    BY <1>3 DEF CertificatesHold, NoSolver, local, LinesOf
  <2>3. VerdictSound' /\ Honest'
    BY <1>3 DEF TypeOK, VerdictSound, Honest, Hit, NoSolver, Say, Go, local
  <2>4. QED
    BY <2>1, <2>2, <2>3
<1>4. ASSUME NEW p \in Proc, Ask(p) PROVE IInv'
  <2>1. TypeOK'
    BY <1>4 DEF TypeOK, Ask, Go, local, Stages
  <2>2. CertificatesHold'
    BY <1>4 DEF CertificatesHold, Ask, local, LinesOf
  <2>3. VerdictSound' /\ Honest'
    BY <1>4 DEF TypeOK, VerdictSound, Honest, Hit, Ask, Go, local
  <2>4. QED
    BY <2>1, <2>2, <2>3
<1>5. ASSUME NEW p \in Proc, NEW o \in Obligations, Answer(p, o) PROVE IInv'
  <2>1. PICK v \in Answers(o) : verdict' = [verdict EXCEPT ![p][o] = v]
    BY <1>5 DEF Answer
  <2>2. TypeOK'
    BY <1>5, <2>1 DEF TypeOK, Answer, Answers, local, Verdicts
  <2>3. CertificatesHold'
    BY <1>5 DEF CertificatesHold, Answer, local, LinesOf
  <2>4. v = "proved" => o \in Valid
    BY <2>1 DEF Answers
  <2>5. VerdictSound'
    BY <1>5 DEF VerdictSound, Answer, local
  <2>6. Honest'
    BY <1>5, <2>1, <2>4 DEF TypeOK, Honest, Hit, Answer, local
  <2>7. QED
    BY <2>2, <2>3, <2>5, <2>6
<1>6. ASSUME NEW p \in Proc, Merge(p) PROVE IInv'
  <2>1. {Hash[o] : o \in Proved(p)} \subseteq Lines \cap Certified
    BY DEF TypeOK, Honest, Proved, Open, Lines, Certified
  <2>2. TypeOK'
    BY <1>6, <2>1 DEF TypeOK, Merge, Go, local, Stages
  <2>3. CertificatesHold'
    BY <1>6, <2>1 DEF TypeOK, CertificatesHold, Merge, local, LinesOf
  <2>4. VerdictSound'
    BY <1>6 DEF TypeOK, VerdictSound, Merge, local
  <2>5. Honest'
    BY <1>6 DEF TypeOK, Honest, Hit, Open, Merge, Go, local
  <2>6. QED
    BY <2>2, <2>3, <2>4, <2>5
<1>7. ASSUME NEW p \in Proc, Truncate(p) PROVE IInv'
  <2>1. PICK s \in Sorted(cache[p]) : content' = [content EXCEPT ![p] = s]
    BY <1>7 DEF Truncate
  <2>2. s \in Seq(Lines) /\ LinesOf(s) \subseteq cache[p]
    BY SortedLines DEF TypeOK
  <2>3. TypeOK'
    BY <1>7, <2>1, <2>2 DEF TypeOK, Truncate, Go, Stages
  <2>4. CertificatesHold'
    BY <1>7, <2>1, <2>2 DEF TypeOK, CertificatesHold, Truncate, LinesOf
  <2>5. VerdictSound' /\ Honest'
    BY <1>7 DEF TypeOK, VerdictSound, Honest, Hit, Truncate, Go
  <2>6. QED
    BY <2>3, <2>4, <2>5
<1>8. ASSUME NEW p \in Proc, WriteLine(p) PROVE IInv'
  <2> DEFINE i == pos[p] + 1
  <2>1. i \in Nat \ {0} /\ i \in DOMAIN content[p]
    BY <1>8 DEF TypeOK, WriteLine, Unwritten
  <2>2. content[p][i] \in Lines /\ content[p][i] \in Certified
    BY <2>1 DEF TypeOK, CertificatesHold, LinesOf
  <2>3. file' \in Seq(Lines) /\ LinesOf(file') \subseteq LinesOf(file) \cup {content[p][i], Torn}
    BY <1>8, <2>1, <2>2, PutLine DEF TypeOK, WriteLine
  <2>4. TypeOK'
    BY <1>8, <2>3 DEF TypeOK, WriteLine
  <2>5. CertificatesHold'
    BY <1>8, <2>2, <2>3 DEF CertificatesHold, Certified, WriteLine, LinesOf
  <2>6. VerdictSound' /\ Honest'
    BY <1>8 DEF VerdictSound, Honest, Hit, WriteLine
  <2>7. QED
    BY <2>4, <2>5, <2>6
<1>9. ASSUME NEW p \in Proc, WritePart(p) PROVE IInv'
  <2> DEFINE i == pos[p] + 1
  <2>1. i \in Nat \ {0} /\ Torn \in Lines
    BY DEF TypeOK, Lines
  <2>2. file' \in Seq(Lines) /\ LinesOf(file') \subseteq LinesOf(file) \cup {Torn}
    BY <1>9, <2>1, PutLine DEF TypeOK, WritePart
  <2>3. TypeOK'
    BY <1>9, <2>2 DEF TypeOK, WritePart, local
  <2>4. CertificatesHold'
    BY <1>9, <2>2 DEF CertificatesHold, Certified, WritePart, local, LinesOf
  <2>5. VerdictSound' /\ Honest'
    BY <1>9 DEF VerdictSound, Honest, Hit, WritePart, local
  <2>6. QED
    BY <2>3, <2>4, <2>5
<1>10. ASSUME NEW p \in Proc, Written(p) \/ WriteFails(p) PROVE IInv'
  <2>1. TypeOK'
    BY <1>10 DEF TypeOK, Written, WriteFails, Go, local, Stages
  <2>2. CertificatesHold'
    BY <1>10 DEF CertificatesHold, Written, WriteFails, local, LinesOf
  <2>3. VerdictSound' /\ Honest'
    BY <1>10 DEF TypeOK, VerdictSound, Honest, Hit, Written, WriteFails, Go, local
  <2>4. QED
    BY <2>1, <2>2, <2>3
<1>11. ASSUME NEW p \in Proc, Report(p) PROVE IInv'
  <2>1. TypeOK'
    BY <1>11 DEF TypeOK, Report, Say, Go, local, Stages, Outcomes
  <2>2. CertificatesHold'
    BY <1>11 DEF CertificatesHold, Report, local, LinesOf
  <2>3. ASSUME Closed(p), NEW o \in obs[p] PROVE o \in Valid
    <3>1. o \in Obligations /\ verdict[p][o] \in {"none", "proved"}
      BY <2>3 DEF TypeOK, Closed
    <3>2. CASE verdict[p][o] = "proved"
      BY <3>1, <3>2 DEF Honest
    <3>3. CASE verdict[p][o] = "none"
      BY <1>11, <3>1, <3>3, HashDecides DEF Report, Honest, Hit, CertificatesHold
    <3>4. QED
      BY <3>1, <3>2, <3>3
  <2>4. VerdictSound' /\ Honest'
    BY <1>11, <2>3 DEF TypeOK, VerdictSound, Honest, Hit, Report, Say, Go, local
  <2>5. QED
    BY <2>1, <2>2, <2>4
<1>12. ASSUME NEW p \in Proc, Exit(p) \/ Crash(p) PROVE IInv'
  <2>1. Forget(p)
    BY <1>12 DEF Exit, Crash
  <2>2. TypeOK'
    <3>1. Unanswered \in [Obligations -> Verdicts] /\ <<>> \in Seq(Lines)
      BY DEF Unanswered, Verdicts
    <3>2. content' \in [Proc -> Seq(Lines)] /\ verdict' \in [Proc -> [Obligations -> Verdicts]]
      BY <2>1, <3>1 DEF TypeOK, Forget
    <3>3. QED
      BY <2>1, <3>2 DEF TypeOK, Forget, Stages, Outcomes
  <2>3. CertificatesHold'
    BY <2>1 DEF TypeOK, CertificatesHold, Forget, LinesOf
  <2>4. VerdictSound' /\ Honest'
    BY <2>1 DEF TypeOK, VerdictSound, Honest, Hit, Forget, Unanswered
  <2>5. QED
    BY <2>2, <2>3, <2>4
<1>13. CASE UNCHANGED vars
  BY <1>13 DEF vars, TypeOK, CertificatesHold, VerdictSound, Honest, Hit, LinesOf
<1>14. QED
  BY <1>1, <1>2, <1>3, <1>4, <1>5, <1>6, <1>7, <1>8, <1>9, <1>10, <1>11, <1>12, <1>13
     DEF Next, Step

\* The inductive invariant holds in every reachable state.
THEOREM InvariantHolds == Spec => []IInv
BY InitInvariant, NextInvariant, PTL DEF Spec

\* Every variable keeps its type, for any processes, sources and obligations.
THEOREM TypeCorrect == Spec => []TypeOK
<1>1. IInv => TypeOK
  BY DEF IInv
<1>2. QED
  BY InvariantHolds, <1>1, PTL

\* A certificate in the file, in a cache or on its way to the disk is only ever
\* of an obligation that holds (Cache::beside, discharge_all, Cache::flush).
THEOREM CertificatesAlwaysHold == Spec => []CertificatesHold
<1>1. IInv => CertificatesHold
  BY DEF IInv
<1>2. QED
  BY InvariantHolds, <1>1, PTL

\* A run reports success only over obligations that hold (check, discharge).
THEOREM VerdictsAlwaysSound == Spec => []VerdictSound
<1>1. IInv => VerdictSound
  BY DEF IInv
<1>2. QED
  BY InvariantHolds, <1>1, PTL
(***************************************************************************)
(* What a lone process leaves behind.                                      *)
(***************************************************************************)

\* Sorting a set of lines leaves none of them out.
LEMMA SortedWhole ==
  ASSUME NEW S \in SUBSET Lines, NEW s \in Sorted(S)
  PROVE  LinesOf(s) = S
<1> DEFINE n == Cardinality(S)
<1>1. IsFiniteSet(S) /\ n \in Nat
  BY LinesFinite, FS_Subset, FS_CardinalityType
<1>2. s \in [1..n -> S] /\ \A i, j \in 1..n : i < j => s[i] < s[j]
  BY DEF Sorted
<1>3. S \subseteq Nat
  BY ProofAssumption DEF Lines
<1>4. ASSUME NEW i \in 1..n, NEW j \in 1..n, s[i] = s[j] PROVE i = j
  <2>1. s[i] \in Nat /\ s[j] \in Nat
    BY <1>2, <1>3
  <2>2. ~(i < j) /\ ~(j < i)
    BY <1>2, <1>4, <2>1
  <2>3. QED
    BY <1>1, <2>2
<1>5. s \in Injection(1..n, S)
  BY <1>2, <1>4 DEF Injection, IsInjective
<1>6. Cardinality(1..n) = n
  BY <1>1, FS_Interval
<1>7. s \in Surjection(1..n, S)
  BY <1>1, <1>5, <1>6, FS_Injection
<1>8. QED
  BY <1>2, <1>7 DEF Surjection, LinesOf

\* A line that is written is in the file, and those written before stay.
LEMMA PutKeeps ==
  ASSUME NEW f \in Seq(Lines), NEW i \in Nat \ {0}, NEW line \in Lines
  PROVE  /\ i \in DOMAIN Put(f, i, line) /\ Put(f, i, line)[i] = line
         /\ \A j \in DOMAIN f \ {i} : j \in DOMAIN Put(f, i, line) /\ Put(f, i, line)[j] = f[j]
BY DEF Put

\* At first there is nothing to leave.
LEMMA InitWarm == Init => WarmInv
BY DEF Init, WarmInv, Warm, OnDisk

\* Each step of a lone process, on a disk that works, keeps what Warm rests on.
LEMMA NextWarm ==
  ASSUME Alone, IInv, IInv', WarmInv, [Next]_vars
  PROVE  WarmInv'
<1> USE DEF WarmInv
<1>1. ASSUME NEW p \in Proc, OnDisk(p)', outcome'[p] = "ok" => {Hash[o] : o \in obs'[p]} \subseteq LinesOf(file')
      PROVE  WarmInv'
  BY <1>1 DEF Alone, Warm, OnDisk, Hit, LinesOf
<1>2. TypeOK /\ TypeOK' /\ Honest /\ ~DiskFails
  BY DEF IInv, Alone
<1>3. ASSUME NEW p \in Proc, Start(p) PROVE WarmInv'
  <2>1. outcome'[p] = "none" /\ cache'[p] = LinesOf(file') /\ pc'[p] = "loaded"
    BY <1>2, <1>3 DEF TypeOK, Honest, Start, Go, LinesOf
  <2>2. QED
    BY <1>1, <2>1 DEF OnDisk
<1>4. ASSUME NEW p \in Proc, AllHit(p) PROVE WarmInv'
  <2>1. pc'[p] = "done" /\ file' = file /\ obs' = obs
    BY <1>2, <1>4 DEF TypeOK, AllHit, Go, local
  <2>2. \A o \in obs[p] : Hash[o] \in LinesOf(file)
    BY <1>4 DEF OnDisk, AllHit, Open, Hit
  <2>3. QED
    BY <1>1, <2>1, <2>2 DEF OnDisk, LinesOf
<1>5. ASSUME NEW p \in Proc, NoSolver(p) PROVE WarmInv'
  <2>1. pc'[p] = "done" /\ outcome'[p] = "no solver"
    BY <1>2, <1>5 DEF TypeOK, NoSolver, Go, Say
  <2>2. QED
    BY <1>1, <2>1 DEF OnDisk
<1>6. ASSUME NEW p \in Proc, Ask(p) \/ \E o \in Obligations : Answer(p, o) PROVE WarmInv'
  <2>1. /\ pc[p] \in {"loaded", "solving"} /\ pc'[p] = "solving"
        /\ outcome' = outcome /\ file' = file /\ cache' = cache
    BY <1>2, <1>6 DEF TypeOK, Ask, Answer, Go, local
  <2>2. outcome[p] = "none"
    BY <1>2, <2>1 DEF Honest
  <2>3. QED
    BY <1>1, <2>1, <2>2 DEF OnDisk, LinesOf
<1>7. ASSUME NEW p \in Proc, Merge(p) PROVE WarmInv'
  <2>1. /\ pc[p] = "solving" /\ pc'[p] = IF Proved(p) = {} THEN "report" ELSE "flush"
        /\ UNCHANGED <<file, verdict, outcome, obs>>
        /\ cache'[p] = cache[p] \cup {Hash[o] : o \in Proved(p)}
    BY <1>2, <1>7 DEF TypeOK, Merge, Go, local
  <2>2. outcome'[p] = "none"
    BY <1>2, <2>1 DEF Honest
  <2>3. pc'[p] = "report" => cache'[p] \subseteq LinesOf(file')
    BY <2>1 DEF OnDisk, LinesOf
  <2>4. ASSUME NEW o \in obs[p], verdict[p][o] \in {"none", "proved"} PROVE Hash[o] \in cache'[p]
    <3>1. CASE Hit(p, o)
      BY <2>1, <3>1 DEF Hit
    <3>2. CASE ~Hit(p, o)
      <4>1. o \in Open(p) /\ verdict[p][o] # "none"
        BY <1>7, <3>2 DEF Open, Merge
      <4>2. o \in Proved(p)
        BY <2>4, <4>1 DEF Proved
      <4>3. QED
        BY <2>1, <4>2
    <3>3. QED
      BY <3>1, <3>2
  <2>5. QED
    BY <1>1, <2>1, <2>2, <2>3, <2>4 DEF OnDisk, Hit
<1>8. ASSUME NEW p \in Proc, Truncate(p) PROVE WarmInv'
  <2>1. PICK s \in Sorted(cache[p]) : content' = [content EXCEPT ![p] = s]
    BY <1>8 DEF Truncate
  <2>2. LinesOf(s) = cache[p]
    BY <1>2, SortedWhole DEF TypeOK
  <2>3. /\ pc[p] = "flush" /\ pc'[p] = "write" /\ pos'[p] = 0 /\ content'[p] = s
        /\ UNCHANGED <<obs, cache, verdict, outcome>>
    BY <1>2, <1>8, <2>1 DEF TypeOK, Truncate, Go
  <2>4. outcome'[p] = "none"
    BY <1>2, <2>3 DEF Honest
  <2>5. OnDisk(p)'
    BY <2>2, <2>3 DEF OnDisk, Hit, LinesOf
  <2>6. QED
    BY <1>1, <2>4, <2>5
<1>9. ASSUME NEW p \in Proc, WriteLine(p) PROVE WarmInv'
  <2> DEFINE i == pos[p] + 1
  <2>1. /\ i \in Nat \ {0} /\ pos[p] \in Nat /\ i \in DOMAIN content[p]
        /\ pc[p] = "write" /\ pos'[p] = i
        /\ file' = Put(file, i, content[p][i])
        /\ file \in Seq(Lines) /\ content[p][i] \in Lines
        /\ UNCHANGED <<pc, obs, cache, verdict, content, outcome>>
    BY <1>2, <1>9 DEF TypeOK, WriteLine, Unwritten
  <2>2. outcome'[p] = "none"
    BY <1>2, <2>1 DEF Honest
  <2> HIDE DEF i
  <2>3. ASSUME NEW j \in 1..i PROVE j \in DOMAIN file' /\ j \in DOMAIN content[p] /\ file'[j] = content[p][j]
    <3>1. CASE j = i
      BY <2>1, <3>1, PutKeeps
    <3>2. CASE j # i
      <4>1. j \in 1..pos[p]
        BY <2>1, <3>2 DEF i
      <4>2. j \in DOMAIN file \ {i} /\ j \in DOMAIN content[p] /\ file[j] = content[p][j]
        BY <2>1, <3>2, <4>1 DEF OnDisk
      <4>3. QED
        BY <2>1, <4>2, PutKeeps
    <3>3. QED
      BY <3>1, <3>2
  <2>4. OnDisk(p)'
    BY <2>1, <2>3 DEF OnDisk, Hit, LinesOf
  <2>5. QED
    BY <1>1, <2>2, <2>4
<1>10. ASSUME NEW p \in Proc, WritePart(p) PROVE WarmInv'
  <2> DEFINE i == pos[p] + 1
  <2>1. /\ i \in Nat \ {0} /\ pos[p] \in Nat
        /\ pc[p] = "write" /\ file' = Put(file, i, Torn)
        /\ file \in Seq(Lines) /\ Torn \in Lines
        /\ UNCHANGED <<pc, obs, cache, verdict, content, outcome, pos>>
    BY <1>2, <1>10 DEF TypeOK, WritePart, Unwritten, local, Lines
  <2>2. outcome'[p] = "none"
    BY <1>2, <2>1 DEF Honest
  <2> HIDE DEF i
  <2>3. ASSUME NEW j \in 1..pos[p] PROVE j \in DOMAIN file' /\ j \in DOMAIN content[p] /\ file'[j] = content[p][j]
    <3>1. j \in DOMAIN file \ {i} /\ j \in DOMAIN content[p] /\ file[j] = content[p][j]
      BY <2>1 DEF OnDisk, i
    <3>2. QED
      BY <2>1, <3>1, PutKeeps
  <2>4. OnDisk(p)'
    BY <2>1, <2>3 DEF OnDisk, Hit, LinesOf
  <2>5. QED
    BY <1>1, <2>2, <2>4
<1>11. ASSUME NEW p \in Proc, Written(p) PROVE WarmInv'
  <2>1. /\ pc[p] = "write" /\ pc'[p] = "report" /\ pos[p] \in Nat /\ content[p] \in Seq(Lines)
        /\ pos[p] + 1 \notin DOMAIN content[p]
        /\ UNCHANGED <<file, obs, cache, verdict, outcome>>
    BY <1>2, <1>11 DEF TypeOK, Written, Unwritten, Go, local
  <2>2. outcome'[p] = "none"
    BY <1>2, <2>1 DEF Honest
  <2>3. ASSUME NEW j \in DOMAIN content[p] PROVE j \in DOMAIN file /\ file[j] = content[p][j]
    <3>1. j \in 1..pos[p]
      BY <2>1
    <3>2. QED
      BY <2>1, <3>1 DEF OnDisk
  <2>4. cache[p] \subseteq LinesOf(file)
    BY <2>1, <2>3 DEF OnDisk, LinesOf
  <2>5. OnDisk(p)'
    BY <2>1, <2>4 DEF OnDisk, Hit, LinesOf
  <2>6. QED
    BY <1>1, <2>2, <2>5
<1>12. ASSUME NEW p \in Proc, Report(p) PROVE WarmInv'
  <2>1. pc[p] = "report" /\ pc'[p] = "done" /\ file' = file /\ obs' = obs
    BY <1>2, <1>12 DEF TypeOK, Report, Go, local
  <2>2. outcome'[p] = "ok" => Closed(p)
    BY <1>2, <1>12 DEF TypeOK, Report, Say
  <2>3. Closed(p) => \A o \in obs[p] : Hash[o] \in LinesOf(file)
    BY <2>1 DEF Closed, OnDisk, Hit
  <2>4. QED
    BY <1>1, <2>1, <2>2, <2>3 DEF OnDisk, LinesOf
<1>13. ASSUME NEW p \in Proc, Exit(p) \/ Crash(p) PROVE WarmInv'
  <2>1. pc'[p] = "idle" /\ outcome'[p] = "none"
    BY <1>2, <1>13 DEF TypeOK, Exit, Crash, Forget
  <2>2. QED
    BY <1>1, <2>1 DEF OnDisk
<1>14. CASE UNCHANGED vars
  BY <1>14 DEF vars, Warm, OnDisk, Hit, LinesOf
<1>15. ASSUME NEW p \in Proc PROVE ~WriteFails(p)
  BY <1>2 DEF WriteFails
<1>16. QED
  BY <1>3, <1>4, <1>5, <1>6, <1>7, <1>8, <1>9, <1>10, <1>11, <1>12, <1>13, <1>14, <1>15
     DEF Next, Step

\* What a lone process reported proved needs no solver next time, whatever runs
\* before it were killed at (check, discharge_all, Cache::flush).
THEOREM LoneRunsStayWarm == ASSUME Alone PROVE Spec => []Warm
<1>1. Init => IInv /\ WarmInv
  BY InitInvariant, InitWarm
<1>2. (IInv /\ WarmInv) /\ [Next]_vars => (IInv /\ WarmInv)'
  BY NextInvariant, NextWarm
<1>3. IInv /\ WarmInv => Warm
  BY DEF WarmInv
<1>4. QED
  BY <1>1, <1>2, <1>3, PTL DEF Spec
=============================================================================
