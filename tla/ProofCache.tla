----------------------------- MODULE ProofCache -----------------------------
(***************************************************************************)
(* Discharging refinement obligations with z3, and the certificates kept   *)
(* in the `.vibe-proofs` file beside the source (src/src/refine.rs).       *)
(*                                                                         *)
(* Several vibe processes may check the same source at once; nothing locks *)
(* the file.  A process reads it whole, asks z3 what it does not hold, one *)
(* solver process per obligation on as many threads as there are cores,    *)
(* and, if anything new was proved, rewrites it whole, in place, sorted.   *)
(* The process may be killed and the disk may refuse at any point.         *)
(*                                                                         *)
(* The file is its sequence of lines.  Every hash is 16 digits, so a line  *)
(* written at its offset covers exactly one line of another writer; a line *)
(* half written, half overwritten or left as a hole is Torn.               *)
(***************************************************************************)
EXTENDS Naturals, Sequences, FiniteSets

CONSTANTS Proc,         \* vibe processes
          Obligations,  \* what the checked programs ask
          Sources,      \* the obligations of each program that is checked
          Valid,        \* the obligations that hold
          Hash,         \* the hash of an obligation's SMT text
          Torn,         \* a line that is no hash
          DiskFails     \* whether a write may fail

\* Obligations with one hash ask one question: the hash is of the whole text
\* (patch.rs: 64-bit FNV-1a, taken here to be free of collisions).
ASSUME ProofAssumption ==
  /\ IsFiniteSet(Obligations)
  /\ Valid \subseteq Obligations
  /\ Sources \subseteq SUBSET Obligations
  /\ Hash \in [Obligations -> Nat]
  /\ Torn \in Nat
  /\ \A o \in Obligations : Hash[o] # Torn
  /\ \A o, u \in Obligations : Hash[o] = Hash[u] => (o \in Valid <=> u \in Valid)
  /\ DiskFails \in BOOLEAN

Lines == {Hash[o] : o \in Obligations} \cup {Torn}

VARIABLES file,      \* the lines of .vibe-proofs
          pc,        \* where a process is
          cmd,       \* "check" (check) or "proof" (proved_all)
          obs,       \* its obligations
          cache,     \* Cache.proved
          verdict,   \* what z3 made of each open obligation
          content,   \* what it is writing, line by line
          pos,       \* how many lines of it are written
          outcome    \* what the process said

vars  == <<file, pc, cmd, obs, cache, verdict, content, pos, outcome>>
local == <<cmd, obs, content, pos>>

Stages   == {"idle", "loaded", "solving", "flush", "write", "report", "done"}
Verdicts == {"none", "proved", "failed", "gave up", "no solver"}
Outcomes == {"none", "ok", "errors", "no solver"}

LinesOf(f)   == {f[i] : i \in DOMAIN f}
Unanswered   == [o \in Obligations |-> "none"]

\* The lines of a set in order, as flush sorts them.
Sorted(S) == {s \in [1..Cardinality(S) -> S] :
                \A i, j \in DOMAIN s : i < j => s[i] < s[j]}

\* The file with line i written at its offset; a gap before it reads as Torn.
Put(f, i, line) ==
  [j \in DOMAIN f \cup 1..i |-> IF j = i THEN line
                                ELSE IF j \in DOMAIN f THEN f[j] ELSE Torn]

Init ==
  /\ file = <<>>
  /\ pc = [p \in Proc |-> "idle"]
  /\ cmd = [p \in Proc |-> "check"]
  /\ obs = [p \in Proc |-> {}]
  /\ cache = [p \in Proc |-> {}]
  /\ verdict = [p \in Proc |-> Unanswered]
  /\ content = [p \in Proc |-> <<>>]
  /\ pos = [p \in Proc |-> 0]
  /\ outcome = [p \in Proc |-> "none"]

Go(p, stage) == pc' = [pc EXCEPT ![p] = stage]
Say(p, what) == outcome' = [outcome EXCEPT ![p] = what]

Hit(p, o) == Hash[o] \in cache[p]
Open(p)   == {o \in obs[p] : ~Hit(p, o)}

(***************************************************************************)
(* A run of the compiler.                                                  *)
(***************************************************************************)

\* Cache::beside, for a source with these obligations.
Start(p) ==
  /\ pc[p] = "idle"
  /\ \E c \in {"check", "proof"}, os \in Sources :
       /\ cmd' = [cmd EXCEPT ![p] = c]
       /\ obs' = [obs EXCEPT ![p] = os]
  /\ cache' = [cache EXCEPT ![p] = LinesOf(file)]
  /\ Go(p, "loaded")
  /\ UNCHANGED <<file, verdict, content, pos, outcome>>

\* check: a fully cached run needs no solver.
AllHit(p) ==
  /\ pc[p] = "loaded"
  /\ cmd[p] = "check"
  /\ Open(p) = {}
  /\ Say(p, "ok")
  /\ Go(p, "done")
  /\ UNCHANGED <<file, cache, verdict, local>>

\* check: there is no z3 on the PATH.
NoSolver(p) ==
  /\ pc[p] = "loaded"
  /\ cmd[p] = "check"
  /\ Open(p) # {}
  /\ Say(p, "no solver")
  /\ Go(p, "done")
  /\ UNCHANGED <<file, cache, verdict, local>>

Ask(p) ==
  /\ pc[p] = "loaded"
  /\ cmd[p] = "proof" \/ Open(p) # {}
  /\ Go(p, "solving")
  /\ UNCHANGED <<file, cache, verdict, outcome, local>>

\* discharge: `unsat` is a proof, `unknown` and `timeout` are giving up, and a
\* solver that does not start is said to be missing.  Anything else is reported
\* as a failed obligation: `sat`, and what a solver that ran out of memory or
\* was killed leaves behind.  z3 is taken to be sound.
Answers(o) ==
  (IF o \in Valid THEN {"proved"} ELSE {}) \cup {"failed", "gave up", "no solver"}

Answer(p, o) ==
  /\ pc[p] = "solving"
  /\ o \in Open(p)
  /\ verdict[p][o] = "none"
  /\ \E v \in Answers(o) : verdict' = [verdict EXCEPT ![p][o] = v]
  /\ UNCHANGED <<file, pc, cache, outcome, local>>

\* The solver threads have joined: only proofs are kept.
Proved(p) == {o \in Open(p) : verdict[p][o] = "proved"}

\* Seeded fault: whatever z3 answered is cached.
MergeAll(p) ==
  /\ pc[p] = "solving"
  /\ \A o \in Open(p) : verdict[p][o] # "none"
  /\ cache' = [cache EXCEPT ![p] = @ \cup {Hash[o] : o \in Open(p)}]
  /\ Go(p, IF Proved(p) = {} THEN "report" ELSE "flush")
  /\ UNCHANGED <<file, verdict, outcome, local>>

\* Seeded fault: the question is cached, not its hash.
MergeUnhashed(p) ==
  /\ pc[p] = "solving"
  /\ \A o \in Open(p) : verdict[p][o] # "none"
  /\ cache' = [cache EXCEPT ![p] = @ \cup Proved(p)]
  /\ Go(p, IF Proved(p) = {} THEN "report" ELSE "flush")
  /\ UNCHANGED <<file, verdict, outcome, local>>

\* Seeded fault: the join waits for obligations nobody asked about.
MergeWaiting(p) ==
  /\ pc[p] = "solving"
  /\ \A o \in obs[p] : verdict[p][o] # "none"
  /\ cache' = [cache EXCEPT ![p] = @ \cup {Hash[o] : o \in Proved(p)}]
  /\ Go(p, IF Proved(p) = {} THEN "report" ELSE "flush")
  /\ UNCHANGED <<file, verdict, outcome, local>>

Merge(p) ==
  /\ pc[p] = "solving"
  /\ \A o \in Open(p) : verdict[p][o] # "none"
  /\ cache' = [cache EXCEPT ![p] = @ \cup {Hash[o] : o \in Proved(p)}]
  /\ Go(p, IF Proved(p) = {} THEN "report" ELSE "flush")
  /\ UNCHANGED <<file, verdict, outcome, local>>

(***************************************************************************)
(* Cache::flush: std::fs::write truncates the file, then writes it.        *)
(***************************************************************************)
Truncate(p) ==
  /\ pc[p] = "flush"
  /\ file' = <<>>
  /\ \E s \in Sorted(cache[p]) : content' = [content EXCEPT ![p] = s]
  /\ pos' = [pos EXCEPT ![p] = 0]
  /\ Go(p, "write")
  /\ UNCHANGED <<cmd, obs, cache, verdict, outcome>>

\* Seeded fault: the last line is never written.
UnwrittenButOne(p) == pc[p] = "write" /\ pos[p] + 2 \in DOMAIN content[p]

Unwritten(p) == pc[p] = "write" /\ pos[p] + 1 \in DOMAIN content[p]

WriteLine(p) ==
  /\ Unwritten(p)
  /\ file' = Put(file, pos[p] + 1, content[p][pos[p] + 1])
  /\ pos' = [pos EXCEPT ![p] = @ + 1]
  /\ UNCHANGED <<pc, cmd, obs, cache, verdict, content, outcome>>

\* Part of the next line has reached the disk.
WritePart(p) ==
  /\ Unwritten(p)
  /\ file' = Put(file, pos[p] + 1, Torn)
  /\ UNCHANGED <<pc, cache, verdict, outcome, local>>

Written(p) ==
  /\ pc[p] = "write"
  /\ ~Unwritten(p)
  /\ Go(p, "report")
  /\ UNCHANGED <<file, cache, verdict, outcome, local>>

\* flush ignores what std::fs::write returns.
WriteFails(p) ==
  /\ DiskFails
  /\ pc[p] \in {"flush", "write"}
  /\ Go(p, "report")
  /\ UNCHANGED <<file, cache, verdict, outcome, local>>

\* Seeded fault: giving up passes for a proof.
ClosedUnlessFailed(p) == \A o \in obs[p] : verdict[p][o] # "failed"

Closed(p) == \A o \in obs[p] : verdict[p][o] \in {"none", "proved"}

Report(p) ==
  /\ pc[p] = "report"
  /\ Say(p, IF Closed(p) THEN "ok" ELSE "errors")
  /\ Go(p, "done")
  /\ UNCHANGED <<file, cache, verdict, local>>

\* The process is gone, with everything but the file.
Forget(p) ==
  /\ pc' = [pc EXCEPT ![p] = "idle"]
  /\ cmd' = [cmd EXCEPT ![p] = "check"]
  /\ obs' = [obs EXCEPT ![p] = {}]
  /\ cache' = [cache EXCEPT ![p] = {}]
  /\ verdict' = [verdict EXCEPT ![p] = Unanswered]
  /\ content' = [content EXCEPT ![p] = <<>>]
  /\ pos' = [pos EXCEPT ![p] = 0]
  /\ outcome' = [outcome EXCEPT ![p] = "none"]
  /\ UNCHANGED file

Exit(p)  == pc[p] = "done" /\ Forget(p)
Crash(p) == pc[p] \notin {"idle", "done"} /\ Forget(p)

Step(p) ==
  \/ AllHit(p) \/ NoSolver(p) \/ Ask(p) \/ \E o \in Obligations : Answer(p, o)
  \/ Merge(p) \/ Truncate(p) \/ WriteLine(p) \/ Written(p) \/ Report(p) \/ Exit(p)

Next == \E p \in Proc : Start(p) \/ Step(p) \/ WritePart(p) \/ WriteFails(p) \/ Crash(p)

\* A process that is not killed goes on: z3 is started with a time limit, and
\* writing the file does not wait for anyone.
Spec == Init /\ [][Next]_vars /\ \A p \in Proc : WF_vars(Step(p))

(***************************************************************************)
(* Properties.                                                             *)
(***************************************************************************)
TypeOK ==
  /\ file \in Seq(Lines)
  /\ pc \in [Proc -> Stages]
  /\ cmd \in [Proc -> {"check", "proof"}]
  /\ obs \in [Proc -> SUBSET Obligations]
  /\ cache \in [Proc -> SUBSET Lines]
  /\ verdict \in [Proc -> [Obligations -> Verdicts]]
  /\ content \in [Proc -> Seq(Lines)]
  /\ pos \in [Proc -> Nat]
  /\ outcome \in [Proc -> Outcomes]

\* The hashes that certify something that holds.
Certified == {Hash[o] : o \in Valid} \cup {Torn}

\* A certificate is only ever of an obligation that holds, on disk and in every
\* process, whatever was killed, half written or overwritten by another process
\* (refine.rs: "a hit means the same question was already answered unsat").
CertificatesHold ==
  /\ LinesOf(file) \subseteq Certified
  /\ \A p \in Proc : cache[p] \subseteq Certified /\ LinesOf(content[p]) \subseteq Certified

\* A run that reports success had only obligations that hold: what it asked was
\* proved, now or by a run whose certificate is still true (spec 7.3: an
\* obligation that is not discharged is an error).
VerdictSound == \A p \in Proc : outcome[p] = "ok" => obs[p] \subseteq Valid

\* What VerdictSound rests on: z3's answers are sound, an unanswered obligation
\* of a process that has merged is one its cache holds, and nothing is said
\* before the end.
Honest ==
  \A p \in Proc :
    /\ \A o \in Obligations : verdict[p][o] = "proved" => o \in Valid
    /\ pc[p] \in {"flush", "write", "report"} =>
         \A o \in obs[p] : verdict[p][o] = "none" => Hit(p, o)
    /\ outcome[p] # "none" => pc[p] = "done"

IInv == TypeOK /\ CertificatesHold /\ VerdictSound /\ Honest

\* A process that works alone, on a disk that does not fail, leaves everything
\* it reported proved in the file: the same source needs no solver next time,
\* even after earlier runs were killed while writing (tests/refine.rs: "a fully
\* cached run must need no solver").
Warm ==
  \A p \in Proc : outcome[p] = "ok" => {Hash[o] : o \in obs[p]} \subseteq LinesOf(file)

\* What Warm rests on: until it has something to write, a process holds what the
\* file says; while it writes, the file has the lines written so far; once it is
\* to report, the file has all it holds, and that is all it was not refused.
Alone == ~DiskFails /\ \A p, q \in Proc : p = q

OnDisk(p) ==
  /\ pc[p] \in {"loaded", "solving"} => cache[p] = LinesOf(file)
  /\ pc[p] = "write" => /\ LinesOf(content[p]) = cache[p]
                        /\ \A i \in 1..pos[p] : i \in DOMAIN file /\ i \in DOMAIN content[p] /\ file[i] = content[p][i]
  /\ pc[p] = "report" => cache[p] \subseteq LinesOf(file)
  /\ pc[p] \in {"flush", "write", "report"} =>
       \A o \in obs[p] : verdict[p][o] \in {"none", "proved"} => Hit(p, o)

WarmInv == Warm /\ \A p \in Proc : OnDisk(p)

\* An obligation is reported as failed only if it does not hold (spec 16.5: the
\* compiler "says it gave up, rather than presenting the absence of a proof as
\* a refutation").
FailuresRefute ==
  \A p \in Proc, o \in Obligations : verdict[p][o] = "failed" => o \notin Valid

\* A process that is not killed ends.
Ends == \A p \in Proc : pc[p] = "loaded" ~> pc[p] \in {"done", "idle"}
=============================================================================
