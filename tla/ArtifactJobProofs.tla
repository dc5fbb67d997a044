------------------------- MODULE ArtifactJobProofs -------------------------
(* Machine-checked theorems about ArtifactJobs, for every set of workers,   *)
(* every repository tree and every value of the bounds.                     *)
EXTENDS ArtifactJobs, JobRowProofs, FiniteSetTheorems, WellFoundedInduction

-----------------------------------------------------------------------------
(* The inductive invariant, first what one processor knows of itself.       *)

ExportPc == {"idle", "enter", "stage", "build", "built", "beat", "write", "written",
             "complete", "cancel", "check", "remove", "fail"}
ImportPc == {"idle", "enter", "scan", "scanned", "list", "batch", "beat", "item", "upload",
             "stat", "uploaded", "persist", "flush", "flushed", "finish", "check", "remove", "fail"}

(* An import has no file yet, is at its file, or past it. *)
Listing  == {"enter", "scan", "scanned", "list"}
AtFile   == {"batch", "beat", "item", "upload", "stat", "uploaded", "persist", "check", "remove"}
PastFile == {"flush", "flushed", "finish"}

Passed(r) == IF r.pc \in PastFile THEN r.file ELSE r.file - 1
Counts(r) == r.rejected + r.retryable

(* An export knows no file and has built its body before it writes.         *)
ExportLocal(r) ==
  /\ r.pc \in ExportPc /\ r.next \in {"idle", "fail", "cancel"}
  /\ r.file = Artifact /\ Counts(r) = 0
  /\ r.pc \in {"built", "beat", "write", "written", "complete"} => r.body # NoBody

(* An import takes candidates only and counts a file once, when it passes;  *)
(* while it has counted none, every candidate it has passed is an Asset.    *)
ImportLocal(r, imported) ==
  /\ r.pc \in ImportPc /\ r.next \in {"idle", "fail", "reject"}
  /\ r.pc \in AtFile \union PastFile =>
       /\ r.file \in Candidates /\ Counts(r) <= Passed(r)
       /\ Counts(r) = 0 => \A g \in Candidates : g <= Passed(r) => g \in imported
  /\ r.pc \in Listing => Counts(r) = 0
  /\ r.pc = "finish" => Later(r.file) = {}

Locals ==
  \A w \in Workers :
    /\ At(w, "idle") => worker[w] = IdleWorker
    /\ kind = "export" => ExportLocal(worker[w])
    /\ kind = "import" => ImportLocal(worker[w], assets)

(* What the rows say of each other: only candidates of the Dataset's        *)
(* modality become Assets; a completed export has a result, and a completed *)
(* import took every candidate and skipped no file.                         *)
Outcomes ==
  /\ \A f \in assets : f \in Candidates /\ tree[f] = "fit"
  /\ kind = "export" => assets = {} /\ (job.status = "COMPLETED" => result # NoBody)
  /\ kind = "import" /\ job.status = "COMPLETED" => Candidates \subseteq assets /\ Skipped = 0

-----------------------------------------------------------------------------
(* While no lease has run out under its worker, one processor works at a    *)
(* time.  It holds the Job, or is on its way out of a Job that is over.     *)

Holds(w) == /\ job.lockedBy = w /\ job.status \in Active
            /\ CurrentLease(job, Token(w))
Leaving(w) == At(w, "fail") \/ (worker[w].pc \in {"check", "remove"} /\ worker[w].next \in {"idle", "fail"})
IsOver == job.status \in {"COMPLETED", "CANCELED"}

Ownership ==
  stalls = 0 =>
    /\ \A w \in Workers : ~At(w, "idle") => Holds(w) \/ (IsOver /\ Leaving(w))
    /\ \A v, w \in Workers : ~At(v, "idle") /\ ~At(w, "idle") => v = w

(* A pass of the sweep that has overlapped no attempt finds every processor *)
(* idle and what it has found still unreferenced.                           *)
SweepApart ==
  ~overtaken /\ sweep # {} => /\ \A w \in Workers : At(w, "idle")
                             /\ \A k \in sweep : ~Referenced(k)

(* What the processor has stored is there when it says so in a row, and     *)
(* what it removes no row refers to.                                        *)
ExportStored ==
  Timely /\ kind = "export" =>
    /\ \A w \in Workers :
         /\ worker[w].pc \in {"written", "complete"} => objects[Artifact].body = worker[w].body
         /\ At(w, "remove") => job.status # "COMPLETED"
    /\ job.status = "COMPLETED" => objects[Artifact].body = result

ImportStored ==
  Timely /\ kind = "import" =>
    /\ \A w \in Workers :
         /\ worker[w].pc \in {"uploaded", "persist"} => objects[Key(w)].body # NoBody
         /\ At(w, "remove") => Key(w) \notin assets
    /\ \A f \in assets : objects[f].body # NoBody

(* A file that was counted is not an Asset, nor is the one being imported.  *)
CountedIsMissing ==
  stalls = 0 /\ kind = "import" =>
    \A w \in Workers :
      /\ worker[w].pc \in {"upload", "stat", "uploaded", "persist"} => Key(w) \notin assets
      /\ worker[w].pc \in {"check", "remove"} /\ worker[w].next = "reject" => tree[Key(w)] # "fit"
      /\ worker[w].pc \in AtFile \union PastFile /\ Counts(worker[w]) > 0 =>
           \E g \in Candidates : g <= Passed(worker[w]) /\ g \notin assets

(* An object nobody refers to is in the hands of its processor, or is one   *)
(* of the strays.                                                           *)
Storing == {"written", "complete", "stat", "uploaded", "persist", "check", "remove"}
InHand(k) == \E w \in Workers : worker[w].pc \in Storing /\ k = Key(w)
ObjectsKept ==
  crashes = 0 /\ stalls = 0 =>
    \A k \in Keys : objects[k].body # NoBody => Referenced(k) \/ k \in strays \/ InHand(k)

(* A RUNNING Job is in the hands of its processor, and one that is about to *)
(* return without a word has seen that the Job is not its to end.           *)
GivingUp(w) == worker[w].pc \in {"check", "remove"} /\ worker[w].next = "idle"
Canceling(w) ==
  At(w, "cancel") \/ (worker[w].pc \in {"check", "remove"} /\ worker[w].next = "cancel")
JobsKept ==
  crashes = 0 /\ stalls = 0 =>
    /\ job.status = "RUNNING" => \E w \in Workers : Holds(w)
    /\ \A w \in Workers : Holds(w) =>
         /\ Canceling(w) => Requested
         /\ GivingUp(w) => job.status # "RUNNING"

IInv ==
  /\ TypeOK /\ Locals /\ Outcomes
  /\ Ownership /\ SweepApart /\ ExportStored /\ ImportStored
  /\ CountedIsMissing /\ ObjectsKept /\ JobsKept

-----------------------------------------------------------------------------
(* Files and candidates.                                                    *)

LEMMA Constants ==
  /\ MaxFiles \in Nat \ {0} /\ Manifests \subseteq [items: Nat, bytes: Nat]
  /\ MaxEdits \in Nat /\ MaxClaims \in Nat /\ MaxCrashes \in Nat /\ MaxErrors \in Nat
  /\ MaxStalls \in Nat /\ MaxAges \in Nat /\ MaxAttempts \in Nat \ {0}
BY ArtifactBounds, MaxAttemptsAssumption

LEMMA FilesAreNumbers == \A f \in Files : f \in Nat /\ f \in 1 .. MaxFiles /\ f # Artifact
BY Constants DEF Files, Artifact

LEMMA CandidatesAreFiles ==
  /\ Candidates \subseteq Files
  /\ \A f \in Nat : Later(f) \subseteq Candidates
BY DEF Candidates, Listed, Later

LEMMA FilesAreFinite ==
  ASSUME NEW S, S \subseteq Files
  PROVE  IsFiniteSet(S)
<1>1. IsFiniteSet(1 .. MaxFiles)
  BY Constants, FS_Interval
<1>2. QED
  BY <1>1, FS_Subset DEF Files

(* The least element of a set of files is what First says it is: the sets   *)
(* of its files up to one of them are ordered by inclusion.                 *)
LEMMA FirstIsLeast ==
  ASSUME NEW S, S \subseteq Files, S # {}
  PROVE  First(S) \in S /\ \A g \in S : First(S) <= g
<1> DEFINE UpTo(f) == {h \in S : h <= f}
           Starts == {UpTo(f) : f \in S}
<1>1. S \subseteq Nat
  BY FilesAreNumbers
<1>2. Starts \subseteq FiniteSubsetsOf(S) /\ Starts # {}
  BY FilesAreFinite DEF FiniteSubsetsOf
<1>3. \E T \in Starts : \A U \in Starts : ~(<<U, T>> \in StrictSubsetOrdering(S))
  BY <1>2, FS_StrictSubsetOrderingWellFounded, WFMin
<1>4. PICK f \in S : \A g \in S : ~(<<UpTo(g), UpTo(f)>> \in StrictSubsetOrdering(S))
  BY <1>3
<1>5. ASSUME NEW g \in S PROVE f <= g
  <2>1. SUFFICES ASSUME g < f PROVE FALSE
    BY <1>1
  <2>2. f <= f /\ ~(f <= g) /\ \A h \in S : h <= g => h <= f
    BY <1>1, <2>1
  <2>3. UpTo(g) \subseteq UpTo(f) /\ f \in UpTo(f) /\ f \notin UpTo(g)
    BY <2>2
  <2>4. <<UpTo(g), UpTo(f)>> \in StrictSubsetOrdering(S)
    BY <2>3 DEF StrictSubsetOrdering
  <2>5. QED BY <2>4, <1>4
<1>6. QED
  BY <1>5 DEF First

-----------------------------------------------------------------------------
(* The record of a processor and the ways it is changed.                    *)

Bodies == 0 .. MaxEdits + 1
Processor == [pc: Pc, token: Nat, body: Bodies, file: 0 .. MaxFiles,
              rejected: 0 .. MaxFiles, retryable: 0 .. MaxFiles, next: Pc]

Becomes(w, r) == worker' = [worker EXCEPT ![w] = r]

LEMMA ProcessorsTyped ==
  /\ TypeOK => worker \in [Workers -> Processor]
  /\ IdleWorker \in Processor
BY Constants DEF TypeOK, Processor, Bodies, IdleWorker, Pc, NoToken, NoBody

LEMMA BecomesOne ==
  ASSUME TypeOK, NEW w \in Workers, NEW r, Becomes(w, r)
  PROVE  /\ worker'[w] = r
         /\ \A v \in Workers : v # w => worker'[v] = worker[v]
         /\ r \in Processor => worker' \in [Workers -> Processor]
BY ProcessorsTyped DEF Becomes

LEMMA GotoBecomes ==
  ASSUME TypeOK, NEW w \in Workers, NEW pc, Goto(w, pc)
  PROVE  Becomes(w, [worker[w] EXCEPT !.pc = pc])
BY DEF TypeOK, Goto, Becomes

LEMMA LeaveBecomes ==
  ASSUME NEW w \in Workers, Leave(w)
  PROVE  Becomes(w, IdleWorker)
BY DEF Leave, Becomes

LEMMA CleanThenBecomes ==
  ASSUME TypeOK, NEW w \in Workers, NEW next, CleanThen(w, next)
  PROVE  Becomes(w, [worker[w] EXCEPT !.pc = "check", !.next = next])
BY DEF TypeOK, CleanThen, Becomes

(* The record an import goes on with once its file is counted.              *)
Passing(r, rejected, retryable) ==
  [r EXCEPT !.pc = AfterItem(r.file).pc, !.file = AfterItem(r.file).file, !.next = "idle",
            !.rejected = r.rejected + rejected, !.retryable = r.retryable + retryable]

LEMMA CountedBecomes ==
  ASSUME TypeOK, NEW w \in Workers, NEW rejected \in Nat, NEW retryable \in Nat,
         Counted(w, rejected, retryable)
  PROVE  Becomes(w, Passing(worker[w], rejected, retryable))
BY DEF TypeOK, Counted, Becomes, Passing

LEMMA BoundaryMoves ==
  ASSUME TypeOK, NEW w \in Workers, NEW pc, NEW next, Boundary(w, pc, next)
  PROVE  /\ worker[w].pc = pc
         /\ \/ Becomes(w, IdleWorker) /\ SeesRequest(w) /\ Acknowledged(w)
            \/ Becomes(w, [worker[w] EXCEPT !.pc = next]) /\ job' = job
         /\ UNCHANGED <<sourceVars, result, claims, storeVars, sweepVars, bounds>>
BY GotoBecomes, LeaveBecomes DEF Boundary, At

LEMMA GuardedMoves ==
  ASSUME TypeOK, NEW w \in Workers, NEW pc, NEW next, NEW refused,
         Guarded(w, pc, next, refused)
  PROVE  /\ worker[w].pc = pc
         /\ \/ CanWrite(job, Token(w)) /\ Becomes(w, [worker[w] EXCEPT !.pc = next])
            \/ /\ ~CanWrite(job, Token(w))
               /\ \/ refused = "idle" /\ Becomes(w, IdleWorker)
                  \/ refused # "idle" /\ Becomes(w, [worker[w] EXCEPT !.pc = refused])
         /\ UNCHANGED <<sourceVars, jobVars, storeVars, sweepVars, bounds>>
BY GotoBecomes, LeaveBecomes DEF Guarded, At

LEMMA RaiseMoves ==
  ASSUME TypeOK, NEW w \in Workers, NEW pcs, NEW next, Raise(w, pcs, next)
  PROVE  /\ worker[w].pc \in pcs
         /\ Becomes(w, [worker[w] EXCEPT !.pc = next, !.next = "fail"])
         /\ Error
         /\ UNCHANGED <<sourceVars, jobVars, storeVars, sweepVars>>
BY DEF TypeOK, Raise, Becomes

LEMMA ResumeMoves ==
  ASSUME TypeOK, NEW w \in Workers, Resume(w)
  PROVE  \/ worker[w].next = "idle" /\ Becomes(w, IdleWorker)
         \/ worker[w].next = "reject" /\ Becomes(w, Passing(worker[w], 1, 0))
         \/ /\ worker[w].next \notin {"idle", "reject"}
            /\ Becomes(w, [worker[w] EXCEPT !.pc = worker[w].next])
<1>1. CASE worker[w].next = "idle"
  BY <1>1, LeaveBecomes DEF Resume
<1>2. CASE worker[w].next = "reject"
  <2>1. Counted(w, 1, 0)
    BY <1>2 DEF Resume
  <2>2. QED BY <1>2, <2>1, CountedBecomes
<1>3. CASE worker[w].next \notin {"idle", "reject"}
  <2>1. Goto(w, worker[w].next)
    BY <1>3 DEF Resume
  <2>2. QED BY <1>3, <2>1, GotoBecomes
<1>4. QED BY <1>1, <1>2, <1>3

-----------------------------------------------------------------------------
(* From one candidate to the next.                                          *)

LEMMA NextCandidate ==
  ASSUME NEW f \in Candidates, Later(f) # {}
  PROVE  /\ First(Later(f)) \in Candidates /\ First(Later(f)) > f
         /\ \A g \in Candidates : g <= First(Later(f)) - 1 <=> g <= f
<1>1. Later(f) \subseteq Candidates /\ Candidates \subseteq Files
  BY CandidatesAreFiles DEF Later
<1>2. First(Later(f)) \in Later(f) /\ \A g \in Later(f) : First(Later(f)) <= g
  BY <1>1, FirstIsLeast
<1> DEFINE n == First(Later(f))
<1>3. n \in Candidates /\ n > f
  BY <1>2 DEF Later
<1>4. \A g \in Candidates : g > f => n <= g
  BY <1>2 DEF Later
<1>5. f \in Nat /\ n \in Nat /\ \A g \in Candidates : g \in Nat
  BY <1>1, <1>3, FilesAreNumbers
<1> HIDE DEF n
<1>6. \A g \in Candidates : g <= n - 1 <=> g <= f
  BY <1>3, <1>4, <1>5
<1>7. QED BY <1>3, <1>6 DEF n

LEMMA FirstCandidate ==
  ASSUME Candidates # {}
  PROVE  First(Candidates) \in Candidates /\ \A g \in Candidates : ~(g <= First(Candidates) - 1)
<1>1. Candidates \subseteq Files
  BY CandidatesAreFiles
<1>2. First(Candidates) \in Candidates /\ \A g \in Candidates : First(Candidates) <= g
  BY <1>1, FirstIsLeast
<1>3. \A g \in Candidates : g \in Nat
  BY <1>1, FilesAreNumbers
<1>4. QED BY <1>2, <1>3

LEMMA CandidateNumbers == \A f \in Candidates : f \in 1 .. MaxFiles /\ f \in Nat /\ f \in Files
BY FilesAreNumbers, CandidatesAreFiles

(* A file is passed once: the count stays below the files passed.           *)
LEMMA PassingOn ==
  ASSUME NEW r \in Processor, r.file \in Candidates, Counts(r) <= r.file - 1,
         NEW rejected \in Nat, NEW retryable \in Nat, rejected + retryable <= 1
  PROVE  /\ Passing(r, rejected, retryable) \in Processor
         /\ Passing(r, rejected, retryable).pc \in {"flush", "beat"}
         /\ Passing(r, rejected, retryable).next = "idle"
         /\ Passing(r, rejected, retryable).token = r.token
         /\ Passing(r, rejected, retryable).file \in Candidates
         /\ Counts(Passing(r, rejected, retryable)) = Counts(r) + rejected + retryable
         /\ Passed(Passing(r, rejected, retryable)) >= r.file
         /\ Passed(Passing(r, rejected, retryable)) \in Nat
         /\ \A g \in Candidates : g <= Passed(Passing(r, rejected, retryable)) <=> g <= r.file
<1> DEFINE after == AfterItem(r.file)
           q == Passing(r, rejected, retryable)
<1>1. /\ after.file \in Candidates
      /\ \/ after.pc = "flush" /\ after.file = r.file
         \/ /\ after.pc = "beat" /\ after.file > r.file
            /\ \A g \in Candidates : g <= after.file - 1 <=> g <= r.file
  <2>1. CASE EndsBatch(r.file)
    BY <2>1 DEF AfterItem
  <2>2. CASE ~EndsBatch(r.file)
    <3>1. Later(r.file) # {}
      BY <2>2 DEF EndsBatch
    <3>2. QED BY <2>2, <3>1, NextCandidate DEF AfterItem
  <2>3. QED BY <2>1, <2>2
<1>2. /\ r.rejected \in 0 .. MaxFiles /\ r.retryable \in 0 .. MaxFiles
      /\ r.rejected + r.retryable <= r.file - 1
      /\ r.file \in 1 .. MaxFiles /\ after.file \in 1 .. MaxFiles
  BY <1>1, CandidateNumbers DEF Processor, Counts
<1>3. /\ q.pc = after.pc /\ q.file = after.file /\ q.next = "idle" /\ q.token = r.token
      /\ q.rejected = r.rejected + rejected /\ q.retryable = r.retryable + retryable
  BY DEF Passing, Processor
<1>4. q.pc \in {"flush", "beat"} /\ q.file \in Candidates
  BY <1>1, <1>3
<1>5. r.rejected + rejected \in 0 .. MaxFiles /\ r.retryable + retryable \in 0 .. MaxFiles
  BY <1>2, Constants
<1>6. q \in Processor
  <2>1. after.pc \in Pc /\ after.file \in 0 .. MaxFiles /\ "idle" \in Pc
    BY <1>1, <1>2, Constants DEF Pc
  <2>2. QED BY <1>5, <2>1 DEF Passing, Processor
<1>7. Counts(q) = Counts(r) + rejected + retryable
  BY <1>2, <1>3 DEF Counts
<1>8. Passed(q) = IF q.pc = "flush" THEN r.file ELSE after.file - 1
  BY <1>1, <1>3 DEF Passed, PastFile
<1> HIDE DEF q, after
<1>9. /\ Passed(q) >= r.file /\ Passed(q) \in Nat
      /\ \A g \in Candidates : g <= Passed(q) <=> g <= r.file
  BY <1>1, <1>2, <1>3, <1>8
<1>10. QED
  BY <1>3, <1>4, <1>6, <1>7, <1>9 DEF q

LEMMA PassingLocal ==
  ASSUME NEW r \in Processor, r.pc \in AtFile, NEW before, ImportLocal(r, before),
         NEW imported, before \subseteq imported,
         NEW rejected \in Nat, NEW retryable \in Nat, rejected + retryable <= 1,
         rejected + retryable = 0 => r.file \in imported
  PROVE  /\ Passing(r, rejected, retryable) \in Processor
         /\ ImportLocal(Passing(r, rejected, retryable), imported)
<1> DEFINE q == Passing(r, rejected, retryable)
<1>1. /\ r.file \in Candidates /\ Counts(r) <= r.file - 1
      /\ Counts(r) = 0 => \A g \in Candidates : g <= r.file - 1 => g \in imported
  BY DEF ImportLocal, Passed, AtFile, PastFile
<1>2. /\ q \in Processor /\ q.pc \in {"flush", "beat"} /\ q.next = "idle"
      /\ q.file \in Candidates /\ Counts(q) = Counts(r) + rejected + retryable
      /\ Passed(q) >= r.file /\ Passed(q) \in Nat
      /\ \A g \in Candidates : g <= Passed(q) <=> g <= r.file
  BY <1>1, PassingOn
<1> HIDE DEF q
<1>3. Counts(r) \in Nat /\ r.file \in Nat
  BY Constants DEF Counts, Processor
<1>4. Counts(q) <= Passed(q)
  BY <1>1, <1>2, <1>3
<1>5. ASSUME Counts(q) = 0, NEW g \in Candidates, g <= Passed(q) PROVE g \in imported
  <2>1. Counts(r) = 0 /\ rejected + retryable = 0 /\ g <= r.file
    BY <1>2, <1>3, <1>5
  <2>2. g = r.file \/ g <= r.file - 1
    BY <2>1, <1>3, CandidateNumbers
  <2>3. QED BY <1>1, <2>1, <2>2
<1>6. ImportLocal(q, imported)
  BY <1>2, <1>4, <1>5 DEF ImportLocal, ImportPc, Listing, AtFile, PastFile
<1>7. QED BY <1>2, <1>6 DEF q

-----------------------------------------------------------------------------
(* Every step of a processor leaves a record of its kind.                   *)

LEMMA ExportGoes ==
  ASSUME NEW r \in Processor, ExportLocal(r), NEW pc \in ExportPc \ {"idle"},
         pc \in {"built", "beat", "write", "written", "complete"} => r.body # NoBody
  PROVE  /\ [r EXCEPT !.pc = pc] \in Processor /\ ExportLocal([r EXCEPT !.pc = pc])
         /\ [r EXCEPT !.pc = pc].pc # "idle"
         /\ \A next \in {"idle", "fail", "cancel"} :
              LET q == [r EXCEPT !.pc = pc, !.next = next]
              IN  q \in Processor /\ ExportLocal(q) /\ q.pc # "idle"
<1>1. pc \in Pc /\ {"idle", "fail", "cancel"} \subseteq Pc
  BY DEF ExportPc, Pc
<1>2. QED
  BY <1>1 DEF Processor, ExportLocal, Counts

LEMMA IdleLocal ==
  ExportLocal(IdleWorker) /\ \A imported : ImportLocal(IdleWorker, imported)
BY DEF ExportLocal, ImportLocal, IdleWorker, ExportPc, ImportPc, Listing, AtFile, PastFile, Counts, Artifact

Lawful(w, r, local) == Becomes(w, r) /\ local /\ (r.pc = "idle" => r = IdleWorker)

LEMMA ExportSteps ==
  ASSUME TypeOK, NEW w \in Workers, ExportLocal(worker[w]), Export(w)
  PROVE  \E r \in Processor : Lawful(w, r, ExportLocal(r))
<1> DEFINE r == worker[w]
           Good(q) == q \in Processor /\ ExportLocal(q) /\ (q.pc = "idle" => q = IdleWorker)
<1>1. r \in Processor /\ ExportLocal(r)
  BY ProcessorsTyped
<1>2. Good(IdleWorker)
  BY ProcessorsTyped, IdleLocal
<1>3. ASSUME NEW pc \in ExportPc \ {"idle"},
             pc \in {"built", "beat", "write", "written", "complete"} => r.body # NoBody
      PROVE  Good([r EXCEPT !.pc = pc])
  BY <1>1, <1>3, ExportGoes
<1>4. ASSUME NEW pc \in {"check", "fail"}, NEW next \in {"idle", "fail", "cancel"}
      PROVE  Good([r EXCEPT !.pc = pc, !.next = next])
  BY <1>1, ExportGoes DEF ExportPc
<1>5. r.pc \in {"built", "beat", "write", "written", "complete"} => r.body # NoBody
  BY <1>1 DEF ExportLocal
<1>6. SUFFICES \E q : Good(q) /\ Becomes(w, q)
  BY DEF Lawful
<1> HIDE DEF Good
<1>7. CASE Boundary(w, "enter", "stage")
  BY <1>7, <1>2, <1>3, BoundaryMoves DEF ExportPc
<1>8. CASE Guarded(w, "stage", "build", "idle")
  BY <1>8, <1>2, <1>3, GuardedMoves DEF ExportPc
<1>9. CASE Build(w)
  <2>1. data \in Bodies \ {NoBody} /\ r.pc = "build"
    BY <1>9, Constants DEF Build, At, TypeOK, Bodies, NoBody
  <2>2. Becomes(w, IdleWorker) \/ Becomes(w, [r EXCEPT !.pc = "built", !.body = data])
    BY <1>9 DEF Build, Becomes, TypeOK
  <2>3. [r EXCEPT !.pc = "built", !.body = data] \in Processor
    BY <1>1, <2>1 DEF Processor, Pc
  <2>4. ExportLocal([r EXCEPT !.pc = "built", !.body = data])
    BY <1>1, <2>1 DEF Processor, ExportLocal, ExportPc, Counts
  <2>5. [r EXCEPT !.pc = "built", !.body = data].pc = "built"
    BY <1>1 DEF Processor
  <2>6. Good([r EXCEPT !.pc = "built", !.body = data])
    BY <2>3, <2>4, <2>5 DEF Good
  <2>7. QED BY <1>2, <2>2, <2>6
<1>10. CASE \E pcs : Raise(w, pcs, "fail") \/ Raise(w, pcs, "check")
  BY <1>10, <1>4, RaiseMoves
<1>11. CASE Boundary(w, "built", "beat")
  BY <1>11, <1>2, <1>3, <1>5, BoundaryMoves DEF ExportPc
<1>12. CASE Guarded(w, "beat", "write", "idle")
  BY <1>12, <1>2, <1>3, <1>5, GuardedMoves DEF ExportPc
<1>13. CASE Write(w)
  BY <1>13, <1>3, <1>5, GotoBecomes DEF Write, At, ExportPc
<1>14. CASE Written(w)
  BY <1>14, <1>3, <1>4, <1>5, GotoBecomes, CleanThenBecomes DEF Written, At, ExportPc
<1>15. CASE CancelCleaned(w)
  BY <1>15, <1>2, LeaveBecomes DEF CancelCleaned
<1>16. CASE CompleteExport(w)
  BY <1>16, <1>2, <1>4, LeaveBecomes, CleanThenBecomes DEF CompleteExport
<1>17. CASE CompletionRaises(w)
  BY <1>17, <1>4, CleanThenBecomes DEF CompletionRaises
<1>18. QED
  BY <1>7, <1>8, <1>9, <1>10, <1>11, <1>12, <1>13, <1>14, <1>15, <1>16, <1>17 DEF Export

LEMMA ImportGoes ==
  ASSUME NEW r \in Processor, NEW before, NEW imported, ImportLocal(r, before),
         before \subseteq imported, NEW pc \in ImportPc \ {"idle"},
         \/ pc \notin AtFile \union PastFile /\ (pc \in Listing => r.pc \in Listing)
         \/ r.pc \in AtFile /\ pc \in AtFile
         \/ r.pc \in PastFile /\ pc \in PastFile /\ (pc = "finish" => Later(r.file) = {})
  PROVE  /\ [r EXCEPT !.pc = pc] \in Processor /\ ImportLocal([r EXCEPT !.pc = pc], imported)
         /\ [r EXCEPT !.pc = pc].pc # "idle"
         /\ \A next \in {"idle", "fail", "reject"} :
              LET q == [r EXCEPT !.pc = pc, !.next = next]
              IN  q \in Processor /\ ImportLocal(q, imported) /\ q.pc # "idle"
<1>1. pc \in Pc /\ {"idle", "fail", "reject"} \subseteq Pc
  BY DEF ImportPc, Pc
<1>2. ASSUME NEW next \in {"idle", "fail", "reject"}, NEW q \in Processor,
             q.pc = pc, q.next = next, q.file = r.file, Counts(q) = Counts(r)
      PROVE  ImportLocal(q, imported)
  <2>1. CASE pc \notin AtFile \union PastFile /\ (pc \in Listing => r.pc \in Listing)
    BY <1>2, <2>1 DEF ImportLocal, PastFile
  <2>2. CASE /\ pc \in AtFile \union PastFile /\ r.pc \in AtFile \union PastFile
             /\ pc \in PastFile <=> r.pc \in PastFile
             /\ pc = "finish" => Later(r.file) = {}
    <3>1. Passed(q) = Passed(r)
      BY <1>2, <2>2 DEF Passed
    <3>2. pc \notin Listing
      BY <2>2 DEF AtFile, PastFile, Listing
    <3>3. QED BY <1>2, <2>2, <3>1, <3>2 DEF ImportLocal
  <2>3. pc \in AtFile => pc \notin PastFile /\ pc # "finish"
    BY DEF AtFile, PastFile
  <2>4. r.pc \in AtFile => r.pc \notin PastFile
    BY DEF AtFile, PastFile
  <2>5. QED BY <2>1, <2>2, <2>3, <2>4
<1>3. ASSUME NEW next \in {"idle", "fail", "reject"}
      PROVE  LET q == [r EXCEPT !.pc = pc, !.next = next]
             IN  q \in Processor /\ q.pc = pc /\ q.next = next /\ q.file = r.file /\ Counts(q) = Counts(r)
  BY <1>1, <1>3 DEF Processor, Counts
<1>4. LET q == [r EXCEPT !.pc = pc]
      IN  q \in Processor /\ q.pc = pc /\ q.next = r.next /\ q.file = r.file /\ Counts(q) = Counts(r)
  BY <1>1 DEF Processor, Counts
<1>5. r.next \in {"idle", "fail", "reject"}
  BY DEF ImportLocal
<1>6. QED BY <1>2, <1>3, <1>4, <1>5

(* An import takes the first candidate, or the one after its file.          *)
LEMMA TakesFirst ==
  ASSUME NEW r \in Processor, Counts(r) = 0, r.next \in {"idle", "fail", "reject"},
         Candidates # {}, NEW imported
  PROVE  LET q == [r EXCEPT !.pc = "batch", !.file = First(Candidates)]
         IN  q \in Processor /\ q.pc = "batch" /\ ImportLocal(q, imported)
<1> DEFINE n == First(Candidates)
           q == [r EXCEPT !.pc = "batch", !.file = n]
<1>1. /\ n \in Candidates /\ n \in 1 .. MaxFiles
      /\ \A g \in Candidates : ~(g <= n - 1)
  BY FirstCandidate, CandidateNumbers
<1> HIDE DEF n
<1>2. /\ q \in Processor /\ q.pc = "batch" /\ q.next = r.next
      /\ q.file = n /\ Counts(q) = 0
  <2>1. n \in 0 .. MaxFiles /\ "batch" \in Pc
    BY <1>1, Constants DEF Pc
  <2>2. q \in Processor
    BY <2>1 DEF Processor
  <2>3. /\ q.pc = "batch" /\ q.next = r.next /\ q.file = n
        /\ q.rejected = r.rejected /\ q.retryable = r.retryable
    BY DEF Processor
  <2>4. QED BY <2>2, <2>3 DEF Counts
<1>3. Passed(q) = n - 1 /\ 0 <= Passed(q)
  BY <1>1, <1>2, Constants DEF Passed, PastFile
<1> HIDE DEF q
<1>4. ImportLocal(q, imported)
  BY <1>1, <1>2, <1>3 DEF ImportLocal, ImportPc, Listing
<1>5. QED BY <1>2, <1>4 DEF q, n

LEMMA TakesNext ==
  ASSUME NEW r \in Processor, NEW imported, ImportLocal(r, imported), r.pc = "flushed",
         Later(r.file) # {}
  PROVE  LET q == [r EXCEPT !.pc = "beat", !.file = First(Later(r.file))]
         IN  /\ q \in Processor /\ q.pc = "beat" /\ ImportLocal(q, imported)
             /\ q.token = r.token /\ Passed(q) >= Passed(r) /\ Counts(q) = Counts(r)
<1> DEFINE n == First(Later(r.file))
           q == [r EXCEPT !.pc = "beat", !.file = n]
<1>1. /\ r.file \in Candidates /\ Passed(r) = r.file
      /\ Counts(r) <= r.file
      /\ Counts(r) = 0 => \A g \in Candidates : g <= r.file => g \in imported
  BY DEF ImportLocal, Passed, PastFile
<1>2. /\ n \in Candidates /\ n > r.file
      /\ \A g \in Candidates : g <= n - 1 <=> g <= r.file
  BY <1>1, NextCandidate
<1>3. n \in 1 .. MaxFiles /\ r.file \in Nat
  BY <1>1, <1>2, CandidateNumbers
<1> HIDE DEF n
<1>4. /\ q \in Processor /\ q.pc = "beat" /\ q.next = r.next /\ q.token = r.token
      /\ q.file = n /\ Counts(q) = Counts(r)
  <2>1. n \in 0 .. MaxFiles /\ "beat" \in Pc
    BY <1>3, Constants DEF Pc
  <2>2. q \in Processor
    BY <2>1 DEF Processor
  <2>3. /\ q.pc = "beat" /\ q.next = r.next /\ q.file = n /\ q.token = r.token
        /\ q.rejected = r.rejected /\ q.retryable = r.retryable
    BY DEF Processor
  <2>4. QED BY <2>2, <2>3 DEF Counts
<1>5. Counts(r) \in Nat
  BY Constants DEF Counts, Processor
<1>6. Passed(q) = n - 1 /\ Passed(q) >= r.file /\ Counts(q) <= Passed(q)
  BY <1>1, <1>2, <1>3, <1>4, <1>5 DEF Passed, PastFile
<1> HIDE DEF q
<1>7. ImportLocal(q, imported)
  BY <1>1, <1>2, <1>4, <1>6 DEF ImportLocal, ImportPc, Listing
<1>8. QED BY <1>1, <1>4, <1>6, <1>7 DEF q, n

LEMMA ImportSteps ==
  ASSUME TypeOK, NEW w \in Workers, ImportLocal(worker[w], assets), Import(w)
  PROVE  /\ \E r \in Processor : Lawful(w, r, ImportLocal(r, assets'))
         /\ assets' \subseteq Files /\ assets \subseteq assets'
<1> DEFINE r == worker[w]
           Good(q) == q \in Processor /\ ImportLocal(q, assets') /\ (q.pc = "idle" => q = IdleWorker)
           Goal == (\E q : Good(q) /\ Becomes(w, q)) /\ assets' \subseteq Files /\ assets \subseteq assets'
<1>1. r \in Processor /\ ImportLocal(r, assets) /\ assets \subseteq Files
  BY ProcessorsTyped DEF TypeOK
<1>2. Good(IdleWorker)
  BY ProcessorsTyped, IdleLocal
<1> DEFINE May(pc) == /\ pc \in ImportPc \ {"idle"}
                      /\ \/ pc \notin AtFile \union PastFile /\ (pc \in Listing => r.pc \in Listing)
                         \/ r.pc \in AtFile /\ pc \in AtFile
                         \/ r.pc \in PastFile /\ pc \in PastFile /\ (pc = "finish" => Later(r.file) = {})
<1>3. ASSUME NEW pc, May(pc), assets \subseteq assets'
      PROVE  /\ Good([r EXCEPT !.pc = pc])
             /\ \A next \in {"idle", "fail", "reject"} : Good([r EXCEPT !.pc = pc, !.next = next])
  BY <1>1, <1>3, ImportGoes
<1>4. /\ May("fail") /\ (r.pc \in AtFile => May("check") /\ May("upload") /\ May("stat") /\ May("uploaded") /\ May("persist")
                                           /\ May("beat") /\ May("item"))
      /\ r.pc \in Listing => May("scan") /\ May("scanned") /\ May("list")
      /\ r.pc \in PastFile => May("flushed") /\ (Later(r.file) = {} => May("finish"))
  BY DEF ImportPc, Listing, AtFile, PastFile
<1>5. SUFFICES Goal
  BY DEF Lawful
<1> HIDE DEF Good, May
<1>6. assets' = assets => assets' \subseteq Files /\ assets \subseteq assets'
  BY <1>1
<1>7. ASSUME Boundary(w, "enter", "scan") \/ Boundary(w, "scanned", "list") \/ Boundary(w, "batch", "beat")
      PROVE  Goal
  BY <1>7, <1>2, <1>3, <1>4, <1>6, BoundaryMoves DEF storeVars, Listing, AtFile
<1>8. ASSUME \/ Guarded(w, "scan", "scanned", "fail") \/ Guarded(w, "beat", "item", "fail")
             \/ Guarded(w, "flush", "flushed", "fail")
      PROVE  Goal
  BY <1>8, <1>3, <1>4, <1>6, GuardedMoves DEF storeVars, Listing, AtFile, PastFile
<1>9. ASSUME (\E pcs : Raise(w, pcs, "fail")) \/ Raise(w, {"uploaded", "persist"}, "check")
      PROVE  Goal
  <2>1. assets' = assets
    BY <1>9 DEF Raise, storeVars
  <2>2. CASE \E pcs : Raise(w, pcs, "fail")
    <3>1. Becomes(w, [r EXCEPT !.pc = "fail", !.next = "fail"])
      BY <2>2, RaiseMoves
    <3>2. QED BY <1>3, <1>4, <1>6, <2>1, <3>1
  <2>3. CASE Raise(w, {"uploaded", "persist"}, "check")
    <3>1. r.pc \in AtFile /\ Becomes(w, [r EXCEPT !.pc = "check", !.next = "fail"])
      BY <2>3, RaiseMoves DEF AtFile
    <3>2. QED BY <1>3, <1>4, <1>6, <2>1, <3>1
  <2>4. QED BY <1>9, <2>2, <2>3
<1>10. ASSUME List(w) PROVE Goal
  <2>1. CASE LimitExceeded
    <3>1. Becomes(w, [r EXCEPT !.pc = "fail"])
      BY <1>10, <2>1 DEF List, Becomes, TypeOK
    <3>2. QED BY <1>10, <3>1, <1>3, <1>4, <1>6 DEF List, storeVars
  <2>2. CASE ~LimitExceeded
    <3>1. Becomes(w, [r EXCEPT !.pc = "batch", !.file = First(Candidates)])
      BY <1>10, <2>2 DEF List, Becomes, TypeOK
    <3>2. Counts(r) = 0 /\ r.next \in {"idle", "fail", "reject"}
      BY <1>1, <1>10 DEF ImportLocal, Listing, List, At
    <3>3. Good([r EXCEPT !.pc = "batch", !.file = First(Candidates)])
      BY <1>1, <2>2, <3>2, TakesFirst DEF Good, LimitExceeded
    <3>4. QED BY <1>10, <3>1, <3>3, <1>6 DEF List, storeVars
  <2>3. QED BY <2>1, <2>2
<1>11. ASSUME r.pc \in AtFile, assets \subseteq assets', NEW rejected \in Nat, NEW retryable \in Nat,
              rejected + retryable <= 1, rejected + retryable = 0 => r.file \in assets',
              Counted(w, rejected, retryable)
       PROVE  \E q : Good(q) /\ Becomes(w, q)
  <2>1. Becomes(w, Passing(r, rejected, retryable))
    BY <1>11, CountedBecomes
  <2>2. ImportLocal(Passing(r, rejected, retryable), assets') /\ Passing(r, rejected, retryable) \in Processor
    BY <1>1, <1>11, PassingLocal
  <2>3. Passing(r, rejected, retryable).pc \in {"flush", "beat"}
    BY <1>1 DEF Passing, AfterItem, Processor
  <2>4. QED BY <2>1, <2>2, <2>3 DEF Good
<1>12. ASSUME Reconcile(w) PROVE Goal
  <2>1. r.pc = "item" /\ assets' = assets /\ r.pc \in AtFile
    BY <1>12 DEF Reconcile, At, storeVars, AtFile
  <2>2. CASE SeesRequest(w)
    BY <1>12, <2>1, <2>2, <1>2, <1>6, LeaveBecomes DEF Reconcile
  <2>3. CASE ~SeesRequest(w) /\ r.file \in assets
    <3>1. Counted(w, 0, 0)
      BY <1>12, <2>3 DEF Reconcile, Reused
    <3>2. QED BY <2>1, <2>3, <3>1, <1>6, <1>11
  <2>4. CASE ~SeesRequest(w) /\ r.file \notin assets
    <3>1. Goto(w, "upload")
      BY <1>12, <2>4 DEF Reconcile
    <3>2. QED BY <2>1, <3>1, <1>3, <1>4, <1>6, GotoBecomes
  <2>5. QED BY <2>2, <2>3, <2>4
<1>13. ASSUME Upload(w) \/ Stat(w) \/ StatRaises(w) PROVE Goal
  <2>1. r.pc \in AtFile /\ assets' = assets
    BY <1>13 DEF Upload, Stat, StatRaises, At, AtFile, storeVars
  <2>2. \E pc \in {"stat", "uploaded", "fail"} : Goto(w, pc)
    BY <1>13 DEF Upload, Stat, StatRaises
  <2>3. QED BY <2>1, <2>2, <1>3, <1>4, <1>6, GotoBecomes
<1>14. ASSUME DownloadFails(w) PROVE Goal
  <2>1. r.pc \in AtFile /\ assets' = assets /\ Counted(w, 0, 1)
    BY <1>14 DEF DownloadFails, At, AtFile, storeVars
  <2>2. QED BY <2>1, <1>6, <1>11
<1>15. ASSUME Uploaded(w) PROVE Goal
  <2>1. r.pc \in AtFile /\ assets' = assets
    BY <1>15 DEF Uploaded, At, AtFile, storeVars
  <2>2. CleanThen(w, "idle") \/ Goto(w, "persist")
    BY <1>15 DEF Uploaded
  <2>3. QED BY <2>1, <2>2, <1>3, <1>4, <1>6, GotoBecomes, CleanThenBecomes
<1>16. ASSUME Persist(w) PROVE Goal
  <2>1. r.pc \in AtFile
    BY <1>16 DEF Persist, At, AtFile
  <2>2. r.file \in Files
    BY <1>1, <2>1, CandidateNumbers DEF ImportLocal
  <2>3. CASE tree[r.file] = "fit"
    <3>1. assets' = assets \union {r.file} /\ Counted(w, 0, 0)
      BY <1>16, <2>3 DEF Persist
    <3>2. QED BY <1>1, <2>1, <2>2, <3>1, <1>11
  <2>4. CASE tree[r.file] # "fit"
    <3>1. assets' = assets /\ CleanThen(w, "reject")
      BY <1>16, <2>4 DEF Persist
    <3>2. QED BY <2>1, <3>1, <1>3, <1>4, <1>6, CleanThenBecomes
  <2>5. QED BY <2>3, <2>4
<1>17. ASSUME PersistRaises(w) PROVE Goal
  <2>1. r.pc \in AtFile /\ assets' = assets \union {r.file} /\ CleanThen(w, "fail")
    BY <1>17 DEF PersistRaises, At, AtFile
  <2>2. r.file \in Files
    BY <1>1, <2>1, CandidateNumbers DEF ImportLocal
  <2>3. assets' \subseteq Files /\ assets \subseteq assets'
    BY <1>1, <2>1, <2>2
  <2>4. QED BY <2>1, <2>3, <1>3, <1>4, CleanThenBecomes
<1>18. ASSUME BatchEnds(w) PROVE Goal
  <2>1. r.pc = "flushed" /\ assets' = assets
    BY <1>18 DEF BatchEnds, At, storeVars
  <2>2. CASE SeesRequest(w)
    BY <1>18, <2>1, <2>2, <1>2, <1>6, LeaveBecomes DEF BatchEnds
  <2>3. CASE ~SeesRequest(w) /\ Later(r.file) = {}
    <3>1. Becomes(w, [r EXCEPT !.pc = "finish"])
      BY <1>18, <2>3 DEF BatchEnds, Becomes, TypeOK
    <3>2. May("finish")
      BY <2>1, <2>3, <1>4 DEF PastFile
    <3>3. QED BY <2>1, <3>1, <3>2, <1>3, <1>6
  <2>4. CASE ~SeesRequest(w) /\ Later(r.file) # {}
    <3>1. Becomes(w, [r EXCEPT !.pc = "beat", !.file = First(Later(r.file))])
      BY <1>18, <2>4 DEF BatchEnds, Becomes, TypeOK
    <3>2. Good([r EXCEPT !.pc = "beat", !.file = First(Later(r.file))])
      BY <1>1, <2>1, <2>4, TakesNext DEF Good
    <3>3. QED BY <2>1, <3>1, <3>2, <1>6
  <2>5. QED BY <2>2, <2>3, <2>4
<1>19. ASSUME Finish(w) PROVE Goal
  BY <1>19, <1>2, <1>6, LeaveBecomes DEF Finish, storeVars
<1>20. QED
  BY <1>7, <1>8, <1>9, <1>10, <1>12, <1>13, <1>14, <1>15, <1>16, <1>17, <1>18, <1>19, Import(w)
     DEF Import

(* Looking after one's object, and failing, are the same for both.          *)
LEMMA CleaningSteps ==
  ASSUME TypeOK, NEW w \in Workers,
         Check(w) \/ Remove(w) \/ CheckRaises(w) \/ RemoveFails(w) \/ Fail(w)
  PROVE  /\ ExportLocal(worker[w]) => \E r \in Processor : Lawful(w, r, ExportLocal(r))
         /\ ImportLocal(worker[w], assets) => \E r \in Processor : Lawful(w, r, ImportLocal(r, assets))
<1> DEFINE r == worker[w]
<1>1. r \in Processor
  BY ProcessorsTyped
<1>2. \/ Becomes(w, IdleWorker)
      \/ r.pc \in {"check", "remove"} /\ Resume(w)
      \/ r.pc = "check" /\ Becomes(w, [r EXCEPT !.pc = "remove"])
      \/ Becomes(w, [r EXCEPT !.pc = "fail"])
      \/ r.pc = "check" /\ Becomes(w, [r EXCEPT !.next = "fail"])
  <2>1. CASE CheckRaises(w)
    BY <2>1, GotoBecomes DEF CheckRaises, At, TypeOK, Becomes
  <2>2. CASE Check(w) \/ Remove(w) \/ RemoveFails(w) \/ Fail(w)
    BY <2>2, LeaveBecomes, GotoBecomes DEF Check, Remove, RemoveFails, Fail, At
  <2>3. QED BY <2>1, <2>2
<1>3. \/ Becomes(w, IdleWorker)
      \/ r.pc \in {"check", "remove"} /\ r.next = "reject" /\ Becomes(w, Passing(r, 1, 0))
      \/ /\ r.pc \in {"check", "remove"} /\ r.next \notin {"idle", "reject"}
         /\ Becomes(w, [r EXCEPT !.pc = r.next])
      \/ r.pc = "check" /\ Becomes(w, [r EXCEPT !.pc = "remove"])
      \/ Becomes(w, [r EXCEPT !.pc = "fail"])
      \/ r.pc = "check" /\ Becomes(w, [r EXCEPT !.next = "fail"])
  BY <1>2, ResumeMoves
<1>4. ASSUME ExportLocal(r) PROVE \E q \in Processor : Lawful(w, q, ExportLocal(q))
  <2>1. r.next \in {"idle", "fail", "cancel"}
    BY <1>4 DEF ExportLocal
  <2>2. ASSUME NEW pc \in {"fail", "cancel", "remove"}
        PROVE  LET q == [r EXCEPT !.pc = pc] IN q \in Processor /\ ExportLocal(q) /\ q.pc # "idle"
    BY <1>1, <1>4, ExportGoes DEF ExportPc
  <2>3. \/ Becomes(w, IdleWorker)
        \/ \E pc \in {"fail", "cancel", "remove"} : Becomes(w, [r EXCEPT !.pc = pc])
        \/ r.pc = "check" /\ Becomes(w, [r EXCEPT !.next = "fail"])
    BY <1>3, <2>1
  <2>4. r.pc = "check" =>
          LET q == [r EXCEPT !.next = "fail"] IN q \in Processor /\ ExportLocal(q) /\ q.pc # "idle"
    BY <1>1, <1>4 DEF Processor, ExportLocal, Counts, Pc
  <2>5. QED BY <2>2, <2>3, <2>4, IdleLocal, ProcessorsTyped DEF Lawful
<1>5. ASSUME ImportLocal(r, assets) PROVE \E q \in Processor : Lawful(w, q, ImportLocal(q, assets))
  <2>1. r.next \in {"idle", "fail", "reject"}
    BY <1>5 DEF ImportLocal
  <2>2. LET q == [r EXCEPT !.pc = "fail"] IN q \in Processor /\ ImportLocal(q, assets) /\ q.pc # "idle"
    BY <1>1, <1>5, ImportGoes DEF ImportPc, AtFile, PastFile, Listing
  <2>3. r.pc = "check" =>
          LET q == [r EXCEPT !.pc = "remove"] IN q \in Processor /\ ImportLocal(q, assets) /\ q.pc # "idle"
    BY <1>1, <1>5, ImportGoes DEF ImportPc, AtFile
  <2>4. r.pc \in {"check", "remove"} =>
          LET q == Passing(r, 1, 0) IN q \in Processor /\ ImportLocal(q, assets) /\ q.pc # "idle"
    <3>1. SUFFICES ASSUME r.pc \in {"check", "remove"}
                   PROVE  LET q == Passing(r, 1, 0) IN q \in Processor /\ ImportLocal(q, assets) /\ q.pc # "idle"
      OBVIOUS
    <3>2. r.pc \in AtFile /\ 1 \in Nat /\ 0 \in Nat /\ 1 + 0 <= 1 /\ 1 + 0 # 0
      BY <3>1 DEF AtFile
    <3>3. Passing(r, 1, 0) \in Processor /\ ImportLocal(Passing(r, 1, 0), assets)
      BY <1>1, <1>5, <3>2, PassingLocal
    <3>4. Passing(r, 1, 0).pc # "idle"
      BY <1>1 DEF Passing, AfterItem, Processor
    <3>5. QED BY <3>3, <3>4
  <2>5. \/ Becomes(w, IdleWorker)
        \/ Becomes(w, [r EXCEPT !.pc = "fail"])
        \/ r.pc \in {"check", "remove"} /\ Becomes(w, Passing(r, 1, 0))
        \/ r.pc = "check" /\ Becomes(w, [r EXCEPT !.pc = "remove"])
        \/ r.pc = "check" /\ Becomes(w, [r EXCEPT !.next = "fail"])
    BY <1>3, <2>1
  <2>6. r.pc = "check" =>
          LET q == [r EXCEPT !.next = "fail"] IN q \in Processor /\ ImportLocal(q, assets) /\ q.pc # "idle"
    BY <1>1, <1>5 DEF Processor, ImportLocal, Counts, Passed, Pc
  <2>7. QED BY <2>2, <2>3, <2>4, <2>5, <2>6, IdleLocal, ProcessorsTyped DEF Lawful
<1>6. QED BY <1>4, <1>5

-----------------------------------------------------------------------------
(* Types, and what a processor knows of itself, are kept by every step.     *)

LEMMA SameCandidates ==
  ASSUME tree' = tree, manifest' = manifest
  PROVE  Candidates' = Candidates /\ Listed' = Listed /\ Skipped' = Skipped
BY DEF Candidates, Listed, Skipped, Cut, Detected, Before, Files

LEMMA ImportLocalGrows ==
  ASSUME NEW r, NEW before, NEW imported, before \subseteq imported, ImportLocal(r, before)
  PROVE  ImportLocal(r, imported)
BY DEF ImportLocal

LEMMA LocalsKept ==
  ASSUME TypeOK, Locals, NEW w \in Workers, NEW r \in Processor, Becomes(w, r),
         UNCHANGED <<kind, tree, manifest>>, assets \subseteq assets',
         r.pc = "idle" => r = IdleWorker,
         kind = "export" => ExportLocal(r),
         kind = "import" => ImportLocal(r, assets')
  PROVE  worker' \in [Workers -> Processor] /\ Locals'
<1>1. worker'[w] = r /\ worker' \in [Workers -> Processor]
  BY BecomesOne
<1>2. ASSUME NEW v \in Workers
      PROVE  /\ worker'[v].pc = "idle" => worker'[v] = IdleWorker
             /\ kind = "export" => ExportLocal(worker'[v])
             /\ kind = "import" => ImportLocal(worker'[v], assets')
  <2>1. CASE v = w
    BY <2>1, <1>1
  <2>2. CASE v # w
    <3>1. worker'[v] = worker[v]
      BY <2>2, BecomesOne
    <3>2. QED BY <3>1, ImportLocalGrows DEF Locals, At
  <2>3. QED BY <2>1, <2>2
<1>3. ASSUME NEW v \in Workers, kind = "import" PROVE ImportLocal(worker[v], assets)'
  BY <1>2, <1>3, SameCandidates DEF ImportLocal, Later, Passed, Counts
<1>4. ASSUME NEW v \in Workers, kind = "export" PROVE ExportLocal(worker[v])'
  BY <1>2, <1>4 DEF ExportLocal, Counts
<1>5. QED
  BY <1>1, <1>2, <1>3, <1>4 DEF Locals, At

LEMMA LocalsStay ==
  ASSUME Locals, UNCHANGED <<kind, tree, manifest, assets, worker>>
  PROVE  Locals'
<1>1. ASSUME NEW v \in Workers, kind = "import" PROVE ImportLocal(worker[v], assets)'
  BY <1>1, SameCandidates DEF Locals, ImportLocal, Later, Passed, Counts
<1>2. ASSUME NEW v \in Workers, kind = "export" PROVE ExportLocal(worker[v])'
  BY <1>2 DEF Locals, ExportLocal, Counts
<1>3. QED BY <1>1, <1>2 DEF Locals, At

(* What a processor does to the rest of the state, case by case.            *)

(* The Job is left alone, or ended by the holder of its lease.              *)
EndsJob(w) ==
  \E outcome \in Terminal :
    /\ job' = Finished(job, outcome) /\ CurrentLease(job, Token(w)) /\ job.status \in Active
    /\ outcome = "COMPLETED" => \/ At(w, "complete") /\ result' = worker[w].body
                                \/ At(w, "finish") /\ ~Incomplete(w)

LEMMA AcknowledgedMoves ==
  ASSUME NEW w \in Workers, Acknowledged(w)
  PROVE  job' = job \/ EndsJob(w)
BY DEF Acknowledged, CanAckCancel, EndsJob, Terminal, Active

LEMMA FailedMoves ==
  ASSUME NEW w \in Workers, job' = Failed(w)
  PROVE  job' = job \/ EndsJob(w)
BY DEF Failed, CanWrite, EndsJob, Terminal, Active

LEMMA WorkMovesJob ==
  ASSUME TypeOK, NEW w \in Workers, Works(w)
  PROVE  /\ job' = job \/ EndsJob(w)
         /\ claims' = claims /\ UNCHANGED <<sourceVars, sweepVars>>
         /\ UNCHANGED <<crashes, stalls, ages>> /\ (errors' = errors \/ Error)
<1> DEFINE Goal == /\ job' = job \/ EndsJob(w)
                   /\ claims' = claims /\ UNCHANGED <<sourceVars, sweepVars>>
                   /\ UNCHANGED <<crashes, stalls, ages>> /\ (errors' = errors \/ Error)
<1>1. ASSUME NEW pc, NEW next, Boundary(w, pc, next) PROVE Goal
  BY <1>1, BoundaryMoves, AcknowledgedMoves DEF bounds
<1>2. ASSUME NEW pc, NEW next, NEW refused, Guarded(w, pc, next, refused) PROVE Goal
  BY <1>2, GuardedMoves DEF bounds, jobVars
<1>3. ASSUME NEW pcs, NEW next, Raise(w, pcs, next) PROVE Goal
  BY <1>3, RaiseMoves DEF Error, jobVars
<1>4. ASSUME Build(w) \/ Write(w) \/ Written(w) \/ CancelCleaned(w) \/ CompleteExport(w) \/ CompletionRaises(w)
      PROVE  Goal
  <2>1. CASE Build(w) \/ Write(w) \/ Written(w)
    BY <2>1 DEF Build, Write, Written, jobVars, bounds
  <2>2. CASE CancelCleaned(w)
    BY <2>2, AcknowledgedMoves DEF CancelCleaned, bounds
  <2>3. ASSUME At(w, "complete"), CanWrite(job, Token(w)),
               job' = Finished(job, "COMPLETED"), result' = worker[w].body
        PROVE  EndsJob(w)
    <3>1. CurrentLease(job, Token(w)) /\ job.status \in Active
      BY <2>3 DEF CanWrite, Active
    <3>2. "COMPLETED" \in Terminal
      BY DEF Terminal
    <3>3. QED BY <2>3, <3>1, <3>2 DEF EndsJob
  <2>4. CASE CompleteExport(w)
    <3>1. job' = job \/ EndsJob(w)
      BY <2>3, <2>4 DEF CompleteExport
    <3>2. QED BY <2>4, <3>1 DEF CompleteExport, bounds
  <2>5. CASE CompletionRaises(w)
    <3>1. EndsJob(w)
      BY <2>3, <2>5 DEF CompletionRaises
    <3>2. QED BY <2>5, <3>1 DEF CompletionRaises, Error
  <2>6. QED BY <1>4, <2>1, <2>2, <2>4, <2>5
<1>5. ASSUME \/ List(w) \/ Upload(w) \/ DownloadFails(w) \/ Stat(w) \/ StatRaises(w)
             \/ Persist(w) \/ PersistRaises(w)
      PROVE  Goal
  BY <1>5 DEF List, Upload, DownloadFails, Stat, StatRaises, Persist, PersistRaises, jobVars, bounds, Error
<1>6. ASSUME Reconcile(w) \/ Uploaded(w) \/ BatchEnds(w) \/ Finish(w)
      PROVE  Goal
  <2>1. CASE Finish(w)
    BY <2>1 DEF Finish, EndsJob, CanWrite, Terminal, Active, bounds
  <2>2. CASE Reconcile(w) \/ Uploaded(w) \/ BatchEnds(w)
    BY <2>2, AcknowledgedMoves DEF Reconcile, Uploaded, BatchEnds, bounds
  <2>3. QED BY <1>6, <2>1, <2>2
<1>7. ASSUME Check(w) \/ Remove(w) \/ CheckRaises(w) \/ RemoveFails(w) \/ Fail(w) PROVE Goal
  BY <1>7, FailedMoves DEF Check, Remove, CheckRaises, RemoveFails, Fail, bounds, jobVars, Error
<1> HIDE DEF Goal
<1>8. ASSUME Export(w) PROVE Goal
  BY <1>8, <1>1, <1>2, <1>3, <1>4 DEF Export
<1>9. ASSUME Import(w) PROVE Goal
  BY <1>9, <1>1, <1>2, <1>3, <1>5, <1>6 DEF Import
<1>10. Goal
  BY <1>7, <1>8, <1>9 DEF Works
<1>11. QED BY <1>10 DEF Goal

(* Objects, Assets and the result change in these steps only.               *)
LEMMA WorkMovesStore ==
  ASSUME TypeOK, NEW w \in Workers, Works(w)
  PROVE  /\ objects' = objects \/ (kind = "export" /\ Write(w)) \/ (kind = "import" /\ Upload(w)) \/ Remove(w)
         /\ \/ strays' = strays
            \/ (kind = "export" /\ Write(w)) \/ (kind = "import" /\ Upload(w)) \/ Remove(w)
            \/ objects' = objects /\ strays' = strays \union {Key(w)}
         /\ assets' = assets \/ (kind = "import" /\ (Persist(w) \/ PersistRaises(w)))
         /\ \/ result' = result
            \/ /\ kind = "export" /\ (CompleteExport(w) \/ CompletionRaises(w))
               /\ At(w, "complete") /\ CanWrite(job, Token(w))
               /\ job' = Finished(job, "COMPLETED") /\ result' = worker[w].body
<1> DEFINE Same == UNCHANGED <<objects, assets, strays, result>>
<1>1. ASSUME NEW pc, NEW next, Boundary(w, pc, next) PROVE Same
  BY <1>1 DEF Boundary, storeVars
<1>2. ASSUME NEW pc, NEW next, NEW refused, Guarded(w, pc, next, refused) PROVE Same
  BY <1>2 DEF Guarded, storeVars, jobVars
<1>3. ASSUME NEW pc, NEW next, Raise(w, pc, next) PROVE Same
  BY <1>3 DEF Raise, storeVars, jobVars
<1>4. ASSUME Build(w) \/ Written(w) \/ CancelCleaned(w) PROVE Same
  BY <1>4 DEF Build, Written, CancelCleaned, storeVars, jobVars
<1>5. ASSUME \/ List(w) \/ DownloadFails(w) \/ Stat(w) \/ Reconcile(w) \/ Uploaded(w) \/ BatchEnds(w)
             \/ Finish(w) \/ Check(w) \/ Fail(w)
      PROVE  Same
  BY <1>5 DEF List, DownloadFails, Stat, Reconcile, Uploaded, BatchEnds, Finish, Check, Fail, storeVars, jobVars
<1>6. ASSUME Write(w) \/ Upload(w) \/ Remove(w) PROVE assets' = assets /\ result' = result
  BY <1>6 DEF Write, Upload, Remove, jobVars
<1>7. ASSUME Persist(w) \/ PersistRaises(w) PROVE UNCHANGED <<objects, strays, result>>
  BY <1>7 DEF Persist, PersistRaises, jobVars
<1>8. ASSUME CompleteExport(w) \/ CompletionRaises(w)
      PROVE  /\ UNCHANGED <<objects, assets, strays>>
             /\ \/ result' = result
                \/ /\ At(w, "complete") /\ CanWrite(job, Token(w))
                   /\ job' = Finished(job, "COMPLETED") /\ result' = worker[w].body
  BY <1>8 DEF CompleteExport, CompletionRaises, storeVars
<1> HIDE DEF Same
<1>9. CASE kind = "export" /\ Export(w)
  <2>1. Same \/ Write(w) \/ CompleteExport(w) \/ CompletionRaises(w)
    BY <1>9, <1>1, <1>2, <1>3, <1>4 DEF Export
  <2>2. QED BY <1>9, <2>1, <1>6, <1>8 DEF Same
<1>10. CASE kind = "import" /\ Import(w)
  <2>1. Same \/ Upload(w) \/ StatRaises(w) \/ Persist(w) \/ PersistRaises(w)
    BY <1>10, <1>1, <1>2, <1>3, <1>5 DEF Import
  <2>2. StatRaises(w) => UNCHANGED <<objects, assets, result>> /\ strays' = strays \union {Key(w)}
    BY DEF StatRaises, jobVars
  <2>3. QED BY <1>10, <2>1, <2>2, <1>6, <1>7 DEF Same
<1>11. CASE Check(w) \/ Remove(w) \/ CheckRaises(w) \/ RemoveFails(w) \/ Fail(w)
  <2>1. CASE CheckRaises(w) \/ RemoveFails(w)
    BY <2>1 DEF CheckRaises, RemoveFails, Stray, storeVars, jobVars
  <2>2. QED BY <1>11, <2>1, <1>5, <1>6 DEF Same
<1>12. QED BY <1>9, <1>10, <1>11 DEF Works

LEMMA WorkSteps ==
  ASSUME TypeOK, Locals, NEW w \in Workers, Works(w)
  PROVE  /\ worker' \in [Workers -> Processor] /\ Locals'
         /\ assets \subseteq assets' /\ assets' \subseteq Files
<1>1. UNCHANGED <<kind, tree, manifest>>
  BY WorkMovesJob DEF sourceVars
<1>2. /\ kind = "export" => ExportLocal(worker[w])
      /\ kind = "import" => ImportLocal(worker[w], assets)
      /\ kind \in {"export", "import"} /\ assets \subseteq Files
  BY DEF Locals, TypeOK
<1>3. CASE kind = "export" /\ Export(w)
  <2>1. PICK r \in Processor : Lawful(w, r, ExportLocal(r))
    BY <1>2, <1>3, ExportSteps
  <2>2. assets' = assets
    BY <1>3, WorkMovesStore
  <2>3. QED BY <1>1, <1>2, <1>3, <2>1, <2>2, LocalsKept DEF Lawful
<1>4. CASE kind = "import" /\ Import(w)
  <2>1. /\ \E r \in Processor : Lawful(w, r, ImportLocal(r, assets'))
        /\ assets' \subseteq Files /\ assets \subseteq assets'
    BY <1>2, <1>4, ImportSteps
  <2>2. PICK r \in Processor : Lawful(w, r, ImportLocal(r, assets'))
    BY <2>1
  <2>3. QED BY <1>1, <1>4, <2>1, <2>2, LocalsKept DEF Lawful
<1>5. CASE Check(w) \/ Remove(w) \/ CheckRaises(w) \/ RemoveFails(w) \/ Fail(w)
  <2>1. assets' = assets
    BY <1>5 DEF Check, Remove, CheckRaises, RemoveFails, Stray, Fail, storeVars
  <2>2. CASE kind = "export"
    <3>1. PICK r \in Processor : Lawful(w, r, ExportLocal(r))
      BY <1>2, <1>5, <2>2, CleaningSteps
    <3>2. QED BY <1>1, <1>2, <2>1, <2>2, <3>1, LocalsKept DEF Lawful
  <2>3. CASE kind = "import"
    <3>1. PICK r \in Processor : Lawful(w, r, ImportLocal(r, assets))
      BY <1>2, <1>5, <2>3, CleaningSteps
    <3>2. QED BY <1>1, <1>2, <2>1, <2>3, <3>1, LocalsKept DEF Lawful
  <2>4. QED BY <1>2, <2>2, <2>3
<1>6. QED BY <1>3, <1>4, <1>5 DEF Works

TypesBut == \* of all variables but worker
  /\ kind \in {"export", "import"} /\ tree \in [Files -> Classes] /\ data \in 1 .. MaxEdits + 1
  /\ job \in Row /\ result \in Bodies /\ claims \in 0 .. MaxClaims
  /\ objects \in [Keys -> [body: Bodies, old: BOOLEAN]]
  /\ assets \subseteq Files /\ sweep \subseteq Keys
  /\ strays \subseteq Keys /\ overtaken \in BOOLEAN /\ manifest \in [items: Nat, bytes: Nat]
  /\ crashes \in 0 .. MaxCrashes /\ errors \in 0 .. MaxErrors
  /\ stalls \in 0 .. MaxStalls /\ ages \in 0 .. MaxAges

LEMMA TypesSplit == TypeOK <=> TypesBut /\ worker \in [Workers -> Processor]
BY DEF TypeOK, TypesBut, Processor, Bodies

LEMMA ObjectsTyped ==
  /\ NoObject \in [body: Bodies, old: BOOLEAN]
  /\ \A b \in Bodies : Fresh(b) \in [body: Bodies, old: BOOLEAN]
  /\ NoBody \in Bodies /\ 1 \in Bodies /\ (1 .. MaxEdits + 1) \subseteq Bodies
BY Constants DEF NoObject, Fresh, Bodies, NoBody

LEMMA WorkTypes ==
  ASSUME TypeOK, Locals, NEW w \in Workers, Works(w)
  PROVE  TypeOK'
<1>1. worker' \in [Workers -> Processor] /\ assets' \subseteq Files
  BY WorkSteps
<1>2. TypesBut
  BY TypesSplit
<1>3. job' \in Row
  BY <1>2, WorkMovesJob, FinishedTyped DEF EndsJob, TypesBut
<1>4. worker[w] \in Processor
  BY ProcessorsTyped
<1>5. result' \in Bodies
  BY <1>2, <1>4, WorkMovesStore DEF TypesBut, Processor
<1>6. objects' \in [Keys -> [body: Bodies, old: BOOLEAN]]
  <2>1. objects \in [Keys -> [body: Bodies, old: BOOLEAN]]
    BY <1>2 DEF TypesBut
  <2>2. CASE Write(w)
    BY <1>4, <2>1, <2>2, ObjectsTyped DEF Write, Processor
  <2>3. CASE Upload(w)
    BY <2>1, <2>3, ObjectsTyped DEF Upload
  <2>4. CASE Remove(w)
    BY <2>1, <2>4, ObjectsTyped DEF Remove, Removed
  <2>5. QED BY <2>1, <2>2, <2>3, <2>4, WorkMovesStore
<1>7. errors' \in 0 .. MaxErrors
  BY <1>2, WorkMovesJob, Constants DEF Error, TypesBut
<1>8. strays' \subseteq Keys
  <2>1. strays \subseteq Keys /\ Key(w) \in Keys
    BY <1>2, <1>4, Constants DEF TypesBut, Processor, Key, Keys, Files, Artifact
  <2>2. CASE Write(w) \/ Upload(w) \/ Remove(w)
    BY <2>1, <2>2 DEF Write, Upload, Remove, Removed
  <2>3. QED BY <2>1, <2>2, WorkMovesStore
<1>9. TypesBut'
  BY <1>1, <1>2, <1>3, <1>5, <1>6, <1>7, <1>8, WorkMovesJob DEF TypesBut, sourceVars, sweepVars, Bodies
<1>10. QED BY <1>1, <1>9, TypesSplit DEF TypeOK, TypesBut, Processor, Bodies

LEMMA ClaimTypes ==
  ASSUME TypeOK, Locals, NEW w \in Workers, Claim(w)
  PROVE  TypeOK' /\ Locals'
<1> DEFINE r == [IdleWorker EXCEPT !.pc = "enter", !.token = claims + 1]
<1>1. claims \in 0 .. MaxClaims /\ claims + 1 \in 0 .. MaxClaims /\ claims + 1 \in Nat
  BY Constants DEF TypeOK, Claim
<1>2. r \in Processor
  <2>1. IdleWorker \in Processor /\ "enter" \in Pc
    BY ProcessorsTyped DEF Pc
  <2>2. QED BY <1>1, <2>1 DEF Processor
<1>3. ExportLocal(r) /\ ImportLocal(r, assets) /\ r.pc # "idle"
  BY DEF IdleWorker, ExportLocal, ImportLocal, ExportPc, ImportPc, AtFile, PastFile, Counts, Artifact
<1>4. Becomes(w, r)
  BY DEF Claim, Becomes
<1>5. worker' \in [Workers -> Processor] /\ Locals'
  BY <1>2, <1>3, <1>4, LocalsKept DEF Claim, sourceVars, storeVars
<1>6. job' \in Row
  BY <1>1, ClaimedTyped DEF Claim, TypeOK
<1>7. TypesBut'
  BY <1>1, <1>6, TypesSplit DEF TypesBut, Claim, sourceVars, storeVars, bounds, Bodies
<1>8. QED BY <1>5, <1>7 DEF TypeOK, TypesBut, Processor, Bodies

LEMMA CrashTypes ==
  ASSUME TypeOK, Locals, NEW w \in Workers, Crash(w)
  PROVE  TypeOK' /\ Locals'
<1>1. Becomes(w, IdleWorker)
  BY LeaveBecomes DEF Crash
<1>2. worker' \in [Workers -> Processor] /\ Locals'
  BY <1>1, ProcessorsTyped, IdleLocal, LocalsKept DEF Crash, sourceVars, storeVars
<1>3. job' \in Row
  BY DEF Crash, TypeOK, Row
<1>4. crashes' \in 0 .. MaxCrashes
  BY Constants DEF Crash, TypeOK
<1>5. TypesBut'
  BY <1>3, <1>4, TypesSplit DEF TypesBut, Crash, sourceVars, storeVars, sweepVars, Bodies
<1>6. QED BY <1>2, <1>5 DEF TypeOK, TypesBut, Processor, Bodies

(* Steps that leave the processors alone.                                   *)
Around ==
  Stall \/ Recover \/ Cancel \/ Retry \/ Edit \/ Age \/ (\E k \in Keys : SweepFinds(k) \/ SweepRemoves(k))

LEMMA AroundTypes ==
  ASSUME TypeOK, Locals, Around
  PROVE  TypeOK' /\ Locals'
<1>1. UNCHANGED <<kind, tree, manifest, assets, worker>>
  BY DEF Around, Stall, Recover, Cancel, Retry, Edit, Age, SweepFinds, SweepRemoves, sourceVars, storeVars
<1>2. Locals'
  BY <1>1, LocalsStay
<1>3. TypesBut
  BY TypesSplit
<1>4. CASE Stall
  <2>1. job' \in Row
    BY <1>3, <1>4, FieldsTyped DEF Stall, TypesBut
  <2>2. stalls' \in 0 .. MaxStalls
    BY <1>3, <1>4, Constants DEF Stall, TypesBut
  <2>3. QED BY <1>1, <1>2, <1>4, <2>1, <2>2 DEF TypeOK, Stall, sourceVars, storeVars, sweepVars
<1>5. CASE Recover
  <2>1. job.attempts \in 0 .. MaxAttempts + 1
    BY <1>3, FieldsTyped DEF TypesBut
  <2>2. CanRetryInPlace(job, "LEASE") => job.attempts + 1 \in 0 .. MaxAttempts + 1
    BY <2>1, Constants DEF CanRetryInPlace
  <2>3. job' \in Row
    BY <1>3, <1>5, <2>2, RetryingTyped, FinishedTyped DEF Recover, TypesBut, Terminal
  <2>4. QED BY <1>1, <1>2, <1>5, <2>3 DEF TypeOK, Recover, sourceVars, storeVars, sweepVars, bounds
<1>6. CASE Cancel \/ Retry
  <2>1. job' \in Row
    BY <1>3, <1>6, CancelRowTyped, RowsTyped DEF Cancel, Retry, TypesBut
  <2>2. QED BY <1>1, <1>2, <1>6, <2>1 DEF TypeOK, Cancel, Retry, sourceVars, storeVars, sweepVars, bounds
<1>7. CASE Edit
  <2>1. data' \in 1 .. MaxEdits + 1
    BY <1>3, <1>7, Constants DEF Edit, TypesBut
  <2>2. QED BY <1>1, <1>2, <1>7, <2>1 DEF TypeOK, Edit, jobVars, storeVars, sweepVars, bounds
<1>8. CASE Age
  <2>1. ASSUME NEW k \in Keys
        PROVE  [objects[k] EXCEPT !.old = @ \/ objects[k].body # NoBody] \in [body: Bodies, old: BOOLEAN]
    BY <1>3 DEF TypesBut
  <2>2. objects' \in [Keys -> [body: Bodies, old: BOOLEAN]]
    BY <1>8, <2>1 DEF Age
  <2>3. ages' \in 0 .. MaxAges
    BY <1>3, <1>8, Constants DEF Age, TypesBut
  <2>4. QED BY <1>1, <1>2, <1>8, <2>2, <2>3 DEF TypeOK, Age, jobVars, sourceVars, sweepVars, Bodies
<1>9. ASSUME NEW k \in Keys, SweepFinds(k) \/ SweepRemoves(k) PROVE TypeOK'
  <2>1. /\ objects' \in [Keys -> [body: Bodies, old: BOOLEAN]]
        /\ sweep' \subseteq Keys /\ strays' \subseteq Keys /\ overtaken' \in BOOLEAN
    BY <1>3, <1>9, ObjectsTyped DEF SweepFinds, SweepRemoves, Removed, TypesBut, storeVars
  <2>2. QED BY <1>1, <1>9, <2>1 DEF TypeOK, SweepFinds, SweepRemoves, jobVars, sourceVars, storeVars, bounds, Bodies
<1>10. QED
  BY <1>2, <1>4, <1>5, <1>6, <1>7, <1>8, <1>9 DEF Around

LEMMA StepTypes ==
  ASSUME TypeOK, Locals, [Next]_vars
  PROVE  TypeOK' /\ Locals'
<1>1. CASE UNCHANGED vars
  BY <1>1, LocalsStay DEF TypeOK, vars, sourceVars, jobVars, storeVars, sweepVars, bounds
<1>2. CASE Around
  BY <1>2, AroundTypes
<1>3. ASSUME NEW w \in Workers, Claim(w) \/ Works(w) \/ Crash(w) PROVE TypeOK' /\ Locals'
  BY <1>3, ClaimTypes, WorkTypes, WorkSteps, CrashTypes
<1>4. QED
  BY <1>1, <1>2, <1>3 DEF Next, Around

LEMMA InitTypes == Init => TypeOK /\ Locals
<1> SUFFICES ASSUME Init PROVE TypeOK /\ Locals
  OBVIOUS
<1>1. worker \in [Workers -> Processor] /\ \A w \in Workers : worker[w] = IdleWorker
  BY ProcessorsTyped DEF Init
<1>2. Locals
  BY <1>1, IdleLocal DEF Locals
<1>3. tree \in [Files -> Classes]
  BY DEF Init, Classes
<1>4. objects \in [Keys -> [body: Bodies, old: BOOLEAN]]
  BY ObjectsTyped DEF Init
<1>5. manifest \in [items: Nat, bytes: Nat]
  BY Constants DEF Init, NoManifest
<1>6. /\ kind \in {"export", "import"} /\ assets \subseteq Files /\ sweep \subseteq Keys
      /\ strays \subseteq Keys /\ overtaken \in BOOLEAN
  BY DEF Init
<1>7. /\ data \in 1 .. MaxEdits + 1 /\ job \in Row /\ result \in Bodies /\ claims \in 0 .. MaxClaims
      /\ crashes \in 0 .. MaxCrashes /\ errors \in 0 .. MaxErrors
      /\ stalls \in 0 .. MaxStalls /\ ages \in 0 .. MaxAges
  BY RowsTyped, Constants DEF Init, Bodies, NoBody
<1>8. TypesBut
  BY <1>3, <1>4, <1>5, <1>6, <1>7 DEF TypesBut
<1>9. QED BY <1>1, <1>2, <1>8, TypesSplit

(* The last file an import passes leaves no candidate behind.               *)
LEMMA FinishedImport ==
  ASSUME TypeOK, Locals, NEW w \in Workers, kind = "import", At(w, "finish"), ~Incomplete(w)
  PROVE  Candidates \subseteq assets /\ Skipped = 0
<1>1. worker[w] \in Processor /\ ImportLocal(worker[w], assets)
  BY ProcessorsTyped DEF Locals
<1>2. Skipped \in Nat
  <2>1. IsFiniteSet(Listed \ Candidates)
    BY FilesAreFinite DEF Listed
  <2>2. QED BY <2>1, FS_CardinalityType DEF Skipped
<1>3. worker[w].rejected \in Nat /\ worker[w].retryable \in Nat
  BY <1>1, Constants DEF Processor
<1>4. worker[w].rejected + worker[w].retryable = 0 /\ Skipped = 0
  BY <1>2, <1>3 DEF Incomplete
<1>5. /\ Later(worker[w].file) = {} /\ worker[w].file \in Candidates
      /\ \A g \in Candidates : g <= worker[w].file => g \in assets
  BY <1>1, <1>4 DEF ImportLocal, Counts, Passed, PastFile, At
<1>6. \A g \in Candidates : g <= worker[w].file
  BY <1>5, CandidateNumbers DEF Later
<1>7. QED BY <1>4, <1>5, <1>6

LEMMA CompletedBefore ==
  ASSUME TypeOK, \/ Around \/ (\E w \in Workers : Claim(w) \/ Crash(w)),
         job'.status = "COMPLETED"
  PROVE  job.status = "COMPLETED"
<1>1. job \in Row
  BY DEF TypeOK
<1>2. CASE Stall \/ Edit \/ Age \/ (\E k \in Keys : SweepFinds(k) \/ SweepRemoves(k))
  BY <1>1, <1>2 DEF Stall, Edit, Age, SweepFinds, SweepRemoves, jobVars, Row
<1>3. CASE Recover
  BY <1>1, <1>3 DEF Recover, BackToRetrying, Finished, Unlocked, Row
<1>4. CASE Cancel \/ Retry
  BY <1>1, <1>4 DEF Cancel, Retry, CancelRow, Finished, Unlocked, QueuedRow, AbsentRow, Row
<1>5. CASE \E w \in Workers : Claim(w) \/ Crash(w)
  BY <1>1, <1>5 DEF Claim, Crash, Claimed, Row
<1>6. QED BY <1>2, <1>3, <1>4, <1>5 DEF Around

LEMMA AroundKeeps ==
  ASSUME Around \/ (\E w \in Workers : Claim(w) \/ Crash(w))
  PROVE  UNCHANGED <<kind, tree, manifest, assets, result>>
BY DEF Around, Stall, Recover, Cancel, Retry, Edit, Age, SweepFinds, SweepRemoves, Claim, Crash,
       sourceVars, storeVars, jobVars

LEMMA OutcomesStep ==
  ASSUME TypeOK, Locals, Outcomes, [Next]_vars
  PROVE  Outcomes'
<1>1. CASE UNCHANGED vars
  BY <1>1, SameCandidates DEF Outcomes, vars, sourceVars, jobVars, storeVars
<1>2. CASE Around \/ (\E w \in Workers : Claim(w) \/ Crash(w))
  BY <1>2, AroundKeeps, CompletedBefore, SameCandidates DEF Outcomes
<1>3. ASSUME NEW w \in Workers, Works(w) PROVE Outcomes'
  <2>1. /\ UNCHANGED <<kind, tree, manifest>> /\ assets \subseteq assets'
        /\ kind \in {"export", "import"} /\ job \in Row
    BY <1>3, WorkMovesJob, WorkSteps DEF sourceVars, TypeOK
  <2>2. ASSUME assets' # assets
        PROVE  /\ kind = "import" /\ assets' = assets \union {worker[w].file}
               /\ worker[w].file \in Candidates /\ tree[worker[w].file] = "fit"
    <3>1. kind = "import" /\ (Persist(w) \/ PersistRaises(w))
      BY <1>3, <2>2, WorkMovesStore
    <3>2. worker[w].file \in Candidates
      BY <3>1 DEF Locals, ImportLocal, Persist, PersistRaises, At, AtFile
    <3>3. QED BY <2>2, <3>1, <3>2 DEF Persist, PersistRaises
  <2>3. \A f \in assets' : f \in Candidates' /\ tree'[f] = "fit"
    BY <2>1, <2>2, SameCandidates DEF Outcomes
  <2>4. ASSUME kind = "export" PROVE assets' = {} /\ (job'.status = "COMPLETED" => result' # NoBody)
    <3>1. assets' = {}
      BY <2>2, <2>4 DEF Outcomes
    <3>2. ExportLocal(worker[w])
      BY <2>4 DEF Locals
    <3>3. CASE job' = job
      BY <1>3, <2>1, <2>4, <3>1, <3>2, <3>3, WorkMovesStore DEF Outcomes, ExportLocal, At
    <3>4. CASE EndsJob(w)
      <4>1. PICK outcome \in Terminal :
              /\ job' = Finished(job, outcome)
              /\ outcome = "COMPLETED" => \/ At(w, "complete") /\ result' = worker[w].body
                                          \/ At(w, "finish") /\ ~Incomplete(w)
        BY <3>4 DEF EndsJob
      <4>2. job'.status = outcome
        BY <2>1, <4>1 DEF Finished, Unlocked, Row
      <4>3. ~At(w, "finish") /\ (At(w, "complete") => worker[w].body # NoBody)
        BY <3>2 DEF ExportLocal, ExportPc, At
      <4>4. QED BY <3>1, <4>1, <4>2, <4>3
    <3>5. QED BY <1>3, <3>3, <3>4, WorkMovesJob
  <2>5. ASSUME kind = "import", job'.status = "COMPLETED" PROVE Candidates \subseteq assets' /\ Skipped = 0
    <3>1. ImportLocal(worker[w], assets)
      BY <2>5 DEF Locals
    <3>2. CASE job' = job
      BY <2>1, <2>5, <3>2 DEF Outcomes
    <3>3. CASE EndsJob(w)
      <4>1. PICK outcome \in Terminal :
              /\ job' = Finished(job, outcome)
              /\ outcome = "COMPLETED" => \/ At(w, "complete") /\ result' = worker[w].body
                                          \/ At(w, "finish") /\ ~Incomplete(w)
        BY <3>3 DEF EndsJob
      <4>2. job'.status = outcome
        BY <2>1, <4>1 DEF Finished, Unlocked, Row
      <4>3. ~At(w, "complete")
        BY <3>1 DEF ImportLocal, ImportPc, At
      <4>4. At(w, "finish") /\ ~Incomplete(w)
        BY <2>5, <4>1, <4>2, <4>3
      <4>5. QED BY <2>1, <2>5, <4>4, FinishedImport
    <3>4. QED BY <1>3, <3>2, <3>3, WorkMovesJob
  <2>6. QED
    BY <2>1, <2>3, <2>4, <2>5, SameCandidates DEF Outcomes
<1>4. QED
  BY <1>1, <1>2, <1>3 DEF Next, Around

-----------------------------------------------------------------------------
(* One processor at a time.                                                 *)

(* A processor stops, goes on as the holder it was, or is on its way out.   *)
GoesOn(w) == /\ job' = job /\ worker'[w].token = worker[w].token
             /\ Leaving(w) => Leaving(w)' \/ worker'[w].pc = "idle"
ClearsOff(w) == IsOver' /\ Leaving(w)'
Parts(w) == worker'[w] = IdleWorker \/ GoesOn(w) \/ ClearsOff(w)

LEMMA SetFields ==
  ASSUME NEW r \in Processor, NEW pc
  PROVE  /\ [r EXCEPT !.pc = pc].pc = pc /\ [r EXCEPT !.pc = pc].token = r.token
         /\ [r EXCEPT !.pc = pc].next = r.next /\ [r EXCEPT !.pc = pc].file = r.file
         /\ [r EXCEPT !.pc = pc].body = r.body /\ Counts([r EXCEPT !.pc = pc]) = Counts(r)
BY DEF Processor, Counts

LEMMA PassingFields ==
  ASSUME NEW r \in Processor, NEW rejected, NEW retryable
  PROVE  /\ Passing(r, rejected, retryable).pc \in {"flush", "beat"}
         /\ Passing(r, rejected, retryable).token = r.token
BY DEF Processor, Passing, AfterItem

LEMMA ListBecomes ==
  ASSUME TypeOK, NEW w \in Workers, List(w) \/ BatchEnds(w)
  PROVE  \/ Becomes(w, IdleWorker)
         \/ /\ job' = job
            /\ \/ \E pc \in {"fail", "finish"} : Becomes(w, [worker[w] EXCEPT !.pc = pc])
               \/ \E pc \in {"batch", "beat"} : \E f : Becomes(w, [worker[w] EXCEPT !.pc = pc, !.file = f])
<1>1. worker \in [Workers -> Processor]
  BY ProcessorsTyped
<1>2. ASSUME NEW pc, worker' = [worker EXCEPT ![w].pc = pc] PROVE Becomes(w, [worker[w] EXCEPT !.pc = pc])
  BY <1>1, <1>2 DEF Becomes
<1>3. ASSUME NEW pc, NEW f, worker' = [worker EXCEPT ![w].pc = pc, ![w].file = f]
      PROVE  Becomes(w, [worker[w] EXCEPT !.pc = pc, !.file = f])
  BY <1>1, <1>3 DEF Becomes
<1>4. CASE List(w)
  <2>1. \/ worker' = [worker EXCEPT ![w].pc = "fail"]
        \/ worker' = [worker EXCEPT ![w].pc = "batch", ![w].file = First(Candidates)]
    BY <1>4 DEF List
  <2>2. job' = job
    BY <1>4 DEF List, jobVars
  <2>3. QED BY <1>2, <1>3, <2>1, <2>2
<1>5. CASE BatchEnds(w)
  <2>1. CASE SeesRequest(w)
    BY <1>5, <2>1, LeaveBecomes DEF BatchEnds
  <2>2. CASE ~ SeesRequest(w)
    <3>1. \/ worker' = [worker EXCEPT ![w].pc = "finish"]
          \/ worker' = [worker EXCEPT ![w].pc = "beat", ![w].file = First(Later(worker[w].file))]
      BY <1>5, <2>2 DEF BatchEnds
    <3>2. job' = job
      BY <1>5, <2>2 DEF BatchEnds
    <3>3. QED BY <1>2, <1>3, <3>1, <3>2
  <2>3. QED BY <2>1, <2>2
<1>6. QED BY <1>4, <1>5

LEMMA FinishedFields ==
  ASSUME NEW r \in Row, NEW outcome
  PROVE  /\ Finished(r, outcome).status = outcome
         /\ Finished(r, outcome).cancelRequested = r.cancelRequested
BY DEF Finished, Unlocked, Row

LEMMA WorkOwns ==
  ASSUME TypeOK, Locals, NEW w \in Workers, Works(w)
  PROVE  worker[w].pc # "idle" /\ Parts(w)
<1> DEFINE r == worker[w]
           Goal == r.pc # "idle" /\ Parts(w)
<1>1. r \in Processor /\ job \in Row
  BY ProcessorsTyped DEF TypeOK
<1>2. ASSUME NEW q, Becomes(w, q) PROVE worker'[w] = q
  BY <1>2, BecomesOne
<1>3. ASSUME r.pc # "idle", Becomes(w, IdleWorker) PROVE Goal
  BY <1>2, <1>3 DEF Parts
<1>4. ASSUME r.pc \notin {"idle", "fail", "check", "remove"}, job' = job, NEW q, q.token = r.token, Becomes(w, q)
      PROVE  Goal
  BY <1>2, <1>4 DEF Parts, GoesOn, Leaving, At
<1>5. ASSUME r.pc \notin {"idle", "fail", "check", "remove"}, job' = job, NEW pc,
              Becomes(w, [r EXCEPT !.pc = pc])
       PROVE  Goal
  <2>1. [r EXCEPT !.pc = pc].token = r.token
    BY <1>1, SetFields
  <2>2. QED BY <1>5, <2>1, <1>4
<1>6. ASSUME r.pc \notin {"idle", "fail", "check", "remove"}, job' = job, NEW pc, NEW next,
              Becomes(w, [r EXCEPT !.pc = pc, !.next = next])
       PROVE  Goal
  <2>1. [r EXCEPT !.pc = pc, !.next = next].token = r.token
    BY <1>1 DEF Processor
  <2>2. QED BY <1>6, <2>1, <1>4
<1>7. ASSUME NEW pc, NEW next, Becomes(w, [r EXCEPT !.pc = pc, !.next = next])
       PROVE  worker'[w].pc = pc /\ worker'[w].next = next
  <2>1. /\ [r EXCEPT !.pc = pc, !.next = next].pc = pc
        /\ [r EXCEPT !.pc = pc, !.next = next].next = next
    BY <1>1 DEF Processor
  <2>2. QED BY <1>2, <1>7, <2>1
<1> HIDE DEF Goal
<1>8. ASSUME NEW pc \in Pc \ {"idle", "fail", "check", "remove"}, NEW next, Boundary(w, pc, next) PROVE Goal
  <2>1. r.pc \notin {"idle", "fail", "check", "remove"}
    BY <1>8, BoundaryMoves
  <2>2. Becomes(w, IdleWorker) \/ (Becomes(w, [r EXCEPT !.pc = next]) /\ job' = job)
    BY <1>8, BoundaryMoves
  <2>3. QED BY <2>1, <2>2, <1>3, <1>5
<1>9. ASSUME NEW pc \in Pc \ {"idle", "fail", "check", "remove"}, NEW next, NEW refused,
             Guarded(w, pc, next, refused)
      PROVE  Goal
  <2>1. r.pc \notin {"idle", "fail", "check", "remove"}
    BY <1>9, GuardedMoves
  <2>2. job' = job /\ (Becomes(w, IdleWorker) \/ Becomes(w, [r EXCEPT !.pc = next])
                        \/ Becomes(w, [r EXCEPT !.pc = refused]))
    BY <1>9, GuardedMoves DEF jobVars
  <2>3. QED BY <2>1, <2>2, <1>3, <1>5
<1>10. ASSUME NEW pcs, {"idle", "fail", "check", "remove"} \cap pcs = {}, NEW next, Raise(w, pcs, next) PROVE Goal
  <2>1. r.pc \notin {"idle", "fail", "check", "remove"} /\ job' = job
    BY <1>10, RaiseMoves DEF jobVars
  <2>2. Becomes(w, [r EXCEPT !.pc = next, !.next = "fail"])
    BY <1>10, RaiseMoves
  <2>3. QED BY <2>1, <2>2, <1>6
<1>11. ASSUME Build(w) PROVE Goal
  <2>1. r.pc = "build" /\ job' = job
    BY <1>11 DEF Build, At, jobVars
  <2>2. Becomes(w, IdleWorker) \/ Becomes(w, [r EXCEPT !.pc = "built", !.body = data])
    BY <1>11 DEF Build, Becomes, TypeOK
  <2>3. [r EXCEPT !.pc = "built", !.body = data].token = r.token
    BY <1>1 DEF Processor
  <2>4. QED BY <2>1, <2>2, <2>3, <1>3, <1>4
<1>12. ASSUME Write(w) \/ Written(w) \/ Upload(w) \/ Stat(w) \/ StatRaises(w) PROVE Goal
  <2>1. r.pc \in {"write", "written", "upload", "stat"} /\ job' = job
    BY <1>12 DEF Write, Written, Upload, Stat, StatRaises, At, jobVars
  <2>2. \/ \E pc : Becomes(w, [r EXCEPT !.pc = pc])
        \/ Becomes(w, [r EXCEPT !.pc = "check", !.next = "cancel"])
    BY <1>12, GotoBecomes, CleanThenBecomes DEF Write, Written, Upload, Stat, StatRaises
  <2>3. QED BY <2>1, <2>2, <1>5, <1>6
<1>13. ASSUME CancelCleaned(w) \/ Finish(w) \/ Fail(w) PROVE Goal
  BY <1>13, <1>3, LeaveBecomes DEF CancelCleaned, Finish, Fail, At
<1>14. ASSUME CompleteExport(w) PROVE Goal
  <2>1. r.pc = "complete"
    BY <1>14 DEF CompleteExport, At
  <2>2. Becomes(w, IdleWorker) \/ (job' = job /\ Becomes(w, [r EXCEPT !.pc = "check", !.next = "idle"]))
    BY <1>14, LeaveBecomes, CleanThenBecomes DEF CompleteExport
  <2>3. QED BY <2>1, <2>2, <1>3, <1>6
<1>15. ASSUME job' = Finished(job, "COMPLETED") \/ job' = Finished(job, "CANCELED"), r.pc # "idle",
              NEW next \in {"idle", "fail"}, Becomes(w, [r EXCEPT !.pc = "check", !.next = next])
       PROVE  Goal
  <2>1. job'.status \in {"COMPLETED", "CANCELED"}
    BY <1>1, <1>15, FinishedFields
  <2>2. worker'[w].pc = "check" /\ worker'[w].next = next
    BY <1>15, <1>7
  <2>3. ClearsOff(w)
    BY <1>15, <2>1, <2>2 DEF ClearsOff, IsOver, Leaving
  <2>4. QED BY <1>15, <2>3 DEF Goal, Parts
<1>16. ASSUME CompletionRaises(w) PROVE Goal
  BY <1>15, <1>16, CleanThenBecomes DEF CompletionRaises, At
<1>17. ASSUME List(w) \/ BatchEnds(w) PROVE Goal
  <2>1. r.pc \in {"list", "flushed"}
    BY <1>17 DEF List, BatchEnds, At
  <2>2. \/ Becomes(w, IdleWorker)
        \/ /\ job' = job
           /\ \/ \E pc : Becomes(w, [r EXCEPT !.pc = pc])
              \/ \E pc, f : Becomes(w, [r EXCEPT !.pc = pc, !.file = f])
    BY <1>17, ListBecomes
  <2>3. ASSUME NEW pc, NEW f PROVE [r EXCEPT !.pc = pc, !.file = f].token = r.token
    BY <1>1 DEF Processor
  <2>4. QED BY <2>1, <2>2, <2>3, <1>3, <1>4, <1>5
<1>18. ASSUME r.pc \notin {"idle", "fail", "check", "remove"}, job' = job, NEW m \in Nat, NEW n \in Nat,
              Counted(w, m, n)
       PROVE  Goal
  BY <1>1, <1>18, <1>4, CountedBecomes, PassingFields
<1>19. ASSUME Reconcile(w) PROVE Goal
  <2>1. r.pc = "item"
    BY <1>19 DEF Reconcile, At
  <2>2. Leave(w) \/ (job' = job /\ (Counted(w, 0, 0) \/ Goto(w, "upload")))
    BY <1>19 DEF Reconcile, Reused
  <2>3. QED BY <2>1, <2>2, <1>3, <1>18, <1>5, LeaveBecomes, GotoBecomes
<1>20. ASSUME DownloadFails(w) PROVE Goal
  BY <1>18, <1>20 DEF DownloadFails, At, jobVars
<1>21. ASSUME Uploaded(w) PROVE Goal
  <2>1. r.pc = "uploaded"
    BY <1>21 DEF Uploaded, At
  <2>2. \/ /\ job' = job \/ job' = Finished(job, "CANCELED")
           /\ Becomes(w, [r EXCEPT !.pc = "check", !.next = "idle"])
        \/ job' = job /\ Becomes(w, [r EXCEPT !.pc = "persist"])
    BY <1>21, GotoBecomes, CleanThenBecomes DEF Uploaded, Acknowledged
  <2>3. QED BY <2>1, <2>2, <1>15, <1>5, <1>6
<1>22. ASSUME Persist(w) \/ PersistRaises(w) PROVE Goal
  <2>1. r.pc = "persist" /\ job' = job
    BY <1>22 DEF Persist, PersistRaises, At, jobVars
  <2>2. Counted(w, 0, 0) \/ CleanThen(w, "reject") \/ CleanThen(w, "fail")
    BY <1>22 DEF Persist, PersistRaises
  <2>3. QED BY <2>1, <2>2, <1>18, <1>6, CleanThenBecomes
<1>23. ASSUME Check(w) \/ Remove(w) \/ RemoveFails(w) PROVE Goal
  <2>1. job' = job /\ r.pc \in {"check", "remove"}
    BY <1>23 DEF Check, Remove, RemoveFails, jobVars, At
  <2>2. Resume(w) \/ Becomes(w, [r EXCEPT !.pc = "remove"])
    BY <1>23, GotoBecomes DEF Check, Remove, RemoveFails
  <2>3. \/ Becomes(w, IdleWorker)
        \/ r.next = "reject" /\ Becomes(w, Passing(r, 1, 0))
        \/ r.next \notin {"idle", "reject"} /\ Becomes(w, [r EXCEPT !.pc = r.next])
        \/ Becomes(w, [r EXCEPT !.pc = "remove"])
    BY <2>2, ResumeMoves
  <2>4. \/ worker'[w] = IdleWorker
        \/ r.next = "reject" /\ worker'[w].token = r.token
        \/ r.next \notin {"idle", "reject"} /\ worker'[w].token = r.token /\ worker'[w].pc = r.next
        \/ worker'[w].token = r.token /\ worker'[w].pc = "remove" /\ worker'[w].next = r.next
    <3>1. Passing(r, 1, 0).token = r.token
      BY <1>1, PassingFields
    <3>2. LET q == [r EXCEPT !.pc = "remove"] IN q.token = r.token /\ q.pc = "remove" /\ q.next = r.next
      BY <1>1, SetFields
    <3>3. LET q == [r EXCEPT !.pc = r.next] IN q.token = r.token /\ q.pc = r.next
      BY <1>1, SetFields
    <3>4. QED BY <1>2, <2>3, <3>1, <3>2, <3>3
  <2>5. QED BY <2>1, <2>4 DEF Goal, Parts, GoesOn, Leaving, At
<1>24. ASSUME CheckRaises(w) PROVE Goal
  <2>1. job' = job /\ r.pc = "check"
    BY <1>24 DEF CheckRaises, jobVars, At
  <2>2. Becomes(w, [r EXCEPT !.next = "fail"]) \/ Becomes(w, [r EXCEPT !.pc = "fail"])
    BY <1>24, GotoBecomes DEF CheckRaises, Becomes, TypeOK
  <2>3. /\ worker'[w].token = r.token
        /\ worker'[w].pc = "fail" \/ (worker'[w].pc = "check" /\ worker'[w].next = "fail")
    <3>1. LET q == [r EXCEPT !.next = "fail"] IN q.token = r.token /\ q.pc = r.pc /\ q.next = "fail"
      BY <1>1 DEF Processor
    <3>2. LET q == [r EXCEPT !.pc = "fail"] IN q.token = r.token /\ q.pc = "fail"
      BY <1>1, SetFields
    <3>3. QED BY <1>2, <2>1, <2>2, <3>1, <3>2
  <2>4. QED BY <2>1, <2>3 DEF Goal, Parts, GoesOn, Leaving, At
<1>25. ASSUME Export(w) PROVE Goal
  BY <1>25, <1>8, <1>9, <1>10, <1>11, <1>12, <1>13, <1>14, <1>16 DEF Export, Pc
<1>26. ASSUME Import(w) PROVE Goal
  BY <1>26, <1>8, <1>9, <1>10, <1>12, <1>13, <1>17, <1>19, <1>20, <1>21, <1>22 DEF Import, Pc
<1>27. Goal
  BY <1>13, <1>23, <1>24, <1>25, <1>26 DEF Works
<1>28. QED BY <1>27 DEF Goal

(* With no lease lost, one processor moves and the others are idle.         *)
LEMMA OthersIdle ==
  ASSUME TypeOK, Ownership, stalls = 0, NEW w \in Workers, ~At(w, "idle"), NEW r, Becomes(w, r)
  PROVE  \A v \in Workers : v # w => worker[v].pc = "idle" /\ worker'[v].pc = "idle"
BY BecomesOne DEF Ownership, At

LEMMA WorkBecomes ==
  ASSUME TypeOK, Locals, NEW w \in Workers, Works(w)
  PROVE  Becomes(w, worker'[w]) /\ ~At(w, "idle")
<1>1. worker \in [Workers -> Processor] /\ worker[w].pc # "idle"
  BY ProcessorsTyped, WorkOwns
<1>2. \E r : Becomes(w, r)
  <2>1. CASE kind = "export" /\ Export(w)
    BY <2>1, ExportSteps DEF Locals, Lawful
  <2>2. CASE kind = "import" /\ Import(w)
    BY <2>2, ImportSteps DEF Locals, Lawful
  <2>3. CASE Check(w) \/ Remove(w) \/ CheckRaises(w) \/ RemoveFails(w) \/ Fail(w)
    <3>1. ExportLocal(worker[w]) \/ ImportLocal(worker[w], assets)
      BY DEF Locals, TypeOK
    <3>2. QED BY <2>3, <3>1, CleaningSteps DEF Lawful
  <2>4. QED BY <2>1, <2>2, <2>3 DEF Works
<1>3. QED BY <1>1, <1>2, BecomesOne DEF At

LEMMA StallsCount ==
  ASSUME TypeOK, [Next]_vars, stalls' = 0
  PROVE  stalls = 0 /\ ~Stall
<1>1. stalls \in Nat
  BY Constants DEF TypeOK
<1>2. ~Stall
  BY <1>1 DEF Stall
<1>3. CASE UNCHANGED vars
  BY <1>2, <1>3 DEF vars, bounds
<1>4. ASSUME NEW w \in Workers, Claim(w) \/ Works(w) \/ Crash(w) PROVE stalls = 0
  BY <1>4, WorkMovesJob DEF Claim, Crash, bounds
<1>5. ASSUME Recover \/ Cancel \/ Retry \/ Edit \/ Age \/ (\E k \in Keys : SweepFinds(k) \/ SweepRemoves(k))
      PROVE  stalls = 0
  BY <1>5 DEF Recover, Cancel, Retry, Edit, Age, SweepFinds, SweepRemoves, bounds
<1>6. QED
  BY <1>2, <1>3, <1>4, <1>5 DEF Next

LEMMA NobodyWorks ==
  ASSUME Ownership, stalls = 0, job.status \notin Active \/ job.lease # "live", ~IsOver
  PROVE  \A w \in Workers : At(w, "idle")
BY DEF Ownership, Holds, CurrentLease

LEMMA OwnershipStep ==
  ASSUME TypeOK, Locals, Ownership, [Next]_vars
  PROVE  Ownership'
<1>1. SUFFICES ASSUME stalls' = 0
               PROVE  /\ \A w \in Workers : worker'[w].pc # "idle" => Holds(w)' \/ (IsOver' /\ Leaving(w)')
                      /\ \A v, w \in Workers : worker'[v].pc # "idle" /\ worker'[w].pc # "idle" => v = w
  BY DEF Ownership, At
<1>2. stalls = 0 /\ ~Stall
  BY <1>1, StallsCount
<1>3. /\ \A w \in Workers : worker[w].pc # "idle" => Holds(w) \/ (IsOver /\ Leaving(w))
      /\ \A v, w \in Workers : worker[v].pc # "idle" /\ worker[w].pc # "idle" => v = w
  BY <1>2 DEF Ownership, At
<1>4. CASE job' = job /\ worker' = worker
  BY <1>3, <1>4 DEF Holds, Token, IsOver, Leaving, At
<1>5. ASSUME NEW w \in Workers, Works(w)
      PROVE  /\ \A v \in Workers : worker'[v].pc # "idle" => v = w
             /\ worker'[w].pc # "idle" => Holds(w)' \/ (IsOver' /\ Leaving(w)')
  <2>1. \A v \in Workers : worker'[v].pc # "idle" => v = w
    BY <1>2, <1>5, WorkBecomes, OthersIdle
  <2>2. Parts(w) /\ worker[w].pc # "idle"
    BY <1>5, WorkOwns
  <2>3. CASE worker'[w] = IdleWorker
    BY <2>1, <2>3 DEF IdleWorker
  <2>4. CASE GoesOn(w)
    <3>1. CASE Holds(w)
      BY <2>1, <2>4, <3>1 DEF GoesOn, Holds, Token
    <3>2. CASE IsOver /\ Leaving(w)
      BY <2>1, <2>4, <3>2 DEF GoesOn, IsOver
    <3>3. QED BY <1>3, <2>2, <3>1, <3>2
  <2>5. CASE ClearsOff(w)
    BY <2>1, <2>5 DEF ClearsOff
  <2>6. QED BY <2>2, <2>3, <2>4, <2>5 DEF Parts
<1>6. ASSUME NEW w \in Workers, Claim(w)
      PROVE  /\ \A v \in Workers : worker'[v].pc # "idle" => v = w
             /\ Holds(w)'
  <2>1. job \in Row /\ claims + 1 # NoToken
    BY Constants DEF TypeOK, NoToken
  <2>2. \A v \in Workers : worker[v].pc = "idle"
    BY <1>2, <1>6, NobodyWorks DEF Claim, CanClaim, Claimable, Active, IsOver, At
  <2>3. worker'[w].token = claims + 1 /\ \A v \in Workers : v # w => worker'[v] = worker[v]
    BY <1>6 DEF Claim, TypeOK, IdleWorker
  <2>4. Holds(w)'
    BY <1>6, <2>1, <2>3 DEF Claim, Claimed, Holds, CurrentLease, Token, Row, Active
  <2>5. QED BY <2>2, <2>3, <2>4
<1>7. ASSUME NEW w \in Workers, Crash(w) PROVE \A v \in Workers : worker'[v].pc = "idle"
  <2>1. Becomes(w, IdleWorker) /\ ~At(w, "idle")
    BY <1>7, LeaveBecomes DEF Crash
  <2>2. worker'[w].pc = "idle"
    BY <2>1, BecomesOne DEF IdleWorker
  <2>3. QED BY <1>2, <2>1, <2>2, OthersIdle
<1>8. CASE Recover \/ Retry
  <2>1. \A v \in Workers : worker[v].pc = "idle"
    BY <1>2, <1>8, NobodyWorks
       DEF Recover, Retry, CanRetryInPlace, CanDeadLetter, Recoverable, LeaseOver, Active, IsOver, At
  <2>2. worker' = worker
    BY <1>8 DEF Recover, Retry
  <2>3. QED BY <2>1, <2>2
<1>9. CASE Cancel
  <2>1. worker' = worker
    BY <1>9 DEF Cancel
  <2>2. CASE job.status \in Claimable
    BY <1>2, <2>1, <2>2, NobodyWorks DEF Claimable, Active, IsOver, At
  <2>3. CASE job.status = "RUNNING"
    <3>1. /\ job'.status = "CANCELING" /\ job'.lockedBy = job.lockedBy
          /\ job'.token = job.token /\ job'.lease = job.lease
      BY <1>9, <2>3 DEF Cancel, CancelRow, TypeOK, Row
    <3>2. \A w \in Workers : worker[w].pc # "idle" => Holds(w)
      BY <1>3, <2>3 DEF IsOver
    <3>3. \A w \in Workers : Holds(w) => Holds(w)'
      BY <2>1, <3>1 DEF Holds, CurrentLease, Token, Active
    <3>4. QED BY <1>3, <2>1, <3>2, <3>3
  <2>4. QED BY <1>9, <2>2, <2>3 DEF Cancel
<1>10. CASE UNCHANGED vars \/ Edit \/ Age \/ (\E k \in Keys : SweepFinds(k) \/ SweepRemoves(k))
  <2>1. job' = job /\ worker' = worker
    BY <1>10 DEF vars, Edit, Age, SweepFinds, SweepRemoves, jobVars
  <2>2. QED BY <1>4, <2>1
<1>11. QED
  BY <1>2, <1>5, <1>6, <1>7, <1>8, <1>9, <1>10 DEF Next

-----------------------------------------------------------------------------
(* Steps between the places where an object is in hand, and the others.     *)

Minor(w) ==
  /\ worker[w].pc \notin Storing /\ worker'[w].pc \notin Storing \union {"upload", "cancel"}
  /\ UNCHANGED <<objects, assets, strays, result>>

ExportStoring(w) ==
  \/ Write(w) \/ Written(w) \/ CompleteExport(w) \/ CompletionRaises(w)
  \/ Raise(w, {"beat", "write", "written", "cancel", "complete"}, "check")

ImportStoring(w) ==
  \/ Reconcile(w) /\ worker'[w].pc = "upload"
  \/ Upload(w) \/ Stat(w) \/ StatRaises(w) \/ Uploaded(w) \/ Persist(w) \/ PersistRaises(w)
  \/ Raise(w, {"uploaded", "persist"}, "check")

LEMMA WorkKinds ==
  ASSUME TypeOK, NEW w \in Workers, Works(w)
  PROVE  \/ Minor(w)
         \/ kind = "export" /\ ExportStoring(w)
         \/ kind = "import" /\ ImportStoring(w)
         \/ Check(w) \/ Remove(w) \/ CheckRaises(w) \/ RemoveFails(w)
<1> DEFINE r == worker[w]
           Major == {"upload", "cancel", "written", "complete", "stat", "uploaded", "persist", "check", "remove"}
<1>1. r \in Processor /\ Storing \union {"upload", "cancel"} = Major /\ Storing \subseteq Major
  BY ProcessorsTyped DEF Storing
<1>2. ASSUME NEW q, Becomes(w, q) PROVE worker'[w] = q
  BY <1>2, BecomesOne
<1>3. ASSUME r.pc \notin Storing, UNCHANGED <<objects, assets, strays, result>>, NEW q, q.pc \notin Major, Becomes(w, q)
      PROVE  Minor(w)
  BY <1>1, <1>2, <1>3 DEF Minor
<1>4. ASSUME r.pc \notin Storing, UNCHANGED <<objects, assets, strays, result>>, NEW pc, pc \notin Major,
             Becomes(w, [r EXCEPT !.pc = pc])
      PROVE  Minor(w)
  <2>1. [r EXCEPT !.pc = pc].pc = pc
    BY <1>1, SetFields
  <2>2. QED BY <1>4, <2>1, <1>3
<1>5. ASSUME r.pc \notin Storing, UNCHANGED <<objects, assets, strays, result>>, Becomes(w, IdleWorker)
      PROVE  Minor(w)
  <2>1. IdleWorker.pc \notin Major
    BY DEF IdleWorker
  <2>2. QED BY <1>3, <1>5, <2>1
<1> HIDE DEF Major
<1>6. ASSUME NEW pc, NEW next, pc \notin Storing, next \notin Major, Boundary(w, pc, next) PROVE Minor(w)
  BY <1>4, <1>5, <1>6, BoundaryMoves DEF storeVars
<1>7. ASSUME NEW pc, NEW next, NEW refused, pc \notin Storing, next \notin Major, refused \notin Major,
             Guarded(w, pc, next, refused)
      PROVE  Minor(w)
  BY <1>4, <1>5, <1>7, GuardedMoves DEF storeVars, jobVars
<1>8. ASSUME NEW pcs, pcs \cap Storing = {}, Raise(w, pcs, "fail") PROVE Minor(w)
  <2>1. [r EXCEPT !.pc = "fail", !.next = "fail"].pc = "fail" /\ "fail" \notin Major
    BY <1>1 DEF Processor, Major
  <2>2. QED BY <1>3, <1>8, <2>1, RaiseMoves DEF storeVars, jobVars
<1>9. {"enter", "stage", "build", "built", "beat", "scan", "scanned", "list", "batch", "flush",
       "flushed", "item", "write", "fail", "idle", "finish"} \cap Major = {} /\ Storing \subseteq Major
  BY <1>1 DEF Major
<1>10. ASSUME Build(w) PROVE Minor(w)
  <2>1. r.pc = "build" /\ UNCHANGED <<objects, assets, strays, result>>
    BY <1>10 DEF Build, At, jobVars, storeVars
  <2>2. Becomes(w, IdleWorker) \/ Becomes(w, [r EXCEPT !.pc = "built", !.body = data])
    BY <1>10 DEF Build, Becomes, TypeOK
  <2>3. [r EXCEPT !.pc = "built", !.body = data].pc = "built"
    BY <1>1 DEF Processor
  <2>4. QED BY <2>1, <2>2, <2>3, <1>3, <1>5, <1>9
<1>11. ASSUME CancelCleaned(w) \/ Finish(w) \/ Fail(w) PROVE Minor(w)
  <2>1. r.pc \in {"cancel", "finish", "fail"} /\ r.pc \notin Storing /\ UNCHANGED <<objects, assets, strays, result>>
    BY <1>11 DEF CancelCleaned, Finish, Fail, At, Storing, storeVars
  <2>2. QED BY <1>11, <2>1, <1>5, LeaveBecomes DEF CancelCleaned, Finish, Fail
<1>12. ASSUME List(w) \/ BatchEnds(w) PROVE Minor(w)
  <2>1. r.pc \in {"list", "flushed"} /\ r.pc \notin Storing /\ UNCHANGED <<objects, assets, strays, result>>
    BY <1>12 DEF List, BatchEnds, At, Storing, jobVars, storeVars
  <2>2. \/ Becomes(w, IdleWorker)
        \/ /\ job' = job
           /\ \/ \E pc \in {"fail", "finish"} : Becomes(w, [worker[w] EXCEPT !.pc = pc])
              \/ \E pc \in {"batch", "beat"} : \E f : Becomes(w, [worker[w] EXCEPT !.pc = pc, !.file = f])
    BY <1>12, ListBecomes
  <2>3. ASSUME NEW pc, NEW f PROVE [r EXCEPT !.pc = pc, !.file = f].pc = pc
    BY <1>1 DEF Processor
  <2>4. CASE Becomes(w, IdleWorker)
    BY <2>1, <2>4, <1>5
  <2>5. ASSUME job' = job, NEW pc \in {"fail", "finish"}, Becomes(w, [worker[w] EXCEPT !.pc = pc]) PROVE Minor(w)
    <3>1. pc \notin Major
      BY <2>5, <1>9
    <3>2. QED BY <2>1, <2>5, <3>1, <1>4
  <2>6. ASSUME job' = job, NEW pc \in {"batch", "beat"}, NEW f, Becomes(w, [worker[w] EXCEPT !.pc = pc, !.file = f])
        PROVE  Minor(w)
    <3>1. [r EXCEPT !.pc = pc, !.file = f].pc \notin Major
      BY <2>3, <2>6, <1>9
    <3>2. QED BY <2>1, <2>6, <3>1, <1>3
  <2>7. QED BY <2>2, <2>4, <2>5, <2>6
<1>13. ASSUME r.pc \notin Storing, UNCHANGED <<objects, assets, strays, result>>, NEW m \in Nat, NEW n \in Nat,
              Counted(w, m, n)
       PROVE  Minor(w)
  <2>1. Passing(r, m, n).pc \in {"flush", "beat"}
    BY <1>1, PassingFields
  <2>2. QED BY <1>3, <1>9, <1>13, <2>1, CountedBecomes
<1>14. ASSUME Reconcile(w) PROVE Minor(w) \/ worker'[w].pc = "upload"
  <2>1. r.pc = "item" /\ UNCHANGED <<objects, assets, strays, result>> /\ "item" \notin Storing
    BY <1>14 DEF Reconcile, At, storeVars, Storing
  <2>2. Leave(w) \/ Counted(w, 0, 0) \/ Goto(w, "upload")
    BY <1>14 DEF Reconcile, Reused
  <2>3. Goto(w, "upload") => worker'[w].pc = "upload"
    <3>1. [r EXCEPT !.pc = "upload"].pc = "upload"
      BY <1>1, SetFields
    <3>2. QED BY <1>2, <3>1, GotoBecomes
  <2>4. QED BY <2>1, <2>2, <2>3, <1>5, <1>13, LeaveBecomes
<1>15. ASSUME DownloadFails(w) PROVE Minor(w)
  <2>1. r.pc = "upload" /\ UNCHANGED <<objects, assets, strays, result>> /\ "upload" \notin Storing /\ Counted(w, 0, 1)
    BY <1>15 DEF DownloadFails, At, storeVars, jobVars, Storing
  <2>2. QED BY <2>1, <1>13
<1>16. {"enter", "stage", "build", "built", "beat", "scan", "scanned", "list", "batch", "flush", "upload",
        "beat", "item", "flushed", "finish"} \cap Storing = {}
  BY DEF Storing
<1>17. ASSUME Export(w) PROVE Minor(w) \/ ExportStoring(w)
  BY <1>17, <1>6, <1>7, <1>8, <1>9, <1>10, <1>11, <1>16 DEF Export, ExportStoring
<1>18. ASSUME Import(w) PROVE Minor(w) \/ ImportStoring(w)
  BY <1>18, <1>6, <1>7, <1>8, <1>9, <1>11, <1>12, <1>14, <1>15, <1>16 DEF Import, ImportStoring
<1>19. QED BY <1>11, <1>17, <1>18 DEF Works

(* The record a step leads to: another place, the same file, body and counts. *)
To(w, pc, next) ==
  /\ worker'[w].pc = pc /\ worker'[w].next = next
  /\ worker'[w].body = worker[w].body /\ worker'[w].file = worker[w].file
  /\ Counts(worker'[w]) = Counts(worker[w])

LEMMA GotoLeadsTo ==
  ASSUME TypeOK, NEW w \in Workers, NEW pc, Goto(w, pc)
  PROVE  To(w, pc, worker[w].next)
<1>1. worker[w] \in Processor
  BY ProcessorsTyped
<1>2. worker'[w] = [worker[w] EXCEPT !.pc = pc]
  BY GotoBecomes, BecomesOne
<1>3. QED BY <1>1, <1>2 DEF To, Processor, Counts

LEMMA SetBothLeadsTo ==
  ASSUME TypeOK, NEW w \in Workers, NEW pc, NEW next,
         Becomes(w, [worker[w] EXCEPT !.pc = pc, !.next = next])
  PROVE  To(w, pc, next)
<1>1. worker[w] \in Processor
  BY ProcessorsTyped
<1>2. worker'[w] = [worker[w] EXCEPT !.pc = pc, !.next = next]
  BY BecomesOne
<1>3. QED BY <1>1, <1>2 DEF To, Processor, Counts

LEMMA CleanThenLeadsTo ==
  ASSUME TypeOK, NEW w \in Workers, NEW next, CleanThen(w, next)
  PROVE  To(w, "check", next)
BY CleanThenBecomes, SetBothLeadsTo

LEMMA LeaveLeadsTo ==
  ASSUME TypeOK, NEW w \in Workers, Leave(w)
  PROVE  worker'[w] = IdleWorker
BY LeaveBecomes, BecomesOne

LEMMA CountedLeadsTo ==
  ASSUME TypeOK, NEW w \in Workers, NEW m \in Nat, NEW n \in Nat, Counted(w, m, n)
  PROVE  worker'[w] = Passing(worker[w], m, n) /\ worker'[w].pc \in {"flush", "beat"}
<1>1. worker[w] \in Processor
  BY ProcessorsTyped
<1>2. worker'[w] = Passing(worker[w], m, n)
  BY CountedBecomes, BecomesOne
<1>3. QED BY <1>1, <1>2, PassingFields

LEMMA ResumeLeadsTo ==
  ASSUME TypeOK, NEW w \in Workers, Resume(w)
  PROVE  \/ worker[w].next = "idle" /\ worker'[w] = IdleWorker
         \/ /\ worker[w].next = "reject" /\ worker'[w] = Passing(worker[w], 1, 0)
            /\ worker'[w].pc \in {"flush", "beat"}
         \/ worker[w].next \notin {"idle", "reject"} /\ To(w, worker[w].next, worker[w].next)
<1>1. CASE worker[w].next = "idle"
  BY <1>1, LeaveLeadsTo DEF Resume
<1>2. CASE worker[w].next = "reject"
  <2>1. Counted(w, 1, 0)
    BY <1>2 DEF Resume
  <2>2. QED BY <1>2, <2>1, CountedLeadsTo
<1>3. CASE worker[w].next \notin {"idle", "reject"}
  <2>1. Goto(w, worker[w].next)
    BY <1>3 DEF Resume
  <2>2. QED BY <1>3, <2>1, GotoLeadsTo
<1>4. QED BY <1>1, <1>2, <1>3

Completes(w) == /\ CanWrite(job, Token(w)) /\ job' = Finished(job, "COMPLETED")
                /\ result' = worker[w].body

LEMMA ExportEffects ==
  ASSUME TypeOK, NEW w \in Workers, ExportStoring(w)
  PROVE  /\ assets' = assets
         /\ strays' = strays \/ (Write(w) /\ strays' = strays \ {Artifact})
         /\ \/ /\ worker[w].pc \in {"beat", "write", "written", "cancel", "complete"}
               /\ To(w, "check", "fail") /\ UNCHANGED <<job, objects, result>>
            \/ Write(w) /\ worker[w].pc = "write" /\ To(w, "written", worker[w].next) /\ UNCHANGED <<job, result>>
            \/ worker[w].pc = "written" /\ Requested /\ To(w, "check", "cancel") /\ UNCHANGED <<job, objects, result>>
            \/ worker[w].pc = "written" /\ To(w, "complete", worker[w].next) /\ UNCHANGED <<job, objects, result>>
            \/ /\ worker[w].pc = "complete" /\ objects' = objects
               /\ \/ Completes(w) /\ (worker'[w] = IdleWorker \/ To(w, "check", "fail"))
                  \/ ~CanWrite(job, Token(w)) /\ To(w, "check", "idle") /\ UNCHANGED <<job, result>>
<1>1. CASE Raise(w, {"beat", "write", "written", "cancel", "complete"}, "check")
  BY <1>1, RaiseMoves, SetBothLeadsTo DEF jobVars, storeVars
<1>2. CASE Write(w)
  BY <1>2, GotoLeadsTo DEF Write, At, jobVars
<1>3. CASE Written(w)
  BY <1>3, GotoLeadsTo, CleanThenLeadsTo DEF Written, At, jobVars, storeVars
<1>4. CASE CompleteExport(w)
  BY <1>4, LeaveLeadsTo, CleanThenLeadsTo DEF CompleteExport, Completes, At, storeVars
<1>5. CASE CompletionRaises(w)
  BY <1>5, CleanThenLeadsTo DEF CompletionRaises, Completes, At, storeVars
<1>6. QED BY <1>1, <1>2, <1>3, <1>4, <1>5 DEF ExportStoring

LEMMA ImportEffects ==
  ASSUME TypeOK, NEW w \in Workers, ImportStoring(w)
  PROVE  /\ result' = result
         /\ \/ strays' = strays
            \/ Upload(w) /\ strays' = strays \ {Key(w)}
            \/ worker[w].pc = "stat" /\ strays' = strays \union {Key(w)}
         /\ \/ /\ worker[w].pc = "item" /\ Key(w) \notin assets /\ To(w, "upload", worker[w].next)
               /\ UNCHANGED <<job, objects, assets>>
            \/ Upload(w) /\ worker[w].pc = "upload" /\ To(w, "stat", worker[w].next) /\ UNCHANGED <<job, assets>>
            \/ /\ worker[w].pc = "stat" /\ UNCHANGED <<job, objects, assets>>
               /\ \/ objects[Key(w)].body # NoBody /\ To(w, "uploaded", worker[w].next)
                  \/ To(w, "fail", worker[w].next) /\ (objects[Key(w)].body = NoBody \/ Key(w) \in strays')
            \/ /\ worker[w].pc = "uploaded" /\ UNCHANGED <<objects, assets>>
               /\ \/ SeesRequest(w) /\ Acknowledged(w) /\ To(w, "check", "idle")
                  \/ To(w, "persist", worker[w].next) /\ job' = job
                  \/ To(w, "check", "fail") /\ job' = job
            \/ /\ worker[w].pc = "persist" /\ UNCHANGED <<job, objects>>
               /\ \/ To(w, "check", "fail") /\ assets' = assets
                  \/ tree[Key(w)] # "fit" /\ To(w, "check", "reject") /\ assets' = assets
                  \/ /\ tree[Key(w)] = "fit" /\ assets' = assets \union {Key(w)}
                     /\ \/ To(w, "check", "fail")
                        \/ worker'[w] = Passing(worker[w], 0, 0) /\ worker'[w].pc \in {"flush", "beat"}
<1>1. CASE Reconcile(w) /\ worker'[w].pc = "upload"
  <2>1. ~Leave(w)
    BY <1>1, LeaveLeadsTo DEF IdleWorker
  <2>2. ~Counted(w, 0, 0)
    BY <1>1, CountedLeadsTo
  <2>3. QED BY <1>1, <2>1, <2>2, GotoLeadsTo DEF Reconcile, Reused, At, Key, storeVars
<1>2. CASE Upload(w)
  BY <1>2, GotoLeadsTo DEF Upload, At, jobVars
<1>3. CASE Stat(w)
  BY <1>3, GotoLeadsTo DEF Stat, At, jobVars, storeVars
<1>4. CASE StatRaises(w)
  BY <1>4, GotoLeadsTo DEF StatRaises, At, jobVars
<1>5. CASE Uploaded(w)
  BY <1>5, GotoLeadsTo, CleanThenLeadsTo DEF Uploaded, At, storeVars
<1>6. CASE Raise(w, {"uploaded", "persist"}, "check")
  <2>1. worker[w].pc \in {"uploaded", "persist"} /\ To(w, "check", "fail")
    BY <1>6, RaiseMoves, SetBothLeadsTo
  <2>2. UNCHANGED <<job, result, objects, assets, strays>>
    BY <1>6 DEF Raise, jobVars, storeVars
  <2>3. QED BY <2>1, <2>2
<1>7. CASE Persist(w)
  <2>1. worker[w].pc = "persist" /\ UNCHANGED <<job, objects, strays, result>>
    BY <1>7 DEF Persist, At, jobVars
  <2>2. \/ /\ tree[Key(w)] = "fit" /\ assets' = assets \union {Key(w)}
           /\ Counted(w, 0, 0)
        \/ tree[Key(w)] # "fit" /\ assets' = assets /\ CleanThen(w, "reject")
    BY <1>7 DEF Persist, Key
  <2>3. QED BY <2>1, <2>2, CountedLeadsTo, CleanThenLeadsTo
<1>8. CASE PersistRaises(w)
  BY <1>8, CleanThenLeadsTo DEF PersistRaises, At, Key, jobVars
<1>9. QED BY <1>1, <1>2, <1>3, <1>4, <1>5, <1>6, <1>7, <1>8 DEF ImportStoring

Resumes(w) ==
  \/ worker[w].next = "idle" /\ worker'[w] = IdleWorker
  \/ /\ worker[w].next = "reject" /\ worker'[w] = Passing(worker[w], 1, 0)
     /\ worker'[w].pc \in {"flush", "beat"}
  \/ worker[w].next \notin {"idle", "reject"} /\ To(w, worker[w].next, worker[w].next)

(* A look that says what is stored, or fails; a removal that succeeds, or   *)
(* fails.                                                                   *)
LEMMA CleaningEffects ==
  ASSUME TypeOK, NEW w \in Workers, Check(w) \/ Remove(w) \/ CheckRaises(w) \/ RemoveFails(w)
  PROVE  /\ UNCHANGED <<job, assets, result>>
         /\ \/ worker[w].pc = "check" /\ Published(Key(w)) /\ Resumes(w) /\ UNCHANGED <<objects, strays>>
            \/ /\ worker[w].pc = "check" /\ ~Published(Key(w)) /\ To(w, "remove", worker[w].next)
               /\ UNCHANGED <<objects, strays>>
            \/ worker[w].pc = "check" /\ To(w, "check", "fail") /\ UNCHANGED <<objects, strays>>
            \/ /\ worker[w].pc = "check" /\ To(w, "fail", worker[w].next)
               /\ objects' = objects /\ strays' = strays \union {Key(w)}
            \/ worker[w].pc = "remove" /\ Resumes(w) /\ Removed(Key(w))
            \/ /\ worker[w].pc = "remove" /\ Resumes(w)
               /\ objects' = objects /\ strays' = strays \union {Key(w)}
<1>1. CASE Check(w)
  BY <1>1, ResumeLeadsTo, GotoLeadsTo DEF Check, Resumes, At, jobVars, storeVars
<1>2. CASE Remove(w)
  BY <1>2, ResumeLeadsTo DEF Remove, Resumes, At, jobVars
<1>3. CASE RemoveFails(w)
  BY <1>3, ResumeLeadsTo DEF RemoveFails, Stray, Resumes, At, jobVars
<1>4. CASE CheckRaises(w)
  <2>1. worker[w].pc = "check" /\ UNCHANGED <<job, result>> /\ worker[w] \in Processor
    BY <1>4, ProcessorsTyped DEF CheckRaises, At, jobVars
  <2>2. CASE Goto(w, "fail") /\ Stray(w)
    BY <2>1, <2>2, GotoLeadsTo DEF Stray
  <2>3. CASE worker' = [worker EXCEPT ![w].next = "fail"] /\ UNCHANGED storeVars
    <3>1. To(w, "check", "fail")
      BY <2>1, <2>3 DEF To, Counts, Processor, TypeOK
    <3>2. QED BY <2>1, <2>3, <3>1 DEF storeVars
  <2>4. QED BY <1>4, <2>2, <2>3 DEF CheckRaises
<1>5. QED BY <1>1, <1>2, <1>3, <1>4

-----------------------------------------------------------------------------
(* Objects and what the rows say of them.                                   *)

LEMMA SweepApartStep ==
  ASSUME TypeOK, Locals, SweepApart, [Next]_vars
  PROVE  SweepApart'
<1> DEFINE Apart == /\ \A v \in Workers : worker'[v].pc = "idle"
                    /\ \A k \in sweep' : ~Referenced(k)'
<1>1. SUFFICES ASSUME ~overtaken', sweep' # {} PROVE Apart
  BY DEF SweepApart, At
<1>2. ASSUME ~overtaken, sweep # {}
      PROVE  (\A v \in Workers : worker[v].pc = "idle") /\ \A k \in sweep : ~Referenced(k)
  BY <1>2 DEF SweepApart, At
<1>3. ASSUME NEW w \in Workers, Works(w) PROVE FALSE
  <2>1. UNCHANGED sweepVars /\ worker[w].pc # "idle"
    BY <1>3, WorkMovesJob, WorkBecomes DEF At
  <2>2. QED BY <1>1, <1>2, <2>1 DEF sweepVars
<1>4. ASSUME NEW w \in Workers, Claim(w) \/ Crash(w) PROVE FALSE
  <2>1. CASE Claim(w)
    BY <1>1, <2>1 DEF Claim
  <2>2. CASE Crash(w)
    BY <1>1, <1>2, <2>2 DEF Crash, At, sweepVars
  <2>3. QED BY <1>4, <2>1, <2>2
<1>5. ASSUME NEW k \in Keys, SweepFinds(k) PROVE Apart
  <2>1. /\ UNCHANGED <<worker, result, assets>> /\ sweep' = sweep \union {k} /\ ~Referenced(k)
        /\ ~overtaken /\ \A v \in Workers : worker[v].pc = "idle"
    BY <1>1, <1>5 DEF SweepFinds, At, jobVars, storeVars
  <2>2. QED BY <1>2, <2>1 DEF Referenced
<1>6. ASSUME NEW k \in Keys, SweepRemoves(k) PROVE Apart
  <2>1. UNCHANGED <<worker, result, assets, overtaken>> /\ k \in sweep /\ sweep' = sweep \ {k}
    BY <1>6 DEF SweepRemoves, jobVars
  <2>2. QED BY <1>1, <1>2, <2>1 DEF Referenced
<1>7. CASE UNCHANGED vars \/ Stall \/ Recover \/ Cancel \/ Retry \/ Edit \/ Age
  <2>1. UNCHANGED <<worker, result, assets, sweep, overtaken>>
    BY <1>7 DEF vars, Stall, Recover, Cancel, Retry, Edit, Age, jobVars, storeVars, sweepVars
  <2>2. QED BY <1>1, <1>2, <2>1 DEF Referenced
<1>8. QED
  BY <1>3, <1>4, <1>5, <1>6, <1>7 DEF Next

LEMMA TimelyBefore ==
  ASSUME TypeOK, [Next]_vars, Timely'
  PROVE  Timely
<1>1. stalls = 0 /\ overtaken \in BOOLEAN
  BY StallsCount DEF Timely, TypeOK
<1>2. ~overtaken
  <2>1. ASSUME NEW w \in Workers, Works(w) PROVE overtaken' = overtaken
    BY <2>1, WorkMovesJob DEF sweepVars
  <2>2. ASSUME NEW w \in Workers, Claim(w) \/ Crash(w) PROVE overtaken => overtaken'
    BY <2>2 DEF Claim, Crash, sweepVars
  <2>3. ASSUME \/ UNCHANGED vars \/ Stall \/ Recover \/ Cancel \/ Retry \/ Edit \/ Age
               \/ (\E k \in Keys : SweepFinds(k) \/ SweepRemoves(k))
        PROVE  overtaken => overtaken'
    BY <2>3 DEF vars, Stall, Recover, Cancel, Retry, Edit, Age, SweepFinds, SweepRemoves, sweepVars
  <2>4. QED BY <1>1, <2>1, <2>2, <2>3 DEF Next, Timely
<1>3. QED BY <1>1, <1>2 DEF Timely

(* While the sweep stays between attempts it takes away only what no row    *)
(* refers to, and only while every processor is idle.                       *)
LEMMA SweepMoves ==
  ASSUME TypeOK, SweepApart, Timely', Age \/ \E k \in Keys : SweepFinds(k) \/ SweepRemoves(k)
  PROVE  /\ UNCHANGED <<kind, tree, manifest, job, result, assets, worker>>
         /\ \A k \in Keys : \/ objects'[k].body = objects[k].body
                            \/ ~Referenced(k) /\ \A w \in Workers : worker[w].pc = "idle"
<1>1. objects \in [Keys -> [body: Bodies, old: BOOLEAN]]
  BY DEF TypeOK, Bodies
<1>2. CASE Age
  BY <1>1, <1>2 DEF Age, sourceVars, jobVars
<1>3. ASSUME NEW j \in Keys, SweepFinds(j)
      PROVE  UNCHANGED <<kind, tree, manifest, job, result, assets, worker, objects>>
  BY <1>3 DEF SweepFinds, sourceVars, jobVars, storeVars
<1>4. ASSUME NEW j \in Keys, SweepRemoves(j)
      PROVE  /\ UNCHANGED <<kind, tree, manifest, job, result, assets, worker>>
             /\ \A k \in Keys : k # j => objects'[k] = objects[k]
             /\ ~Referenced(j) /\ \A w \in Workers : worker[w].pc = "idle"
  <2>1. j \in sweep /\ ~overtaken
    BY <1>4 DEF SweepRemoves, Timely
  <2>2. ~Referenced(j) /\ \A w \in Workers : worker[w].pc = "idle"
    BY <2>1 DEF SweepApart, At
  <2>3. \A k \in Keys : k # j => objects'[k] = objects[k]
    BY <1>1, <1>4 DEF SweepRemoves, Removed
  <2>4. QED BY <1>4, <2>2, <2>3 DEF SweepRemoves, sourceVars, jobVars
<1>5. QED BY <1>2, <1>3, <1>4

(* What neither a processor nor the clock nor the sweep does.               *)
Aside == \/ UNCHANGED vars \/ Stall \/ Recover \/ Cancel \/ Retry \/ Edit
         \/ \E w \in Workers : Claim(w) \/ Crash(w)

LEMMA AsideMoves ==
  ASSUME TypeOK, Aside
  PROVE  /\ UNCHANGED <<kind, tree, manifest, objects, assets, result>>
         /\ job'.status = "COMPLETED" => job.status = "COMPLETED"
         /\ \A v \in Workers : worker'[v] = worker[v] \/ (worker'[v].pc \in {"enter", "idle"})
<1>1. CASE Stall \/ Recover \/ Cancel \/ Retry \/ Edit
  BY <1>1, CompletedBefore
     DEF Around, Stall, Recover, Cancel, Retry, Edit, sourceVars, jobVars, storeVars
<1>2. CASE UNCHANGED vars
  BY <1>2 DEF vars, sourceVars, jobVars, storeVars
<1>3. ASSUME NEW w \in Workers, Claim(w)
      PROVE  \A v \in Workers : worker'[v] = worker[v] \/ (worker'[v].pc \in {"enter", "idle"})
  BY <1>3 DEF Claim, TypeOK, IdleWorker
<1>4. ASSUME NEW w \in Workers, Crash(w)
      PROVE  \A v \in Workers : worker'[v] = worker[v] \/ (worker'[v].pc \in {"enter", "idle"})
  BY <1>4 DEF Crash, Leave, TypeOK, IdleWorker
<1>5. CASE \E w \in Workers : Claim(w) \/ Crash(w)
  <2>1. UNCHANGED <<kind, tree, manifest, objects, assets, result>>
    BY <1>5 DEF Claim, Crash, sourceVars, storeVars
  <2>2. QED BY <1>3, <1>4, <1>5, <2>1, CompletedBefore
<1>6. QED BY <1>1, <1>2, <1>5 DEF Aside

LEMMA NextSplit ==
  [Next]_vars => Aside \/ (Age \/ \E k \in Keys : SweepFinds(k) \/ SweepRemoves(k)) \/ (\E w \in Workers : Works(w))
BY DEF Next, Aside

(* A step of a processor in a world where leases last.                      *)
LEMMA SoleStep ==
  ASSUME TypeOK, Locals, Ownership, stalls = 0, NEW w \in Workers, Works(w)
  PROVE  /\ worker \in [Workers -> Processor] /\ job \in Row
         /\ ~At(w, "idle") /\ (Holds(w) \/ (IsOver /\ Leaving(w)))
         /\ \A v \in Workers : v # w => worker[v].pc = "idle" /\ worker'[v].pc = "idle"
BY ProcessorsTyped, WorkBecomes, OthersIdle DEF Ownership, TypeOK

LEMMA CompletesBy ==
  ASSUME TypeOK, NEW w \in Workers, Works(w), job'.status = "COMPLETED", job.status # "COMPLETED"
  PROVE  At(w, "complete") \/ (At(w, "finish") /\ ~Incomplete(w))
<1>1. EndsJob(w) /\ job \in Row
  BY WorkMovesJob DEF TypeOK
<1>2. QED BY <1>1, FinishedFields DEF EndsJob

LEMMA ExportStoredStep ==
  ASSUME TypeOK, Locals, Outcomes, Ownership, SweepApart, ExportStored, [Next]_vars
  PROVE  ExportStored'
<1> DEFINE Good == /\ \A v \in Workers :
                        /\ worker'[v].pc \in {"written", "complete"} => objects'[Artifact].body = worker'[v].body
                        /\ worker'[v].pc = "remove" => job'.status # "COMPLETED"
                   /\ job'.status = "COMPLETED" => objects'[Artifact].body = result'
<1>1. SUFFICES ASSUME Timely', kind' = "export" PROVE Good
  BY DEF ExportStored, At
<1>2. Timely /\ stalls = 0
  BY <1>1, TimelyBefore DEF Timely
<1>3. ASSUME kind = "export"
      PROVE  /\ \A v \in Workers :
                  /\ worker[v].pc \in {"written", "complete"} => objects[Artifact].body = worker[v].body
                  /\ worker[v].pc = "remove" => job.status # "COMPLETED"
             /\ job.status = "COMPLETED" => objects[Artifact].body = result /\ result # NoBody
             /\ objects \in [Keys -> [body: Bodies, old: BOOLEAN]] /\ Artifact \in Keys
  BY <1>2, <1>3 DEF ExportStored, At, Outcomes, TypeOK, Bodies, Keys
<1>4. ASSUME Aside PROVE Good
  <2>1. kind = "export"
    BY <1>1, <1>4, AsideMoves
  <2>2. QED BY <1>3, <1>4, <2>1, AsideMoves
<1>5. ASSUME NEW w \in Workers, Works(w) PROVE Good
  <2> DEFINE r == worker[w]
             q == worker'[w]
  <2>1. kind = "export" /\ ExportLocal(r)
    BY <1>1, <1>5, WorkMovesJob DEF sourceVars, Locals
  <2>2. /\ Holds(w) \/ (IsOver /\ Leaving(w))
        /\ \A v \in Workers : v # w => worker'[v].pc = "idle"
        /\ r \in Processor /\ job \in Row
    BY <1>2, <1>5, SoleStep
  <2>3. SUFFICES /\ q.pc \in {"written", "complete"} => objects'[Artifact].body = q.body
                 /\ q.pc = "remove" => job'.status # "COMPLETED"
                 /\ job'.status = "COMPLETED" => objects'[Artifact].body = result'
    BY <2>2
  <2>4. r.file = Artifact /\ r.next \in {"idle", "fail", "cancel"} /\ r.pc # "finish"
    BY <2>1 DEF ExportLocal, ExportPc
  <2>5. Holds(w) => job.status # "COMPLETED"
    BY DEF Holds, Active
  <2>6. CASE Minor(w)
    <3>1. job'.status = "COMPLETED" => job.status = "COMPLETED"
      BY <1>5, <2>4, <2>6, CompletesBy DEF Minor, Storing, At
    <3>2. QED BY <1>3, <2>1, <2>6, <3>1 DEF Minor, Storing
  <2>7. CASE ExportStoring(w)
    <3>1. CASE q.pc = "check" /\ UNCHANGED <<job, objects, result>>
      BY <1>3, <2>1, <3>1
    <3>2. CASE Write(w) /\ r.pc = "write" /\ To(w, "written", r.next) /\ UNCHANGED <<job, result>>
      <4>1. job'.status # "COMPLETED"
        BY <2>2, <2>5, <3>2 DEF Leaving, At
      <4>2. objects'[Artifact].body = r.body
        BY <1>3, <2>1, <3>2 DEF Write, UploadRequired, Fresh
      <4>3. QED BY <3>2, <4>1, <4>2 DEF To
    <3>3. CASE r.pc = "written" /\ To(w, "complete", r.next) /\ UNCHANGED <<job, objects, result>>
      BY <1>3, <2>1, <3>3 DEF To
    <3>4. CASE r.pc = "complete" /\ objects' = objects /\ result' = r.body /\ q.pc \in {"idle", "check"}
      BY <1>3, <2>1, <3>4
    <3>5. IdleWorker.pc = "idle"
      BY DEF IdleWorker
    <3>6. QED BY <2>7, <3>1, <3>2, <3>3, <3>4, <3>5, ExportEffects DEF To, Completes
  <2>8. CASE Check(w) \/ Remove(w) \/ CheckRaises(w) \/ RemoveFails(w)
    <3>1. job' = job /\ result' = result
      BY <2>8, CleaningEffects
    <3>2. Resumes(w) => q.pc \in {"idle", "fail", "cancel"}
      BY <2>4 DEF Resumes, To, IdleWorker
    <3>3. CASE objects' = objects /\ q.pc \in {"idle", "fail", "cancel", "check"}
      BY <1>3, <2>1, <3>1, <3>3
    <3>4. CASE r.pc = "check" /\ ~Published(Key(w)) /\ To(w, "remove", r.next) /\ objects' = objects
      <4>1. job.status # "COMPLETED"
        BY <1>3, <2>1, <2>4, <3>4 DEF Published, Key
      <4>2. QED BY <1>3, <2>1, <3>1, <3>4, <4>1 DEF To
    <3>5. CASE r.pc = "remove" /\ Resumes(w)
      BY <1>3, <2>1, <3>1, <3>2, <3>5
    <3>6. QED BY <2>8, <3>2, <3>3, <3>4, <3>5, CleaningEffects DEF To
  <2>9. kind # "import"
    BY <2>1
  <2>10. QED BY <1>5, <2>6, <2>7, <2>8, <2>9, WorkKinds
<1>6. ASSUME Age \/ \E k \in Keys : SweepFinds(k) \/ SweepRemoves(k) PROVE Good
  <2>1. /\ UNCHANGED <<kind, job, result, worker>>
        /\ \/ objects'[Artifact].body = objects[Artifact].body
           \/ ~Referenced(Artifact) /\ \A w \in Workers : worker[w].pc = "idle"
    BY <1>1, <1>6, SweepMoves DEF Keys
  <2>2. job.status = "COMPLETED" => Referenced(Artifact)
    BY <1>1, <1>3, <2>1 DEF Referenced
  <2>3. QED BY <1>1, <1>3, <2>1, <2>2
<1>7. QED BY <1>4, <1>5, <1>6, NextSplit

LEMMA ImportStoredStep ==
  ASSUME TypeOK, Locals, Outcomes, Ownership, SweepApart, ImportStored, [Next]_vars
  PROVE  ImportStored'
<1> DEFINE Good == /\ \A v \in Workers :
                        /\ worker'[v].pc \in {"uploaded", "persist"} => objects'[worker'[v].file].body # NoBody
                        /\ worker'[v].pc = "remove" => worker'[v].file \notin assets'
                   /\ \A f \in assets' : objects'[f].body # NoBody
<1>1. SUFFICES ASSUME Timely', kind' = "import" PROVE Good
  BY DEF ImportStored, At, Key
<1>2. Timely /\ stalls = 0
  BY <1>1, TimelyBefore DEF Timely
<1>3. ASSUME kind = "import"
      PROVE  /\ \A v \in Workers :
                  /\ worker[v].pc \in {"uploaded", "persist"} => objects[worker[v].file].body # NoBody
                  /\ worker[v].pc = "remove" => worker[v].file \notin assets
             /\ \A f \in assets : objects[f].body # NoBody
             /\ objects \in [Keys -> [body: Bodies, old: BOOLEAN]] /\ assets \subseteq Files
  BY <1>2, <1>3 DEF ImportStored, At, Key, TypeOK, Bodies
<1>4. ASSUME Aside PROVE Good
  <2>1. kind = "import"
    BY <1>1, <1>4, AsideMoves
  <2>2. QED BY <1>3, <1>4, <2>1, AsideMoves
<1>5. ASSUME NEW w \in Workers, Works(w) PROVE Good
  <2> DEFINE r == worker[w]
             q == worker'[w]
  <2>1. kind = "import" /\ ImportLocal(r, assets)
    BY <1>1, <1>5, WorkMovesJob DEF sourceVars, Locals
  <2>2. \A v \in Workers : v # w => worker'[v].pc = "idle"
    BY <1>2, <1>5, SoleStep
  <2>3. SUFFICES /\ q.pc \in {"uploaded", "persist"} => objects'[q.file].body # NoBody
                 /\ q.pc = "remove" => q.file \notin assets'
                 /\ \A f \in assets' : objects'[f].body # NoBody
    BY <2>2
  <2>4. r.pc \in AtFile => r.file \in Files /\ r.file \in Keys /\ r.file # Artifact
    BY <2>1, CandidateNumbers, FilesAreNumbers DEF ImportLocal, Keys
  <2>5. CASE Minor(w)
    BY <1>3, <2>1, <2>5 DEF Minor, Storing
  <2>6. CASE ImportStoring(w)
    <3>1. CASE q.pc \in {"upload", "check", "fail"} /\ UNCHANGED <<objects, assets>>
      BY <1>3, <2>1, <3>1
    <3>2. CASE Upload(w) /\ r.pc = "upload" /\ To(w, "stat", r.next) /\ assets' = assets
      <4>1. objects' = [objects EXCEPT ![r.file] = Fresh(1)] /\ Fresh(1).body # NoBody
        BY <3>2 DEF Upload, Key, Fresh, NoBody
      <4>2. r.file \in Keys /\ q.pc = "stat"
        BY <2>4, <3>2 DEF AtFile, To
      <4>3. Files \subseteq Keys
        BY DEF Keys
      <4>4. QED BY <1>3, <2>1, <3>2, <4>1, <4>2, <4>3
    <3>3. CASE /\ r.pc = "stat" /\ UNCHANGED <<objects, assets>>
               /\ objects[Key(w)].body # NoBody /\ To(w, "uploaded", r.next)
      BY <1>3, <2>1, <3>3 DEF To, Key
    <3>4. CASE r.pc = "uploaded" /\ UNCHANGED <<objects, assets>> /\ To(w, "persist", r.next)
      BY <1>3, <2>1, <3>4 DEF To
    <3>5. CASE /\ r.pc = "persist" /\ objects' = objects /\ assets' = assets \union {r.file}
               /\ q.pc \in {"check", "flush", "beat"}
      BY <1>3, <2>1, <3>5
    <3>6. QED BY <2>6, <3>1, <3>2, <3>3, <3>4, <3>5, ImportEffects DEF To, Key
  <2>7. CASE Check(w) \/ Remove(w) \/ CheckRaises(w) \/ RemoveFails(w)
    <3>1. assets' = assets
      BY <2>7, CleaningEffects
    <3>2. r.next \in {"idle", "fail", "reject"}
      BY <2>1 DEF ImportLocal
    <3>3. Resumes(w) => q.pc \in {"idle", "fail", "flush", "beat"}
      BY <3>2 DEF Resumes, To, IdleWorker
    <3>4. CASE objects' = objects /\ q.pc \in {"idle", "fail", "flush", "beat", "check"}
      BY <1>3, <2>1, <3>1, <3>4
    <3>5. CASE r.pc = "check" /\ ~Published(Key(w)) /\ To(w, "remove", r.next) /\ objects' = objects
      <4>1. r.file \notin assets
        BY <2>4, <3>5 DEF Published, Key, AtFile
      <4>2. QED BY <1>3, <2>1, <3>1, <3>5, <4>1 DEF To
    <3>6. CASE r.pc = "remove" /\ Resumes(w) /\ Removed(r.file)
      <4>1. r.file \notin assets /\ Files \subseteq Keys
        BY <1>3, <2>1, <3>6 DEF Keys
      <4>2. QED BY <1>3, <2>1, <3>1, <3>3, <3>6, <4>1 DEF Removed
    <3>7. QED BY <2>7, <3>3, <3>4, <3>5, <3>6, CleaningEffects DEF Key, To
  <2>8. kind # "export"
    BY <2>1
  <2>9. QED BY <1>5, <2>5, <2>6, <2>7, <2>8, WorkKinds
<1>6. ASSUME Age \/ \E k \in Keys : SweepFinds(k) \/ SweepRemoves(k) PROVE Good
  <2>1. /\ UNCHANGED <<kind, assets, worker>>
        /\ \A k \in Keys : \/ objects'[k].body = objects[k].body
                           \/ ~Referenced(k) /\ \A w \in Workers : worker[w].pc = "idle"
    BY <1>1, <1>6, SweepMoves
  <2>2. kind = "import" /\ \A w \in Workers : ImportLocal(worker[w], assets)
    BY <1>1, <2>1 DEF Locals
  <2>3. \A f \in assets : f \in Keys /\ Referenced(f)
    BY <1>3, <2>2, FilesAreNumbers DEF Referenced, Keys
  <2>4. \A v \in Workers : worker[v].pc \in {"uploaded", "persist"} => worker[v].file \in Keys
    BY <2>2, CandidateNumbers DEF ImportLocal, AtFile, Keys
  <2>5. QED BY <1>3, <2>1, <2>2, <2>3, <2>4
<1>7. QED BY <1>4, <1>5, <1>6, NextSplit

(* A count grows with the file it is for; nothing is counted on the way.    *)
CountsBefore(w) ==
  /\ worker[w].pc \in AtFile \union PastFile /\ Counts(worker'[w]) = Counts(worker[w])
  /\ Passed(worker'[w]) >= Passed(worker[w])
CountsNow(w) ==
  /\ worker[w].pc \in AtFile /\ Passed(worker'[w]) >= worker[w].file
  /\ assets' = assets
  /\ worker[w].pc = "upload" \/ (worker[w].pc \in {"check", "remove"} /\ worker[w].next = "reject")

LEMMA ImportCounts ==
  ASSUME TypeOK, Locals, NEW w \in Workers, Works(w), kind = "import",
         worker'[w].pc \in AtFile \union PastFile
  PROVE  Counts(worker'[w]) = 0 \/ CountsBefore(w) \/ CountsNow(w)
<1> DEFINE r == worker[w]
           q == worker'[w]
           Goal == Counts(q) = 0 \/ CountsBefore(w) \/ CountsNow(w)
<1>1. /\ r \in Processor /\ ImportLocal(r, assets)
      /\ q.pc \in AtFile \union PastFile /\ IdleWorker.pc \notin AtFile \union PastFile
      /\ r.file \in Nat
  BY ProcessorsTyped, Constants DEF Locals, IdleWorker, AtFile, PastFile, Processor
<1>2. ASSUME q.file = r.file, Counts(q) = Counts(r), r.pc \in AtFile, q.pc \in AtFile PROVE Goal
  BY <1>1, <1>2 DEF CountsBefore, Passed, AtFile, PastFile
<1>3. ASSUME q.file = r.file, Counts(q) = Counts(r), r.pc \in PastFile, q.pc \in PastFile PROVE Goal
  BY <1>1, <1>3 DEF CountsBefore, Passed
<1>4. ASSUME NEW q0, Becomes(w, q0) PROVE q = q0
  BY <1>4, BecomesOne
<1>5. ASSUME NEW pc, Becomes(w, [r EXCEPT !.pc = pc])
      PROVE  q.pc = pc /\ q.file = r.file /\ Counts(q) = Counts(r)
  <2>1. LET q0 == [r EXCEPT !.pc = pc] IN q0.pc = pc /\ q0.file = r.file /\ Counts(q0) = Counts(r)
    BY <1>1, SetFields
  <2>2. QED BY <1>4, <1>5, <2>1
<1>6. ASSUME NEW m \in Nat, NEW n \in Nat, m + n <= 1, Counted(w, m, n), r.pc \in AtFile
      PROVE  Passed(q) >= r.file /\ Counts(q) = Counts(r) + m + n
  <2>1. r.file \in Candidates /\ Counts(r) <= r.file - 1
    BY <1>1, <1>6 DEF ImportLocal, Passed, AtFile, PastFile
  <2>2. q = Passing(r, m, n)
    BY <1>6, CountedLeadsTo
  <2>3. QED BY <1>1, <1>6, <2>1, <2>2, PassingOn
<1>7. ASSUME Counted(w, 0, 0), r.pc \in AtFile PROVE Goal
  <2>1. Passed(q) >= r.file /\ Counts(q) = Counts(r) + 0 + 0
    BY <1>6, <1>7
  <2>2. Counts(r) \in Nat /\ Passed(r) = r.file - 1
    BY <1>1, <1>7, Constants DEF Counts, Processor, Passed, AtFile, PastFile
  <2>3. Passed(q) \in Int
    <3>1. worker' \in [Workers -> Processor]
      BY WorkSteps
    <3>2. QED BY <3>1, Constants DEF Passed, Processor
  <2>4. QED BY <1>1, <1>7, <2>1, <2>2, <2>3 DEF CountsBefore
<1> HIDE DEF Goal
<1>8. ASSUME Boundary(w, "enter", "scan") \/ Boundary(w, "scanned", "list") \/ Boundary(w, "batch", "beat")
      PROVE  Goal
  BY <1>1, <1>2, <1>4, <1>5, <1>8, BoundaryMoves DEF AtFile, PastFile
<1>9. ASSUME \/ Guarded(w, "scan", "scanned", "fail") \/ Guarded(w, "beat", "item", "fail")
             \/ Guarded(w, "flush", "flushed", "fail")
      PROVE  Goal
  <2>1. ASSUME NEW pc, NEW next, Guarded(w, pc, next, "fail")
        PROVE  r.pc = pc /\ q.pc \in {next, "fail"} /\ q.file = r.file /\ Counts(q) = Counts(r)
    <3>1. r.pc = pc /\ (Becomes(w, [r EXCEPT !.pc = next]) \/ Becomes(w, [r EXCEPT !.pc = "fail"]))
      BY <2>1, GuardedMoves
    <3>2. QED BY <1>5, <3>1
  <2>2. "fail" \notin AtFile \union PastFile
    BY DEF AtFile, PastFile
  <2>3. \/ r.pc = "scan" /\ q.pc = "scanned"
        \/ r.pc = "beat" /\ q.pc = "item" /\ q.file = r.file /\ Counts(q) = Counts(r)
        \/ r.pc = "flush" /\ q.pc = "flushed" /\ q.file = r.file /\ Counts(q) = Counts(r)
    BY <1>1, <1>9, <2>1, <2>2
  <2>4. QED BY <1>1, <1>2, <1>3, <2>3 DEF AtFile, PastFile
<1>10. ASSUME (\E pcs : Raise(w, pcs, "fail")) \/ Raise(w, {"uploaded", "persist"}, "check")
       PROVE  Goal
  <2>1. \/ To(w, "fail", "fail")
        \/ r.pc \in {"uploaded", "persist"} /\ To(w, "check", "fail")
    BY <1>10, RaiseMoves, SetBothLeadsTo
  <2>2. QED BY <1>1, <1>2, <2>1 DEF To, AtFile, PastFile
<1>11. ASSUME List(w) PROVE Goal
  <2>1. Counts(r) = 0
    BY <1>1, <1>11 DEF ImportLocal, Listing, List, At
  <2>2. \/ Becomes(w, [r EXCEPT !.pc = "fail"])
        \/ \E f : Becomes(w, [r EXCEPT !.pc = "batch", !.file = f])
    BY <1>11 DEF List, Becomes, TypeOK
  <2>3. ASSUME NEW f PROVE Counts([r EXCEPT !.pc = "batch", !.file = f]) = Counts(r)
    BY <1>1 DEF Processor, Counts
  <2>4. Counts(q) = 0
    BY <1>4, <1>5, <2>1, <2>2, <2>3
  <2>5. QED BY <2>4 DEF Goal
<1>12. ASSUME Reconcile(w) PROVE Goal
  <2>1. r.pc = "item"
    BY <1>12 DEF Reconcile, At
  <2>2. Leave(w) \/ Counted(w, 0, 0) \/ Goto(w, "upload")
    BY <1>12 DEF Reconcile, Reused
  <2>3. QED BY <1>1, <1>2, <1>4, <1>5, <1>7, <2>1, <2>2, LeaveBecomes, GotoBecomes DEF AtFile
<1>13. ASSUME DownloadFails(w) PROVE Goal
  <2>1. r.pc = "upload" /\ assets' = assets /\ Counted(w, 0, 1) /\ r.pc \in AtFile
    BY <1>13 DEF DownloadFails, At, AtFile, storeVars
  <2>2. QED BY <1>6, <2>1 DEF Goal, CountsNow
<1>14. ASSUME ImportStoring(w) PROVE Goal
  <2>1. CASE worker'[w] = Passing(worker[w], 0, 0) /\ r.pc = "persist"
    <3>1. r.pc \in AtFile /\ r.file \in Candidates /\ Counts(r) <= r.file - 1
      BY <1>1, <2>1 DEF ImportLocal, Passed, AtFile, PastFile
    <3>2. Passed(q) >= r.file /\ Counts(q) = Counts(r) + 0 + 0 /\ Passed(q) \in Nat
      BY <1>1, <2>1, <3>1, PassingOn
    <3>3. Counts(r) \in Nat /\ Passed(r) = r.file - 1
      BY <1>1, <3>1, Constants DEF Counts, Processor, Passed, AtFile, PastFile
    <3>4. CountsBefore(w)
      BY <1>1, <3>1, <3>2, <3>3 DEF CountsBefore
    <3>5. QED BY <3>4 DEF Goal
  <2>2. ASSUME r.pc \in {"item", "upload", "stat", "uploaded", "persist"}, NEW next,
               NEW pc \in {"upload", "stat", "uploaded", "persist", "check"}, To(w, pc, next)
        PROVE  Goal
    BY <1>2, <2>2 DEF To, AtFile
  <2>3. ~To(w, "fail", r.next)
    BY <1>1 DEF To, AtFile, PastFile
  <2>4. QED BY <1>14, <2>1, <2>2, <2>3, ImportEffects
<1>15. ASSUME BatchEnds(w) PROVE Goal
  <2>1. r.pc = "flushed" /\ r.pc \in PastFile
    BY <1>15 DEF BatchEnds, At, PastFile
  <2>2. CASE SeesRequest(w)
    BY <1>1, <1>4, <1>15, <2>2, LeaveBecomes DEF BatchEnds
  <2>3. CASE ~SeesRequest(w) /\ Later(r.file) = {}
    <3>1. Becomes(w, [r EXCEPT !.pc = "finish"])
      BY <1>15, <2>3 DEF BatchEnds, Becomes, TypeOK
    <3>2. QED BY <1>3, <1>5, <2>1, <3>1 DEF PastFile
  <2>4. CASE ~SeesRequest(w) /\ Later(r.file) # {}
    <3>1. Becomes(w, [r EXCEPT !.pc = "beat", !.file = First(Later(r.file))])
      BY <1>15, <2>4 DEF BatchEnds, Becomes, TypeOK
    <3>2. CountsBefore(w)
      BY <1>1, <1>4, <2>1, <2>4, <3>1, TakesNext DEF CountsBefore
    <3>3. QED BY <3>2 DEF Goal
  <2>5. QED BY <2>2, <2>3, <2>4
<1>16. ASSUME Finish(w) \/ Fail(w) PROVE Goal
  BY <1>1, <1>4, <1>16, LeaveBecomes DEF Finish, Fail
<1>17. ASSUME Check(w) \/ Remove(w) \/ CheckRaises(w) \/ RemoveFails(w) PROVE Goal
  <2>1. r.pc \in {"check", "remove"} /\ assets' = assets /\ r.pc \in AtFile
    BY <1>17, CleaningEffects DEF AtFile
  <2>2. r.next \in {"idle", "fail", "reject"}
    BY <1>1 DEF ImportLocal
  <2>3. CASE To(w, "remove", r.next) \/ To(w, "check", "fail")
    BY <1>2, <2>1, <2>3 DEF To, AtFile
  <2>4. CASE Resumes(w)
    <3>1. q = Passing(r, 1, 0) /\ r.next = "reject"
      BY <1>1, <2>2, <2>4 DEF Resumes, To, AtFile, PastFile
    <3>2. r.file \in Candidates /\ Counts(r) <= r.file - 1
      BY <1>1, <2>1 DEF ImportLocal, Passed, AtFile, PastFile
    <3>3. Passed(q) >= r.file
      BY <1>1, <3>1, <3>2, PassingOn
    <3>4. QED BY <2>1, <3>1, <3>3 DEF Goal, CountsNow
  <2>5. ~To(w, "fail", r.next)
    BY <1>1 DEF To, AtFile, PastFile
  <2>6. QED BY <1>17, <2>3, <2>4, <2>5, CleaningEffects
<1>18. ASSUME Import(w) PROVE Goal
  <2>1. ASSUME Stat(w) \/ StatRaises(w) \/ Upload(w) \/ Uploaded(w) \/ Persist(w) \/ PersistRaises(w)
        PROVE  Goal
    BY <1>14, <2>1 DEF ImportStoring
  <2>2. QED BY <1>8, <1>9, <1>10, <1>11, <1>12, <1>13, <1>15, <1>16, <1>18, <2>1 DEF Import
<1>19. kind # "export"
  OBVIOUS
<1>20. Goal
  BY <1>16, <1>17, <1>18, <1>19 DEF Works
<1>21. QED BY <1>20 DEF Goal

LEMMA CountedIsMissingStep ==
  ASSUME TypeOK, Locals, Outcomes, Ownership, CountedIsMissing, [Next]_vars
  PROVE  CountedIsMissing'
<1> DEFINE Spared(v) == worker'[v].pc \in {"upload", "stat", "uploaded", "persist"} => worker'[v].file \notin assets'
           Unfit(v) == worker'[v].pc \in {"check", "remove"} /\ worker'[v].next = "reject"
                         => tree'[worker'[v].file] # "fit"
           Missing(v) == worker'[v].pc \in AtFile \union PastFile /\ Counts(worker'[v]) > 0 =>
                           \E g \in Candidates' : g <= Passed(worker'[v]) /\ g \notin assets'
           Good(v) == Spared(v) /\ Unfit(v) /\ Missing(v)
<1>1. SUFFICES ASSUME stalls' = 0, kind' = "import", NEW v \in Workers PROVE Good(v)
  BY DEF CountedIsMissing, Key
<1>2. stalls = 0
  BY <1>1, StallsCount
<1>3. kind = "import" =>
        /\ worker[v].pc \in {"upload", "stat", "uploaded", "persist"} => worker[v].file \notin assets
        /\ worker[v].pc \in {"check", "remove"} /\ worker[v].next = "reject" => tree[worker[v].file] # "fit"
        /\ worker[v].pc \in AtFile \union PastFile /\ Counts(worker[v]) > 0 =>
             \E g \in Candidates : g <= Passed(worker[v]) /\ g \notin assets
  BY <1>2 DEF CountedIsMissing, Key
<1>4. ASSUME UNCHANGED <<kind, tree, manifest, assets>>,
             worker'[v] = worker[v] \/ (worker'[v].pc \in {"enter", "idle"})
      PROVE  Good(v)
  <2>1. Candidates' = Candidates
    BY <1>4, SameCandidates
  <2>2. QED BY <1>1, <1>3, <1>4, <2>1 DEF AtFile, PastFile
<1>5. CASE Aside
  BY <1>4, <1>5, AsideMoves
<1>6. CASE Age \/ (\E k \in Keys : SweepFinds(k) \/ SweepRemoves(k))
  BY <1>4, <1>6 DEF Age, SweepFinds, SweepRemoves, sourceVars, storeVars
<1>7. ASSUME NEW w \in Workers, Works(w), v # w PROVE Good(v)
  <2>1. worker'[v].pc = "idle"
    BY <1>2, <1>7, SoleStep
  <2>2. QED BY <2>1 DEF AtFile, PastFile
<1>8. ASSUME Works(v) PROVE Good(v)
  <2> DEFINE r == worker[v]
             q == worker'[v]
  <2>1. kind = "import" /\ tree' = tree /\ Candidates' = Candidates
    BY <1>1, <1>8, WorkMovesJob, SameCandidates DEF sourceVars
  <2>2. /\ r \in Processor /\ q \in Processor /\ ImportLocal(r, assets)
        /\ IdleWorker.pc = "idle"
    BY <1>8, <2>1, WorkSteps, ProcessorsTyped DEF Locals, IdleWorker
  <2>3. Minor(v) \/ ImportStoring(v) \/ Check(v) \/ Remove(v) \/ CheckRaises(v) \/ RemoveFails(v)
    BY <1>8, <2>1, WorkKinds
  <2>4. assets' = assets \/ (r.pc = "persist" /\ assets' = assets \union {r.file})
    BY <2>3, ImportEffects, CleaningEffects DEF Minor, Key
  <2>5. Spared(v) /\ Unfit(v)
    <3>1. CASE Minor(v)
      BY <3>1 DEF Minor, Storing
    <3>2. CASE ImportStoring(v)
      BY <1>3, <2>1, <3>2, ImportEffects DEF To, Key
    <3>3. CASE Check(v) \/ Remove(v) \/ CheckRaises(v) \/ RemoveFails(v)
      <4>1. r.next \in {"idle", "fail", "reject"}
        BY <2>2 DEF ImportLocal
      <4>2. QED BY <1>3, <2>1, <2>2, <3>3, <4>1, CleaningEffects DEF To, Resumes
    <3>4. QED BY <2>3, <3>1, <3>2, <3>3
  <2>6. ASSUME q.pc \in AtFile \union PastFile, Counts(q) > 0
        PROVE  \E g \in Candidates : g <= Passed(q) /\ g \notin assets'
    <3>1. CountsBefore(v) \/ CountsNow(v)
      BY <1>8, <2>1, <2>6, ImportCounts
    <3>2. r.file \in Nat /\ Passed(r) \in Int /\ Passed(q) \in Int
      BY <2>2, Constants DEF Processor, Passed
    <3>3. CASE CountsBefore(v)
      <4>1. PICK g \in Candidates : g <= Passed(r) /\ g \notin assets
        BY <1>3, <2>1, <2>6, <3>3 DEF CountsBefore
      <4>2. g <= Passed(q) /\ g \in Nat
        BY <3>2, <3>3, <4>1, CandidateNumbers DEF CountsBefore
      <4>3. r.pc = "persist" => g # r.file
        BY <3>2, <4>1, <4>2 DEF Passed, PastFile
      <4>4. QED BY <2>4, <4>1, <4>2, <4>3
    <3>4. CASE CountsNow(v)
      <4>1. r.file \in Candidates
        BY <2>2, <3>4 DEF CountsNow, ImportLocal
      <4>2. r.file \notin assets
        BY <1>3, <2>1, <3>4 DEF CountsNow, Outcomes
      <4>3. QED BY <3>4, <4>1, <4>2 DEF CountsNow
    <3>5. QED BY <3>1, <3>3, <3>4
  <2>7. QED BY <2>1, <2>5, <2>6
<1>9. QED BY <1>5, <1>6, <1>7, <1>8, NextSplit

(* What a row refers to it goes on referring to.                            *)
LEMMA ReferencedGrows ==
  ASSUME TypeOK, Locals, NEW w \in Workers, Works(w), NEW k, Referenced(k)
  PROVE  Referenced(k)'
<1>1. assets \subseteq assets'
  BY WorkSteps
<1>2. result # NoBody => result' # NoBody
  <2>1. CASE result' = result
    BY <2>1
  <2>2. CASE result' # result
    <3>1. kind = "export" /\ ExportStoring(w)
      BY <2>2, WorkKinds, ImportEffects, CleaningEffects DEF Minor
    <3>2. worker[w].pc = "complete" /\ result' = worker[w].body
      BY <2>2, <3>1, ExportEffects DEF Completes
    <3>3. QED BY <3>1, <3>2 DEF Locals, ExportLocal
  <2>3. QED BY <2>1, <2>2
<1>3. QED BY <1>1, <1>2 DEF Referenced

(* The processor that has an object in hand keeps it there, or a row refers *)
(* to it, or it removes it.                                                 *)
LEMMA HandsOver ==
  ASSUME TypeOK, Locals, NEW w \in Workers, Works(w), worker[w].pc \in Storing,
         NEW k, k = worker[w].file
  PROVE  \/ worker'[w].pc \in Storing /\ k = worker'[w].file
         \/ Referenced(k) \/ Referenced(k)' \/ k \in strays'
         \/ objects[k].body = NoBody /\ objects' = objects
         \/ Removed(k)
<1> DEFINE r == worker[w]
           q == worker'[w]
<1>1. CASE kind = "export" /\ ExportStoring(w)
  <2>1. ExportLocal(r)
    BY <1>1 DEF Locals
  <2>2. r.file = Artifact /\ (r.pc = "complete" => r.body # NoBody)
    BY <2>1 DEF ExportLocal
  <2>3. CASE r.pc = "complete" /\ result' = r.body
    BY <2>2, <2>3 DEF Referenced
  <2>4. ASSUME NEW pc \in {"check", "complete"}, NEW next, To(w, pc, next)
        PROVE  q.pc \in Storing /\ k = q.file
    BY <2>4 DEF To, Storing
  <2>5. r.pc \notin {"beat", "write", "cancel"}
    BY DEF Storing
  <2>6. \/ \E next : To(w, "check", next)
        \/ \E next : To(w, "complete", next)
        \/ r.pc = "complete" /\ result' = r.body
    BY <1>1, <2>5, ExportEffects DEF Completes
  <2>7. QED BY <2>3, <2>4, <2>6
<1>2. CASE kind = "import" /\ ImportStoring(w)
  <2>1. ImportLocal(r, assets)
    BY <1>2 DEF Locals
  <2>2. r.pc = "persist" => r.file \in Files
    BY <2>1, CandidatesAreFiles DEF ImportLocal, AtFile
  <2>3. CASE r.pc = "persist" /\ Key(w) \in assets'
    BY <2>2, <2>3, FilesAreNumbers DEF Referenced, Key
  <2>4. ASSUME NEW pc \in {"check", "uploaded", "persist"}, NEW next, To(w, pc, next)
        PROVE  q.pc \in Storing /\ k = q.file
    BY <2>4 DEF To, Storing
  <2>5. r.pc \notin {"item", "upload"}
    BY DEF Storing
  <2>6. \/ \E pc \in {"check", "uploaded", "persist"} : \E next : To(w, pc, next)
        \/ r.pc = "persist" /\ Key(w) \in assets'
        \/ r.pc = "stat" /\ objects' = objects /\ (objects[Key(w)].body = NoBody \/ Key(w) \in strays')
    BY <1>2, <2>5, ImportEffects
  <2>7. QED BY <2>3, <2>4, <2>6 DEF Key
<1>3. CASE Check(w) \/ Remove(w) \/ CheckRaises(w) \/ RemoveFails(w)
  <2>1. k = Key(w) /\ (Published(Key(w)) => Referenced(k))
    BY DEF Published, Referenced, Key
  <2>2. To(w, "remove", r.next) \/ To(w, "check", "fail") => q.pc \in Storing /\ k = q.file
    BY DEF To, Storing
  <2>3. QED BY <1>3, <2>1, <2>2, CleaningEffects
<1>4. QED BY <1>1, <1>2, <1>3, WorkKinds DEF Minor

LEMMA CrashesBefore ==
  ASSUME TypeOK, [Next]_vars, crashes' = 0
  PROVE  crashes = 0 /\ \A w \in Workers : ~Crash(w)
<1>1. crashes \in Nat
  BY Constants DEF TypeOK
<1>2. \A w \in Workers : ~Crash(w)
  BY <1>1 DEF Crash
<1>3. ASSUME NEW w \in Workers, Claim(w) \/ Works(w) PROVE crashes = 0
  BY <1>3, WorkMovesJob DEF Claim, bounds
<1>4. ASSUME \/ UNCHANGED vars \/ Stall \/ Recover \/ Cancel \/ Retry \/ Edit \/ Age
             \/ (\E k \in Keys : SweepFinds(k) \/ SweepRemoves(k))
      PROVE  crashes = 0
  BY <1>4 DEF vars, Stall, Recover, Cancel, Retry, Edit, Age, SweepFinds, SweepRemoves, bounds
<1>5. QED
  BY <1>2, <1>3, <1>4 DEF Next

LEMMA ObjectsKeptStep ==
  ASSUME TypeOK, Locals, Ownership, ObjectsKept, [Next]_vars
  PROVE  ObjectsKept'
<1> DEFINE Held(k) == \E u \in Workers : worker'[u].pc \in Storing /\ k = worker'[u].file
<1>1. SUFFICES ASSUME crashes' = 0, stalls' = 0, NEW k \in Keys, objects'[k].body # NoBody
               PROVE  Referenced(k)' \/ k \in strays' \/ Held(k)
  BY DEF ObjectsKept, InHand, Key
<1>2. stalls = 0 /\ crashes = 0 /\ \A w \in Workers : ~Crash(w)
  BY <1>1, StallsCount, CrashesBefore
<1>3. objects \in [Keys -> [body: Bodies, old: BOOLEAN]]
  BY DEF TypeOK, Bodies
<1>4. objects[k].body # NoBody =>
        Referenced(k) \/ k \in strays \/ \E u \in Workers : worker[u].pc \in Storing /\ k = worker[u].file
  BY <1>2 DEF ObjectsKept, InHand, Key
<1>5. ASSUME objects'[k].body = objects[k].body, UNCHANGED <<assets, result>>, k \in strays => k \in strays',
             \A u \in Workers : worker[u].pc \in Storing => worker'[u] = worker[u]
      PROVE  Referenced(k)' \/ k \in strays' \/ Held(k)
  BY <1>1, <1>4, <1>5 DEF Referenced
<1>6. CASE UNCHANGED vars \/ Stall \/ Recover \/ Cancel \/ Retry \/ Edit
  BY <1>5, <1>6 DEF vars, Stall, Recover, Cancel, Retry, Edit, storeVars, jobVars
<1>7. ASSUME NEW w \in Workers, Claim(w) PROVE Referenced(k)' \/ k \in strays' \/ Held(k)
  <2>1. \A u \in Workers : worker[u].pc \in Storing => worker'[u] = worker[u]
    BY <1>7 DEF Claim, At, Storing, TypeOK
  <2>2. QED BY <1>5, <1>7, <2>1 DEF Claim, storeVars
<1>8. CASE Age
  <2>1. objects'[k].body = objects[k].body
    BY <1>3, <1>8 DEF Age
  <2>2. QED BY <1>5, <1>8, <2>1 DEF Age, jobVars
<1>9. ASSUME NEW j \in Keys, SweepFinds(j) \/ SweepRemoves(j) PROVE Referenced(k)' \/ k \in strays' \/ Held(k)
  <2>1. objects'[k].body = objects[k].body /\ (k \in strays => k \in strays')
    BY <1>1, <1>3, <1>9 DEF SweepFinds, SweepRemoves, Removed, storeVars, NoObject
  <2>2. QED BY <1>5, <1>9, <2>1 DEF SweepFinds, SweepRemoves, jobVars, storeVars
<1>10. ASSUME NEW w \in Workers, Works(w) PROVE Referenced(k)' \/ k \in strays' \/ Held(k)
  <2>1. /\ \A u \in Workers : u # w => worker[u].pc = "idle"
        /\ kind \in {"export", "import"} /\ worker[w] \in Processor
    BY <1>2, <1>10, SoleStep DEF TypeOK
  <2>2. ~Removed(k)
    BY <1>1, <1>3 DEF Removed, NoObject
  <2>3. ASSUME (kind = "export" /\ Write(w)) \/ (kind = "import" /\ Upload(w)), k = worker[w].file
        PROVE  Held(k)
    BY <2>3, GotoLeadsTo DEF Write, Upload, To, Storing
  <2>4. kind = "export" /\ Write(w) => worker[w].file = Artifact
    BY DEF Locals, ExportLocal
  <2>5. CASE objects[k].body # NoBody
    <3>1. Referenced(k) \/ k \in strays \/ (worker[w].pc \in Storing /\ k = worker[w].file)
      BY <1>4, <2>1, <2>5 DEF Storing
    <3>2. CASE Referenced(k)
      BY <1>10, <3>2, ReferencedGrows
    <3>3. CASE k \in strays
      <4>1. \/ strays \subseteq strays'
            \/ (kind = "export" /\ Write(w)) /\ strays' = strays \ {Artifact}
            \/ (kind = "import" /\ Upload(w)) /\ strays' = strays \ {worker[w].file}
            \/ Removed(worker[w].file)
        BY <1>10, WorkMovesStore DEF Write, Upload, Remove, Key, Removed
      <4>2. QED BY <2>2, <2>3, <2>4, <3>3, <4>1 DEF Removed
    <3>4. CASE worker[w].pc \in Storing /\ k = worker[w].file
      BY <1>10, <2>2, <2>5, <3>2, <3>4, HandsOver
    <3>5. QED BY <3>1, <3>2, <3>3, <3>4
  <2>6. CASE objects[k].body = NoBody
    <3>1. (kind = "export" /\ Write(w)) \/ (kind = "import" /\ Upload(w))
      <4>1. ~Remove(w)
        BY <1>1, <1>3, <2>6 DEF Remove, Removed, NoObject
      <4>2. QED BY <1>1, <1>10, <2>6, <4>1, WorkMovesStore
    <3>2. k = worker[w].file
      <4>1. CASE kind = "export" /\ Write(w)
        BY <1>1, <1>3, <2>4, <2>6, <4>1 DEF Write
      <4>2. CASE kind = "import" /\ Upload(w)
        BY <1>1, <1>3, <2>6, <4>2 DEF Upload, Key
      <4>3. QED BY <3>1, <4>1, <4>2
    <3>3. QED BY <2>3, <3>1, <3>2
  <2>7. QED BY <2>5, <2>6
<1>11. QED BY <1>2, <1>6, <1>7, <1>8, <1>9, <1>10 DEF Next

-----------------------------------------------------------------------------
(* No processor walks away from a RUNNING Job.                              *)

LEMMA RequestEndsRunning ==
  ASSUME TypeOK, NEW w \in Workers, CanWrite(job, Token(w)), Requested, Acknowledged(w)
  PROVE  job' # job
<1>1. job \in Row
  BY DEF TypeOK
<1>2. CanAckCancel(job, Token(w))
  BY DEF CanWrite, Requested, CanAckCancel
<1>3. job' = Finished(job, "CANCELED") /\ job.status = "RUNNING"
  BY <1>2 DEF Acknowledged, CanWrite
<1>4. Finished(job, "CANCELED").status = "CANCELED"
  BY <1>1, FinishedFields
<1>5. QED BY <1>3, <1>4

LEMMA LeavesRunning ==
  ASSUME TypeOK, Locals, NEW w \in Workers, Works(w), CanWrite(job, Token(w)), job' = job,
         ~GivingUp(w), At(w, "cancel") => Requested
  PROVE  worker'[w].pc # "idle"
<1> DEFINE r == worker[w]
           q == worker'[w]
<1>1. r \in Processor /\ job \in Row /\ job.status = "RUNNING"
  BY ProcessorsTyped DEF TypeOK, CanWrite
<1>2. ASSUME NEW outcome \in Terminal, job' = Finished(job, outcome) PROVE FALSE
  <2>1. Finished(job, outcome).status = outcome
    BY <1>1, FinishedFields
  <2>2. job.status = outcome
    BY <1>2, <2>1
  <2>3. QED BY <1>1, <2>2 DEF Terminal
<1>3. Requested => ~Acknowledged(w)
  BY RequestEndsRunning
<1>4. ASSUME NEW pc, pc # "idle", Becomes(w, [r EXCEPT !.pc = pc]) PROVE q.pc # "idle"
  <2>1. [r EXCEPT !.pc = pc].pc = pc
    BY <1>1, SetFields
  <2>2. QED BY <1>4, <2>1, BecomesOne
<1>5. ASSUME NEW pc, NEW next, next # "idle", Boundary(w, pc, next) PROVE q.pc # "idle"
  BY <1>3, <1>4, <1>5, BoundaryMoves DEF SeesRequest
<1>6. ASSUME NEW pc, NEW next, NEW refused, next # "idle", Guarded(w, pc, next, refused) PROVE q.pc # "idle"
  BY <1>4, <1>6, GuardedMoves
<1>7. ASSUME NEW pc, NEW next, next # "idle", Raise(w, pc, next) PROVE q.pc # "idle"
  BY <1>7, RaiseMoves, SetBothLeadsTo DEF To
<1>8. ASSUME Build(w) PROVE q.pc # "idle"
  <2>1. Becomes(w, [r EXCEPT !.pc = "built", !.body = data])
    BY <1>8 DEF Build, Becomes, TypeOK
  <2>2. [r EXCEPT !.pc = "built", !.body = data].pc = "built"
    BY <1>1 DEF Processor
  <2>3. QED BY <2>1, <2>2, BecomesOne
<1>9. ~CancelCleaned(w) /\ ~CompleteExport(w) /\ ~Finish(w) /\ ~Fail(w)
  <2>1. ~CancelCleaned(w)
    BY <1>3 DEF CancelCleaned
  <2>2. "COMPLETED" \in Terminal /\ "FAILED" \in Terminal
    BY DEF Terminal
  <2>3. ~CompleteExport(w)
    BY <1>2, <2>2 DEF CompleteExport
  <2>4. ~Finish(w) /\ ~Fail(w)
    BY <1>2, <2>2 DEF Finish, Fail, Failed
  <2>5. QED BY <2>1, <2>3, <2>4
<1>10. ASSUME ExportStoring(w) PROVE q.pc # "idle"
  <2>1. ~Completes(w)
    BY <1>2 DEF Completes, Terminal
  <2>2. QED BY <1>10, <2>1, ExportEffects DEF To
<1>11. ASSUME List(w) \/ BatchEnds(w) PROVE q.pc # "idle"
  <2>1. \/ Becomes(w, [r EXCEPT !.pc = "fail"])
        \/ Becomes(w, [r EXCEPT !.pc = "finish"])
        \/ \E pc \in {"batch", "beat"} : \E f : Becomes(w, [r EXCEPT !.pc = pc, !.file = f])
    <3>1. CASE List(w)
      BY <3>1 DEF List, Becomes, TypeOK
    <3>2. CASE BatchEnds(w)
      <4>1. ~SeesRequest(w)
        BY <1>3, <3>2 DEF BatchEnds, SeesRequest
      <4>2. QED BY <3>2, <4>1 DEF BatchEnds, Becomes, TypeOK
    <3>3. QED BY <1>11, <3>1, <3>2
  <2>2. ASSUME NEW pc, NEW f PROVE [r EXCEPT !.pc = pc, !.file = f].pc = pc
    BY <1>1 DEF Processor
  <2>3. ASSUME NEW pc \in {"batch", "beat"}, NEW f, Becomes(w, [r EXCEPT !.pc = pc, !.file = f])
        PROVE  q.pc # "idle"
    <3>1. [r EXCEPT !.pc = pc, !.file = f].pc = pc
      BY <2>2
    <3>2. q = [r EXCEPT !.pc = pc, !.file = f]
      BY <2>3, BecomesOne
    <3>3. QED BY <2>3, <3>1, <3>2
  <2>4. QED BY <2>1, <2>3, <1>4
<1>12. ASSUME Reconcile(w) PROVE q.pc # "idle"
  <2>1. ~SeesRequest(w)
    BY <1>3, <1>12 DEF Reconcile, SeesRequest
  <2>2. Counted(w, 0, 0) \/ Goto(w, "upload")
    BY <1>12, <2>1 DEF Reconcile, Reused
  <2>3. QED BY <1>4, <2>2, GotoBecomes, CountedLeadsTo
<1>13. ASSUME DownloadFails(w) PROVE q.pc # "idle"
  BY <1>13, CountedLeadsTo DEF DownloadFails
<1>14. ASSUME ImportStoring(w) PROVE q.pc # "idle"
  BY <1>14, ImportEffects DEF To
<1>15. ASSUME Check(w) \/ Remove(w) \/ CheckRaises(w) \/ RemoveFails(w) PROVE q.pc # "idle"
  BY <1>15, CleaningEffects DEF Resumes, To, GivingUp
<1>16. ASSUME Export(w) PROVE q.pc # "idle"
  BY <1>5, <1>6, <1>7, <1>8, <1>9, <1>10, <1>16 DEF Export, ExportStoring
<1>17. ASSUME Import(w) PROVE q.pc # "idle"
  <2>1. ASSUME Stat(w) \/ StatRaises(w) \/ Upload(w) \/ Uploaded(w) \/ Persist(w) \/ PersistRaises(w)
        PROVE  q.pc # "idle"
    BY <1>14, <2>1 DEF ImportStoring
  <2>2. QED BY <1>5, <1>6, <1>7, <1>9, <1>11, <1>12, <1>13, <1>17, <2>1 DEF Import
<1>18. QED BY <1>9, <1>15, <1>16, <1>17 DEF Works

LEMMA GivesUp ==
  ASSUME TypeOK, Locals, NEW w \in Workers, Works(w), job' = job
  PROVE  /\ Canceling(w)' => Canceling(w) \/ Requested
         /\ GivingUp(w)' => GivingUp(w) \/ ~CanWrite(job, Token(w))
<1> DEFINE r == worker[w]
           q == worker'[w]
           Cancels(s) == s.pc = "cancel" \/ (s.pc \in {"check", "remove"} /\ s.next = "cancel")
           Gives(s) == s.pc \in {"check", "remove"} /\ s.next = "idle"
<1>1. SUFFICES /\ Cancels(q) => Cancels(r) \/ Requested
               /\ Gives(q) => Gives(r) \/ ~CanWrite(job, Token(w))
  BY DEF Canceling, GivingUp, At
<1>2. CASE Minor(w)
  BY <1>2 DEF Minor, Storing
<1>3. CASE kind = "export" /\ ExportStoring(w)
  BY <1>3, ExportEffects DEF To, IdleWorker
<1>4. CASE kind = "import" /\ ImportStoring(w)
  <2>1. SeesRequest(w) /\ Acknowledged(w) => ~CanWrite(job, Token(w))
    BY RequestEndsRunning DEF SeesRequest
  <2>2. QED BY <1>4, <2>1, ImportEffects DEF To
<1>5. CASE Check(w) \/ Remove(w) \/ CheckRaises(w) \/ RemoveFails(w)
  <2>1. r.next \in {"idle", "fail", "cancel", "reject"}
    BY DEF Locals, ExportLocal, ImportLocal, TypeOK
  <2>2. QED BY <1>5, <2>1, CleaningEffects DEF To, Resumes, IdleWorker
<1>6. QED BY <1>2, <1>3, <1>4, <1>5, WorkKinds

LEMMA JobsKeptStep ==
  ASSUME TypeOK, Locals, Ownership, JobsKept, [Next]_vars
  PROVE  JobsKept'
<1> DEFINE Good == /\ job'.status = "RUNNING" => \E w \in Workers : Holds(w)'
                   /\ \A w \in Workers : Holds(w)' =>
                        /\ Canceling(w)' => Requested'
                        /\ GivingUp(w)' => job'.status # "RUNNING"
<1>1. SUFFICES ASSUME crashes' = 0, stalls' = 0 PROVE Good
  BY DEF JobsKept
<1>2. stalls = 0 /\ crashes = 0 /\ ~Stall /\ (\A w \in Workers : ~Crash(w)) /\ job \in Row
  BY <1>1, StallsCount, CrashesBefore DEF TypeOK
<1>3. /\ job.status = "RUNNING" => \E w \in Workers : Holds(w)
      /\ \A w \in Workers : Holds(w) =>
           /\ Canceling(w) => Requested
           /\ GivingUp(w) => job.status # "RUNNING"
  BY <1>2 DEF JobsKept
<1>4. ASSUME job' = job, worker' = worker PROVE Good
  BY <1>3, <1>4 DEF Holds, Token, Canceling, GivingUp, Requested, At
<1>5. ASSUME NEW w \in Workers, Works(w) PROVE Good
  <2>1. /\ Holds(w) \/ IsOver
        /\ \A v \in Workers : v # w => worker[v].pc = "idle" /\ worker'[v].pc = "idle"
    BY <1>2, <1>5, SoleStep
  <2>2. Parts(w) /\ IdleWorker.pc = "idle"
    BY <1>5, WorkOwns DEF IdleWorker
  <2>3. CASE EndsJob(w)
    <3>1. job'.status \in Terminal
      BY <1>2, <2>3, FinishedFields DEF EndsJob
    <3>2. QED BY <3>1 DEF Holds, Terminal, Active
  <2>4. CASE job' = job
    <3>1. Canceling(w)' \/ GivingUp(w)' => worker'[w].pc # "idle"
      BY DEF Canceling, GivingUp, At
    <3>2. Holds(w)' => ~IsOver'
      BY DEF Holds, IsOver, Active
    <3>3. ASSUME Holds(w)', worker'[w].pc # "idle" PROVE Holds(w)
      BY <2>2, <2>4, <3>2, <3>3 DEF Parts, GoesOn, ClearsOff, Holds, Token
    <3>4. ASSUME job.status = "RUNNING" PROVE Holds(w)'
      <4>1. Holds(w)
        BY <2>1, <3>4 DEF IsOver
      <4>2. CanWrite(job, Token(w)) /\ ~GivingUp(w) /\ (At(w, "cancel") => Requested)
        BY <1>3, <3>4, <4>1 DEF Holds, CanWrite, Canceling
      <4>3. worker'[w].pc # "idle"
        BY <1>5, <2>4, <4>2, LeavesRunning
      <4>4. QED BY <2>2, <2>4, <3>4, <4>1, <4>3 DEF Parts, GoesOn, ClearsOff, Holds, Token, IsOver
    <3>5. ASSUME Holds(w)' PROVE (Canceling(w)' => Requested') /\ (GivingUp(w)' => job'.status # "RUNNING")
      <4>1. SUFFICES ASSUME worker'[w].pc # "idle"
                     PROVE  (Canceling(w)' => Requested') /\ (GivingUp(w)' => job'.status # "RUNNING")
        BY <3>1
      <4>2. Holds(w)
        BY <3>3, <3>5, <4>1
      <4>3. CanWrite(job, Token(w)) <=> job.status = "RUNNING"
        BY <4>2 DEF Holds, CanWrite
      <4>4. Requested' <=> Requested
        BY <2>4 DEF Requested
      <4>5. QED BY <1>3, <1>5, <2>4, <4>2, <4>3, <4>4, GivesUp
    <3>6. \A v \in Workers : v # w => ~Canceling(v)' /\ ~GivingUp(v)'
      BY <2>1 DEF Canceling, GivingUp, At
    <3>7. QED BY <2>4, <3>4, <3>5, <3>6
  <2>5. QED BY <1>5, <2>3, <2>4, WorkMovesJob
<1>6. ASSUME \A w \in Workers : worker'[w].pc \in {"idle", "enter"},
             job'.status = "RUNNING" => \E w \in Workers : Holds(w)'
      PROVE  Good
  BY <1>6 DEF Canceling, GivingUp, At
<1>7. ASSUME NEW w \in Workers, Claim(w) PROVE Good
  <2>1. \A v \in Workers : worker[v].pc = "idle"
    BY <1>2, <1>7, NobodyWorks DEF Claim, CanClaim, Claimable, Active, IsOver, At
  <2>2. \A v \in Workers : worker'[v].pc \in {"idle", "enter"}
    BY <1>7, <2>1 DEF Claim, TypeOK, IdleWorker
  <2>3. Holds(w)'
    <3>1. claims + 1 # NoToken /\ worker'[w].token = claims + 1
      BY <1>7, Constants DEF Claim, TypeOK, IdleWorker, NoToken
    <3>2. QED BY <1>2, <1>7, <3>1 DEF Claim, Claimed, Holds, CurrentLease, Token, Row, Active
  <2>4. QED BY <1>6, <2>2, <2>3
<1>8. CASE Recover \/ Retry
  <2>1. worker' = worker /\ \A v \in Workers : worker[v].pc = "idle"
    BY <1>2, <1>8, NobodyWorks
       DEF Recover, Retry, CanRetryInPlace, CanDeadLetter, Recoverable, LeaseOver, Active, IsOver, At
  <2>2. job'.status # "RUNNING"
    BY <1>2, <1>8 DEF Recover, Retry, BackToRetrying, Finished, Unlocked, QueuedRow, AbsentRow, Row
  <2>3. QED BY <1>6, <2>1, <2>2
<1>9. CASE Cancel
  <2>1. job'.status # "RUNNING" /\ job'.cancelRequested
    BY <1>2, <1>9 DEF Cancel, CancelRow, Finished, Unlocked, Row
  <2>2. QED BY <2>1 DEF Requested
<1>10. CASE UNCHANGED vars \/ Edit \/ Age \/ (\E k \in Keys : SweepFinds(k) \/ SweepRemoves(k))
  BY <1>4, <1>10 DEF vars, Edit, Age, SweepFinds, SweepRemoves, jobVars
<1>11. QED
  BY <1>2, <1>5, <1>7, <1>8, <1>9, <1>10 DEF Next

-----------------------------------------------------------------------------
(* The theorems.                                                            *)

LEMMA InitInv == Init => IInv
<1> SUFFICES ASSUME Init PROVE IInv
  OBVIOUS
<1>1. TypeOK /\ Locals
  BY InitTypes
<1>2. /\ \A w \in Workers : worker[w] = IdleWorker
      /\ job.status = "QUEUED" /\ result = NoBody /\ assets = {} /\ sweep = {}
      /\ \A k \in Keys : objects[k] = NoObject
  BY DEF Init, QueuedRow, AbsentRow
<1>3. Outcomes
  BY <1>2 DEF Outcomes
<1>4. IdleWorker.pc = "idle" /\ NoObject.body = NoBody /\ ~NoObject.old
  BY DEF IdleWorker, NoObject
<1>5. Ownership /\ SweepApart
  BY <1>2, <1>4 DEF Ownership, SweepApart, At
<1>6. ExportStored /\ ImportStored
  BY <1>2, <1>4 DEF ExportStored, ImportStored, At
<1>7. CountedIsMissing /\ ObjectsKept
  BY <1>2, <1>4 DEF CountedIsMissing, ObjectsKept, AtFile, PastFile
<1>8. JobsKept
  BY <1>2, <1>4 DEF JobsKept, Holds, Active
<1>9. QED BY <1>1, <1>3, <1>5, <1>6, <1>7, <1>8 DEF IInv

(* The invariant the others follow from: a processor's record is lawful, a  *)
(* row says what was done, one processor at a time holds the Job, and what  *)
(* is stored, counted and owed is in a row or in that processor's hands.    *)
THEOREM ArtifactInvariant == Spec => []IInv
<1>1. ASSUME IInv, [Next]_vars PROVE IInv'
  <2>1. TypeOK' /\ Locals' /\ Outcomes' /\ Ownership' /\ SweepApart'
    BY <1>1, StepTypes, OutcomesStep, OwnershipStep, SweepApartStep DEF IInv
  <2>2. ExportStored' /\ ImportStored'
    BY <1>1, ExportStoredStep, ImportStoredStep DEF IInv
  <2>3. CountedIsMissing' /\ ObjectsKept' /\ JobsKept'
    BY <1>1, CountedIsMissingStep, ObjectsKeptStep, JobsKeptStep DEF IInv
  <2>4. QED BY <2>1, <2>2, <2>3 DEF IInv
<1>2. QED BY <1>1, InitInv, PTL DEF Spec

(* Every variable keeps its type: no file is counted twice (the counts stay *)
(* within the files), and the loop takes candidates only.                   *)
THEOREM ArtifactTypesHold == Spec => []TypeOK
<1>1. IInv => TypeOK  BY DEF IInv
<1>2. QED BY <1>1, ArtifactInvariant, PTL

(* What a COMPLETED export offers for download is what the attempt that     *)
(* completed it built (export-dataset.ts 143-155 and the completion), while *)
(* no attempt outlives its lease, whatever the sweep takes away between     *)
(* attempts.                                                                *)
THEOREM CompletedExportsHaveArtifacts == Spec => []CompletedHasArtifact
<1>1. IInv => CompletedHasArtifact
  BY DEF IInv, Outcomes, ExportStored, CompletedHasArtifact
<1>2. QED BY <1>1, ArtifactInvariant, PTL

(* No cleanup, retry or cancellation takes away the object of an Asset      *)
(* (import-dataset.ts safeCleanupUnpublishedObject), nor does a pass of the *)
(* sweep that overlaps no attempt, while no attempt outlives its lease.     *)
THEOREM AssetsHaveObjects == Spec => []AssetHasObject
<1>1. ASSUME IInv PROVE AssetHasObject
  <2>1. kind \in {"export", "import"}
    BY <1>1 DEF IInv, TypeOK
  <2>2. QED BY <1>1, <2>1 DEF IInv, Outcomes, ImportStored, AssetHasObject
<1>2. QED BY <1>1, ArtifactInvariant, PTL

(* Where nothing was skipped, detection refused no file of the listing.     *)
LEMMA SkippedNone ==
  ASSUME Skipped = 0
  PROVE  Listed = Candidates
<1>1. IsFiniteSet(Listed \ Candidates) /\ Cardinality(Listed \ Candidates) = 0
  BY FilesAreFinite DEF Skipped, Listed
<1>2. Listed \ Candidates = {}
  BY <1>1, FS_EmptySet
<1>3. QED BY <1>2 DEF Candidates

(* A COMPLETED import made an Asset of every file its listing passed and of *)
(* no other, over however many attempts, crashes and lost leases.           *)
THEOREM CompletedImportsAreComplete == Spec => []CompletedImportIsComplete
<1>1. ASSUME IInv, kind = "import", job.status = "COMPLETED"
      PROVE  assets = Listed
  <2>1. Candidates \subseteq assets /\ assets \subseteq Candidates /\ Skipped = 0
    BY <1>1 DEF IInv, Outcomes
  <2>2. QED BY <2>1, SkippedNone
<1>2. IInv => CompletedImportIsComplete
  BY <1>1 DEF CompletedImportIsComplete
<1>3. QED BY <1>2, ArtifactInvariant, PTL

(* A processor that returns leaves no RUNNING Job, and no object without a  *)
(* row but the strays: those whose put or stat gave no answer, and those    *)
(* the cleanup could not look up or remove.                                 *)
THEOREM NothingIsLeftBehind == Spec => []NothingLeftBehind
<1>1. ASSUME IInv, Quiet, crashes = 0, stalls = 0
      PROVE  /\ \A k \in Keys : objects[k].body # NoBody => Referenced(k) \/ k \in strays
             /\ job.status # "RUNNING"
  <2>1. \A w \in Workers : worker[w].pc = "idle" /\ Token(w) = NoToken
    <3>1. \A w \in Workers : worker[w].pc = "idle" /\ worker[w] = IdleWorker
      BY <1>1 DEF IInv, Locals, Quiet, At
    <3>2. IdleWorker.token = NoToken
      BY DEF IdleWorker
    <3>3. QED BY <3>1, <3>2 DEF Token
  <2>2. \A w \in Workers : ~Holds(w)
    BY <2>1 DEF Holds, CurrentLease
  <2>3. \A k : ~InHand(k)
    BY <2>1 DEF InHand, Storing
  <2>4. QED BY <1>1, <2>2, <2>3 DEF IInv, ObjectsKept, JobsKept
<1>2. IInv => NothingLeftBehind
  BY <1>1 DEF NothingLeftBehind
<1>3. QED BY <1>2, ArtifactInvariant, PTL

(* An import says it is incomplete only when a file its listing passed has  *)
(* no Asset: what an earlier attempt imported is not counted against it.    *)
THEOREM IncompleteImportsAreReal == Spec => IncompleteIsReal
<1> DEFINE A == \A w \in Workers : stalls = 0 /\ Finish(w) /\ job'.status = "FAILED" /\ job.status # "FAILED"
                  => assets # Listed
<1>1. ASSUME IInv, NEW w \in Workers, stalls = 0, Finish(w), job'.status = "FAILED", job.status # "FAILED"
      PROVE  assets # Listed
  <2> DEFINE r == worker[w]
  <2>1. r.pc = "finish" /\ Incomplete(w)
    <3>1. job \in Row
      BY <1>1 DEF IInv, TypeOK
    <3>2. QED BY <1>1, <3>1, FinishedFields DEF Finish, At
  <2>2. kind = "import" /\ r \in Processor
    BY <1>1, <2>1, ProcessorsTyped DEF IInv, Locals, ExportLocal, ExportPc, TypeOK
  <2>3. CASE Counts(r) > 0
    <3>1. PICK g \in Candidates : g \notin assets
      BY <1>1, <2>1, <2>2, <2>3 DEF IInv, CountedIsMissing, PastFile
    <3>2. QED BY <3>1 DEF Candidates
  <2>4. CASE ~(Counts(r) > 0)
    <3>1. Skipped # 0
      BY <2>1, <2>2, <2>4, Constants DEF Incomplete, Counts, Processor
    <3>2. PICK f \in Listed : f \notin Candidates
      BY <3>1, FS_EmptySet DEF Skipped
    <3>3. f \notin assets
      BY <1>1, <3>2 DEF IInv, Outcomes
    <3>4. QED BY <3>2, <3>3
  <2>5. QED BY <2>3, <2>4
<1>2. IInv /\ [Next]_vars => [A]_vars
  BY <1>1
<1>3. QED BY <1>2, ArtifactInvariant, PTL DEF Spec, IncompleteIsReal

=============================================================================
