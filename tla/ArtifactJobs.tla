---------------------------- MODULE ArtifactJobs ----------------------------
(***************************************************************************)
(* Two processors that publish objects: EXPORT_DATASET writes one artifact  *)
(* under a key made of its Job, IMPORT_DATASET mirrors the files of a       *)
(* repository, each under a key made of the Dataset, the path and the       *)
(* revision, and creates their Assets.  Every attempt of a Job writes the   *)
(* same keys, an attempt that does not publish removes what it wrote, and   *)
(* the orphan sweep removes old objects no row refers to.                   *)
(*                                                                          *)
(* A behaviour has one Job, of one of the two kinds.  Its delivery is       *)
(* module JobLease's subject: any worker may claim a claimable Job.  Every  *)
(* database statement or transaction and every effect on an object is a     *)
(* step of its own, and any of them may raise an error; a read is taken      *)
(* with the statement it leads to.                                          *)
(* Left out: stages, progress counters and JobEvents, and the branches for  *)
(* an Asset of another revision (the Job pins one).                         *)
(***************************************************************************)
EXTENDS JobRow, FiniteSets, FiniteSetsExt

CONSTANTS MaxFiles,  \* files in the repository's tree
          Size,      \* the size of each of them
          Manifests, \* the manifests an import Job may have been created with
          ItemLimit, \* REPOSITORY_IMPORT_MAX_FILES
          ByteLimit, \* REPOSITORY_IMPORT_MAX_TOTAL_BYTES
          BatchSize, \* REPOSITORY_IMPORT_BATCH_SIZE
          MaxEdits,  \* bound on the edits of the exported Dataset
          MaxClaims, \* bound on the claims of the Job
          MaxCrashes, \* bound on worker deaths
          MaxErrors, \* bound on storage, provider and database errors
          MaxStalls, \* bound on leases lost by a live worker
          MaxAges    \* bound on objects outliving the sweep's grace period

ASSUME ArtifactBounds ==
  /\ MaxFiles \in Nat \ {0} /\ Size \in [1 .. MaxFiles -> Nat \ {0}]
  /\ Manifests \subseteq [items: Nat, bytes: Nat]
  /\ ItemLimit \in Nat /\ ByteLimit \in Nat /\ BatchSize \in Nat \ {0}
  /\ MaxEdits \in Nat /\ MaxClaims \in Nat /\ MaxCrashes \in Nat /\ MaxErrors \in Nat
  /\ MaxStalls \in Nat /\ MaxAges \in Nat

Files    == 1 .. MaxFiles
Artifact == 0                  \* the key of the export
Keys     == {Artifact} \union Files

(* A file's bytes have the Dataset's modality or another one; detection     *)
(* refuses an oversize file before its bytes are read.                      *)
Classes == {"fit", "misfit", "oversize"}

NoManifest == [items |-> 0, bytes |-> 0]   \* "unknown": the policy alone limits

NoBody == 0   \* no object; an import writes body 1, an export what it built
NoObject == [body |-> NoBody, old |-> FALSE]
Fresh(body) == [body |-> body, old |-> FALSE]

VARIABLES
  kind,    \* Job.type: "export" or "import"
  tree,    \* the class of each file at the pinned revision
  manifest, \* what Job.input says of the import: items and declared bytes
  data,    \* version of the exported Dataset's contents
  job,     \* the Job's row
  result,  \* what the artifact of Job.resultStorageKey held when it was set
  claims,  \* claims so far: the next lockToken
  objects, \* the object under each key
  assets,  \* files with an Asset
  worker,  \* program counter and locals of each processor
  sweep,   \* keys the orphan sweep has found unreferenced and old
  strays,  \* keys whose object an error left with nobody to remove it
  overtaken, \* an attempt and a pass of the sweep have overlapped
  crashes, errors, stalls, ages

jobVars    == <<job, result, claims>>
storeVars  == <<objects, assets, strays>>
sourceVars == <<kind, tree, manifest, data>>
sweepVars  == <<sweep, overtaken>>
bounds     == <<crashes, errors, stalls, ages>>
vars == <<sourceVars, jobVars, storeVars, worker, sweepVars, bounds>>

IdleWorker == [pc |-> "idle", token |-> NoToken, body |-> NoBody, file |-> 0,
               rejected |-> 0, retryable |-> 0, next |-> "idle"]

Pc == {"idle", "enter", "build", "built", "stage", "write", "written", "complete",
       "scan", "scanned", "list", "batch", "beat", "item", "upload", "stat",
       "uploaded", "persist", "flush", "flushed", "finish", "check", "remove", "cancel", "reject", "fail"}

TypeOK ==
  /\ kind \in {"export", "import"} /\ tree \in [Files -> Classes] /\ data \in 1 .. MaxEdits + 1
  /\ manifest \in [items: Nat, bytes: Nat]
  /\ job \in Row /\ result \in 0 .. MaxEdits + 1 /\ claims \in 0 .. MaxClaims
  /\ objects \in [Keys -> [body: 0 .. MaxEdits + 1, old: BOOLEAN]]
  /\ assets \subseteq Files
  /\ worker \in [Workers -> [pc: Pc, token: Nat, body: 0 .. MaxEdits + 1, file: 0 .. MaxFiles,
                             rejected: 0 .. MaxFiles, retryable: 0 .. MaxFiles, next: Pc]]
  /\ sweep \subseteq Keys /\ strays \subseteq Keys /\ overtaken \in BOOLEAN
  /\ crashes \in 0 .. MaxCrashes /\ errors \in 0 .. MaxErrors
  /\ stalls \in 0 .. MaxStalls /\ ages \in 0 .. MaxAges

Init ==
  /\ kind \in {"export", "import"}
  /\ tree \in IF kind = "import" THEN [Files -> Classes] ELSE {[f \in Files |-> "fit"]}
  /\ manifest \in IF kind = "import" THEN Manifests ELSE {NoManifest}
  /\ data = 1
  /\ job = QueuedRow /\ result = NoBody /\ claims = 0
  /\ objects = [k \in Keys |-> NoObject] /\ assets = {}
  /\ strays = {}
  /\ worker = [w \in Workers |-> IdleWorker] /\ sweep = {} /\ overtaken = FALSE
  /\ crashes = 0 /\ errors = 0 /\ stalls = 0 /\ ages = 0

Error == errors < MaxErrors /\ errors' = errors + 1 /\ UNCHANGED <<crashes, stalls, ages>>

At(w, pc) == worker[w].pc = pc
Goto(w, pc) == worker' = [worker EXCEPT ![w].pc = pc]
Leave(w) == worker' = [worker EXCEPT ![w] = IdleWorker]
Token(w) == worker[w].token
Key(w) == worker[w].file   \* Artifact for an export

-----------------------------------------------------------------------------
(* The Job (module JobRow), the user and the clock.                         *)

Claim(w) ==
  /\ At(w, "idle") /\ CanClaim(job) /\ ~job.cancelRequested /\ claims < MaxClaims
  /\ claims' = claims + 1
  /\ job' = Claimed(job, w, claims + 1)
  /\ worker' = [worker EXCEPT ![w] = [IdleWorker EXCEPT !.pc = "enter", !.token = claims + 1]]
  /\ overtaken' = (overtaken \/ sweep # {})
  /\ UNCHANGED <<sourceVars, result, storeVars, sweep, bounds>>

(* The attempt is cut off and its lease runs out: the process dies, or an   *)
(* error leaves the processor (a statement before its try block, the look   *)
(* before an export's removal in the catch clause, failJob).                *)
Crash(w) ==
  /\ ~At(w, "idle") /\ crashes < MaxCrashes
  /\ crashes' = crashes + 1 /\ Leave(w)
  /\ job' = [job EXCEPT !.lease = IF job.lockedBy = w /\ @ = "live" THEN "expired" ELSE @]
  /\ UNCHANGED <<sourceVars, result, claims, storeVars, sweepVars, errors, stalls, ages>>

(* A worker outlives its lease: nothing renews it during a long step.       *)
Stall ==
  /\ job.lease = "live" /\ stalls < MaxStalls
  /\ stalls' = stalls + 1
  /\ job' = [job EXCEPT !.lease = "expired"]
  /\ UNCHANGED <<sourceVars, result, claims, storeVars, worker, sweepVars, crashes, errors, ages>>

(* stale-job-detector.ts *)
Recover ==
  /\ job' = IF CanRetryInPlace(job, "LEASE") THEN BackToRetrying(job, job.attempts + 1)
            ELSE Finished(job, "FAILED")
  /\ CanRetryInPlace(job, "LEASE") \/ CanDeadLetter(job, "LEASE")
  /\ UNCHANGED <<sourceVars, result, claims, storeVars, worker, sweepVars, bounds>>

Cancel ==
  /\ job.status \in Claimable \union {"RUNNING"} /\ CancelApplies(job, job.status)
  /\ job' = CancelRow(job, job.status)
  /\ UNCHANGED <<sourceVars, result, claims, storeVars, worker, sweepVars, bounds>>

(* retry-job.ts: the successor of a failed import has its own Job and the   *)
(* keys of its predecessor; that of an export has its own key.              *)
Retry ==
  /\ kind = "import" /\ job.status = "FAILED" /\ claims < MaxClaims
  /\ job' = QueuedRow
  /\ UNCHANGED <<sourceVars, result, claims, storeVars, worker, sweepVars, bounds>>

Edit ==
  /\ kind = "export" /\ data <= MaxEdits
  /\ data' = data + 1
  /\ UNCHANGED <<kind, tree, manifest, jobVars, storeVars, worker, sweepVars, bounds>>

-----------------------------------------------------------------------------
(* Steps the two processors share.                                          *)

Requested == job.cancelRequested \/ job.status = "CANCELING"

Acknowledged(w) ==
  job' = IF CanAckCancel(job, Token(w)) THEN Finished(job, "CANCELED") ELSE job

(* import-dataset.ts acknowledgeCancellation looks for its own claim,       *)
(* export-dataset.ts cancellationRequested for the Job.                     *)
SeesRequest(w) == Requested /\ (kind = "import" => job.token = Token(w) /\ job.status \in Active)

(* One boundary: leave when a cancellation is seen, go on otherwise.        *)
Boundary(w, pc, next) ==
  /\ At(w, pc)
  /\ IF SeesRequest(w) THEN Acknowledged(w) /\ Leave(w)
                       ELSE Goto(w, next) /\ UNCHANGED job
  /\ UNCHANGED <<sourceVars, result, claims, storeVars, sweepVars, bounds>>

(* A guarded statement that refuses a lost claim and a requested            *)
(* cancellation alike: setStage, updateJobProgress, heartbeatJob.           *)
Guarded(w, pc, next, refused) ==
  /\ At(w, pc)
  /\ IF CanWrite(job, Token(w)) THEN Goto(w, next)
     ELSE IF refused = "idle" THEN Leave(w) ELSE Goto(w, refused)
  /\ UNCHANGED <<sourceVars, jobVars, storeVars, sweepVars, bounds>>

Failed(w) == IF CanWrite(job, Token(w)) THEN Finished(job, "FAILED") ELSE job

Fail(w) ==
  /\ At(w, "fail") /\ Leave(w)
  /\ job' = Failed(w)
  /\ UNCHANGED <<sourceVars, result, claims, storeVars, sweepVars, bounds>>

(* A storage, provider or database error: the catch clause.  An error after *)
(* the statement took effect is that statement followed by this one.        *)
Raise(w, pcs, next) ==
  /\ worker[w].pc \in pcs /\ Error
  /\ worker' = [worker EXCEPT ![w].pc = next, ![w].next = "fail"]
  /\ UNCHANGED <<sourceVars, jobVars, storeVars, sweepVars>>

(* Slip: a return that leaves the object where it is.                       *)
CleanThenSkipped(w, next) == worker' = [worker EXCEPT ![w] = IdleWorker]

CleanThen(w, next) == worker' = [worker EXCEPT ![w].pc = "check", ![w].next = next]

-----------------------------------------------------------------------------
(* EXPORT_DATASET (export-dataset.ts).                                      *)

(* The body is what the Dataset holds now.                                  *)
Build(w) ==
  /\ At(w, "build")
  /\ worker' = IF CanWrite(job, Token(w))
               THEN [worker EXCEPT ![w].pc = "built", ![w].body = data]
               ELSE [worker EXCEPT ![w] = IdleWorker]
  /\ UNCHANGED <<sourceVars, jobVars, storeVars, sweepVars, bounds>>

(* Slip: an object that exists is taken for the artifact.                   *)
UploadRequiredIfAbsent(w) == objects[Artifact].body = NoBody

UploadRequired(w) == objects[Artifact].body # worker[w].body

Write(w) ==
  /\ At(w, "write")
  /\ objects' = IF UploadRequired(w) THEN [objects EXCEPT ![Artifact] = Fresh(worker[w].body)] ELSE objects
  /\ Goto(w, "written") /\ strays' = strays \ {Artifact}
  /\ UNCHANGED <<sourceVars, jobVars, assets, sweepVars, bounds>>

Written(w) ==
  /\ At(w, "written")
  /\ IF Requested THEN CleanThen(w, "cancel") ELSE Goto(w, "complete")
  /\ UNCHANGED <<sourceVars, jobVars, storeVars, sweepVars, bounds>>

CancelCleaned(w) ==
  /\ At(w, "cancel") /\ Leave(w)
  /\ Acknowledged(w)
  /\ UNCHANGED <<sourceVars, result, claims, storeVars, sweepVars, bounds>>

CompleteExport(w) ==
  /\ At(w, "complete")
  /\ IF CanWrite(job, Token(w))
     THEN /\ job' = Finished(job, "COMPLETED") /\ result' = worker[w].body
          /\ Leave(w)
     ELSE CleanThen(w, "idle") /\ UNCHANGED <<job, result>>
  /\ UNCHANGED <<sourceVars, claims, storeVars, sweepVars, bounds>>

(* The answer to the statement is lost, or the JobEvent after it fails.     *)
CompletionRaises(w) ==
  /\ At(w, "complete") /\ CanWrite(job, Token(w)) /\ Error
  /\ job' = Finished(job, "COMPLETED") /\ result' = worker[w].body
  /\ CleanThen(w, "fail")
  /\ UNCHANGED <<sourceVars, claims, storeVars, sweepVars>>

Export(w) ==
  \/ Boundary(w, "enter", "stage")
  \/ Guarded(w, "stage", "build", "idle")
  \/ Build(w)
  \/ Boundary(w, "built", "beat")
  \/ Guarded(w, "beat", "write", "idle")
  \/ Write(w) \/ Written(w)
  \/ CancelCleaned(w) \/ CompleteExport(w) \/ CompletionRaises(w)
  \/ Raise(w, {"stage", "build", "built", "beat"}, "fail")  \* no artifact yet
  \/ Raise(w, {"beat", "write", "written", "cancel", "complete"}, "check")

-----------------------------------------------------------------------------
(* IMPORT_DATASET (import-dataset.ts, repository mode).                     *)

Detected(f) == tree[f] # "oversize"

(* listRepositoryCandidateListing: what was sealed with the Job and the     *)
(* policy limit the items and the bytes.  The listing stops at the first    *)
(* detected file over a limit; what detection refused until then is counted *)
(* and what comes after is not.                                             *)
Cap(sealed, policy) == IF sealed > 0 /\ sealed < policy THEN sealed ELSE policy
Before(f) == {g \in 1 .. f - 1 : Detected(g)}
Bytes(S) == MapThenSumSet(LAMBDA g : Size[g], S)
Cut(f) ==
  /\ Detected(f)
  /\ \/ Bytes(Before(f) \union {f}) > Cap(manifest.bytes, ByteLimit)
     \/ Cardinality(Before(f)) >= Cap(manifest.items, ItemLimit)
Listed == {f \in Files : \A g \in 1 .. f : ~Cut(g)}
Candidates == {f \in Listed : Detected(f)}
Skipped == Cardinality(Listed \ Candidates)

(* Nothing to import, or more than the manifest says.  (The third check, of *)
(* the bytes, repeats the limit of the listing.)                            *)
LimitExceeded == Candidates = {} \/ (manifest.items > 0 /\ Cardinality(Listed) > manifest.items)

Later(f) == {g \in Candidates : g > f}
First(S) == CHOOSE f \in S : \A g \in S : f <= g
EndsBatch(f) == Later(f) = {} \/ Cardinality(Candidates \ Later(f)) % BatchSize = 0

List(w) ==
  /\ At(w, "list")
  /\ worker' = IF LimitExceeded THEN [worker EXCEPT ![w].pc = "fail"]
               ELSE [worker EXCEPT ![w].pc = "batch", ![w].file = First(Candidates)]
  /\ UNCHANGED <<sourceVars, jobVars, storeVars, sweepVars, bounds>>

(* The next candidate of the batch, or the end of the batch.                *)
AfterItem(f) == IF EndsBatch(f) THEN [pc |-> "flush", file |-> f]
                                ELSE [pc |-> "beat", file |-> First(Later(f))]

(* Slip: an item that was counted is taken again.                           *)
CountedInPlace(w, rejected, retryable) ==
  worker' = [worker EXCEPT ![w].pc = "beat", ![w].next = "idle",
                           ![w].rejected = worker[w].rejected + rejected,
                           ![w].retryable = worker[w].retryable + retryable]

Counted(w, rejected, retryable) ==
  LET after == AfterItem(worker[w].file)
  IN worker' = [worker EXCEPT ![w].pc = after.pc, ![w].file = after.file, ![w].next = "idle",
                              ![w].rejected = worker[w].rejected + rejected,
                              ![w].retryable = worker[w].retryable + retryable]

(* Slip: an item imported by an earlier attempt counts as a conflict.       *)
ReusedAsRejected(w) == Counted(w, 1, 0)

Reused(w) == Counted(w, 0, 0)

(* reconcileMirroredRepositoryAsset: an Asset of this revision is reused.   *)
Reconcile(w) ==
  /\ At(w, "item")
  /\ IF SeesRequest(w) THEN Acknowledged(w) /\ Leave(w)
     ELSE /\ IF worker[w].file \in assets THEN Reused(w) ELSE Goto(w, "upload")
          /\ UNCHANGED job
  /\ UNCHANGED <<sourceVars, result, claims, storeVars, sweepVars, bounds>>

(* downloadRepositoryCandidate and mirrorRepositoryObject: put, then stat.  *)
(* Until mirrorRepositoryObject has returned, no catch clause knows of an   *)
(* object to remove.                                                        *)
Upload(w) ==
  /\ At(w, "upload")
  /\ objects' = [objects EXCEPT ![Key(w)] = Fresh(1)]
  /\ Goto(w, "stat") /\ strays' = strays \ {Key(w)}
  /\ UNCHANGED <<sourceVars, jobVars, assets, sweepVars, bounds>>

Stat(w) ==
  /\ At(w, "stat")
  /\ Goto(w, IF objects[Key(w)].body # NoBody THEN "uploaded" ELSE "fail")
  /\ UNCHANGED <<sourceVars, jobVars, storeVars, sweepVars, bounds>>

(* The answer to the put is lost, or the stat fails: the object stays.      *)
StatRaises(w) ==
  /\ At(w, "stat") /\ Error /\ Goto(w, "fail")
  /\ strays' = strays \union {Key(w)}
  /\ UNCHANGED <<sourceVars, jobVars, objects, assets, sweepVars>>

DownloadFails(w) ==
  /\ At(w, "upload") /\ Error
  /\ Counted(w, 0, 1)
  /\ UNCHANGED <<sourceVars, jobVars, storeVars, sweepVars>>

Uploaded(w) ==
  /\ At(w, "uploaded")
  /\ IF SeesRequest(w) THEN Acknowledged(w) /\ CleanThen(w, "idle")
                       ELSE Goto(w, "persist") /\ UNCHANGED job
  /\ UNCHANGED <<sourceVars, result, claims, storeVars, sweepVars, bounds>>

(* verifyRepositoryObject refuses the bytes, or upsertMirroredRepositoryAsset *)
(* creates the Asset or finds the one of a concurrent delivery.             *)
Persist(w) ==
  /\ At(w, "persist")
  /\ IF tree[worker[w].file] = "fit"
     THEN assets' = assets \union {worker[w].file} /\ Counted(w, 0, 0)
     ELSE UNCHANGED assets /\ CleanThen(w, "reject")
  /\ UNCHANGED <<sourceVars, jobVars, objects, strays, sweepVars, bounds>>

(* The answer to the transaction is lost.                                   *)
PersistRaises(w) ==
  /\ At(w, "persist") /\ tree[worker[w].file] = "fit" /\ Error
  /\ assets' = assets \union {worker[w].file}
  /\ CleanThen(w, "fail")
  /\ UNCHANGED <<sourceVars, jobVars, objects, strays, sweepVars>>

(* A batch ends with its progress and a boundary; the next one starts with  *)
(* a boundary of its own, taken together with it.                           *)
BatchEnds(w) ==
  /\ At(w, "flushed")
  /\ IF SeesRequest(w) THEN Acknowledged(w) /\ Leave(w)
     ELSE /\ worker' = IF Later(worker[w].file) = {} THEN [worker EXCEPT ![w].pc = "finish"]
                       ELSE [worker EXCEPT ![w].pc = "beat", ![w].file = First(Later(worker[w].file))]
          /\ UNCHANGED job
  /\ UNCHANGED <<sourceVars, result, claims, storeVars, sweepVars, bounds>>

(* Slip: an item that could not be downloaded is forgotten.                 *)
IncompleteIfRejected(w) == worker[w].rejected > 0 \/ Skipped > 0

Incomplete(w) == worker[w].rejected + worker[w].retryable + Skipped > 0

Finish(w) ==
  /\ At(w, "finish") /\ Leave(w)
  /\ job' = IF ~CanWrite(job, Token(w)) THEN job
            ELSE Finished(job, IF Incomplete(w) THEN "FAILED" ELSE "COMPLETED")
  /\ UNCHANGED <<sourceVars, result, claims, storeVars, sweepVars, bounds>>

Import(w) ==
  \/ Boundary(w, "enter", "scan")
  \/ Guarded(w, "scan", "scanned", "fail")
  \/ Boundary(w, "scanned", "list")
  \/ List(w)
  \/ Boundary(w, "batch", "beat")
  \/ Guarded(w, "beat", "item", "fail")
  \/ Reconcile(w)
  \/ Upload(w) \/ DownloadFails(w) \/ Stat(w) \/ StatRaises(w)
  \/ Uploaded(w)
  \/ Persist(w) \/ PersistRaises(w)
  \/ Guarded(w, "flush", "flushed", "fail")
  \/ BatchEnds(w) \/ Finish(w)
  \/ Raise(w, {"enter", "scan", "scanned", "list", "batch", "beat", "item", "upload",
               "flush", "flushed", "finish"}, "fail")
  \/ Raise(w, {"uploaded", "persist"}, "check")

-----------------------------------------------------------------------------
(* An attempt that does not publish removes what it wrote.                  *)

(* Slip: the cleanup of an import does not look for an Asset on its key.    *)
PublishedExports(k) == k = Artifact /\ job.status = "COMPLETED"

(* A row refers to the key.                                                 *)
Published(k) == IF k = Artifact THEN job.status = "COMPLETED" /\ result # NoBody ELSE k \in assets

(* Where the attempt goes on once its object has been looked after.         *)
Resume(w) ==
  CASE worker[w].next = "idle" -> Leave(w)
    [] worker[w].next = "reject" -> Counted(w, 1, 0)
    [] OTHER -> Goto(w, worker[w].next)

(* cleanupUnpublishedArtifact, safeCleanupUnpublishedObject: look, remove.  *)
Check(w) ==
  /\ At(w, "check")
  /\ IF Published(Key(w)) THEN Resume(w) ELSE Goto(w, "remove")
  /\ UNCHANGED <<sourceVars, jobVars, storeVars, sweepVars, bounds>>

Removed(k) == objects' = [objects EXCEPT ![k] = NoObject] /\ strays' = strays \ {k}

Remove(w) ==
  /\ At(w, "remove") /\ Resume(w)
  /\ Removed(Key(w))
  /\ UNCHANGED <<sourceVars, jobVars, assets, sweepVars, bounds>>

Stray(w) == strays' = strays \union {Key(w)} /\ UNCHANGED <<objects, assets>>

(* The look fails.  In the try block the catch clause looks again; in the   *)
(* catch clause of an import's item the import fails.                       *)
CheckRaises(w) ==
  /\ At(w, "check") /\ Error
  /\ \/ /\ worker[w].next \in {"idle", "cancel"}
        /\ worker' = [worker EXCEPT ![w].next = "fail"] /\ UNCHANGED storeVars
     \/ /\ kind = "import" /\ worker[w].next \in {"fail", "reject"}
        /\ Goto(w, "fail") /\ Stray(w)
  /\ UNCHANGED <<sourceVars, jobVars, sweepVars>>

(* The error of a removal is swallowed.                                     *)
RemoveFails(w) ==
  /\ At(w, "remove") /\ Error /\ Resume(w) /\ Stray(w)
  /\ UNCHANGED <<sourceVars, jobVars, sweepVars>>

-----------------------------------------------------------------------------
(* The orphan sweep (minio-orphan-scanner.ts), when it is not a dry run.    *)

(* Objects outlive the grace period while no attempt is under way: one      *)
(* lasts JOB_MAX_RUNTIME_MS at most.                                        *)
Age ==
  /\ ages < MaxAges /\ \A w \in Workers : At(w, "idle")
  /\ ages' = ages + 1
  /\ objects' = [k \in Keys |-> [objects[k] EXCEPT !.old = @ \/ objects[k].body # NoBody]]
  /\ UNCHANGED <<sourceVars, jobVars, assets, strays, worker, sweepVars, crashes, errors, stalls>>

(* defaultReferenceCheckers: Job.resultStorageKey and Asset.storageKey.     *)
Referenced(k) == IF k = Artifact THEN result # NoBody ELSE k \in assets

SweepFinds(k) ==
  /\ objects[k].old /\ ~Referenced(k) /\ k \notin sweep
  /\ sweep' = sweep \union {k}
  /\ overtaken' = (overtaken \/ \E w \in Workers : ~At(w, "idle"))
  /\ UNCHANGED <<sourceVars, jobVars, storeVars, worker, bounds>>

SweepRemoves(k) ==
  /\ k \in sweep
  /\ sweep' = sweep \ {k} /\ Removed(k)
  /\ UNCHANGED <<sourceVars, jobVars, assets, worker, overtaken, bounds>>

-----------------------------------------------------------------------------
Works(w) ==
  \/ kind = "export" /\ Export(w)
  \/ kind = "import" /\ Import(w)
  \/ Check(w) \/ Remove(w) \/ CheckRaises(w) \/ RemoveFails(w) \/ Fail(w)

Next ==
  \/ \E w \in Workers : Claim(w) \/ Works(w) \/ Crash(w)
  \/ Stall \/ Recover \/ Cancel \/ Retry \/ Edit \/ Age
  \/ \E k \in Keys : SweepFinds(k) \/ SweepRemoves(k)

Spec == Init /\ [][Next]_vars

-----------------------------------------------------------------------------
(* Properties.                                                              *)

Quiet == \A w \in Workers : At(w, "idle")

(* No attempt outlives its lease and the sweep's passes run between         *)
(* attempts: where one does or they do not, the next two properties fail.   *)
Timely == stalls = 0 /\ ~overtaken

(* A COMPLETED export can be downloaded, and what is stored is what the     *)
(* attempt that completed it built, not a leftover of an earlier attempt    *)
(* (export-dataset.ts 143-155: the upload is skipped by checksum).          *)
CompletedHasArtifact ==
  Timely /\ kind = "export" /\ job.status = "COMPLETED" =>
    result # NoBody /\ objects[Artifact].body = result

(* The object of an Asset exists, whatever fails, is cancelled or is swept  *)
(* around its creation (specs/016 FR-012: never delete an object an Asset   *)
(* refers to).                                                              *)
AssetHasObject == Timely => \A f \in assets : objects[f].body # NoBody

(* An import is COMPLETED only when every file its listing passed became an *)
(* Asset, so that detection refused none, over however many attempts, and   *)
(* no file after the cut of a limit did.                                    *)
CompletedImportIsComplete ==
  kind = "import" /\ job.status = "COMPLETED" => assets = Listed

(* A processor that returns leaves no RUNNING Job, whether it completed,    *)
(* failed or was cancelled, and no object that no row refers to but the     *)
(* strays: an object whose put or stat gave no answer, one whose look in    *)
(* the catch clause failed, one whose removal failed.  Other leftovers come *)
(* from attempts that were cut off and from lost leases only.               *)
NothingLeftBehind ==
  Quiet /\ crashes = 0 /\ stalls = 0 =>
    /\ \A k \in Keys : objects[k].body # NoBody => Referenced(k) \/ k \in strays
    /\ job.status # "RUNNING"

(* An import is reported incomplete only when a file its listing passed has *)
(* no Asset: what an earlier attempt imported counts.  (A worker that lost  *)
(* its lease may import the file another one has just failed to download.)  *)
IncompleteIsReal ==
  [][\A w \in Workers : stalls = 0 /\ Finish(w) /\ job'.status = "FAILED" /\ job.status # "FAILED"
       => assets # Listed]_vars

(* What import-processor.test.ts asserts of an import with a failed and a   *)
(* skipped item, and specs/016 FR-011 of every import: once all batches     *)
(* have an outcome, the Job becomes COMPLETED.                              *)
FinishedImportCompletes ==
  [][\A w \in Workers : Finish(w) /\ CanWrite(job, Token(w)) /\ assets # {}
       => job'.status = "COMPLETED"]_vars

=============================================================================
