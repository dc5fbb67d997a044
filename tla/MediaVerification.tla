-------------------------- MODULE MediaVerification --------------------------
(***************************************************************************)
(* The durable verification of uploaded media (contract "A2") of a local    *)
(* folder import: the upload and its completion request in the web process, *)
(* the verifier of the worker (seal, probe, publish), the reconciling scan, *)
(* the retention purge, the commit of the import and its deadline pass, and *)
(* the object store they share.                                             *)
(*                                                                          *)
(* Each verification is a PostgreSQL row with a Job (module JobRow); the    *)
(* Job's delivery is module JobLease's subject, so that here any worker may *)
(* claim a claimable Job.  Every database statement or transaction and      *)
(* every effect on an object is a step of its own; consecutive reads that   *)
(* decide one branch are a single step.  Left out: the per-item JobEvents,  *)
(* the counters derived from them and lastFailure*, which no guard reads.   *)
(***************************************************************************)
EXTENDS JobRow, FiniteSets

CONSTANTS Items,          \* PreparedImportItem rows of one folder import
          Bodies,         \* contents uploaded: "plain", "clip" or "junk"
          Requests,       \* completion requests the web processes at once
          MaxGeneration,  \* bound on MediaVerification.generation
          MaxPuts,        \* bound on the uploads of an item
          MaxClaims,      \* bound on the claims of a verification's Jobs
          MaxFaults,      \* bound on crashes, lease losses and I/O errors
          Cap,            \* MEDIA_VERIFICATION_MAX_NON_TERMINAL
          Allowance,      \* MEDIA_VERIFICATION_ALLOWANCE_MS, in ticks
          Grace,          \* lease grace of the reconciling scan, in ticks
          ImportDeadline, \* PreparedImport.deadlineAt, in ticks
          MaxTime         \* bound on the clock

Generations == 1 .. MaxGeneration
V == Items \X Generations

ASSUME VerificationBounds ==
  /\ MaxGeneration \in Nat /\ MaxPuts \in Nat /\ MaxClaims \in Nat /\ MaxFaults \in Nat
  /\ Bodies \subseteq {"plain", "clip", "junk"}
  /\ Cap \in Nat /\ Allowance \in Nat \ {0} /\ Grace \in Nat
  /\ ImportDeadline \in Nat /\ MaxTime \in Nat

(* The clock ends with the retention period, which outlasts the import.     *)
ASSUME RetentionAssumption == ImportDeadline <= MaxTime

NonTerminal == {"PENDING", "SEALED", "VERIFIED"}
Unpublished == {"REJECTED", "STALE", "CANCELED", "EXPIRED"}
Ended       == Unpublished \union {"PUBLISHED"}

(* What an upload holds, as the two classifiers tell it apart: accepted by  *)
(* the web's own check, accepted by the probe, refused by the probe.        *)
NoObject == [put |-> 0, body |-> "none"]
Uploads  == [put: 1 .. MaxPuts, body: Bodies] \* put stands for etag and lastModified
NoSeal   == [at |-> 0, body |-> "none"]
Seals    == [at: {1, 2}, body: Bodies]        \* at is lastModified, in seconds

NoRow == [status |-> "ABSENT", source |-> NoObject, sealedAt |-> 0, hash |-> "none",
          deadline |-> 0, cleared |-> FALSE]

NoLink == -1
Direct == 0   \* linked to the Asset on the uploaded key, not on a sealed one

Scanner == "scanner"
Actors  == Workers \union {Scanner}
ASSUME ScannerAssumption == Scanner \notin Workers
Reasons == {"REQUESTED", "DATASET_INACTIVE", "IMPORT_ENDED", "CHANGED", "REFUSED", "ELAPSED"}
NoReason == "none"

Outcome(reason) ==
  CASE reason \in {"REQUESTED", "DATASET_INACTIVE", "IMPORT_ENDED"} -> "CANCELED"
    [] reason = "CHANGED" -> "STALE"
    [] reason = "REFUSED" -> "REJECTED"
    [] reason = "ELAPSED" -> "EXPIRED"

VARIABLES
  now,      \* the clock
  inactive, \* the Dataset is archived or deleted
  staged,   \* the object under PreparedImportItem.storageKey
  puts,     \* uploads so far, per item
  sealed,   \* the object under each verification's sealed key
  row,      \* MediaVerification
  job,      \* MediaVerification.currentJob
  claims,   \* claims so far: the next lockToken
  assets,   \* storage keys of live Assets: <<i, Direct>> or a verification's
  link,     \* PreparedImportItem.assetId
  import,   \* PreparedImport.status and the status of its Job
  actor,    \* program counter and locals of each worker and of the scan
  request,  \* the same, of each completion request
  commit,   \* what a commit has counted: "idle", "complete" or "incomplete"
  overdue,  \* the deadline pass has listed the import
  faults

itemVars == <<staged, puts, sealed, assets, link>>
rowVars  == <<row, job, claims>>
envVars  == <<now, inactive>>
webVars  == <<import, request, commit, overdue>>
vars == <<envVars, itemVars, rowVars, webVars, actor, faults>>

IdleActor == [pc |-> "idle", v |-> <<>>, token |-> NoToken, seen |-> "ABSENT",
              reason |-> NoReason, at |-> 0]
IdleRequest == [pc |-> "idle", item |-> <<>>]

Pc == {"idle", "seal", "sealing", "probe", "publish",
       "commit", "finish", "swap", "clean", "end"}

TypeOK ==
  /\ now \in 0 .. MaxTime /\ inactive \in BOOLEAN
  /\ staged \in [Items -> Uploads \union {NoObject}]
  /\ puts \in [Items -> 0 .. MaxPuts]
  /\ sealed \in [V -> Seals \union {NoSeal}]
  /\ row \in [V -> [status: {"ABSENT", "PURGED"} \union NonTerminal \union Ended,
                    source: Uploads \union {NoObject}, sealedAt: 0 .. 2,
                    hash: Bodies \union {"none"}, deadline: Nat, cleared: BOOLEAN]]
  /\ job \in [V -> Row] /\ claims \in [V -> Nat]
  /\ assets \subseteq Items \X (0 .. MaxGeneration)
  /\ link \in [Items -> NoLink .. MaxGeneration]
  /\ import \in [status: {"PREPARING", "COMMITTED", "EXPIRED"},
                 job: {"RUNNING", "FAILED", "COMPLETED"}]
  /\ actor \in [Actors -> [pc: Pc, v: V \union {<<>>}, token: Nat, at: 0 .. 2,
                           seen: {"ABSENT"} \union NonTerminal \union Ended,
                           reason: Reasons \union {NoReason}]]
  /\ request \in [Requests -> [pc: {"idle", "asked", "admit", "publish", "link", "check", "remove"},
                               item: Items \union {<<>>}]]
  /\ commit \in {"idle", "complete", "incomplete"} /\ overdue \in BOOLEAN
  /\ faults \in 0 .. MaxFaults

Init ==
  /\ now = 0 /\ inactive = FALSE
  /\ staged = [i \in Items |-> NoObject] /\ puts = [i \in Items |-> 0]
  /\ sealed = [v \in V |-> NoSeal]
  /\ row = [v \in V |-> NoRow] /\ job = [v \in V |-> AbsentRow] /\ claims = [v \in V |-> 0]
  /\ assets = {} /\ link = [i \in Items |-> NoLink]
  /\ import = [status |-> "PREPARING", job |-> "RUNNING"]
  /\ actor = [a \in Actors |-> IdleActor] /\ request = [r \in Requests |-> IdleRequest]
  /\ commit = "idle" /\ overdue = FALSE /\ faults = 0

Fault == faults < MaxFaults /\ faults' = faults + 1

-----------------------------------------------------------------------------
(* The browser and the completion request (complete-local-folder-item.ts). *)

(* An upload through the item's capability replaces what is under its key.  *)
Put(i) ==
  /\ puts[i] < MaxPuts /\ link[i] = NoLink
  /\ puts' = [puts EXCEPT ![i] = @ + 1]
  /\ \E b \in Bodies : staged' = [staged EXCEPT ![i] = [put |-> puts[i] + 1, body |-> b]]
  /\ UNCHANGED <<envVars, sealed, assets, link, rowVars, webVars, actor, faults>>

Exists(v) == row[v].status \notin {"ABSENT", "PURGED"}

(* findLatest: the row of the highest generation answers for the item.      *)
Latest(i, g) == Exists(<<i, g>>) /\ \A h \in Generations : h > g => ~Exists(<<i, h>>)

(* replayExistingVerification *)
Replays(i) == \E g \in Generations : Latest(i, g) /\ row[<<i, g>>].status \in NonTerminal \union {"PUBLISHED"}

Goes(r, pc) == request' = [request EXCEPT ![r].pc = pc]
Answered(r) == request' = [request EXCEPT ![r] = IdleRequest]

(* The import is PREPARING, the item unlinked and no verification answers.  *)
Ask(r, i) ==
  /\ request[r].pc = "idle"
  /\ import.status = "PREPARING" /\ ~inactive /\ link[i] = NoLink /\ ~Replays(i)
  /\ request' = [request EXCEPT ![r] = [pc |-> "asked", item |-> i]]
  /\ UNCHANGED <<envVars, itemVars, rowVars, import, commit, overdue, actor, faults>>

(* verifyUploadedObject, then where its outcome leads: publication, routing *)
(* to a verification before the import's deadline, or the failure path.     *)
InspectTo(r) ==
  LET here == staged[request[r].item] IN
  CASE here.body = "plain" -> "publish"
    [] here.body \in {"clip", "junk"} /\ now < ImportDeadline -> "admit"
    [] OTHER -> "check"

Inspect(r) ==
  /\ request[r].pc = "asked"
  /\ Goes(r, InspectTo(r))
  /\ UNCHANGED <<envVars, itemVars, rowVars, import, commit, overdue, actor, faults>>

(* A storage error: neither verdict nor routing, the failure path.          *)
InspectFails(r) ==
  /\ request[r].pc = "asked" /\ Fault
  /\ Goes(r, "check")
  /\ UNCHANGED <<envVars, itemVars, rowVars, import, commit, overdue, actor>>

(* admission.ts answersRequest *)
Answers(v, upload) == row[v].status \in NonTerminal \union {"PUBLISHED"} \/ row[v].source = upload

MayAdmit(i, upload) ==
  /\ ~\E g \in Generations : Latest(i, g) /\ Answers(<<i, g>>, upload)
  /\ Cardinality({v \in V : row[v].status \in NonTerminal}) < Cap

NextGeneration(i, g) ==
  IF g = 1 THEN \A h \in Generations : ~Exists(<<i, h>>) ELSE Latest(i, g - 1)

(* routeToMediaVerification takes the identity of what is staged by now;    *)
(* admitMediaVerification creates the row and its Job in one Serializable   *)
(* transaction, unless a record answers or a cap is reached.                *)
Admit(r) ==
  /\ request[r].pc = "admit"
  /\ LET i == request[r].item
         upload == staged[i]
     IN IF ~inactive /\ upload # NoObject /\ MayAdmit(i, upload)
        THEN \E g \in Generations :
             /\ NextGeneration(i, g)
             /\ row' = [row EXCEPT ![<<i, g>>] = [NoRow EXCEPT !.status = "PENDING", !.source = upload,
                                                               !.deadline = now + Allowance]]
             /\ job' = [job EXCEPT ![<<i, g>>] = QueuedRow]
        ELSE UNCHANGED <<row, job>>
  /\ IF inactive THEN Goes(r, "check") ELSE Answered(r)
  /\ UNCHANGED <<envVars, itemVars, claims, import, commit, overdue, actor, faults>>

(* publishUploadedAsset: reuse the Asset on this key, or create it.         *)
PublishDirect(r) ==
  /\ request[r].pc = "publish"
  /\ IF inactive THEN Goes(r, "check") /\ UNCHANGED assets
     ELSE /\ assets' = assets \union {<<request[r].item, Direct>>}
          /\ Goes(r, "link")
  /\ UNCHANGED <<envVars, staged, puts, sealed, link, rowVars, import, commit, overdue, actor, faults>>

(* PreparedImportItem.assetId is set only where it is null.                 *)
Linked(i, g) == [link EXCEPT ![i] = IF @ = NoLink THEN g ELSE @]

LinkDirect(r) ==
  /\ request[r].pc = "link"
  /\ link' = Linked(request[r].item, Direct)
  /\ Answered(r)
  /\ UNCHANGED <<envVars, staged, puts, sealed, assets, rowVars, import, commit, overdue, actor, faults>>

(* cleanupUnpublishedObject looks for an Asset on the key, then removes it. *)
CheckUnpublished(r) ==
  /\ request[r].pc = "check"
  /\ IF <<request[r].item, Direct>> \in assets THEN Answered(r)
                                               ELSE Goes(r, "remove")
  /\ UNCHANGED <<envVars, itemVars, rowVars, import, commit, overdue, actor, faults>>

RemoveUnpublished(r) ==
  /\ request[r].pc = "remove"
  /\ staged' = [staged EXCEPT ![request[r].item] = NoObject]
  /\ Answered(r)
  /\ UNCHANGED <<envVars, puts, sealed, assets, link, rowVars, import, commit, overdue, actor, faults>>

(* The web process dies inside a request.                                   *)
RequestDies(r) ==
  /\ request[r].pc # "idle" /\ Fault /\ Answered(r)
  /\ UNCHANGED <<envVars, itemVars, rowVars, import, commit, overdue, actor>>

-----------------------------------------------------------------------------
(* The Job: claim, lease, recovery, cancellation, retry (module JobRow).    *)

At(a, pc) == actor[a].pc = pc
Goto(a, pc) == actor' = [actor EXCEPT ![a].pc = pc]
Leave(a) == actor' = [actor EXCEPT ![a] = IdleActor]
Deciding(a, pc, reason) == actor' = [actor EXCEPT ![a].pc = pc, ![a].reason = reason]
Mine(w) == job[actor[w].v]

(* process.ts, the head of the loop: the recorded status, then the boundary *)
(* guards in their order, then the step of that status.  It is read at once *)
(* with the write that precedes it; what was read may be stale when used.   *)
Boundary(r, j, token) ==
  IF j.token = token /\ j.status \in Active /\ j.cancelRequested THEN "REQUESTED"
  ELSE IF inactive THEN "DATASET_INACTIVE"
  ELSE IF now >= r.deadline THEN "ELAPSED" ELSE NoReason

StepOf(status) ==
  CASE status = "PENDING" -> "seal" [] status = "SEALED" -> "probe" [] status = "VERIFIED" -> "publish"
    [] status = "PUBLISHED" -> "finish" [] OTHER -> "end"

Looped(w, v, token, r, j) ==
  LET reason == IF r.status \in NonTerminal THEN Boundary(r, j, token) ELSE NoReason
  IN actor' = [actor EXCEPT ![w] =
       [pc |-> IF reason # NoReason THEN "swap" ELSE StepOf(r.status),
        v |-> v, token |-> token, seen |-> r.status, reason |-> reason, at |-> 0]]

Again(w) == Looped(w, actor[w].v, actor[w].token, row'[actor[w].v], Mine(w))

Claim(w, v) ==
  /\ At(w, "idle") /\ CanClaim(job[v]) /\ ~job[v].cancelRequested /\ ~inactive
  /\ claims[v] < MaxClaims
  /\ claims' = [claims EXCEPT ![v] = @ + 1]
  /\ job' = [job EXCEPT ![v] = Claimed(@, w, claims[v] + 1)]
  /\ Looped(w, v, claims[v] + 1, row[v], job'[v])
  /\ UNCHANGED <<envVars, itemVars, row, webVars, faults>>

(* The worker stalls or its heartbeat stops.                                *)
LeaseExpires(v) ==
  /\ job[v].lease = "live" /\ Fault
  /\ job' = [job EXCEPT ![v].lease = "expired"]
  /\ UNCHANGED <<envVars, itemVars, row, claims, webVars, actor>>

Crash(w) ==
  /\ ~At(w, "idle") /\ Fault /\ Leave(w)
  /\ job' = [v \in V |-> IF job[v].lockedBy = w /\ job[v].lease = "live"
                         THEN [job[v] EXCEPT !.lease = "expired"] ELSE job[v]]
  /\ UNCHANGED <<envVars, itemVars, row, claims, webVars>>

(* stale-job-detector.ts: retried in place, or FAILED once out of attempts. *)
Recover(v) ==
  /\ job' = [job EXCEPT ![v] = IF CanRetryInPlace(@, "LEASE") THEN BackToRetrying(@, @.attempts + 1)
                               ELSE Finished(@, "FAILED")]
  /\ CanRetryInPlace(job[v], "LEASE") \/ CanDeadLetter(job[v], "LEASE")
  /\ UNCHANGED <<envVars, itemVars, row, claims, webVars, actor, faults>>

Cancel(v) ==
  /\ job[v].status \in Claimable \union {"RUNNING"} /\ CancelApplies(job[v], job[v].status)
  /\ job' = [job EXCEPT ![v] = CancelRow(@, @.status)]
  /\ UNCHANGED <<envVars, itemVars, row, claims, webVars, actor, faults>>

(* retry-job.ts with isMediaVerificationRetryEligible: a successor Job.     *)
Retry(v) ==
  /\ job[v].status = "FAILED" /\ row[v].status \in NonTerminal /\ now < row[v].deadline
  /\ claims[v] < MaxClaims /\ ~inactive
  /\ job' = [job EXCEPT ![v] = QueuedRow]
  /\ UNCHANGED <<envVars, itemVars, row, claims, webVars, actor, faults>>

-----------------------------------------------------------------------------
(* The verifier (apps/worker/src/verification).                             *)

(* seal.ts a, b and c: the staged object must have the recorded identity;   *)
(* the store copies it under that condition and reports the sealed one.     *)
(* Two copies within a second cannot be told apart.                         *)
Copy(w) ==
  LET v == actor[w].v
      source == staged[v[1]]
  IN
  /\ At(w, "seal")
  /\ IF source # row[v].source
     THEN Deciding(w, "swap", "CHANGED") /\ UNCHANGED sealed
     ELSE \E at \in {t \in {1, 2} : t >= sealed[v].at} :
            /\ sealed' = [sealed EXCEPT ![v] = [at |-> at, body |-> source.body]]
            /\ actor' = [actor EXCEPT ![w].pc = "sealing", ![w].at = at]
  /\ UNCHANGED <<envVars, staged, puts, assets, link, rowVars, webVars, faults>>

(* Slip: the seal is recorded whatever the row's status is.                 *)
SwapsAlways(v, from) == TRUE

(* updateMany WHERE id AND status = from                                    *)
Swaps(v, from) == row[v].status = from

(* seal.ts d and e: the staged object goes, if the store answers, once the  *)
(* seal is recorded.                                                        *)
RecordSeal(w) ==
  LET v == actor[w].v IN
  /\ At(w, "sealing")
  /\ IF Swaps(v, "PENDING")
     THEN /\ row' = [row EXCEPT ![v].status = "SEALED", ![v].sealedAt = actor[w].at]
          /\ staged' \in {staged, [staged EXCEPT ![v[1]] = NoObject]}
     ELSE UNCHANGED <<row, staged>>
  /\ Again(w)
  /\ UNCHANGED <<envVars, puts, sealed, assets, link, job, claims, webVars, faults>>

(* identitiesEqual of the sealed object and the recorded one.               *)
SealIntact(v) == sealed[v].at # 0 /\ sealed[v].at = row[v].sealedAt

(* Slip: every completed probe is taken for an acceptance.                  *)
AcceptsAnything(body) == TRUE

(* classifyPremedia: VERIFIED for a video, REJECTED for anything else.      *)
Accepts(body) == body # "junk"

(* probe-step.ts: the identity before and after the bytes are read, then    *)
(* the decision and the hash in one compare-and-swap.                       *)
Probe(w) ==
  LET v == actor[w].v IN
  /\ At(w, "probe")
  /\ CASE ~SealIntact(v) -> Deciding(w, "swap", "CHANGED") /\ UNCHANGED row
       [] SealIntact(v) /\ ~Accepts(sealed[v].body) -> Deciding(w, "swap", "REFUSED") /\ UNCHANGED row
       [] OTHER -> /\ row' = IF ~Swaps(v, "SEALED") THEN row
                             ELSE [row EXCEPT ![v].status = "VERIFIED", ![v].hash = sealed[v].body]
                   /\ Again(w)
  /\ UNCHANGED <<envVars, itemVars, job, claims, webVars, faults>>

(* publish.ts before its transaction.                                       *)
PublishGuard(w) ==
  LET v == actor[w].v
      reason == IF inactive THEN "DATASET_INACTIVE"
                ELSE IF now >= row[v].deadline THEN "ELAPSED"
                ELSE IF ~SealIntact(v) THEN "CHANGED" ELSE NoReason
  IN
  /\ At(w, "publish")
  /\ Deciding(w, IF reason = NoReason THEN "commit" ELSE "swap", reason)
  /\ UNCHANGED <<envVars, itemVars, rowVars, webVars, faults>>

(* Maintenance, an outside switch: the Job waits in RETRYING and no attempt *)
(* is consumed.                                                             *)
Defer(w) ==
  /\ At(w, "publish") /\ Fault
  /\ job' = IF Mine(w).token = actor[w].token /\ Mine(w).status = "RUNNING"
            THEN [job EXCEPT ![actor[w].v] = BackToRetrying(@, @.attempts)] ELSE job
  /\ Leave(w)
  /\ UNCHANGED <<envVars, itemVars, row, claims, webVars>>

(* Slip: the transaction checks the lease and not the status.               *)
StillOwnerAnyStatus(j, token) == CurrentLease(j, token)

(* The Job predicate of the publication transaction.                        *)
StillOwner(j, token) == CanWrite(j, token) /\ ~j.cancelRequested

(* publish.ts, the transaction: Asset, verification and item together.      *)
Publish(w) ==
  LET v == actor[w].v
      lost == row[v].status # "VERIFIED"
      owner == StillOwner(Mine(w), actor[w].token)
  IN
  /\ At(w, "commit")
  /\ IF ~lost /\ owner /\ ~inactive
     THEN /\ assets' = assets \union {v}
          /\ row' = [row EXCEPT ![v].status = "PUBLISHED"]
          /\ link' = Linked(v[1], v[2])
          /\ Goto(w, "finish")
     ELSE /\ UNCHANGED <<assets, row, link>>
          /\ IF ~lost /\ ~owner THEN Leave(w) ELSE Again(w)
  /\ UNCHANGED <<envVars, staged, puts, sealed, job, claims, webVars, faults>>

(* completeJobForPublished: the guarded completeJob.                        *)
Complete(w) ==
  /\ At(w, "finish")
  /\ job' = IF CanWrite(Mine(w), actor[w].token)
            THEN [job EXCEPT ![actor[w].v] = Finished(@, "COMPLETED")] ELSE job
  /\ Leave(w)
  /\ UNCHANGED <<envVars, itemVars, row, claims, webVars, faults>>

Charged(j) == [j EXCEPT !.attempts = @ + 1]

(* operational.ts, for a storage or probe error at any step (R5): the row   *)
(* keeps its status; the Job retries within its attempts, or fails.         *)
OperationalFailure(w) ==
  LET j == Mine(w) IN
  /\ \E pc \in {"seal", "sealing", "probe", "publish", "commit"} : At(w, pc)
  /\ Fault
  /\ job' = IF ~(j.token = actor[w].token /\ j.status = "RUNNING") THEN job
            ELSE [job EXCEPT ![actor[w].v] =
                    IF j.attempts + 1 < MaxAttempts THEN BackToRetrying(@, @.attempts + 1)
                    ELSE IF CurrentLease(j, actor[w].token)
                    THEN Finished(Charged(@), "FAILED") ELSE Charged(@)]
  /\ Leave(w)
  /\ UNCHANGED <<envVars, itemVars, row, claims, webVars>>

-----------------------------------------------------------------------------
(* terminalize.ts, for the verifier and for the reconciling scan.           *)

(* One compare-and-swap from the status read; an actor that loses it looks  *)
(* again (the verifier) or passes on (the scan).                            *)
Terminalize(a) ==
  LET v == actor[a].v IN
  /\ At(a, "swap")
  /\ IF Swaps(v, actor[a].seen)
     THEN row' = [row EXCEPT ![v].status = Outcome(actor[a].reason)] /\ Goto(a, "clean")
     ELSE UNCHANGED row /\ (IF a = Scanner THEN Leave(a) ELSE Again(a))
  /\ UNCHANGED <<envVars, itemVars, job, claims, webVars, faults>>

(* The keys cleanupVerificationObjects knows from the row it was given:     *)
(* sealedKey is recorded with the seal.                                     *)
KnownKeys(status) == {"staged"} \union (IF status = "PENDING" THEN {} ELSE {"sealed"})

(* cleanupVerificationObjects: objectsClearedAt is set if the removal of    *)
(* every key it knows is confirmed; any of them may fail.                   *)
Cleans(v, known, gone) ==
  /\ IF gone = known THEN UNCHANGED faults ELSE Fault
  /\ staged' = IF "staged" \in gone THEN [staged EXCEPT ![v[1]] = NoObject] ELSE staged
  /\ sealed' = IF "sealed" \in gone THEN [sealed EXCEPT ![v] = NoSeal] ELSE sealed

Clean(a) ==
  LET v == actor[a].v IN
  /\ At(a, "clean")
  /\ \E gone \in SUBSET KnownKeys(actor[a].seen) :
       /\ Cleans(v, KnownKeys(actor[a].seen), gone)
       /\ row' = IF gone = KnownKeys(actor[a].seen) /\ row[v].status # "PURGED"
                 THEN [row EXCEPT ![v].cleared = TRUE] ELSE row
  /\ Goto(a, "end")
  /\ UNCHANGED <<envVars, puts, assets, link, job, claims, webVars>>

(* Slip: the Job of any terminal row is completed.                          *)
EndedJobCompleted(j, token, status) == IF CanWrite(j, token) THEN Finished(j, "COMPLETED") ELSE j

(* Slip: the Job takes the verification's status.                           *)
EndedJobAlike(j, token, status) == IF CanWrite(j, token) THEN Finished(j, status) ELSE j

(* endJobFor: a cancellation is recorded and acknowledged, any other end    *)
(* fails the Job; both need the current lease.                              *)
EndedJob(j, token, status) ==
  IF status = "CANCELED"
  THEN LET asked == IF j.token = token /\ j.status \in Active
                    THEN [j EXCEPT !.cancelRequested = TRUE] ELSE j
       IN IF CanAckCancel(asked, token) THEN Finished(asked, "CANCELED") ELSE asked
  ELSE IF CanWrite(j, token) THEN Finished(j, "FAILED") ELSE j

EndJob(w) ==
  LET v == actor[w].v IN
  /\ At(w, "end") /\ w \in Workers
  /\ job' = [job EXCEPT ![v] = EndedJob(@, actor[w].token, row[v].status)]
  /\ Leave(w)
  /\ UNCHANGED <<envVars, itemVars, row, claims, webVars, faults>>

-----------------------------------------------------------------------------
(* media-verification-scanners.ts                                           *)

(* Slip: a failed Job keeps its row pending, for a retry that may not come. *)
DecidesForQueuedJobs(v) ==
  IF job[v].status \notin Claimable THEN NoReason
  ELSE IF inactive THEN "DATASET_INACTIVE"
  ELSE IF import.status = "EXPIRED" \/ import.job = "FAILED" THEN "IMPORT_ENDED"
  ELSE IF row[v].deadline + Grace < now THEN "ELAPSED" ELSE NoReason

(* decide, in the order of its tests.                                       *)
Decision(v) ==
  IF job[v].status = "RUNNING" /\ job[v].lease = "live" THEN NoReason
  ELSE IF job[v].status = "CANCELED" \/ (job[v].cancelRequested /\ job[v].status # "RUNNING")
       THEN "REQUESTED"
  ELSE IF inactive THEN "DATASET_INACTIVE"
  ELSE IF import.status = "EXPIRED" \/ import.job = "FAILED" THEN "IMPORT_ENDED"
  ELSE IF row[v].deadline + Grace < now THEN "ELAPSED" ELSE NoReason

Reconcile(v) ==
  /\ At(Scanner, "idle") /\ row[v].status \in NonTerminal /\ Decision(v) # NoReason
  /\ actor' = [actor EXCEPT ![Scanner] = [IdleActor EXCEPT !.pc = "swap", !.v = v,
                 !.seen = row[v].status, !.reason = Decision(v)]]
  /\ UNCHANGED <<envVars, itemVars, rowVars, webVars, faults>>

(* The scan holds no lease: it settles a Job that nobody runs.              *)
Settle ==
  LET v == actor[Scanner].v IN
  /\ At(Scanner, "end")
  /\ job' = IF job[v].status \in Claimable \union {"FAILED", "CANCELING"}
            THEN [job EXCEPT ![v] = Finished(@, IF Outcome(actor[Scanner].reason) = "CANCELED"
                                                THEN "CANCELED" ELSE "FAILED")] ELSE job
  /\ Leave(Scanner)
  /\ UNCHANGED <<envVars, itemVars, row, claims, webVars, faults>>

ScannerCrash ==
  /\ ~At(Scanner, "idle") /\ Fault /\ Leave(Scanner)
  /\ UNCHANGED <<envVars, itemVars, rowVars, webVars>>

(* Thirty days on, when every process of before has ended: the row goes     *)
(* once its objects are cleared.                                            *)
Quiet(v) == (\A a \in Actors : actor[a].v # v) /\ \A r \in Requests : request[r].item # v[1]

Purge(v) ==
  /\ now = MaxTime /\ row[v].status \in Unpublished /\ Quiet(v)
  /\ job[v].status \in Terminal
  /\ LET known == IF row[v].cleared THEN {} ELSE KnownKeys(IF row[v].sealedAt = 0 THEN "PENDING" ELSE "SEALED")
     IN \E gone \in SUBSET known :
          /\ Cleans(v, known, gone)
          /\ row' = IF gone = known THEN [row EXCEPT ![v] = [NoRow EXCEPT !.status = "PURGED"]] ELSE row
  /\ UNCHANGED <<envVars, puts, assets, link, job, claims, webVars, actor>>

-----------------------------------------------------------------------------
(* The import: commit-local-folder-import.ts, import-timeout-scanner.ts.    *)

Verifying == {i \in Items : \E g \in Generations : row[<<i, g>>].status \in NonTerminal}
Completed == {i \in Items : link[i] # NoLink}

(* Slip: a tail that never ends.                                            *)
TailForever == \E v \in V : Exists(v)

(* importVerificationTailEnd: the last allowance, at most thirty minutes    *)
(* after the deadline; none without a verification.                         *)
InTail ==
  \E v \in V : Exists(v) /\ now < row[v].deadline /\ now < ImportDeadline + Allowance

Open == import.status # "EXPIRED" /\ (now < ImportDeadline \/ InTail)

(* A pending verification blocks the commit (D9).                           *)
Counts == Open /\ Verifying \ Completed = {}

CommitCounts ==
  /\ commit = "idle" /\ import.job = "RUNNING" /\ Counts
  /\ commit' = IF Completed = Items THEN "complete" ELSE "incomplete"
  /\ UNCHANGED <<envVars, itemVars, rowVars, import, request, overdue, actor, faults>>

(* Slip: the commit does not repeat its predicate on the Job.               *)
JobStillOpenForgotten == TRUE

(* updateMany WHERE status IN (RUNNING, RETRYING)                           *)
JobStillOpen == import.job = "RUNNING"

CommitWrites ==
  /\ commit # "idle"
  /\ commit' = "idle"
  /\ import' = IF ~JobStillOpen THEN import
               ELSE IF commit = "complete" THEN [status |-> "COMMITTED", job |-> "COMPLETED"]
               ELSE [import EXCEPT !.job = "FAILED"]
  /\ UNCHANGED <<envVars, itemVars, rowVars, request, overdue, actor, faults>>

(* failExpiredPreparedImports: listed, then FAILED and EXPIRED in one       *)
(* transaction that repeats the predicate on both.                          *)
ListOverdue ==
  /\ ~overdue /\ import.status = "PREPARING" /\ import.job = "RUNNING"
  /\ now > ImportDeadline /\ ~InTail
  /\ overdue' = TRUE
  /\ UNCHANGED <<envVars, itemVars, rowVars, import, request, commit, actor, faults>>

ExpireImport ==
  /\ overdue /\ overdue' = FALSE
  /\ import' = IF JobStillOpen /\ import.status = "PREPARING"
               THEN [status |-> "EXPIRED", job |-> "FAILED"] ELSE import
  /\ UNCHANGED <<envVars, itemVars, rowVars, request, commit, actor, faults>>

-----------------------------------------------------------------------------
Tick ==
  /\ now < MaxTime /\ now' = now + 1
  /\ UNCHANGED <<inactive, itemVars, rowVars, webVars, actor, faults>>

Archive ==
  /\ ~inactive /\ Fault /\ inactive' = TRUE
  /\ UNCHANGED <<now, itemVars, rowVars, webVars, actor>>

RequestStep(r) ==
  \/ Inspect(r) \/ Admit(r) \/ PublishDirect(r) \/ LinkDirect(r)
  \/ CheckUnpublished(r) \/ RemoveUnpublished(r)

VerifierStep(w) ==
  \/ Copy(w) \/ RecordSeal(w) \/ Probe(w) \/ PublishGuard(w) \/ Defer(w)
  \/ Publish(w) \/ Complete(w) \/ Terminalize(w) \/ Clean(w) \/ EndJob(w)

ScannerStep == Terminalize(Scanner) \/ Clean(Scanner) \/ Settle

WebStep == CommitCounts \/ CommitWrites \/ ListOverdue \/ ExpireImport

Next ==
  \/ \E i \in Items : Put(i) \/ \E r \in Requests : Ask(r, i)
  \/ \E r \in Requests : RequestStep(r) \/ InspectFails(r) \/ RequestDies(r)
  \/ \E w \in Workers : VerifierStep(w) \/ OperationalFailure(w) \/ Crash(w)
  \/ \E w \in Workers, v \in V : Claim(w, v)
  \/ \E v \in V : LeaseExpires(v) \/ Recover(v) \/ Cancel(v) \/ Retry(v) \/ Reconcile(v) \/ Purge(v)
  \/ ScannerStep \/ ScannerCrash \/ WebStep \/ Tick \/ Archive

Spec == Init /\ [][Next]_vars

(* The scans run on timers in a worker process that is restarted, and the   *)
(* processor of a claimed Job runs on.  No upload, request, claim or commit *)
(* is assumed.                                                              *)
Fairness ==
  /\ WF_vars(Tick) /\ WF_vars(ScannerStep) /\ WF_vars(ListOverdue \/ ExpireImport)
  /\ \A w \in Workers : WF_vars(VerifierStep(w))
  /\ \A v \in V : WF_vars(Recover(v)) /\ WF_vars(Reconcile(v))

LiveSpec == Spec /\ Fairness

-----------------------------------------------------------------------------
(* Properties.                                                              *)

(* Whatever deliveries, crashes and cancellations overlap: a live Asset on  *)
(* a sealed key belongs to a PUBLISHED verification, and its object still   *)
(* holds the bytes that were hashed and accepted; the item has its Asset.   *)
PublishedIsProbed ==
  \A v \in V :
    /\ v \in assets <=> row[v].status = "PUBLISHED"
    /\ v \in assets => /\ sealed[v].body = row[v].hash /\ row[v].hash \notin {"none", "junk"}
                       /\ link[v[1]] # NoLink

(* What row and Job report is so, whichever actor moved them and whoever    *)
(* holds the lease: a refused upload is junk, and no timeout, cancellation  *)
(* or outage is reported as a refusal (R5); a Job is COMPLETED by a         *)
(* publication and by nothing else.                                         *)
OutcomesAreTrue ==
  \A v \in V :
    /\ row[v].status = "REJECTED" => row[v].source.body = "junk"
    /\ job[v].status = "COMPLETED" => row[v].status = "PUBLISHED"

(* An import is decided once, by the commit or by the deadline pass, which  *)
(* race on stale reads; it is COMMITTED only with an Asset for each item.   *)
ImportEndsOnce ==
  [][/\ import.job # "RUNNING" => import' = import
     /\ import'.status = "COMMITTED" => \A i \in Items : link'[i] # NoLink]_vars

(* The last word stays: a terminal row changes only by being purged, its    *)
(* Asset link and the item's Asset are never replaced.                      *)
LastWordStays ==
  [][/\ \A v \in V : row[v].status \in Ended => row'[v].status \in {row[v].status, "PURGED"}
     /\ \A v \in V : row[v].status = "PUBLISHED" => sealed'[v].body = sealed[v].body
     /\ \A i \in Items : link[i] # NoLink => link'[i] = link[i]]_vars

(* A recorded cancellation and a failure precede every publication they can *)
(* still prevent: no Asset appears for a Job that is canceled, being        *)
(* canceled or failed, whoever was verifying.                               *)
NothingPublishedAfterCancel ==
  [][\A v \in V : row[v].status # "PUBLISHED" /\ row'[v].status = "PUBLISHED"
       => job[v].status \notin Terminal \union {"CANCELING"}]_vars

(* Every requested verification is settled, with or without a worker.       *)
VerificationSettles == \A v \in V : row[v].status \in NonTerminal ~> row[v].status \notin NonTerminal

(* An open import ends: committed, incomplete or expired.                   *)
ImportSettles == <>(import.job # "RUNNING")
=============================================================================
