# Verification of the annotation platform

TLA+ models of the annotation platform in `src/`, the TLC runs that check them on
small instances, and the theorems TLAPS proves about them for every instance.

    tlc -workers 2 -config JobLease_jobs.cfg MCJobLease.tla      # one run
    tlapm JobLeaseProofs.tla                                    # the proofs

`PROJECT.json` lists the runs, the source lines behind each definition, the hazards
with the properties that watch them, and the findings. In this file sections 1-2 are
the inventory, 3 the modules, 4 the runs, 5 the findings, 6 the proofs, 7 what is left
out, 8 the plan.

## 1. The system

A Next.js application (`apps/web`) owns every user-facing operation, a worker process
(`apps/worker`, several replicas) runs background Jobs, and a small gateway
(`apps/realtime`) pushes notifications. They share one PostgreSQL database, Redis
(BullMQ queues and pub/sub) and MinIO. PostgreSQL is the only authority: a queue
delivery carries nothing but a Job id, and whatever a worker may do is decided again
by a guarded `UPDATE ... WHERE` on the row. There are no locks held across statements,
so nearly every hard question is the same one: *what may another actor have done
between the read and the guarded write?*

| Part | State it keeps | Operations |
| --- | --- | --- |
| Durable Job | the `Job` row: status, `lockToken`/`lockedBy`/`lockedUntil`/`lockedAt`, attempts, `cancelRequestedAt`, `enqueuedAt`/`queueJobId`, `retryOfJobId` | create, claim, heartbeat, progress, complete, fail, request and acknowledge a cancellation, authorised retry |
| Job recovery passes | a candidate list per pass | expired-lease pass, runaway pass, pending-delivery pass |
| Queue transport | BullMQ entries keyed by delivery id | add, stamp, dequeue, stalled redelivery |
| AI operations | `AiTask` beside its Job: status, external id, submission reservation, poll count, next poll | accept, submit, poll, complete, cancel, retry |
| Media verification (A2) | `MediaVerification`: status, allowance, bytes sealed, current Job | seal, probe, publish, reject, defer, reconcile, retention |
| Export | artifact object and the Job's `exportArtifact` | snapshot, package, upload, publish, discard |
| Prepared local-folder import | `PreparedImport` and its items | prepare, complete an item, commit, expire, cancel |
| Repository import | Job checkpoint, mirrored objects | inspect, mirror, verify, persist, compensate |
| Direct upload | object, Asset row | capability, publish, revive |
| Storage reclamation | none of its own | orphan scan, temporary uploads, deleted Assets and Datasets, trash |
| Annotations (image, video, text) | Annotation rows and revisions, Asset content revision, mutation receipts | create, update, delete, bulk change sets, replay |
| Asset workflow | workflow status and the revision reviewed | submit, approve, return |
| Collaboration | outbox, notifications, rooms, presence | intent, relay, deliver, join, leave |
| Client stores | drafts, timers, in-flight saves | schedule, flush, switch resource |
| Rate limiting, pure contracts | Redis counters; none | consume; classify |

How they interact:

- **web to worker**: the web commits a `QUEUED` Job, then adds the delivery, then
  stamps the row. Any of the three may be the last one to happen.
- **worker to row**: `routeQueueDelivery` claims with a fresh `lockToken`; all later
  writes repeat token, status and lease in their `WHERE`.
- **passes to row**: scheduled in every worker process; each reads a list and then
  handles its Jobs one by one, so several replicas act on the same old list.
- **user to row**: a cancellation and an authorised retry decide on a status read before
  the transaction that writes.
- **a record with its own life beside the Job**: `AiTask`, `MediaVerification`,
  `PreparedImport`, an export artifact. The two are updated by different statements or by
  different actors, and their outcomes must stay compatible.

## 2. What is hard, and what makes each part correct

- *Durable Job.* Two deliveries reach two workers; a worker finishes after its lease is
  over; a cancellation races the completion. Correct when there is one owner at a time,
  only the owner decides, a decision is final, a cancellation is never lost or
  overwritten, and a run is paid for (creation, attempt or deferral).
- *Recovery passes.* Overlapping passes on old lists. Correct when no attempt is charged
  twice, a live lease is not taken away, and a RUNNING Job always moves on.
- *Queue transport.* A crash between add and stamp, a failed add that Redis kept, a lost
  or duplicated delivery, an id used up. Correct when the stamp implies the delivery, and
  an undelivered Job is delivered eventually.
- *AI operations.* The provider has no idempotency key, so an unknown outcome must never
  be retried; polls overlap; the poll loop renews its own lease. Correct when one provider
  task exists at most, predictions are committed once and together with the Job, the
  outcomes of Job and AiTask agree, and polling ends.
- *Media verification.* Row, Job, item, import and two objects are changed by different
  statements of different actors, and every boundary may be the last thing a process
  does. Correct when what is published was probed, what is refused was junk, nothing is
  published after a cancellation it could see, a last word stays, and everything ends
  within its allowance.
- *Exports and imports.* Every attempt writes the same keys, and an attempt that does not
  publish removes what it wrote. Correct when what is COMPLETED is complete and stored,
  an Asset keeps its object, and a processor that returns leaves neither a RUNNING Job
  nor an object without a row.
- *Annotations, workflow.* Five writers of one content, a review that locks it, decisions
  made from pages that grow old. Correct when a revision names one content, a save
  overwrites only what its author had seen, and a decision is about what it names.
- *Client stores.* A newer draft while a save is in flight, one key for two fields, a
  barrier that joins requests made before it. Correct when "saved" and "conflict" are
  true, and nobody submits before what was flushed is stored.
- *Collaboration.* At-least-once relay; a process that dies between publish and mark.

The `hazards` of `PROJECT.json` put a line to each of these. Eight have no property and
say why: most are what the code does not exclude, so that no property may claim it.

## 3. Modules

| Module | What it is |
| --- | --- |
| `JobRow` | The `Job` row as an abstract record and the guards and updates of every statement on it. Pure operators, shared by the two state machines. |
| `JobLease` | The Job system: rows, deliveries, workers, producers, stale-job passes, the verification reconciler, users and the clock. |
| `JobLifecycle` | The abstract specification: what the Job system promises, with no lease, token, delivery or clock. |
| `JobRowProofs` | Typing lemmas for the updates of `JobRow`, shared by the proofs. |
| `JobLeaseProofs` | Theorems about `JobLease`: types, locks, owners, finality. |
| `JobRefinementProofs` | Further theorems about `JobLease`: runs, stamps, live leases, and the refinement of `JobLifecycle`. |
| `AiOperation` | One AI operation: its Job, its AiTask, the submit handler, the poll step, cancellation, retry, passes. |
| `AiOperationProofs` | The theorems about `AiOperation`. |
| `MediaVerification` | The verification of an uploaded object: completion requests, verifier, reconciling scan, purge, commit and deadline of the import, object store. |
| `MediaVerificationProofs` | The theorems about `MediaVerification`. |
| `ArtifactJobs` | The two processors that publish objects, export and repository import, with cancellation, clean-up and the orphan sweep. |
| `ArtifactJobProofs` | The theorems about `ArtifactJobs`. |
| `AnnotationReview` | One image Asset: annotation writers, review workflow and bulk status change on the server, autosaving tabs and review pages in the browsers. |
| `AnnotationReviewProofs` | Theorems about the server in `AnnotationReview`: revisions, the review lock, decisions. |
| `AnnotationTabProofs` | Theorems about the browsers in `AnnotationReview`: what keys report, what the barrier lets through, what a save overwrites; and the refinement of `ReviewedDocument`. |
| `ReviewedDocument` | The abstract specification of the review: a document, its workflow, its readers; no browser, request, save or Annotation. |
| `MCJobLease`, `MCAiOperation`, ... | Symmetry sets for the runs. |

`JobLease`, `AiOperation`, `MediaVerification` and `ArtifactJobs` share the guards and
updates of `JobRow`. The last two leave the *delivery* of a Job to `JobLease`: any worker
may claim a claimable row at any time, which is what `JobLease` shows of deliveries that
are late, repeated or recovered.

### 3.1 The row (`JobRow`)

`lockToken` is a number per Job, `NoToken` for NULL; `lockedBy` a worker.
`lockedUntil` is abstracted to what the guards can tell apart: `none` (NULL), `live`,
`expired` (over, but within the grace period of the expired-lease pass) and `stale`
(beyond it). `lockedAt` becomes `overdue`: the claim has outrun the maximum runtime.
`enqueuedAt` and `queueJobId` become `stamp`: the delivery id the row names, or
`NoDelivery`. Delivery ids are `FirstDelivery` (the Job id) and `RetryDelivery(n)` (the
Job id and `-r<attempts>`).

### 3.2 The Job system (`JobLease`)

Each SQL statement is one action. What an actor has read and will use later is in the
actor's own record, so staleness is explicit:

| Variable | Code |
| --- | --- |
| `row`, `retryOf` | the `Job` table |
| `delivery` | what BullMQ knows of each delivery id: `absent`, `waiting`, `active`, `done` |
| `hand[w]` | the one delivery worker `w` processes (BullMQ's default concurrency is 1) and the token it claimed |
| `producer[p]` | somebody between "read the row", "add" and "stamp": a web request, the pending-delivery pass, the verification redelivery |
| `scan[s]` | a stale-job pass: what is left of its list, and the Job whose `retryInPlace` matched nothing |
| `observed[j]` | the status a cancel request has read |
| `inactive` | the Dataset is archived or deleted |
| `claims`, `defers`, `faults` | history and bounds; no guard that models the code reads `claims` except to draw a fresh token |

| Actions | Code |
| --- | --- |
| `CreateJob`, `RetryCreates`, `RetryReuses`, `CancelRead`, `CancelWrite`, `Archive` | `lib/jobs/authorization.ts`, `lib/jobs/retry-job.ts`, job creation in `lib/queue` |
| `PendingCandidate`, `VerifyCandidate`, `ReadForDelivery`, `AddDelivery`, `AddFails`, `StampDelivery`, `ProducerCrash` | `enqueue-job.ts`, `redeliver-job.ts`, `recovery-scanner.ts`, `media-verification-scanners.ts` |
| `Receive`, `ReceiveSkips`, `Claim`, `ClaimRefused`, `RouteProceeds`, `ObserveCancel`, `AckCancel` | `queue-router.ts`, `job.repository.ts`, `job-claim-lock.ts` |
| `Finish`, `WriteRefused`, `OperationalRetry`, `OperationalExhausted`, `Defer`, `CancelsItself`, `Crash`, `Stall` | `job-claim-lock.ts`, `verification/operational.ts`, `verification/terminalize.ts`, the processors |
| `ScanExpired`, `ScanRunaway`, `RetryInPlace`, `DeadLetter` | `stale-job-detector.ts` |
| `Reconcile` | `media-verification-scanners.ts` |
| `LeaseExpires`, `GraceElapses`, `RuntimeElapses` | the clock |

Choices a reader should know:

- A heartbeat that succeeds leaves the lease `live`, so it is a stuttering step; one that
  fails is `WriteRefused`. A heartbeat may always be late: `LeaseExpires` needs no cause.
- `Stall` is a worker that runs on after BullMQ has taken its delivery for stalled and
  handed it out again: two workers then process the same delivery. `Crash` is a dying
  process as well as a handler that throws. Either leaves the delivery to be received
  again (`waiting`), or consumed, if it threw or stalled too often (`done`, with
  `Lossy`). This also covers the outbox relay, which throws on purpose and
  leaves its Job RUNNING.
- `Reconcile` keeps the Job side of the reconciler: the statuses in its `WHERE` and the
  outcome it writes. *Why* the verification was closed is abstracted, so the model lets
  it happen at any time, and more than once. That allows more than the code does, which
  is why the properties about verification Jobs are stated with that exception and why
  liveness assumes no reconciliation.
- A verifier cancels its own Job in two statements (`CancelsItself`). A crash between
  them leaves a Job that is recovered to RETRYING with a cancellation recorded, which
  `CancelShape` therefore excludes for verification Jobs.
- The serializable transaction of an authorised retry is one step (`RetryCreates`,
  `RetryReuses`): that two of them at once share one successor is the database's.
- `Created` is a bound: the Jobs that users create. The others come into being as the
  successor of a failed one. The theorems take any such set, all Jobs among them.
- The Jobs of prepared imports are never claimed through a delivery, and the Jobs of AI
  operations are locked a second time by the poll scanner: the former are left to the
  plan, the latter are `AiOperation`.

### 3.3 The promise (`JobLifecycle`)

A Job is `none`, `waiting`, `held`, `canceling` or decided. `Grant` is allowed while
fewer runs were granted than paid for; `TakeBack` pays for the next. `Settle` is the
extra freedom over *overseen* Jobs, those decided together with a record they serve.
`JobLease!Lifecycle` instantiates it with the mapping `Phase`, `retryOf`, `claims` and
`attempts + defers + 1`; `ImplementsLifecycle` is checked as a property and proved.

### 3.4 An AI operation (`AiOperation`)

One AiTask and its Job, the smallest unit with all the interaction. `submit[w]` and
`poll[w]` are program counters: one value for each place where the handler awaits the
database or the provider, with the token it read. The provider is the number of tasks
it has `created`; `CreateCall` distinguishes an answer with an id, a 4xx (proof that
there is no task) and everything else (nobody knows). `poll` follows
`ai-poll.processor.ts` inside `job-lock.ts`: list, load, lock, check, call, re-read, then
reschedule, complete, fail or finalize a cancellation, then release.

- A worker process draws a new `workerId` when it starts, so a crashed worker never
  comes back under its old name; `up` is the set still running, and at least one is.
- `task.polls` is the part of the budget that is spent, by count or by age (`TaskAges`
  models the maximum duration). The count is capped at the budget.
- `Reclaim` has no list: a pass may have read it as long ago as it likes, so only the
  guards of `retryInPlace` and `deadLetter` remain. That is weaker than `JobLease`, hence
  every execution of the code is covered.
- A database error is modelled where the code catches it and goes on (`Schedule`,
  `FailSubmission`, `Complete`), and elsewhere as a crash.

### 3.5 A media verification (`MediaVerification`)

| Variable | Code |
| --- | --- |
| `row[v]`, `job[v]` | `MediaVerification` and its `currentJob`, per item and generation |
| `staged[i]`, `sealed[v]` | the objects under `PreparedImportItem.storageKey` and under the sealed key |
| `assets`, `link[i]`, `import` | live Assets by storage key, `PreparedImportItem.assetId`, the import and its Job |
| `actor[a]` | program counter and locals of each worker and of the reconciling scan |
| `request[r]` | the same, of each completion request in the web process |
| `commit`, `overdue` | what a commit has counted, what the deadline pass has listed |

| Actions | Code |
| --- | --- |
| `Put`, `Ask`, `Inspect`, `InspectFails`, `Admit`, `PublishDirect`, `LinkDirect`, `CheckUnpublished`, `RemoveUnpublished`, `RequestDies` | `complete-local-folder-item.ts`, `routing.ts`, `admission.ts`, `asset-upload.ts` |
| `Claim`, `LeaseExpires`, `Crash`, `Recover`, `Cancel`, `Retry` | the Job, over `JobRow` |
| `Copy`, `RecordSeal`, `Probe`, `PublishGuard`, `Defer`, `Publish`, `Complete`, `OperationalFailure` | `verification/seal.ts`, `probe-step.ts`, `publish.ts`, `operational.ts` |
| `Terminalize`, `Clean`, `EndJob` | `verification/terminalize.ts`: row, objects, Job, in this order |
| `Reconcile`, `Settle`, `ScannerCrash`, `Purge` | `media-verification-scanners.ts` |
| `CommitCounts`, `CommitWrites`, `ListOverdue`, `ExpireImport` | `commit-local-folder-import.ts`, `import-timeout-scanner.ts` |

Choices a reader should know:

- What the head of the verifier's loop reads (row, cancellation, Dataset, allowance) is
  read with the write before it; what was read may be stale when it is used.
- A seal is identified by size, type and time of modification, which has a granularity of
  a second: two copies within one cannot be told apart (`at`). A copy is atomic in the
  store, so that the branch of a size that differs after it is unreachable.
- Quiescence of the Dataset is a choice, bounded like a fault (`Defer`); so are storage
  errors. The rejection of a bad relative path at publication is unreachable after the
  check of the item's preparation.
- The lookup of the object and the Serializable transaction of the admission are one step.
- The thirty days of `Purge` are the end of the clock and a guard that nobody is still
  inside the verification.

### 3.6 Exports and repository imports (`ArtifactJobs`)

A behaviour has one Job of one kind. `worker[w]` is the program counter of the processor
with the body it holds, its file, its counters, and where it goes after a clean-up
(`next`). Each statement, transaction or effect on an object is a step; `Boundary` is the
cancellation check that the import repeats before and inside its loops, `Guarded` the
progress write that raises when the lock is lost, and consecutive boundaries with nothing
between them are one step. `objects[k]` holds what was uploaded under a key and whether it
is older than the grace period; `sweep` is what the orphan sweep has found and not yet
removed, with `MINIO_ORPHAN_SCAN_DRY_RUN` off. `data` is the version of the Dataset an
export reads.

`tree` is the repository at the pinned revision, one class and a size per file, and
`manifest` what the Job's input says of items and bytes. `Cut` is the first candidate over
the item or the byte limit (of the manifest or of the policy, whichever is less): the
listing stops there, `Listed` is what it has passed, and `LimitExceeded` is the error of a
listing without candidates or with more items than the manifest has.

Where an error may strike, and what it leaves:

| Action | Error |
| --- | --- |
| `Raise` | before the effect of a statement of the `try` block; the catch clause cleans up from the upload's return on |
| `CompletionRaises`, `PersistRaises` | the transaction took effect and its answer is lost |
| `DownloadFails` | the item is counted as retryable |
| `StatRaises` | the put took effect; its answer, the stat or the size check fails, and nothing is cleaned up because `mirrorRepositoryObject` has not returned |
| `CheckRaises` | the look before a removal: repeated by the catch clause, or, in it, the object stays |
| `RemoveFails` | the removal; its error is swallowed and the object stays |
| `Crash` | the attempt is cut off: the process dies, or an error leaves the processor (`failJob`, the look in an export's catch clause) |

`strays` is history: the keys whose object such an error has left with nobody to remove it,
until the next attempt overwrites or removes it, or the sweep does. `overtaken` says that
an attempt and a pass of the sweep have overlapped.

Left out: stages and events. One revision is pinned by the Job, so the branch of an Asset
of another revision (`SOURCE_RECONCILIATION_CONFLICT`) is unreachable, and each import has
a Dataset of its own.

### 3.7 Annotation and review of an image (`AnnotationReview`)

| Variable | Code |
| --- | --- |
| `asset`, `row`, `last` | the Asset's status and content revision, its Annotations, the last workflow event |
| `bulk` | the target of a bulk change between its count and its update |
| `tab[c]` | a labeler's tab: the canvas (`shown`), the registry's `task`, `timer`, `flight` and `state`, conflict drafts, the barrier of a flush |
| `page[u]` | a reviewer's page: the canvas and, read later, status and revision |
| `known`, `mine`, `base`, `content`, `stored`, `used` | ghosts: what a tab last received, the latest edits, the row a request was based on, the content of a page's revision, what was ever committed, bounds |

| Actions | Code |
| --- | --- |
| `Serve`, `Predict`, `ColleagueSaves`, `Describe` | `annotation-service.ts`, `ai-prediction-writer.ts`, `image-mutations.ts` |
| `ColleagueMoves`, `Submit`, `Decide`, `OpenReview` | `asset-workflow-service.ts` |
| `BulkCount`, `BulkWrite` | `asset-bulk-service.ts` |
| `Edit`, `TimerFires`, `Draw`, `Delete`, `LoseAnswer`, `Receive` | `image-annotation-store.ts`, `canvas-stage.tsx`, `image-properties-tabs.tsx` |
| `Flush`, `FlushFails`, `FlushReads`, `Leave`, `Refresh`, `Reload` | `workspace-engine-flush.ts`, `workspace-header.tsx`, `dataset-sidebar.tsx`, the conflict panel |
| `OpenSelection`, `OpenWorkflow`, `ReadHistory` | `page.tsx`, `workspace-read.ts`, `workspace-header.tsx` |

An edit is a number, the value it gives to a geometry or a label; so every edit can be
recognised in the rows, in the requests and in what was ever stored. Choices a reader
should know:

- A labeler and a reviewer are different users; a colleague who acts from a current page
  stands for everybody else, a stale page of theirs being refused as a whole.
- READY stands for NEW as well, COMPLETED for the statuses no workflow action knows,
  SUBMIT for RESUBMIT. A refresh of a page is a page opened anew.
- The canvas takes the server's row when an answer arrives, whatever was edited meanwhile;
  the timer of a newer task that fires while an older request is in flight sends nothing,
  and the task stays until the next edit or flush. Both are what the code does.
- `None` stands for `null`; `NoneAssumption` says that it is not one of the records.
- A creation has no delay and is sent at once. A deletion is sent outside the registry,
  hence outside the barrier.
- `FlushFails` ends a barrier whose saves failed or whose revision cannot be read; `Leave`
  needs only that the barrier has answered, because the labeler who confirms that the draft
  be discarded leaves all the same. The registry keeps its tasks either way.
- The server's read and the client's taking of a `Refresh` are one step, so a refresh that
  was read before a save and arrives after its answer is left out. Splitting them needs a
  set of rows in transit per tab, which the instance (two million states) does not bear.
- `Reload` is modelled when nothing is in flight. Archived Datasets, permissions, label
  validation, the read-only mode and the description's own autosave are left out.

### 3.8 The promise of the review (`ReviewedDocument`)

A document has a status, a revision and a content, and readers have readings of it.
`Write` needs a document that is not under review, `Decide` a reading that *equals* the
document, content included; `Annotate` and `Override` are the two liberties the code takes
(the description is not locked, a bulk change compares no revision). The code has no such
comparison: `Decide` of `AnnotationReview` compares a number. `AnnotationReview!Document`
instantiates the promise with the Asset, its rows, the history and, for the readings, the
pages that have read the workflow state. A reading is of the rows when that state is read,
not of what the canvas shows: the latter is not promised, as the finding of `unseen` says.
`ImplementsDocument` is checked as a property and proved.

## 4. Runs

All state spaces are explored in full.

| Run | Question | Instance |
| --- | --- | --- |
| `jobs` | One owner, runs accounted for, cancellation, stamps, finality: do they survive every interleaving around a Job and its retry, and is `JobLifecycle` implemented? | 2 Jobs (an original, its retry), 2 workers, 1 producer, 2 passes, 2 attempts, 1 fault, lossy |
| `maintained` | A verification Job, which has the most writers: is the budget kept, is the lifecycle implemented, do the passes alone end RUNNING, is a QUEUED Job served? | 1 Job, 1 worker, 1 producer, 1 pass, 2 attempts, 1 deferral, 1 fault, archiving; `MaintainedSpec` |
| `ai_submit` | Is the provider asked at most once? Does a decided AiTask stay decided? Does RUNNING end although the poll loop renews its own lease? | 2 submitters, 1 of them polls, 1 crash; `LiveSpec` |
| `ai_poll` | Are predictions committed once and with the Job? Are outcomes compatible? Does a live lease keep its owner? | 1 submitter, 2 pollers |
| `verification` | Was what is published probed, is what is refused junk? Do row, Job, item and import agree? Is a last word final, a cancellation respected? | 1 item, 2 workers, 1 request, 1 upload, 2 claims, 1 fault |
| `verification_ends` | With no claim, upload or user assumed, is every verification settled and does the import end? | the same with 1 worker, 1 claim, a body the direct path takes; `LiveSpec` |
| `artifacts` | Is what is COMPLETED complete and stored? What may an attempt leave behind? | 2 files of sizes 1 and 2 in batches of 1 (every tree), three manifests, limits of 2 items and 3 bytes, 2 workers, 3 claims, 1 edit, 1 cut-off, 1 error, 1 lost lease, 1 ageing of the objects |
| `annotations` | Do saves, decisions, "saved", "conflict" and the barrier say what is so, and is `ReviewedDocument` implemented? | 1 tab or 1 page, 1 annotation, 2 edits, 1 start of work or rework, 1 other event |

`retrying`, `incomplete`, `unsaved` and `unseen` are the counterexamples of section 5.

**Bounds.** Two workers are enough for an old owner and a new one: the guards compare a
token with the row's, so a third worker only repeats the second. Two passes are the
overlapping replicas. TLC has one producer, so it does not see a slow enqueue overtaken by
another one; the theorems `StampsAreTrue` and `RunsArePaidFor` are about any number.
`MaxAttempts = 2` has a recovery that retries, one that exhausts the budget, and the
off-by-one between the two actors that charge it (attempts may reach `MaxAttempts + 1`).
`MaxFaults` bounds crashes, stalls and failed adds together. One is enough in `jobs`: a
stall makes two workers run the same Job, and a worker that dies is also one that takes no
further step, which every interleaving contains. `MaxDefers = 1` has a deferral next to an
attempt. Two Jobs, an original and its retry, are what can interact: only a retry reads
another Job, the one it succeeds.
`MaxPolls = 1` has a poll within the budget and one beyond it. Tokens in `AiOperation`
are drawn from a set larger than the number of holders, so no bound on claims is needed.
A poller that crashes is, for the others, one that takes no further step, so `ai_poll` has
no crash; in `ai_submit` one process submits and polls, and the other takes its Job over.

In `verification` one item has an import to decide, the clock has a tick before the
deadlines, one at them and one after, and two claims of one verification overlap (a stall
leaves the first worker running). A second item would add an import that waits for the
other one: the commit's predicate is a conjunction over the items. In `artifacts` three
claims are a first attempt, a recovered one and a retry; two files in batches of one have
a first, a last, a skipped and a rejected file and a boundary between batches. Of the three
manifests one is unknown, one cuts the listing after an item (and refuses a longer one), and
one cuts it by bytes. One error hits any of the places that 3.6 lists, one lost lease any
step. In `annotations` the bounds count what starts something new;
saves, answers, flushes, submissions and decisions are unbounded. Two edits are what one
key can confuse (a draft and the one that replaces it), and the start of a rework gives
two rounds of review. The server's properties, which more users and annotations might
break, are the ones proved in section 6 for any number of them.

**Symmetry** is used over workers, pollers, producers and passes, in safety runs only: no
action distinguishes them. It is never used under fairness.

**Deadlock** is not checked: a system whose Jobs are all decided rightly stops, as do the
bounded counters.

**Fairness.** All of it is weak, on actions that stay enabled until the actor takes them;
crashes, users and the loss of a lease have none. `Maintenance` assumes what runs whatever
the handlers do: time passes, the scheduled passes start (`readiness.ts` schedules them in
every process, `periodic-task.ts` keeps them going after an error) and handle their lists.
`Progress` adds that producers, routers and processors are scheduled: subprocess, provider
and storage calls have timeouts. The run `maintained` states fairness of `Maintenance`
alone, so that `RunningSettles` needs no worker; `QueuedIsServed` says itself that it
assumes `Progress`. It excludes `Lossy`: a delivery that is consumed unprocessed leaves a
QUEUED row that says it was enqueued, and no pass selects that (listed among the hazards).
In `AiOperation` nothing is assumed of BullMQ, the handlers, the poll scanner nor the
runaway pass: the budget of a task runs out with time, a lease expires at last, and the
expired-lease pass runs. The code renews the lease at every poll, but only while the
budget lasts.

In `MediaVerification` the clock runs, the scans and the deadline pass run, a processor
that has claimed a Job goes on and an expired lease is recovered; no upload, claim, request
or commit is assumed. `VerificationSettles` thus rests on the allowance and the reconciling
scan, `ImportSettles` on the deadline pass and the tail a verification may add to it.

**Conditions.** `CompletedHasArtifact` and `AssetHasObject` are stated while no attempt
outlives its lease and no pass of the sweep overlaps an attempt (`Timely`); the sweep runs,
finds and removes between attempts. Outside these conditions both fail in the code: an
attempt that has lost its lease looks whether its object is published and removes it
afterwards, and so does the sweep; what is published in between loses its object.
`CompletedImportIsComplete` has no condition: it says which files an import is complete of,
those before the cut. `NothingLeftBehind` excludes attempts that were cut off and lost
leases, and names the `strays`, which the code leaves to the sweep; `IncompleteIsReal`
excludes lost leases, the conflict part of `SaveStatesAreTrue` lost answers (a
request that was applied and is repeated conflicts with itself), `OverwritesWhatWasSeen`
annotations that a repeated creation has brought back.

**Mutants.** Every property of a passing run has a mutant: an operator that changes a
mapped definition the way a slip in that code would (marked `Slip:` in the modules),
under which TLC finds the property violated by the same configuration.

## 5. Findings

Each is a run whose property is what the repository says and whose counterexample is
what the code does; `PROJECT.json` quotes the lines.

| Run | Said | Done |
| --- | --- | --- |
| `retrying` | A Job taken back in place is redelivered by the recovery scanner. | The scanner selects QUEUED only; a RETRYING Job that is not a verification waits for ever. |
| `incomplete` | An import with a failed and a skipped item ends COMPLETED (its test), and so does every one whose batches have an outcome (specs/016 FR-011). | It ends FAILED with `IMPORT_INCOMPLETE`, as specs/029 asks. |
| `unsaved` | No test case silently loses an unsaved draft. | A label choice within the debounce of a drag replaces the drag's task under the same key; the key becomes "saved". |
| `unseen` | A decision can never succeed against annotation data older than what was reviewed. | A page reads its annotations before the revision it will send, and the history panel refreshes the revision alone. |

Disagreements seen while modelling, which the models contain and no run singles out:

- The runaway branch of the stale-job detector does not repeat `lockedAt`
  (`stale-job-detector.ts:46`, against its comment at 152-154): an old list takes away a
  fresh claim.
- A deferral keeps the attempt number (`operational.ts:42`), so its redelivery reuses an
  id the queue ignores, and the row is stamped; the allowance ends it.
- A failing submission sets the AiTask FAILED by id alone (`ai-submit.processor.ts:39`),
  over SUCCEEDED; a queued AI Job cancelled by its Job id leaves its AiTask open.
- `objectsClearedAt` is set when the keys of the row as it was read are gone
  (`terminalize.ts:22`); a seal copied and not yet recorded is not among them. On STALE,
  a newer upload under the staged key is removed with the old one (`terminalize.ts:25`).
- A cancellation that lands between publication and the completion of the Job, or between
  the last word of a row and the end of its Job, leaves the Job CANCELING; no pass selects
  it. Neither does one select the import Job whose summary is rewritten by a late item
  (`folder-accounting.ts:31` has no status guard).
- The listing of a repository stops at the first file over a limit
  (`repository-import-source.ts:130-133`) and the import is COMPLETED with no word of the
  rest, against "No silent skip→success" (`specs/029-modality-specific-datasets/contracts/creation-ingestion.md:37`).
- An object whose put was stored and whose answer, stat or size check fails stays where it
  is (`repository-asset-mirror.ts:21-23`, `import-dataset.ts:78,90,111`: `published` is still
  null), and so does one whose removal fails (`repository-asset-mirror.ts:36`), against
  `specs/016-minio-upload-batch-asset-upsert/spec.md:201-203` (SC-005, "leaves no
  unreferenced object in the Job's import scope").
- The sweep checks references and then removes (`minio-orphan-scanner.ts:150-164`,
  against the comment at 178-181).
- The bulk status change counts and then updates by id (`asset-bulk-service.ts:134-140`),
  so a governed status can be overwritten by one that is not.
- A flush that joins a request in flight reports that request's "saved", also when a newer
  task waits behind it; and after a failed flush the next one passes, the failed task
  being gone (`image-annotation-store.ts:81-99`). A repeated creation brings a deleted
  annotation back (`annotation-service.ts:97-108`).

## 6. Proofs

### 6.1 `JobLeaseProofs`

From the assumptions on the constants only (tokens are positive numbers, `NoJob`,
`NoWorker` are not members of their sets, the bounds are natural numbers), for any sets of
Jobs, workers, producers and passes:

| Theorem | States |
| --- | --- |
| `Invariance` | `Spec => []IInv` |
| `TypesHold` | `TypeOK`; the bound on attempts in it is not obvious, two actors charge them |
| `LocksAreShaped` | `LockShape` |
| `CancellationsAreShaped` | `CancelShape` |
| `OneOwner` | `SingleOwner` |
| `DecisionsAreFinal` | `TerminalIsFinal` |
| `OwnersComplete` | `CompletedByOwner` |

`SingleOwner` is not inductive: after a claim, a fresh token must differ from every token
still in some worker's hand, and a worker that holds a token must hold it for a Job that
was claimed that often. The invariant is therefore

    IInv = TypeOK /\ ActorsOK /\ TokensIssued /\ BudgetKept
           /\ SingleOwner /\ LockShape /\ CancelShape

`ActorsOK` ties each program counter to what its record holds (a working worker has a Job
and a token), `TokensIssued` bounds every token in a hand or a row by the claims granted,
and `BudgetKept` says which statuses an overspent budget allows, which is what bounds
attempts. The argument has three layers: lemmas on the operators of
`JobRow` (each keeps the type of a row), one lemma per action that says what the action
does to rows and hands, summed up in `Moves` (every step is an ordinary move of rows and
hands, a `Claim` or an `OperationalExhausted`), and the preservation of each conjunct for
those cases. `DecisionsAreFinal` and `OwnersComplete` follow from the same lemmas and the
invariant.

### 6.2 `JobRefinementProofs`

From the same assumptions and on top of `IInv`:

| Theorem | States |
| --- | --- |
| `RunsArePaidFor` | `RunsAreAccountedFor` |
| `StampsAreTrue` | `StampedWasAdded` |
| `LifecycleIsImplemented` | `ImplementsLifecycle`: `Spec` implies the specification of `JobLifecycle` |
| `LiveLeasesAreKept` | `LiveLeaseIsKept` |

The lemma `Writes` goes through the actions once and shows `OneRow`: a step writes at most
one row; it charges that Job nothing, or one attempt or deferral while it is RUNNING; and
it keeps, clears or truly makes its stamp. `RunsAreAccountedFor` becomes inductive with
`Fresh` (a row that does not exist has no attempts and no claims). `StampedWasAdded` needs
`StampersAdded`, a producer about to stamp has added the delivery it will name, and
`DeliveriesStay`, the queue forgets no id. In the refinement `Simulates` maps a claim to
`Grant`, which is where `RunsAreAccountedFor` is needed, a creating retry to `Succeed`, the
charge of an exhausted attempt to `Charge`; the rest follows from how the row of one Job
may move (`Phases`). `LiveLeasesAreKept` rests on `LockShape` alone: a row with a live
lease is RUNNING or CANCELING, where every statement names the token or an expired lease.

### 6.3 `AiOperationProofs`

From the assumptions that `Workers` is finite, submitters and pollers are workers, and the
bounds are natural numbers:

| Theorem | States |
| --- | --- |
| `ProviderAskedOnce` | `CreatedOnce` |
| `BatchesAreCommittedOnce` | `CommittedWithJob` |
| `OutcomesAgree` | `OutcomesCompatible` |
| `DecidedTasksStay` | `TaskNeverReopens` |
| `LeasesStayWithOwners` | `LeaseStaysWithOwner` |
| `OperationTypesHold` | `TypeOK` |

`Sound` (the shape of the records, and a recorded cancellation agrees with the status of
the Job) comes first, with lemmas that say in which ways a step may change the Job
(`RowMoves`) and the AiTask (`TaskMoves`). `CreatedOnce` is not inductive: what makes it
so is `OnceInv`, that a call is preceded by a reservation which only one handler can make
(`ReservedFirst`), and that an operation seen refused (`RefusedCreatesNone`) or given back
to the user (`RetriedCreatesNone`) has created nothing and has no call under way.
`OutcomesCompatible` adds that whoever is about to close the AiTask as canceled has seen a
Job that is CANCELING or CANCELED and stays so (`ClosersSaw`), `CommittedWithJob` that the external id a
poll answers for is that of a task the provider created (`IdsCreated`). None of these uses
that lock tokens are distinct, so the guards repeated in each update, not the lock, carry
them; only `TypeOK` needs that a fresh token exists, by a cardinality argument.

### 6.4 `AnnotationReviewProofs`

For any number of users, annotations, edits, rounds of review and faults, from no
assumption on the constants. These are about the server; 6.5 is about the browsers.

| Theorem | States |
| --- | --- |
| `GovernedStatuses` | `GovernedByTransition` |
| `RevisionsNameContent` | `RevisionNamesContent` |
| `ReviewedContentStays` | `ReviewedContentIsFrozen` |
| `DecisionsAreOfTheirRevision` | `DecisionIsOfItsRevision` |

The lemma `ServerChanges` goes through the actions once: whatever a browser does, the
server's state changes in one of four ways, an editable content is claimed and written,
the revision moves alone, a workflow action moves the status, or a bulk change sets it.
`GovernedByTransition` is not inductive, because a bulk change writes a target it chose
earlier: `BulkOK` adds that a change which has counted holds a status that is not
governed. `DecisionIsOfItsRevision` needs `PageAgrees`: an open page names an old revision,
or its content is the content there is. It survives the writers because the revision moves
with the rows (`RevisionNamesContent`), and a decision because its own new revision comes
with unchanged rows.

### 6.5 `AnnotationTabProofs`

For any number of users, annotations, edits and faults, from `ReviewBoundsAssumption` and
`NoneAssumption`:

| Theorem | States |
| --- | --- |
| `ReviewTypesHold` | `TypeOK` |
| `BarriersSave` | `BarrierSaves` |
| `SaveStatesTrue` | `SaveStatesAreTrue` |
| `SavesOverwriteWhatWasSeen` | `OverwritesWhatWasSeen` |
| `DocumentIsImplemented` | `ImplementsDocument`: `Spec` implies the specification of `ReviewedDocument` |

The proofs first say, field by field, how each action changes a tab (`Edits`, `Sends`,
`Launches`, `Answers`, `Hears`, ...); `LabelerEffects` sums this up as nine effects, and
from there on no proof opens an action again. Three invariants stand on each other:

- `TabInv`, one tab at a time. `Keyed`: a request sits under its own key, and a timer runs
  only for a task that has not been sent. `Numbered`: a task carries the number of its
  annotation's latest edit, so a request with that number is that task. This is why the
  answer to the newest task may say "saved" of the latest edit, and the answer to an older
  one may not. `Awaited`: a barrier that has heard no refusal still waits for every draft
  that is not stored, and the request it waits for is the one it sent. `BarrierSaves` and
  the "saved" half of `SaveStatesAreTrue` follow.
- `AskInv`, between tabs. While no answer has been lost, a number is asked for under one key
  of one tab (`AskedOnce`), whatever is asked for and unanswered is not stored, and what was
  refused is neither stored nor asked for again (`NotYetStored`). This gives "conflict" its
  meaning; with lost answers it is false, as section 4 says.
- `Origins`, between tabs and rows. Whatever a tab has received of an annotation, on its
  canvas, in an answer or as the base of a request, has at most the row's revision, and with
  the row's revision it is the row (`Was`). Deletions make this subtle: revisions start over
  when an annotation is created again. So a creation that is under way for the first time is
  of an annotation nobody has heard of (`Unborn`), only one tab creates it, and one that is
  repeated after a deletion marks the annotation as `reborn`, which the property excludes.

The refinement takes a step that leaves every page alone through the four ways of
`ServerChanges` (`DocumentWrites`) and a reviewer's step action by action
(`DocumentReads`). `PageAgrees` of 6.4 is what turns the comparison of revisions into the
equality of contents that the abstract `Decide` asks for; `TypeOK` keeps the rows written
among the contents, and `BulkOK` a bulk change out of the workflow's statuses.

### 6.6 `MediaVerificationProofs`

For any number of items, generations, requests, workers, claims and faults, from the bounds
being natural numbers, `ScannerAssumption` (the scan is no worker), the three kinds of
upload in `Bodies` and `RetentionAssumption` (a row is purged after the deadline of its
import, so that nobody can still admit its item anew):

| Theorem | States |
| --- | --- |
| `AssetsAreProbed` | `PublishedIsProbed` |
| `OutcomesHold` | `OutcomesAreTrue` |
| `ImportsEndOnce` | `ImportEndsOnce` |
| `LastWordsStay` | `LastWordStays` |
| `CancellationsPrecede` | `NothingPublishedAfterCancel` |
| `VerificationTypesHold` | `TypeOK` |

No property is inductive, because nearly every step acts on what its actor read earlier.
`Standing` says what an actor at each program counter may still rely on, whatever the
others did since: one about to end its Job knows its row ended unpublished, one about to
complete it that the row is PUBLISHED, one that decided REFUSED that the upload recorded
in the row is junk, one about to publish that, if the row is still VERIFIED, its sealed
object is there. `BodyFacts`, `LinkFacts` and `JobFacts` relate each row to its objects,
its Asset and its Job; `ImportFacts` says that a commit which counted every item as linked
stays right, since links are never removed. The lemmas `RowMove`, `SealMove`, `JobMove` and
`ActorMove` name the few ways in which a row, a sealed object, a Job and an actor may
change; the invariant is preserved by those, not by each action in turn. The bound
on attempts in `TypeOK` needs `Tokens` on top (two workers never hold a verification under
one token, so a run is charged once) and `Budget` (what is claimable or held is within the
budget); `Spends` lists the ways in which attempts and tokens change.

### 6.7 `ArtifactJobProofs`

For any set of workers, any repository tree, sizes, manifests, limits and bounds, from `ArtifactBounds` and the
assumptions of `JobRow`:

| Theorem | States |
| --- | --- |
| `ArtifactInvariant` | `Spec => []IInv` |
| `ArtifactTypesHold` | `TypeOK`: the counters stay within the number of files |
| `CompletedExportsHaveArtifacts` | `CompletedHasArtifact` |
| `AssetsHaveObjects` | `AssetHasObject` |
| `CompletedImportsAreComplete` | `CompletedImportIsComplete` |
| `NothingIsLeftBehind` | `NothingLeftBehind` |
| `IncompleteImportsAreReal` | `IncompleteIsReal` |

None is inductive by itself, because a processor acts on what it stored and counted many
steps ago. `IInv` has a part for each thing it relies on:

    IInv = TypeOK /\ Locals /\ Outcomes /\ Ownership /\ SweepApart /\ ExportStored
           /\ ImportStored /\ CountedIsMissing /\ ObjectsKept /\ JobsKept

`Locals` is what a processor knows whatever happens to its lease: it takes candidates in
order, counts a file once, and if it has counted none then every candidate it has passed is
an Asset, which is what makes a COMPLETED import complete even when two processors overlap.
`Ownership` says that while no lease has run out under its worker one processor at a time
is inside, and holds the Job or is leaving a Job that is over. `SweepApart` says that what a
pass which overlaps no attempt has found stays unreferenced until it is removed. On these
rest `ExportStored` and `ImportStored` (what a processor has uploaded is still there when a
row comes to refer to it, and what it removes no row refers to), `CountedIsMissing` (what
it counted is not an Asset), and, while no attempt is cut off, `ObjectsKept` and `JobsKept`
(an object without a row that is no stray, and a RUNNING Job, are in the hands of a
processor, so none is left when there is no processor). The conditions are the properties'
own (section 4), none was added for the proof. What the listing passes (`Listed`) is never
computed in the proofs: they use only that its candidates are files and that the others
are what `Skipped` counts.

### 6.8 Only proved, only model-checked

`LockShape`, `CompletedByOwner`, `RevisionNamesContent` and `ReviewedContentIsFrozen` are
proved for every instance; no run names them (the last two are part of what
`ImplementsDocument`, which a run checks, says of `Write`). Every safety property that a
passing run checks is proved, in every module. Only model-checked are the liveness
properties under fairness (`RunningSettles`, `QueuedIsServed`, `RunningEnds`,
`VerificationSettles`, `ImportSettles`): liveness, like anything about `ENABLED`, is out
of the prover's reach. The four properties of section 5 are refuted, not proved. The
proofs take the bounds as any natural numbers, but keep them: a theorem is about every
finite number of edits, claims and faults.

## 7. Not modelled, and abstracted

- Progress, stage and messages of a Job; events, activity and logging; batch sizes of
  passes (a pass takes every candidate), `runAfter` backoff and retention.
- Authorisation, except that an inactive Dataset answers 404.
- PostgreSQL, BullMQ, Redis and MinIO themselves: a statement or a serializable transaction
  with its retries is atomic, an add of a known
  id is ignored, a delivery is dequeued by one worker at a time, a copy or a removal of an
  object is one step.
- In `AiOperation`: the per-target accounting, label resolution, the built-in test
  provider and the contents of predictions.
- Video and text annotations, with their stores: services of the same form as the image's,
  with receipts of their own. Bulk Jobs: a claim and a loop of guarded updates.
- The collaboration relay and the realtime gateway: see the plan.
- Media, visualization and text processors beyond their Job; exports' file formats;
  repository providers: subprocesses, data and remote services.
- User interface, routes, sign-in, source connections: see the notes in `PROJECT.json`.

Most of the repository by size is not program logic: of some 166 500 lines counted as
implementation, more than half are the generated Prisma client, and most of the rest are
React components, pages, thin routes, validation and provider clients. The map covers a
small share of those lines and nearly all of the statements by which concurrent actors
change Jobs, verifications, imports, exports, annotations and review states.

## 8. Plan

Done: `JobRow`, `JobLease`, `JobLifecycle` with all proofs including the refinement;
`AiOperation` and its proofs; `MediaVerification` with the folder import and its proofs;
`ArtifactJobs` and its proofs; `AnnotationReview` with the proofs about the server and the
browsers, and `ReviewedDocument`, which it implements.

Next:

1. The collaboration relay over `JobRow`: at-least-once publication, membership, presence.
2. The video autosave, whose coordinator is not the registry of the images, and the
   receipts of the text annotations.
