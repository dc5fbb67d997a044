---------------------------- MODULE AiOperation ----------------------------
(***************************************************************************)
(* One AI pre-annotation operation: the pair of a durable Job and its       *)
(* AiTask, the worker that submits it to the provider, and the scanner that *)
(* polls the provider until it answers.                                     *)
(*                                                                          *)
(*   submit   a queue delivery: claimJob, then ai-submit.processor.ts and   *)
(*            aioz-task-resources.ts (reserve, create, record)              *)
(*   poll     one pass of ai-poll-scanner.ts: ai-poll.processor.ts under    *)
(*            the lock of queue/job-lock.ts                                 *)
(*   user     cancellation by Job or by AiTask, and ai-retry-service.ts     *)
(*   pass     a stale-job pass that has listed this Job some time ago       *)
(*                                                                          *)
(* A worker process runs both handlers under one workerId and a restarted   *)
(* process draws a new one, so a crashed worker never comes back: up is     *)
(* the set of those still running.  The provider has no idempotency key; it *)
(* is the number of tasks it has created for this AiTask.                   *)
(***************************************************************************)
EXTENDS JobRow, FiniteSets

CONSTANTS Submitters,   \* the workers that receive deliveries
          Pollers,      \* the workers that run the poll scanner
          Runaways,     \* may a runaway pass have listed the Job?
          MaxPolls,     \* MAX_POLL_ATTEMPTS
          MaxCrashes    \* bound: worker processes that may die

ASSUME WorkersAssumption == IsFiniteSet(Workers)
ASSUME HandlersAssumption == Submitters \subseteq Workers /\ Pollers \subseteq Workers
ASSUME PollBoundsAssumption == Runaways \in BOOLEAN /\ MaxPolls \in Nat /\ MaxCrashes \in Nat

VARIABLES
  row,        \* the Job
  task,       \* the AiTask
  created,    \* tasks the provider has created for this AiTask
  committed,  \* prediction batches committed as Annotations
  submit,     \* worker -> its submit handler
  poll,       \* worker -> its poll step
  cancel,     \* a cancel request in flight: the status it has read
  retry,      \* ai-retry-service: "no", "deciding", "successor"
  up          \* the worker processes that are running

vars == <<row, task, created, committed, submit, poll, cancel, retry, up>>

Open == {"QUEUED", "RUNNING"}

Task == [status: Open \union {"SUCCEEDED", "FAILED", "CANCELED"},
         external: BOOLEAN,                    \* externalTaskId is recorded
         reserved: BOOLEAN,                    \* summary.aiozSubmission
         error: {"none", "refused", "other"},  \* errorCode; "refused" is AIOZ_HTTP_4XX
         polls: 0 .. MaxPolls,                 \* of the budget, spent; see TaskAges
         scheduled: BOOLEAN]                   \* nextPollAt is not NULL

Submit == [pc: {"idle", "claimed", "checking", "preparing", "reserving", "creating",
                "recording", "scheduling", "failing", "closing"},
           token: Nat, external: BOOLEAN, error: {"refused", "other"}]

Poll == [pc: {"idle", "listed", "loaded", "locked", "calling", "answered", "rescheduling",
              "renewing", "completing", "failing", "closing", "finalizing", "releasing"},
         token: Nat]

IdleSubmit == [pc |-> "idle", token |-> NoToken, external |-> FALSE, error |-> "other"]
IdlePoll == [pc |-> "idle", token |-> NoToken]

TypeOK ==
  /\ row \in Row
  /\ task \in Task
  /\ created \in Nat
  /\ committed \in Nat
  /\ submit \in [Workers -> Submit]
  /\ poll \in [Workers -> Poll]
  /\ cancel \in {"none", "QUEUED", "RETRYING", "RUNNING", "closing"}
  /\ retry \in {"no", "deciding", "successor"}
  /\ up \subseteq Workers

(* createAiTask commits the two rows in one transaction, then enqueues. *)
Init ==
  /\ row = QueuedRow
  /\ task = [status |-> "QUEUED", external |-> FALSE, reserved |-> FALSE,
             error |-> "none", polls |-> 0, scheduled |-> FALSE]
  /\ created = 0
  /\ committed = 0
  /\ submit = [w \in Workers |-> IdleSubmit]
  /\ poll = [w \in Workers |-> IdlePoll]
  /\ cancel = "none"
  /\ retry = "no"
  /\ up = Workers

(* A token nobody remembers: randomUUID, without an unbounded counter. *)
Remembered == {row.token} \union {submit[w].token : w \in Workers} \union {poll[w].token : w \in Workers}
FreshToken == CHOOSE t \in 1 .. 2 * Cardinality(Workers) + 2 : t \notin Remembered

-----------------------------------------------------------------------------
(* The submit handler of worker w.                                          *)

SubmitAt(w, from) == w \in up /\ submit[w].pc = from
SubmitTo(w, to) == submit' = [submit EXCEPT ![w].pc = to]
SubmitFails(w, error) == submit' = [submit EXCEPT ![w].pc = "failing", ![w].error = error]
SubmitEnds(w) == submit' = [submit EXCEPT ![w] = IdleSubmit]

(* routeQueueDelivery: however many deliveries there are, only a claimable  *)
(* Job is claimed.                                                          *)
Deliver(w) ==
  /\ SubmitAt(w, "idle")
  /\ CanClaim(row) /\ ~row.cancelRequested
  /\ row' = Claimed(row, w, FreshToken)
  /\ submit' = [submit EXCEPT ![w] = [IdleSubmit EXCEPT !.pc = "claimed", !.token = FreshToken]]
  /\ UNCHANGED <<task, created, committed, poll, cancel, retry, up>>

(* A cancellation that beat the claim is acknowledged by the router.  *)
RouterCancels(w) ==
  /\ SubmitAt(w, "claimed")
  /\ row.token = submit[w].token /\ row.cancelRequested
  /\ row' = IF CanAckCancel(row, submit[w].token) THEN Finished(row, "CANCELED") ELSE row
  /\ SubmitEnds(w)
  /\ UNCHANGED <<task, created, committed, poll, cancel, retry, up>>

(* Otherwise processAiSubmit reads the AiTask: only an open one is worked on. *)
SubmitReads(w) ==
  /\ SubmitAt(w, "claimed")
  /\ ~(row.token = submit[w].token /\ row.cancelRequested)
  /\ submit' = IF task.status \in Open
                 THEN [submit EXCEPT ![w].pc = "checking", ![w].external = task.external]
                 ELSE [submit EXCEPT ![w] = IdleSubmit]
  /\ UNCHANGED <<row, task, created, committed, poll, cancel, retry, up>>

OwnsOpenJob(w) == row.token = submit[w].token /\ row.status = "RUNNING" /\ ~row.cancelRequested

(* A Job that is no longer this worker's is left alone.  Input, projection  *)
(* and requester access are validated before anything is reserved.          *)
SubmitChecks(w) ==
  /\ SubmitAt(w, "checking")
  /\ IF OwnsOpenJob(w)
       THEN \/ SubmitTo(w, IF submit[w].external THEN "scheduling" ELSE "preparing")
            \/ SubmitFails(w, "other")
       ELSE SubmitEnds(w)
  /\ UNCHANGED <<row, task, created, committed, poll, cancel, retry, up>>

(* prepare: a recorded task is reused, a reservation without one is         *)
(* ambiguous and never sent again, and unusable input is refused.           *)
Prepare(w) ==
  /\ SubmitAt(w, "preparing")
  /\ IF task.external THEN SubmitTo(w, "scheduling")
     ELSE \/ ~task.reserved /\ SubmitTo(w, "reserving")
          \/ SubmitFails(w, "other")
  /\ UNCHANGED <<row, task, created, committed, poll, cancel, retry, up>>

(* Slip: the summary read by prepare is not repeated in the update. *)
CanReserveAgain == /\ ~task.external /\ task.status \in Open
                   /\ row.status = "RUNNING" /\ ~row.cancelRequested

(* The conditional update is the reservation: it repeats the summary that   *)
(* was read, and asks that the Job is running and not cancelled.            *)
CanReserve == /\ ~task.external /\ ~task.reserved /\ task.status \in Open
              /\ row.status = "RUNNING" /\ ~row.cancelRequested

Reserve(w) ==
  /\ SubmitAt(w, "reserving")
  /\ IF CanReserve
       THEN task' = [task EXCEPT !.reserved = TRUE] /\ SubmitTo(w, "creating")
       ELSE UNCHANGED task /\ SubmitFails(w, "other")
  /\ UNCHANGED <<row, created, committed, poll, cancel, retry, up>>

(* The create call: a task and its id; a 4xx, which proves there is none;   *)
(* or any other error, after which nobody knows.                            *)
CreateCall(w) ==
  /\ SubmitAt(w, "creating")
  /\ \/ created' = created + 1 /\ SubmitTo(w, "recording")
     \/ created' = created + 1 /\ SubmitFails(w, "other")
     \/ UNCHANGED created /\ SubmitFails(w, "other")
     \/ UNCHANGED created /\ SubmitFails(w, "refused")
  /\ UNCHANGED <<row, task, committed, poll, cancel, retry, up>>

(* recordSubmission stores the id and hands the task to the poll scanner.   *)
Record(w) ==
  /\ SubmitAt(w, "recording")
  /\ IF task.external
       THEN SubmitFails(w, "other") /\ UNCHANGED task
       ELSE SubmitTo(w, "scheduling") /\ task' = [task EXCEPT !.external = TRUE, !.scheduled = TRUE]
  /\ UNCHANGED <<row, created, committed, poll, cancel, retry, up>>

(* Slip: the AiTask is marked RUNNING whatever it has become. *)
CanScheduleBlindly == TRUE
CanSchedule == task.status \in Open

(* The last writes of the handler, to the AiTask and to the stage of the    *)
(* Job; a database error in either of them fails the submission.            *)
Schedule(w) ==
  /\ SubmitAt(w, "scheduling")
  /\ \/ /\ task' = IF CanSchedule
                     THEN [task EXCEPT !.status = "RUNNING", !.external = TRUE, !.scheduled = TRUE] ELSE task
        /\ SubmitEnds(w) \/ SubmitFails(w, "other")
     \/ UNCHANGED task /\ SubmitFails(w, "other")
  /\ UNCHANGED <<row, created, committed, poll, cancel, retry, up>>

(* failSubmission: the AiTask first, whoever owns the Job by now, and then  *)
(* the Job under the lock; an error in the first is ignored.                *)
FailSubmission(w) ==
  /\ SubmitAt(w, "failing")
  /\ task' \in {task, [task EXCEPT !.status = "FAILED", !.error = submit[w].error]}
  /\ SubmitTo(w, "closing")
  /\ UNCHANGED <<row, created, committed, poll, cancel, retry, up>>

FailJob(w) ==
  /\ SubmitAt(w, "closing")
  /\ row' = IF CanWrite(row, submit[w].token) THEN Finished(row, "FAILED") ELSE row
  /\ SubmitEnds(w)
  /\ UNCHANGED <<task, created, committed, poll, cancel, retry, up>>

-----------------------------------------------------------------------------
(* The poll step of worker w.                                               *)

PollAt(w, from) == w \in up /\ poll[w].pc = from
PollTo(w, to) == poll' = [poll EXCEPT ![w].pc = to]
PollEnds(w) == poll' = [poll EXCEPT ![w] = IdlePoll]

(* pollDueAiTasks lists the AiTask; its Job is loaded when its turn comes. *)
ListDue(w) ==
  /\ PollAt(w, "idle")
  /\ task.status \in Open /\ task.scheduled
  /\ PollTo(w, "listed")
  /\ UNCHANGED <<row, task, created, committed, submit, cancel, retry, up>>

LoadJob(w) ==
  /\ PollAt(w, "listed")
  /\ poll' = [poll EXCEPT ![w].pc = "loaded", ![w].token = row.token]
  /\ UNCHANGED <<row, task, created, committed, submit, cancel, retry, up>>

(* Slip: the token alone proves ownership. *)
CanRenewByToken(w, seen) == row.token = seen /\ seen # NoToken /\ row.lease = "live"

(* renewOrReclaimLock: a live lease is renewed by its owner only, an        *)
(* expired or released one is taken by anybody; the token rotates.          *)
CanRenew(w, seen) == row.token = seen /\ seen # NoToken /\ row.lockedBy = w /\ row.lease = "live"
CanReclaim(w) == row.lease = "none" \/ LeaseOver(row)

LockJob(w) ==
  /\ PollAt(w, "loaded")
  /\ IF row.status \in Active /\ (CanReclaim(w) \/ CanRenew(w, poll[w].token))
       THEN /\ row' = [row EXCEPT !.token = FreshToken, !.lockedBy = w, !.lease = "live"]
            /\ poll' = [poll EXCEPT ![w].pc = "locked", ![w].token = FreshToken]
       ELSE UNCHANGED row /\ PollEnds(w)
  /\ UNCHANGED <<task, created, committed, submit, cancel, retry, up>>

(* Slip: polling has no budget. *)
UnlimitedBudget == FALSE

(* hasExceededPollBudget *)
OutOfBudget == task.polls >= MaxPolls

(* Under the lock and before the provider is called: the cancellation, then *)
(* the AiTask and its budget.                                               *)
CheckCancel(w) ==
  /\ PollAt(w, "locked")
  /\ PollTo(w, CASE row.cancelRequested -> "finalizing"
                 [] ~row.cancelRequested /\ ~task.external -> "releasing"
                 [] ~row.cancelRequested /\ task.external /\ OutOfBudget -> "failing"
                 [] OTHER -> "calling")
  /\ UNCHANGED <<row, task, created, committed, submit, cancel, retry, up>>

(* The provider call; resolving the adapter may throw, and the pass goes on *)
(* to its next task without releasing the lock.                             *)
CallProvider(w) ==
  /\ PollAt(w, "calling")
  /\ PollTo(w, "answered") \/ PollEnds(w)
  /\ UNCHANGED <<row, task, created, committed, submit, cancel, retry, up>>

(* The Job is read again: another owner, or a cancellation, wins; otherwise *)
(* the answer decides: pending, completed, or failed.                       *)
RereadJob(w) ==
  /\ PollAt(w, "answered")
  /\ IF row.token # poll[w].token THEN PollEnds(w)
     ELSE IF row.cancelRequested THEN PollTo(w, "finalizing")
     ELSE \E next \in {"rescheduling", "completing", "failing"} : PollTo(w, next)
  /\ UNCHANGED <<row, task, created, committed, submit, cancel, retry, up>>

(* The count of a task over its budget is not followed any further. *)
Reschedule(w) ==
  /\ PollAt(w, "rescheduling")
  /\ task' = [task EXCEPT !.polls = IF @ < MaxPolls THEN @ + 1 ELSE @, !.scheduled = TRUE]
  /\ PollTo(w, "renewing")
  /\ UNCHANGED <<row, created, committed, submit, cancel, retry, up>>

RenewLock(w) ==
  /\ PollAt(w, "renewing")
  /\ row' = IF row.status = "RUNNING" /\ row.token = poll[w].token /\ row.lockedBy = w
              THEN [row EXCEPT !.lease = "live"] ELSE row
  /\ PollEnds(w)
  /\ UNCHANGED <<task, created, committed, submit, cancel, retry, up>>

(* Slips: the completion claim trusts what was read before, or forgets the  *)
(* cancellation.                                                            *)
CanCompleteAsRead(w) == TRUE
CanCompleteCanceled(w) == row.status \in Active /\ row.token = poll[w].token /\ row.lockedBy = w

CanComplete(w) == /\ row.status = "RUNNING" /\ ~row.cancelRequested
                  /\ row.token = poll[w].token /\ row.lockedBy = w

(* handleAiTaskCompleted: one transaction claims the completion of the Job, *)
(* writes the Annotations and closes the AiTask; invalid results throw and  *)
(* roll it back.                                                            *)
Complete(w) ==
  /\ PollAt(w, "completing")
  /\ \/ IF CanComplete(w)
          THEN /\ row' = [row EXCEPT !.status = "COMPLETED"]
               /\ task' = [task EXCEPT !.status = "SUCCEEDED"]
               /\ committed' = committed + 1
               /\ PollTo(w, "releasing")
          ELSE PollTo(w, "releasing") /\ UNCHANGED <<row, task, committed>>
     \/ PollEnds(w) /\ UNCHANGED <<row, task, committed>>
  /\ UNCHANGED <<created, submit, cancel, retry, up>>

(* Budget exhausted or provider failure: the AiTask is failed whatever it   *)
(* has become, then the Job if this step still owns it.                     *)
FailTask(w) ==
  /\ PollAt(w, "failing")
  /\ task' = [task EXCEPT !.status = "FAILED", !.error = "other"]
  /\ PollTo(w, "closing")
  /\ UNCHANGED <<row, created, committed, submit, cancel, retry, up>>

CloseJob(w) ==
  /\ PollAt(w, "closing")
  /\ row' = IF row.token = poll[w].token /\ row.status = "RUNNING"
              THEN [row EXCEPT !.status = "FAILED"] ELSE row
  /\ PollTo(w, "releasing")
  /\ UNCHANGED <<task, created, committed, submit, cancel, retry, up>>

CanceledTask == IF task.status \in Open THEN [task EXCEPT !.status = "CANCELED"] ELSE task

(* finalizeCanceledAiTask: one transaction. *)
FinalizeCanceled(w) ==
  /\ PollAt(w, "finalizing")
  /\ task' = CanceledTask
  /\ row' = IF row.status = "CANCELING" THEN [row EXCEPT !.status = "CANCELED"] ELSE row
  /\ PollTo(w, "releasing")
  /\ UNCHANGED <<created, committed, submit, cancel, retry, up>>

ReleaseLock(w) ==
  /\ PollAt(w, "releasing")
  /\ row' = IF row.token = poll[w].token /\ row.lockedBy = w THEN Unlocked(row) ELSE row
  /\ PollEnds(w)
  /\ UNCHANGED <<task, created, committed, submit, cancel, retry, up>>

-----------------------------------------------------------------------------
(* The user.                                                                *)

CancelRead ==
  /\ cancel = "none"
  /\ row.status \in {"QUEUED", "RETRYING", "RUNNING"}
  /\ cancel' = row.status
  /\ UNCHANGED <<row, task, created, committed, submit, poll, retry, up>>

(* cancelAuthorizedJob; the request that came through the AiTask also       *)
(* closes the AiTask of a Job that was cancelled on the spot.               *)
CancelWrite ==
  /\ cancel \in {"QUEUED", "RETRYING", "RUNNING"}
  /\ IF CancelApplies(row, cancel)
       THEN /\ row' = CancelRow(row, cancel)
            /\ cancel' \in {"none"} \union (IF cancel = "RUNNING" THEN {} ELSE {"closing"})
       ELSE UNCHANGED row /\ cancel' = "none"
  /\ UNCHANGED <<task, created, committed, submit, poll, retry, up>>

(* finalizeQueuedAiTaskCanceled *)
CloseQueuedTask ==
  /\ cancel = "closing"
  /\ task' = IF task.status = "QUEUED" THEN [task EXCEPT !.status = "CANCELED"] ELSE task
  /\ cancel' = "none"
  /\ UNCHANGED <<row, created, committed, submit, poll, retry, up>>

(* isDefinitelyNotSubmitted *)
Unsubmitted == ~task.external /\ (~task.reserved \/ task.error = "refused")

(* retryAiJob decides on what it read first, and creates the successor in a *)
(* transaction that only asks again whether the Job is FAILED.              *)
RetryDecides ==
  /\ retry = "no" /\ row.status = "FAILED" /\ Unsubmitted
  /\ retry' = "deciding"
  /\ UNCHANGED <<row, task, created, committed, submit, poll, cancel, up>>

RetrySucceeds ==
  /\ retry = "deciding"
  /\ retry' = IF row.status = "FAILED" THEN "successor" ELSE "no"
  /\ UNCHANGED <<row, task, created, committed, submit, poll, cancel, up>>

-----------------------------------------------------------------------------
(* Stale-job passes, the clock, and crashes.                                *)

(* retryInPlace, or deadLetter if that matched no row.  JobLease has the    *)
(* lists of the two passes; here a list may be as old as it likes, so only  *)
(* the guards of the two statements are left.  The AiTask is not touched.   *)
Reclaim(guard) ==
  /\ \/ CanRetryInPlace(row, guard) /\ row' = BackToRetrying(row, row.attempts + 1)
     \/ CanDeadLetter(row, guard) /\ row' = Finished(row, "FAILED")
  /\ UNCHANGED <<task, created, committed, submit, poll, cancel, retry, up>>

LeaseExpires ==
  /\ row.lease = "live"
  /\ row' = [row EXCEPT !.lease = "expired"]
  /\ UNCHANGED <<task, created, committed, submit, poll, cancel, retry, up>>

(* Once the AiTask is older than MAX_POLL_DURATION_MS the budget is spent,  *)
(* whatever the count.                                                      *)
TaskAges ==
  /\ task.polls < MaxPolls
  /\ task' = [task EXCEPT !.polls = MaxPolls]
  /\ UNCHANGED <<row, created, committed, submit, poll, cancel, retry, up>>

Crash(w) ==
  /\ w \in up /\ up # {w} /\ Cardinality(Workers \ up) < MaxCrashes
  /\ up' = up \ {w}
  /\ submit' = [submit EXCEPT ![w] = IdleSubmit]
  /\ poll' = [poll EXCEPT ![w] = IdlePoll]
  /\ UNCHANGED <<row, task, created, committed, cancel, retry>>

-----------------------------------------------------------------------------
SubmitStep(w) ==
  \/ RouterCancels(w) \/ SubmitReads(w) \/ SubmitChecks(w)
  \/ Prepare(w) \/ Reserve(w) \/ CreateCall(w) \/ Record(w) \/ Schedule(w)
  \/ FailSubmission(w) \/ FailJob(w)

PollStep(w) ==
  \/ ListDue(w) \/ LoadJob(w) \/ LockJob(w) \/ CheckCancel(w) \/ CallProvider(w)
  \/ RereadJob(w) \/ Reschedule(w) \/ RenewLock(w) \/ Complete(w) \/ FailTask(w) \/ CloseJob(w)
  \/ FinalizeCanceled(w) \/ ReleaseLock(w)

UserStep == CancelRead \/ CancelWrite \/ CloseQueuedTask \/ RetryDecides \/ RetrySucceeds

Pass == Reclaim("LEASE") \/ (Runaways /\ Reclaim("RUNTIME"))

Clock == LeaseExpires \/ TaskAges

Next ==
  \/ \E w \in Submitters : Deliver(w) \/ SubmitStep(w)
  \/ \E w \in Pollers : PollStep(w)
  \/ \E w \in Workers : Crash(w)
  \/ UserStep \/ Pass \/ Clock

Spec == Init /\ [][Next]_vars

(* Time passes, and the expired-lease pass runs (readiness.ts).  Nothing is *)
(* assumed of BullMQ, of the handlers, of the poll scanner, nor of the      *)
(* runaway pass.                                                            *)
Fairness == WF_vars(Reclaim("LEASE")) /\ WF_vars(LeaseExpires) /\ WF_vars(TaskAges)

LiveSpec == Spec /\ Fairness

-----------------------------------------------------------------------------
(* Properties.                                                              *)

(* The provider is asked to create at most one task for an AiTask, however  *)
(* often its Job is taken back, redelivered and submitted again; and a      *)
(* successor exists only if this AiTask created none and never will         *)
(* (aioz-task-resources.ts, ai-retry-service.ts: a create call is never     *)
(* repeated after an unknown outcome).                                      *)
CreatedOnce ==
  /\ created <= 1
  /\ retry = "successor" => created = 0 /\ \A w \in Workers : submit[w].pc # "creating"

(* A decided AiTask is never opened again, although the submit handler      *)
(* schedules it after the poll scanner may already have finished it.        *)
TaskNeverReopens ==
  [][task.status \notin Open => task'.status \notin Open]_vars

(* One batch of predictions is committed, together with the completion of   *)
(* the Job, and only for a task the provider created: duplicate polls,      *)
(* lost locks and late answers add nothing.                                 *)
CommittedWithJob ==
  /\ committed = IF row.status = "COMPLETED" THEN 1 ELSE 0
  /\ committed = 1 => created = 1 /\ task.external

(* A successful or cancelled AiTask stands beside a Job of the same         *)
(* outcome, and a recorded cancellation never ends in another outcome.      *)
OutcomesCompatible ==
  /\ task.status = "SUCCEEDED" => row.status = "COMPLETED"
  /\ task.status = "CANCELED" => row.status = "CANCELED"
  /\ row.cancelRequested <=> row.status \in {"CANCELING", "CANCELED"}

(* job-lock.ts: a valid lease is renewed by its owner only; a worker that   *)
(* reads the token of another takes nothing until the lease is over.        *)
LeaseStaysWithOwner ==
  [][row.lease = "live" /\ row'.token \notin {row.token, NoToken} => row'.lockedBy = row.lockedBy]_vars

(* FR-010 of specs/020: the renewals of the poll loop cannot keep a Job     *)
(* RUNNING for ever, and neither can a submission that gave up silently.    *)
RunningEnds == row.status = "RUNNING" ~> row.status # "RUNNING"
=============================================================================
