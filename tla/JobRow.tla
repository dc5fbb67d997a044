------------------------------- MODULE JobRow -------------------------------
(***************************************************************************)
(* The durable Job row of PostgreSQL (prisma/schema.prisma, model Job) and  *)
(* the updates every part of the system applies to it.  The columns kept    *)
(* are those a guard reads:                                                 *)
(*                                                                          *)
(*   status           Job.status; "ABSENT" is a row not created yet         *)
(*   token, lockedBy  Job.lockToken and Job.lockedBy.  claimJob draws a     *)
(*                    random UUID; here it is the number of the claim.      *)
(*   lease            Job.lockedUntil against the clock: "none" is NULL,    *)
(*                    "live" is in the future, "expired" is past, "stale"   *)
(*                    is past by more than JOB_RECOVERY_LEASE_GRACE_MS      *)
(*   overdue          Job.lockedAt is older than JOB_MAX_RUNTIME_MS         *)
(*   attempts         Job.attempts, against the constant MaxAttempts        *)
(*   cancelRequested  Job.cancelRequestedAt is not NULL                     *)
(*   stamp            queueName, queueJobId and enqueuedAt, which the code  *)
(*                    always writes together: the id of the delivery, or    *)
(*                    NoDelivery when the three are NULL                    *)
(***************************************************************************)
EXTENDS Integers

CONSTANTS Workers,      \* worker identities (lockedBy)
          NoWorker,     \* lockedBy IS NULL
          MaxAttempts   \* Job.maxAttempts

ASSUME NoWorkerAssumption == NoWorker \notin Workers
ASSUME MaxAttemptsAssumption == MaxAttempts \in Nat \ {0}

Active    == {"RUNNING", "CANCELING"}
Claimable == {"QUEUED", "RETRYING"}
Terminal  == {"COMPLETED", "FAILED", "CANCELED"}
JobStatus == {"ABSENT"} \union Claimable \union Active \union Terminal

NoToken == 0

(* Delivery ids of one Job: the first one is the Job id itself, the others  *)
(* are "<jobId>-r<attempts>".                                               *)
NoDelivery == 0
FirstDelivery == 1
RetryDelivery(attempts) == attempts + 2
Deliveries == FirstDelivery .. RetryDelivery(MaxAttempts + 1)

Row == [status: JobStatus,
        token: Nat,
        lockedBy: Workers \union {NoWorker},
        lease: {"none", "live", "expired", "stale"},
        overdue: BOOLEAN,
        attempts: 0 .. MaxAttempts + 1,
        cancelRequested: BOOLEAN,
        stamp: {NoDelivery} \union Deliveries]

AbsentRow == [status |-> "ABSENT", token |-> NoToken, lockedBy |-> NoWorker,
              lease |-> "none", overdue |-> FALSE, attempts |-> 0,
              cancelRequested |-> FALSE, stamp |-> NoDelivery]

QueuedRow == [AbsentRow EXCEPT !.status = "QUEUED"]

(* lockedUntil < now *)
LeaseOver(r) == r.lease \in {"expired", "stale"}

(* job-claim-lock.ts currentLeaseWhere: this token, not expired. *)
CurrentLease(r, tok) == r.token = tok /\ tok # NoToken /\ r.lease = "live"

(* lockedBy, lockToken, lockedAt, lockedUntil and heartbeatAt set to NULL. *)
Unlocked(r) == [r EXCEPT !.token = NoToken, !.lockedBy = NoWorker,
                         !.lease = "none", !.overdue = FALSE]

(* job.repository.ts claimJob: the WHERE clause, then the SET clause. *)
CanClaim(r) == r.status \in Claimable /\ (r.lease = "none" \/ LeaseOver(r))
Claimed(r, w, tok) == [r EXCEPT !.status = "RUNNING", !.token = tok, !.lockedBy = w,
                                !.lease = "live", !.overdue = FALSE]

(* Slip: a writer checks its lease but not the status. *)
CanWriteAnyStatus(r, tok) == CurrentLease(r, tok)

(* job-claim-lock.ts: heartbeatJob, updateJobProgress, completeJob and      *)
(* failJob share one guard; cancelJob acknowledges a recorded request.      *)
CanWrite(r, tok) == CurrentLease(r, tok) /\ r.status = "RUNNING"
CanAckCancel(r, tok) == /\ CurrentLease(r, tok)
                        /\ r.status = "CANCELING" \/ (r.status = "RUNNING" /\ r.cancelRequested)
Finished(r, outcome) == [Unlocked(r) EXCEPT !.status = outcome]

(* Slip: a retry that does not count. *)
BackToRetryingUncounted(r, attempts) == [Unlocked(r) EXCEPT !.status = "RETRYING", !.stamp = NoDelivery]

(* The transport columns are cleared with the lock: the Job can be          *)
(* delivered again (stale-job-detector.ts, operational.ts).                 *)
BackToRetrying(r, attempts) == [Unlocked(r) EXCEPT !.status = "RETRYING",
                                                   !.attempts = attempts,
                                                   !.stamp = NoDelivery]

(* Slip: a reclaim that trusts the list its pass has read. *)
RecoverableAsListed(r, guard) == r.status = "RUNNING"

(* stale-job-detector.ts: the two guards of retryInPlace and deadLetter. *)
Recoverable(r, guard) == r.status = "RUNNING" /\ (guard = "LEASE" => LeaseOver(r))

(* Slips: the budget forgotten, and an off-by-one in it. *)
CanRetryInPlaceForever(r, guard) == Recoverable(r, guard)
CanDeadLetterTooLate(r, guard) == Recoverable(r, guard) /\ r.attempts > MaxAttempts

CanRetryInPlace(r, guard) == Recoverable(r, guard) /\ r.attempts < MaxAttempts
CanDeadLetter(r, guard) == Recoverable(r, guard) /\ r.attempts >= MaxAttempts

(* Slips: the update is not conditional on what was read; a running Job is  *)
(* declared CANCELED without waiting for its worker.                        *)
CancelAppliesBlindly(r, seen) == r.status # "ABSENT"
CancelRowAtOnce(r, seen) == [Finished(r, "CANCELED") EXCEPT !.cancelRequested = TRUE]

(* authorization.ts cancelAuthorizedJob: the status read by the             *)
(* authorisation lookup is repeated as the predicate of the update.         *)
CancelApplies(r, seen) ==
  /\ r.status = seen
  /\ seen = "RETRYING" => r.lease = "none" \/ LeaseOver(r)

CancelRow(r, seen) ==
  IF seen = "RUNNING" THEN [r EXCEPT !.status = "CANCELING", !.cancelRequested = TRUE]
                      ELSE [Finished(r, "CANCELED") EXCEPT !.cancelRequested = TRUE]

=============================================================================
