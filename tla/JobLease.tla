------------------------------ MODULE JobLease ------------------------------
(***************************************************************************)
(* The durable Job system: PostgreSQL rows, BullMQ deliveries, and every    *)
(* actor that moves them.                                                   *)
(*                                                                          *)
(*   worker     apps/worker/src/queue/queue-router.ts and the processors'   *)
(*              use of apps/worker/src/jobs/job-claim-lock.ts               *)
(*   producer   whoever adds a delivery and then stamps the row: a web      *)
(*              request (enqueue-job.ts), the pending-delivery scanner      *)
(*              (recovery-scanner.ts, redeliver-job.ts) or the              *)
(*              verification retry scanner (media-verification-scanners.ts) *)
(*   scanner    one pass of stale-job-detector.ts in one worker process     *)
(*   reconciler the pass of media-verification-scanners.ts that settles the *)
(*              Job of a verification it has closed                         *)
(*   user       cancelAuthorizedJob and retryAuthorizedJob in the web       *)
(*                                                                          *)
(* Every SQL statement is one step; whatever an actor read earlier and acts *)
(* upon later is kept in that actor's own record.  The clock is the         *)
(* environment: it ages a lease, it never renews one.  A heartbeat that     *)
(* succeeds leaves the lease "live", so here it is a stuttering step.       *)
(***************************************************************************)
EXTENDS JobRow

CONSTANTS Jobs, NoJob,
          Created,       \* bound: the Jobs users create; the others only retry one
          VerifyJobs,    \* the Jobs of type VERIFY_UPLOADED_MEDIA
          Producers, Scanners,
          MaxFaults,     \* bound: crashes, stalls and failed adds in a run
          MaxDefers,     \* bound: deferrals of a Job by its own processor
          Lossy,         \* may a delivery in hand end unprocessed?
          Archives       \* may the Dataset be archived?

ASSUME NoJobAssumption == NoJob \notin Jobs
ASSUME JobsAssumption == VerifyJobs \subseteq Jobs /\ Created \subseteq Jobs
ASSUME BoundsAssumption == MaxFaults \in Nat /\ MaxDefers \in Nat
ASSUME ScopeAssumption == Lossy \in BOOLEAN /\ Archives \in BOOLEAN

VARIABLES
  row,        \* Job -> the row in PostgreSQL
  retryOf,    \* Job -> Job.retryOfJobId
  claims,     \* Job -> claims granted so far; the last one is the newest token
  defers,     \* Job -> deferrals so far
  delivery,   \* Job -> delivery id -> what BullMQ knows of it
  hand,       \* worker -> the delivery it is processing, NoDelivery once stalled
  producer,   \* producer -> the delivery it is making
  scan,       \* scanner -> the candidates of its pass still to be reclaimed
  observed,   \* Job -> the status a cancel request in flight has read
  inactive,   \* the Dataset is archived or deleted
  faults      \* crashes, stalls and failed adds so far

vars == <<row, retryOf, claims, defers, delivery, hand, producer, scan, observed, inactive, faults>>

IdleHand == [pc |-> "idle", job |-> NoJob, id |-> NoDelivery, token |-> NoToken]
IdleProducer == [pc |-> "idle", kind |-> "web", job |-> NoJob, id |-> NoDelivery]
IdleScan == [guard |-> "LEASE", todo |-> {}, dead |-> NoJob]

Hand == [pc: {"idle", "routed", "claimed", "working", "failing", "acking"},
         job: Jobs \union {NoJob},
         id: {NoDelivery} \union Deliveries,
         token: Nat]

Delivering == [pc: {"idle", "reading", "adding", "stamping"},
               kind: {"web", "pending", "verify"},
               job: Jobs \union {NoJob},
               id: {NoDelivery} \union Deliveries]

Scan == [guard: {"LEASE", "RUNTIME"}, todo: SUBSET Jobs, dead: Jobs \union {NoJob}]

TypeOK ==
  /\ row \in [Jobs -> Row]
  /\ retryOf \in [Jobs -> Jobs \union {NoJob}]
  /\ claims \in [Jobs -> Nat]
  /\ defers \in [Jobs -> 0 .. MaxDefers]
  /\ delivery \in [Jobs -> [Deliveries -> {"absent", "waiting", "active", "done"}]]
  /\ hand \in [Workers -> Hand]
  /\ producer \in [Producers -> Delivering]
  /\ scan \in [Scanners -> Scan]
  /\ observed \in [Jobs -> {"none", "QUEUED", "RETRYING", "RUNNING"}]
  /\ inactive \in BOOLEAN
  /\ faults \in 0 .. MaxFaults

Init ==
  /\ row = [j \in Jobs |-> AbsentRow]
  /\ retryOf = [j \in Jobs |-> NoJob]
  /\ claims = [j \in Jobs |-> 0]
  /\ defers = [j \in Jobs |-> 0]
  /\ delivery = [j \in Jobs |-> [d \in Deliveries |-> "absent"]]
  /\ hand = [w \in Workers |-> IdleHand]
  /\ producer = [p \in Producers |-> IdleProducer]
  /\ scan = [s \in Scanners |-> IdleScan]
  /\ observed = [j \in Jobs |-> "none"]
  /\ inactive = FALSE
  /\ faults = 0

Fault == faults < MaxFaults /\ faults' = faults + 1

-----------------------------------------------------------------------------
(* Web: creating a Job, authorised retry, cancellation, archiving.          *)

(* A Job is committed QUEUED first, and only then handed to the queue. *)
CreateJob(p, j) ==
  /\ j \in Created /\ ~inactive
  /\ row[j].status = "ABSENT"
  /\ producer[p].pc = "idle"
  /\ row' = [row EXCEPT ![j] = QueuedRow]
  /\ producer' = [producer EXCEPT ![p] = [pc |-> "reading", kind |-> "web", job |-> j, id |-> FirstDelivery]]
  /\ UNCHANGED <<retryOf, claims, defers, delivery, hand, scan, observed, inactive, faults>>

(* retryAuthorizedJob: the serializable transaction creates the successor  *)
(* of a FAILED Job, or finds the one it already has; either is enqueued.    *)
(* Authorisation answers 404 for an inactive Dataset.  The successor has    *)
(* the type of the original; that a verification must still be open and its *)
(* failure operational is left out.                                         *)
RetryCreates(p, j, k) ==
  /\ producer[p].pc = "idle" /\ ~inactive
  /\ j \in VerifyJobs <=> k \in VerifyJobs
  /\ row[j].status = "FAILED" /\ row[k].status = "ABSENT"
  /\ \A i \in Jobs : retryOf[i] # j
  /\ row' = [row EXCEPT ![k] = QueuedRow]
  /\ retryOf' = [retryOf EXCEPT ![k] = j]
  /\ producer' = [producer EXCEPT ![p] = [pc |-> "reading", kind |-> "web", job |-> k, id |-> FirstDelivery]]
  /\ UNCHANGED <<claims, defers, delivery, hand, scan, observed, inactive, faults>>

RetryReuses(p, j, k) ==
  /\ producer[p].pc = "idle" /\ ~inactive
  /\ row[j].status = "FAILED" /\ retryOf[k] = j
  /\ producer' = [producer EXCEPT ![p] = [pc |-> "reading", kind |-> "web", job |-> k, id |-> FirstDelivery]]
  /\ UNCHANGED <<row, retryOf, claims, defers, delivery, hand, scan, observed, inactive, faults>>

(* cancelAuthorizedJob: the authorisation lookup reads the status ...      *)
CancelRead(j) ==
  /\ observed[j] = "none" /\ ~inactive
  /\ row[j].status \in {"QUEUED", "RETRYING", "RUNNING"}
  /\ observed' = [observed EXCEPT ![j] = row[j].status]
  /\ UNCHANGED <<row, retryOf, claims, defers, delivery, hand, producer, scan, inactive, faults>>

(* ... and the transaction repeats it as the predicate of the update.       *)
CancelWrite(j) ==
  /\ observed[j] # "none"
  /\ row' = IF CancelApplies(row[j], observed[j])
              THEN [row EXCEPT ![j] = CancelRow(@, observed[j])] ELSE row
  /\ observed' = [observed EXCEPT ![j] = "none"]
  /\ UNCHANGED <<retryOf, claims, defers, delivery, hand, producer, scan, inactive, faults>>

Archive ==
  /\ Archives /\ ~inactive /\ inactive' = TRUE
  /\ UNCHANGED <<row, retryOf, claims, defers, delivery, hand, producer, scan, observed, faults>>

-----------------------------------------------------------------------------
(* Producers: read the row, add the delivery to BullMQ, stamp the row.      *)

ProducerDone(p) == producer' = [producer EXCEPT ![p] = IdleProducer]

(* runPendingJobRecovery selects QUEUED Jobs that were never enqueued. *)
PendingCandidate(p, j) ==
  /\ producer[p].pc = "idle"
  /\ row[j].status = "QUEUED" /\ row[j].stamp = NoDelivery
  /\ ~row[j].cancelRequested /\ ~inactive
  /\ producer' = [producer EXCEPT ![p] = [pc |-> "reading", kind |-> "pending", job |-> j, id |-> FirstDelivery]]
  /\ UNCHANGED <<row, retryOf, claims, defers, delivery, hand, scan, observed, inactive, faults>>

(* redeliverRetryingVerificationJobs selects RETRYING verification Jobs and *)
(* names the delivery after the attempt.                                    *)
VerifyCandidate(p, j) ==
  /\ producer[p].pc = "idle"
  /\ j \in VerifyJobs /\ row[j].status = "RETRYING" /\ row[j].stamp = NoDelivery
  /\ ~row[j].cancelRequested /\ ~inactive
  /\ row[j].lease = "none" \/ LeaseOver(row[j])
  /\ producer' = [producer EXCEPT ![p] = [pc |-> "adding", kind |-> "verify", job |-> j,
                                          id |-> RetryDelivery(row[j].attempts)]]
  /\ UNCHANGED <<row, retryOf, claims, defers, delivery, hand, scan, observed, inactive, faults>>

(* enqueueExistingJob and redeliverExistingJob re-read the row first; only  *)
(* the web one looks at its status.                                         *)
StillWanted(r, kind) ==
  /\ ~r.cancelRequested
  /\ r.stamp = NoDelivery
  /\ kind = "web" => r.status = "QUEUED"

ReadForDelivery(p) ==
  LET self == producer[p] IN
  /\ self.pc = "reading"
  /\ IF StillWanted(row[self.job], self.kind)
       THEN producer' = [producer EXCEPT ![p].pc = "adding"]
       ELSE ProducerDone(p)
  /\ UNCHANGED <<row, retryOf, claims, defers, delivery, hand, scan, observed, inactive, faults>>

(* BullMQ ignores the add of an id it already holds, whatever its state. *)
Added(known) == IF known = "absent" THEN "waiting" ELSE known

AddDelivery(p) ==
  LET self == producer[p] IN
  /\ self.pc = "adding"
  /\ delivery' = [delivery EXCEPT ![self.job][self.id] = Added(@)]
  /\ producer' = [producer EXCEPT ![p].pc = "stamping"]
  /\ UNCHANGED <<row, retryOf, claims, defers, hand, scan, observed, inactive, faults>>

(* Slip: a failed add is stamped like a successful one. *)
AddFailsStamped(p) ==
  LET self == producer[p] IN
  /\ self.pc = "adding"
  /\ Fault
  /\ producer' = [producer EXCEPT ![p].pc = "stamping"]
  /\ UNCHANGED <<row, retryOf, claims, defers, delivery, hand, scan, observed, inactive>>

(* queue.add() throws: deliveryPending is reported and nothing is stamped.  *)
(* Redis may have kept the delivery all the same.                           *)
AddFails(p) ==
  LET self == producer[p] IN
  /\ self.pc = "adding"
  /\ Fault
  /\ \/ UNCHANGED delivery
     \/ delivery' = [delivery EXCEPT ![self.job][self.id] = Added(@)]
  /\ ProducerDone(p)
  /\ UNCHANGED <<row, retryOf, claims, defers, hand, scan, observed, inactive>>

CanStamp(r, kind) == r.stamp = NoDelivery /\ (kind = "verify" => r.status = "RETRYING")

StampDelivery(p) ==
  LET self == producer[p] IN
  /\ self.pc = "stamping"
  /\ row' = IF CanStamp(row[self.job], self.kind)
              THEN [row EXCEPT ![self.job].stamp = self.id] ELSE row
  /\ ProducerDone(p)
  /\ UNCHANGED <<retryOf, claims, defers, delivery, hand, scan, observed, inactive, faults>>

(* The process making the delivery dies between two of its steps. *)
ProducerCrash(p) ==
  /\ producer[p].pc # "idle"
  /\ Fault
  /\ ProducerDone(p)
  /\ UNCHANGED <<row, retryOf, claims, defers, delivery, hand, scan, observed, inactive>>

-----------------------------------------------------------------------------
(* Workers: one delivery at a time (BullMQ's default concurrency).          *)

(* What becomes of the delivery of w; a stalled one is out of its hands.    *)
Marked(w, state) ==
  IF hand[w].id = NoDelivery THEN delivery
  ELSE [delivery EXCEPT ![hand[w].job][hand[w].id] = state]

Returns(w) ==
  /\ hand' = [hand EXCEPT ![w] = IdleHand]
  /\ delivery' = Marked(w, "done")

(* routeQueueDelivery refuses before claiming. *)
Routable(r) == ~r.cancelRequested /\ r.status \in Claimable /\ ~inactive

(* The dequeue and the read of the row are one step: no other actor looks   *)
(* at an active delivery.  A skipped delivery is consumed.                  *)
Receive(w, j, d) ==
  /\ hand[w].pc = "idle"
  /\ delivery[j][d] = "waiting"
  /\ Routable(row[j])
  /\ hand' = [hand EXCEPT ![w] = [pc |-> "routed", job |-> j, id |-> d, token |-> NoToken]]
  /\ delivery' = [delivery EXCEPT ![j][d] = "active"]
  /\ UNCHANGED <<row, retryOf, claims, defers, producer, scan, observed, inactive, faults>>

ReceiveSkips(w, j, d) ==
  /\ hand[w].pc = "idle"
  /\ delivery[j][d] = "waiting"
  /\ ~Routable(row[j])
  /\ delivery' = [delivery EXCEPT ![j][d] = "done"]
  /\ UNCHANGED <<row, retryOf, claims, defers, hand, producer, scan, observed, inactive, faults>>

(* Slip: a token derived from the Job instead of drawn for the claim. *)
ClaimSameToken(w) ==
  LET j == hand[w].job IN
  /\ hand[w].pc = "routed"
  /\ CanClaim(row[j])
  /\ row' = [row EXCEPT ![j] = Claimed(@, w, 1)]
  /\ claims' = [claims EXCEPT ![j] = 1]
  /\ hand' = [hand EXCEPT ![w].pc = "claimed", ![w].token = 1]
  /\ UNCHANGED <<retryOf, defers, delivery, producer, scan, observed, inactive, faults>>

Claim(w) ==
  LET j == hand[w].job
      tok == claims[j] + 1 IN
  /\ hand[w].pc = "routed"
  /\ CanClaim(row[j])
  /\ row' = [row EXCEPT ![j] = Claimed(@, w, tok)]
  /\ claims' = [claims EXCEPT ![j] = tok]
  /\ hand' = [hand EXCEPT ![w].pc = "claimed", ![w].token = tok]
  /\ UNCHANGED <<retryOf, defers, delivery, producer, scan, observed, inactive, faults>>

ClaimRefused(w) ==
  /\ hand[w].pc = "routed"
  /\ ~CanClaim(row[hand[w].job])
  /\ Returns(w)
  /\ UNCHANGED <<row, retryOf, claims, defers, producer, scan, observed, inactive, faults>>

(* The row is looked up again by this token; a lost claim finds nothing.    *)
SeesCancel(w) ==
  LET r == row[hand[w].job] IN
  r.token = hand[w].token /\ (r.cancelRequested \/ r.status = "CANCELING")

(* After the claim the router, and later every checkpoint of a processor,   *)
(* looks for a cancellation and acknowledges it.                            *)
RouteProceeds(w) ==
  /\ hand[w].pc = "claimed"
  /\ ~SeesCancel(w)
  /\ hand' = [hand EXCEPT ![w].pc = "working"]
  /\ UNCHANGED <<row, retryOf, claims, defers, delivery, producer, scan, observed, inactive, faults>>

ObserveCancel(w) ==
  /\ hand[w].pc \in {"claimed", "working"}
  /\ SeesCancel(w)
  /\ hand' = [hand EXCEPT ![w].pc = "acking"]
  /\ UNCHANGED <<row, retryOf, claims, defers, delivery, producer, scan, observed, inactive, faults>>

AckCancel(w) ==
  LET j == hand[w].job IN
  /\ hand[w].pc = "acking"
  /\ row' = IF CanAckCancel(row[j], hand[w].token)
              THEN [row EXCEPT ![j] = Finished(@, "CANCELED")] ELSE row
  /\ Returns(w)
  /\ UNCHANGED <<retryOf, claims, defers, producer, scan, observed, inactive, faults>>

(* completeJob and failJob: one guarded update; a refusal changes nothing   *)
(* and the processor returns either way.                                    *)
Finish(w, outcome) ==
  LET j == hand[w].job IN
  /\ hand[w].pc = "working" \/ (hand[w].pc = "failing" /\ outcome = "FAILED")
  /\ CanWrite(row[j], hand[w].token)
  /\ row' = [row EXCEPT ![j] = Finished(@, outcome)]
  /\ Returns(w)
  /\ UNCHANGED <<retryOf, claims, defers, producer, scan, observed, inactive, faults>>

(* A heartbeat, progress, stage or terminal write that is refused makes the *)
(* processor return "refused" and leave the row as it is.                   *)
WriteRefused(w) ==
  /\ hand[w].pc \in {"working", "failing"}
  /\ ~CanWrite(row[hand[w].job], hand[w].token)
  /\ Returns(w)
  /\ UNCHANGED <<row, retryOf, claims, defers, producer, scan, observed, inactive, faults>>

(* Verification's in-place retry and its deferral (operational.ts) ask for  *)
(* the token and RUNNING, not for a live lease.                             *)
OwnsRunning(w) ==
  LET r == row[hand[w].job] IN r.token = hand[w].token /\ r.status = "RUNNING"

OperationalRetry(w) ==
  LET j == hand[w].job IN
  /\ hand[w].pc = "working" /\ j \in VerifyJobs /\ OwnsRunning(w)
  /\ row[j].attempts + 1 < MaxAttempts
  /\ row' = [row EXCEPT ![j] = BackToRetrying(@, @.attempts + 1)]
  /\ Returns(w)
  /\ UNCHANGED <<retryOf, claims, defers, producer, scan, observed, inactive, faults>>

(* A verification that ends CANCELED cancels its own Job: it records the    *)
(* request by token and then acknowledges it, in two statements.            *)
CancelsItself(w) ==
  LET j == hand[w].job IN
  /\ hand[w].pc = "working" /\ j \in VerifyJobs
  /\ row' = IF OwnsRunning(w) THEN [row EXCEPT ![j].cancelRequested = TRUE] ELSE row
  /\ hand' = [hand EXCEPT ![w].pc = "acking"]
  /\ UNCHANGED <<retryOf, claims, defers, delivery, producer, scan, observed, inactive, faults>>

(* Out of attempts: the attempt is recorded first, by token; the failJob    *)
(* that follows needs a live lease as well.                                 *)
OperationalExhausted(w) ==
  LET j == hand[w].job IN
  /\ hand[w].pc = "working" /\ j \in VerifyJobs /\ OwnsRunning(w)
  /\ row[j].attempts + 1 >= MaxAttempts
  /\ row' = [row EXCEPT ![j].attempts = @ + 1]
  /\ hand' = [hand EXCEPT ![w].pc = "failing"]
  /\ UNCHANGED <<retryOf, claims, defers, delivery, producer, scan, observed, inactive, faults>>

(* deferJob: publication is quiesced; no attempt is consumed. *)
Defer(w) ==
  LET j == hand[w].job IN
  /\ hand[w].pc = "working" /\ j \in VerifyJobs /\ OwnsRunning(w)
  /\ defers[j] < MaxDefers
  /\ defers' = [defers EXCEPT ![j] = @ + 1]
  /\ row' = [row EXCEPT ![j] = BackToRetrying(@, @.attempts)]
  /\ Returns(w)
  /\ UNCHANGED <<retryOf, claims, producer, scan, observed, inactive, faults>>

(* BullMQ hands a stalled delivery out again up to maxStalledCount times    *)
(* and then gives it up; a delivery whose handler threw is given up at once *)
(* (no attempts option).                                                    *)
HandedOn(w) ==
  \E next \in {"waiting"} \union (IF Lossy THEN {"done"} ELSE {}) : delivery' = Marked(w, next)

(* The worker process dies, or its handler throws. *)
Crash(w) ==
  /\ hand[w].pc # "idle"
  /\ Fault
  /\ hand' = [hand EXCEPT ![w] = IdleHand]
  /\ HandedOn(w)
  /\ UNCHANGED <<row, retryOf, claims, defers, producer, scan, observed, inactive>>

(* The worker is too slow to renew BullMQ's lock on its delivery: it is     *)
(* taken for stalled, and runs on.                                          *)
Stall(w) ==
  /\ hand[w].id # NoDelivery
  /\ Fault
  /\ hand' = [hand EXCEPT ![w].id = NoDelivery]
  /\ HandedOn(w)
  /\ UNCHANGED <<row, retryOf, claims, defers, producer, scan, observed, inactive>>

-----------------------------------------------------------------------------
(* stale-job-detector.ts: one pass reads its candidates, then reclaims them *)
(* one by one with two statements, retryInPlace and, if that matched no     *)
(* row, deadLetter.                                                         *)

IdleScanner(s) == scan[s].todo = {} /\ scan[s].dead = NoJob

ScanExpired(s) ==
  LET found == {j \in Jobs : row[j].status = "RUNNING" /\ row[j].lease = "stale"} IN
  /\ IdleScanner(s) /\ found # {}
  /\ scan' = [scan EXCEPT ![s] = [guard |-> "LEASE", todo |-> found, dead |-> NoJob]]
  /\ UNCHANGED <<row, retryOf, claims, defers, delivery, hand, producer, observed, inactive, faults>>

ScanRunaway(s) ==
  LET found == {j \in Jobs : row[j].status = "RUNNING" /\ row[j].overdue} IN
  /\ IdleScanner(s) /\ found # {}
  /\ scan' = [scan EXCEPT ![s] = [guard |-> "RUNTIME", todo |-> found, dead |-> NoJob]]
  /\ UNCHANGED <<row, retryOf, claims, defers, delivery, hand, producer, observed, inactive, faults>>

RetryInPlace(s, j) ==
  /\ j \in scan[s].todo /\ scan[s].dead = NoJob
  /\ IF CanRetryInPlace(row[j], scan[s].guard)
       THEN /\ row' = [row EXCEPT ![j] = BackToRetrying(@, @.attempts + 1)]
            /\ scan' = [scan EXCEPT ![s].todo = @ \ {j}]
       ELSE /\ scan' = [scan EXCEPT ![s].todo = @ \ {j}, ![s].dead = j]
            /\ UNCHANGED row
  /\ UNCHANGED <<retryOf, claims, defers, delivery, hand, producer, observed, inactive, faults>>

DeadLetter(s) ==
  LET j == scan[s].dead IN
  /\ j # NoJob
  /\ row' = IF CanDeadLetter(row[j], scan[s].guard)
              THEN [row EXCEPT ![j] = Finished(@, "FAILED")] ELSE row
  /\ scan' = [scan EXCEPT ![s].dead = NoJob]
  /\ UNCHANGED <<retryOf, claims, defers, delivery, hand, producer, observed, inactive, faults>>

(* reconcileMediaVerifications has closed the verification behind the Job:  *)
(* past its allowance, canceled, its Dataset inactive or its import ended.  *)
(* Those causes, and what the pass read of the Job before, are abstracted:  *)
(* any verification Job may be settled, once or more.                       *)
Reconcile(j) ==
  /\ j \in VerifyJobs
  /\ row[j].status \in {"QUEUED", "RETRYING", "FAILED", "CANCELING"}
  /\ \E outcome \in {"CANCELED", "FAILED"} : row' = [row EXCEPT ![j] = Finished(@, outcome)]
  /\ UNCHANGED <<retryOf, claims, defers, delivery, hand, producer, scan, observed, inactive, faults>>

-----------------------------------------------------------------------------
(* The clock.                                                               *)

LeaseAges(j, old, new) ==
  /\ row[j].lease = old
  /\ row' = [row EXCEPT ![j].lease = new]
  /\ UNCHANGED <<retryOf, claims, defers, delivery, hand, producer, scan, observed, inactive, faults>>

LeaseExpires(j) == LeaseAges(j, "live", "expired")
GraceElapses(j) == LeaseAges(j, "expired", "stale")

RuntimeElapses(j) ==
  /\ row[j].token # NoToken /\ ~row[j].overdue
  /\ row' = [row EXCEPT ![j].overdue = TRUE]
  /\ UNCHANGED <<retryOf, claims, defers, delivery, hand, producer, scan, observed, inactive, faults>>

-----------------------------------------------------------------------------
UserStep ==
  \/ \E p \in Producers, j \in Jobs : CreateJob(p, j)
  \/ \E p \in Producers, j, k \in Jobs : RetryCreates(p, j, k) \/ RetryReuses(p, j, k)
  \/ \E j \in Jobs : CancelRead(j) \/ CancelWrite(j)
  \/ Archive

ProducerStep(p) == ReadForDelivery(p) \/ AddDelivery(p) \/ StampDelivery(p)

Candidate(p) == \E j \in Jobs : PendingCandidate(p, j) \/ VerifyCandidate(p, j)

(* Up to the processor; from there on only Processor(w) moves the worker.   *)
Router(w) ==
  \/ \E j \in Jobs, d \in Deliveries : Receive(w, j, d) \/ ReceiveSkips(w, j, d)
  \/ Claim(w) \/ ClaimRefused(w) \/ RouteProceeds(w) \/ ObserveCancel(w) \/ AckCancel(w)

Processor(w) ==
  \/ \E outcome \in {"COMPLETED", "FAILED"} : Finish(w, outcome)
  \/ WriteRefused(w) \/ OperationalRetry(w) \/ OperationalExhausted(w) \/ Defer(w)
  \/ CancelsItself(w)

Pass(s) == ScanExpired(s) \/ ScanRunaway(s)

Reclaim(s) == (\E j \in Jobs : RetryInPlace(s, j)) \/ DeadLetter(s)

Clock == \E j \in Jobs : LeaseExpires(j) \/ GraceElapses(j) \/ RuntimeElapses(j)

Next ==
  \/ UserStep
  \/ \E p \in Producers : ProducerStep(p) \/ Candidate(p) \/ AddFails(p) \/ ProducerCrash(p)
  \/ \E w \in Workers : Router(w) \/ Processor(w) \/ Crash(w) \/ Stall(w)
  \/ \E s \in Scanners : Pass(s) \/ Reclaim(s)
  \/ \E j \in Jobs : Reconcile(j)
  \/ Clock

Spec == Init /\ [][Next]_vars

(* What keeps running whatever the handlers do: the clock, the scheduled    *)
(* passes (readiness.ts) and the reclaim loop of a pass that has started.   *)
(* Nothing is assumed of workers: a handler may hang for ever.              *)
Maintenance ==
  /\ \A j \in Jobs : WF_vars(RuntimeElapses(j)) /\ WF_vars(GraceElapses(j))
  /\ \A s \in Scanners : WF_vars(ScanExpired(s)) /\ WF_vars(ScanRunaway(s)) /\ WF_vars(Reclaim(s))

(* Producers, routers and processors that run to their end: every process  *)
(* is scheduled, and a handler returns (subprocesses, provider and storage  *)
(* calls are all bounded by timeouts).                                      *)
Progress ==
  /\ \A p \in Producers : WF_vars(ProducerStep(p)) /\ WF_vars(Candidate(p))
  /\ \A w \in Workers : WF_vars(Router(w)) /\ WF_vars(Processor(w))

MaintainedSpec == Spec /\ Maintenance
LiveSpec == Spec /\ Maintenance /\ Progress

-----------------------------------------------------------------------------
(* Properties.                                                              *)

(* The lock columns are set exactly while the Job is RUNNING or CANCELING:  *)
(* no path of claimJob, terminalData, retryInPlace, deadLetter, deferJob or *)
(* cancelAuthorizedJob leaves a token behind or a running Job without one,  *)
(* so a claimable row is never refused for an old lease.                    *)
LockShape ==
  \A j \in Jobs :
    LET r == row[j] IN
    /\ r.status \in Active <=> r.token # NoToken
    /\ r.token # NoToken <=> r.lease # "none"
    /\ r.token # NoToken <=> r.lockedBy # NoWorker
    /\ r.overdue => r.token # NoToken

(* A recorded cancellation and the status never disagree, although the      *)
(* user, the worker and two scanners all write the status: once requested,  *)
(* the Job is on its way to CANCELED and nothing else.  The Job of a        *)
(* verification is also settled for the verification's sake, so of it only  *)
(* this is left: it is never CANCELING without a recorded request.          *)
CancelShape ==
  \A j \in Jobs :
    /\ row[j].status = "CANCELING" => row[j].cancelRequested
    /\ j \notin VerifyJobs =>
         (row[j].cancelRequested <=> row[j].status \in {"CANCELING", "CANCELED"})

(* Two workers never hold the same claim, and whoever holds the current     *)
(* token is the worker the row names (claim-lock contract: exactly one      *)
(* owner, however many deliveries of the Job there are).                    *)
SingleOwner ==
  \A w \in Workers :
    LET j == hand[w].job IN
    hand[w].token # NoToken =>
      /\ row[j].token = hand[w].token => row[j].lockedBy = w
      /\ \A v \in Workers \ {w} : hand[v].job = j => hand[v].token # hand[w].token

(* A Job is run once for its creation, once for each attempt counted and    *)
(* once for each deferral: a duplicated, late or redelivered message never  *)
(* buys it another run.                                                     *)
RunsAreAccountedFor ==
  \A j \in Jobs :
    LET r == row[j] IN
    /\ claims[j] <= r.attempts + defers[j] + 1
    /\ r.status = "QUEUED" => claims[j] = 0
    /\ r.status = "RETRYING" => claims[j] <= r.attempts + defers[j]

(* The row says "enqueued" only if BullMQ was given that very delivery      *)
(* (enqueue-job.ts, redeliver-job.ts: never stamp unless add() succeeded).  *)
StampedWasAdded ==
  \A j \in Jobs : row[j].stamp # NoDelivery => delivery[j][row[j].stamp] # "absent"

(* What a decided Job keeps for ever: its outcome, its attempts and its     *)
(* empty lock.  Late writers with old reads (a cancel request, a stale      *)
(* worker, a second scanner) find their guard false; only the transport     *)
(* stamp may still land.  A FAILED verification Job may yet be settled by   *)
(* the reconciliation of its verification, as FAILED or CANCELED.           *)
Decided(r) == [r EXCEPT !.stamp = NoDelivery]

TerminalIsFinal ==
  [][\A j \in Jobs :
       row[j].status \in Terminal =>
         \/ Decided(row'[j]) = Decided(row[j])
         \/ /\ j \in VerifyJobs /\ row[j].status = "FAILED"
            /\ Decided(row'[j]) = Decided([row[j] EXCEPT !.status = "CANCELED"])]_vars

(* While a lease is live and the Job has not outrun its maximum runtime, a  *)
(* lease-expiry pass never takes the Job from its worker: the token changes *)
(* only by that worker's own write, by a runaway pass, or by the            *)
(* reconciliation of a CANCELING verification Job.                          *)
LiveLeaseIsKept ==
  [][\A j \in Jobs :
       row[j].lease = "live" /\ row'[j].token # row[j].token =>
         \/ \E w \in Workers : hand[w].job = j /\ hand[w].token = row[j].token /\ hand'[w] = IdleHand
         \/ \E s \in Scanners : scan[s].guard = "RUNTIME" /\ scan'[s] # scan[s]
         \/ j \in VerifyJobs /\ row[j].status = "CANCELING"]_vars

(* A worker that no longer holds the token, or whose lease is over, cannot  *)
(* decide the Job: COMPLETED is written only under a live lease by the      *)
(* worker the row names.                                                    *)
CompletedByOwner ==
  [][\A j \in Jobs :
       row'[j].status = "COMPLETED" /\ row[j].status # "COMPLETED" =>
         /\ row[j].lease = "live"
         /\ \E w \in Workers : /\ hand[w].job = j /\ hand[w].token = row[j].token
                              /\ row[j].lockedBy = w /\ hand[w].pc = "working"]_vars

(* The whole system implements the lifecycle of docs/job-system.md: leases, *)
(* deliveries, scanners and crashes are one way to hold, take back and      *)
(* decide a Job.                                                            *)
Phase(r) == CASE r.status = "ABSENT" -> "none"
              [] r.status \in Claimable -> "waiting"
              [] r.status = "RUNNING" -> "held"
              [] r.status = "CANCELING" -> "canceling"
              [] OTHER -> r.status

Lifecycle == INSTANCE JobLifecycle
  WITH Overseen <- VerifyJobs,
       phase <- [j \in Jobs |-> Phase(row[j])],
       parent <- retryOf,
       runs <- claims,
       credit <- [j \in Jobs |-> row[j].attempts + defers[j] + 1]

ImplementsLifecycle == Lifecycle!Spec

(* README.md:166-168 and FR-006 of specs/021: a RUNNING Job does not stay   *)
(* RUNNING, even if every worker hangs or dies: the passes of the stale-job *)
(* detector alone move it on.                                               *)
RunningSettles ==
  \A j \in Jobs : row[j].status = "RUNNING" ~> row[j].status # "RUNNING"

(* FR-018 of specs/021: a QUEUED Job whose delivery was never made, or was  *)
(* made and not stamped, still reaches a worker without being resubmitted,  *)
(* if producers, routers and processors run to their end.                   *)
QueuedIsServed ==
  Progress =>
    \A j \in Jobs : row[j].status = "QUEUED" ~> row[j].status # "QUEUED" \/ inactive

(* stale-job-detector.ts:14-15: the transport fields are cleared "so the    *)
(* (scheduled) recovery-scanner.ts pass can redeliver it fresh".            *)
RecoveredIsRedelivered ==
  \A j \in Jobs : row[j].status = "RETRYING" ~> row[j].status # "RETRYING" \/ inactive
=============================================================================
