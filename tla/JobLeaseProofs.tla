--------------------------- MODULE JobLeaseProofs ---------------------------
(* Machine-checked theorems about JobLease, for every set of Jobs, workers, *)
(* producers and scanners and every value of the bounds.                    *)
EXTENDS JobLease, JobRowProofs

-----------------------------------------------------------------------------
(* The inductive invariant.                                                 *)

(* An actor that is doing something does it to a Job; a worker has a token  *)
(* from its claim on, and only tokens that were issued.                     *)
ActorsOK ==
  /\ \A w \in Workers :
       /\ hand[w].pc # "idle" => hand[w].job \in Jobs
       /\ hand[w].pc \in {"idle", "routed"} <=> hand[w].token = NoToken
       /\ hand[w].pc # "idle" => hand[w].token <= claims[hand[w].job]
  /\ \A p \in Producers :
       producer[p].pc # "idle" => producer[p].job \in Jobs /\ producer[p].id \in Deliveries

TokensIssued == \A j \in Jobs : row[j].token <= claims[j]

(* Only the last, exhausted attempt is counted beyond MaxAttempts, and the  *)
(* worker that counted it is past its processor.                            *)
BudgetKept ==
  \A j \in Jobs :
    row[j].attempts > MaxAttempts =>
      /\ row[j].status \notin Claimable
      /\ \A w \in Workers :
           hand[w].job = j /\ hand[w].pc \in {"claimed", "working"} =>
             hand[w].token # row[j].token

IInv == TypeOK /\ ActorsOK /\ TokensIssued /\ BudgetKept /\ SingleOwner /\ LockShape /\ CancelShape

-----------------------------------------------------------------------------
(* Every step keeps the types.                                              *)

LEMMA IdleTyped == IdleHand \in Hand /\ IdleProducer \in Delivering /\ IdleScan \in Scan
BY DEF IdleHand, IdleProducer, IdleScan, Hand, Delivering, Scan, NoToken

LEMMA TypeInit == Init => TypeOK
<1> SUFFICES ASSUME Init PROVE TypeOK  OBVIOUS
<1>1. row \in [Jobs -> Row] /\ retryOf \in [Jobs -> Jobs \union {NoJob}]
  BY RowsTyped DEF Init
<1>2. 0 \in 0 .. MaxDefers /\ 0 \in 0 .. MaxFaults
  BY BoundsAssumption
<1>6. /\ claims \in [Jobs -> Nat] /\ defers \in [Jobs -> 0 .. MaxDefers] /\ faults \in 0 .. MaxFaults
      /\ observed \in [Jobs -> {"none", "QUEUED", "RETRYING", "RUNNING"}]
  BY <1>2 DEF Init
<1>7. inactive \in BOOLEAN
  BY DEF Init
<1>3. delivery \in [Jobs -> [Deliveries -> {"absent", "waiting", "active", "done"}]]
  BY DEF Init
<1>4. /\ hand \in [Workers -> Hand] /\ producer \in [Producers -> Delivering]
      /\ scan \in [Scanners -> Scan]
  BY IdleTyped DEF Init
<1>5. QED BY <1>1, <1>3, <1>4, <1>6, <1>7 DEF TypeOK

LEMMA UserTypes == IInv /\ UserStep => TypeOK'
<1> SUFFICES ASSUME IInv, UserStep PROVE TypeOK'  OBVIOUS
<1> USE DEF IInv, TypeOK
<1>1. ASSUME NEW p \in Producers, NEW j \in Jobs, CreateJob(p, j) PROVE TypeOK'
  BY <1>1, RowsTyped, DeliveryIds DEF CreateJob, Delivering
<1>2. ASSUME NEW p \in Producers, NEW j \in Jobs, NEW k \in Jobs, RetryCreates(p, j, k) PROVE TypeOK'
  BY <1>2, RowsTyped, DeliveryIds DEF RetryCreates, Delivering
<1>3. ASSUME NEW p \in Producers, NEW j \in Jobs, NEW k \in Jobs, RetryReuses(p, j, k) PROVE TypeOK'
  BY <1>3, DeliveryIds DEF RetryReuses, Delivering
<1>4. ASSUME NEW j \in Jobs, CancelRead(j) PROVE TypeOK'
  BY <1>4 DEF CancelRead
<1>5. ASSUME NEW j \in Jobs, CancelWrite(j) PROVE TypeOK'
  BY <1>5, CancelRowTyped DEF CancelWrite
<1>6. ASSUME Archive PROVE TypeOK'
  BY <1>6 DEF Archive
<1>7. QED BY <1>1, <1>2, <1>3, <1>4, <1>5, <1>6 DEF UserStep

LEMMA DeliveringMoves ==
  ASSUME NEW d \in Delivering, NEW q \in {"idle", "reading", "adding", "stamping"}
  PROVE  [d EXCEPT !.pc = q] \in Delivering
BY DEF Delivering

LEMMA ProducerTypes ==
  ASSUME IInv, NEW p \in Producers,
         ProducerStep(p) \/ Candidate(p) \/ AddFails(p) \/ ProducerCrash(p)
  PROVE  TypeOK'
<1> USE DEF IInv, TypeOK
<1>1. \A q \in {"idle", "reading", "adding", "stamping"} :
        [producer[p] EXCEPT !.pc = q] \in Delivering
  BY DeliveringMoves
<1>2. ASSUME NEW j \in Jobs, PendingCandidate(p, j) PROVE TypeOK'
  BY <1>2, DeliveryIds DEF PendingCandidate, Delivering
<1>3. ASSUME NEW j \in Jobs, VerifyCandidate(p, j) PROVE TypeOK'
  <2>1. RetryDelivery(row[j].attempts) \in Deliveries
    BY DeliveryIds DEF Row
  <2>2. QED BY <1>3, <2>1 DEF VerifyCandidate, Delivering
<1>4. CASE ReadForDelivery(p)
  BY <1>1, <1>4, IdleTyped DEF ReadForDelivery, ProducerDone
<1>5. CASE AddDelivery(p)
  BY ZenonT(40), <1>1, <1>5 DEF AddDelivery, Added
<1>6. CASE AddFails(p)
  <2>1. delivery' \in [Jobs -> [Deliveries -> {"absent", "waiting", "active", "done"}]]
    <3>1. CASE UNCHANGED delivery
      BY <3>1
    <3>2. CASE delivery' = [delivery EXCEPT ![producer[p].job][producer[p].id] = Added(@)]
      BY ZenonT(40), <3>2 DEF Added
    <3>3. QED BY <1>6, <3>1, <3>2 DEF AddFails
  <2>2. QED BY <1>6, <2>1, IdleTyped, BoundsAssumption DEF AddFails, ProducerDone, Fault
<1>7. CASE StampDelivery(p)
  <2>1. [row[producer[p].job] EXCEPT !.stamp = producer[p].id] \in Row
    BY <1>7, FieldsTyped DEF StampDelivery, ActorsOK
  <2>2. QED BY <1>7, <2>1, IdleTyped DEF StampDelivery, ProducerDone
<1>8. CASE ProducerCrash(p)
  BY <1>8, IdleTyped, BoundsAssumption DEF ProducerCrash, ProducerDone, Fault
<1>9. QED BY <1>2, <1>3, <1>4, <1>5, <1>6, <1>7, <1>8 DEF ProducerStep, Candidate

LEMMA WorkerTypes ==
  ASSUME IInv, NEW w \in Workers, Router(w) \/ Processor(w) \/ Crash(w) \/ Stall(w)
  PROVE  TypeOK'
<1> USE DEF IInv, TypeOK
<1> DEFINE Known == {"absent", "waiting", "active", "done"}
<1>0. ASSUME NEW state \in Known PROVE Marked(w, state) \in [Jobs -> [Deliveries -> Known]]
  <2>1. hand[w].id = NoDelivery \/ hand[w].id \in Deliveries
    BY DEF Hand
  <2>2. QED BY <2>1 DEF Marked
<1>1. ASSUME Returns(w)
      PROVE  /\ hand' \in [Workers -> Hand]
             /\ delivery' \in [Jobs -> [Deliveries -> {"absent", "waiting", "active", "done"}]]
  BY <1>0, <1>1, IdleTyped DEF Returns
<1>2. ASSUME NEW j \in Jobs, NEW d \in Deliveries, Receive(w, j, d) PROVE TypeOK'
  BY <1>2 DEF Receive, NoToken, Hand
<1>3. ASSUME NEW j \in Jobs, NEW d \in Deliveries, ReceiveSkips(w, j, d) PROVE TypeOK'
  BY <1>3 DEF ReceiveSkips
<1>4. CASE Claim(w)
  <2>1. hand[w].job \in Jobs
    BY <1>4 DEF Claim, ActorsOK
  <2>2. Claimed(row[hand[w].job], w, claims[hand[w].job] + 1) \in Row
    BY <2>1, ClaimedTyped
  <2>3. row' \in [Jobs -> Row] /\ claims' \in [Jobs -> Nat]
    BY <1>4, <2>1, <2>2 DEF Claim
  <2>4. hand' \in [Workers -> Hand]
    <3>1. [hand[w] EXCEPT !.pc = "claimed", !.token = claims[hand[w].job] + 1] \in Hand
      <4>1. hand[w] \in Hand /\ claims[hand[w].job] + 1 \in Nat
        BY <2>1
      <4>2. QED BY <4>1 DEF Hand
    <3>2. QED BY <1>4, <3>1 DEF Claim
  <2>5. QED BY <1>4, <2>3, <2>4 DEF Claim
<1>5. CASE ClaimRefused(w)
  BY <1>1, <1>5 DEF ClaimRefused
<1>6. CASE RouteProceeds(w)
  BY ZenonT(40), <1>6 DEF RouteProceeds, Hand
<1>7. CASE ObserveCancel(w)
  BY ZenonT(40), <1>7 DEF ObserveCancel, Hand
<1>8. CASE AckCancel(w)
  <2>1. Finished(row[hand[w].job], "CANCELED") \in Row
    BY <1>8, FinishedTyped DEF AckCancel, ActorsOK, Terminal
  <2>2. QED BY <1>1, <1>8, <2>1 DEF AckCancel
<1>9. ASSUME NEW outcome \in {"COMPLETED", "FAILED"}, Finish(w, outcome) PROVE TypeOK'
  <2>1. Finished(row[hand[w].job], outcome) \in Row
    BY <1>9, FinishedTyped DEF Finish, ActorsOK, Terminal
  <2>2. QED BY <1>1, <1>9, <2>1 DEF Finish
<1>10. CASE WriteRefused(w)
  BY <1>1, <1>10 DEF WriteRefused
<1>11. CASE OperationalRetry(w)
  <2>1. row[hand[w].job].attempts + 1 \in 0 .. MaxAttempts + 1
    <3>1. /\ row[hand[w].job] \in Row
          /\ row[hand[w].job].attempts + 1 < MaxAttempts
      BY <1>11 DEF OperationalRetry, ActorsOK
    <3>2. row[hand[w].job].attempts \in 0 .. MaxAttempts + 1
      BY <3>1, FieldsTyped
    <3>3. QED BY <3>1, <3>2, MaxAttemptsAssumption
  <2>2. BackToRetrying(row[hand[w].job], row[hand[w].job].attempts + 1) \in Row
    BY <1>11, <2>1, RetryingTyped DEF OperationalRetry, ActorsOK
  <2>3. QED BY <1>1, <1>11, <2>2 DEF OperationalRetry
<1>12. CASE OperationalExhausted(w)
  <2>1. hand[w].job \in Jobs /\ row[hand[w].job].attempts <= MaxAttempts
    <3>1. hand[w].job \in Jobs /\ row[hand[w].job] \in Row
      BY <1>12 DEF OperationalExhausted, ActorsOK
    <3>2. row[hand[w].job].attempts \in 0 .. MaxAttempts + 1
      BY <3>1, FieldsTyped
    <3>3. ~(row[hand[w].job].attempts > MaxAttempts)
      BY <1>12, <3>1 DEF OperationalExhausted, OwnsRunning, BudgetKept
    <3>4. QED BY <3>1, <3>2, <3>3, MaxAttemptsAssumption
  <2>2. [row[hand[w].job] EXCEPT !.attempts = @ + 1] \in Row
    BY <2>1, NextAttempt, FieldsTyped
  <2>3. row' \in [Jobs -> Row]
    BY <1>12, <2>2 DEF OperationalExhausted
  <2>4. hand' \in [Workers -> Hand]
    BY ZenonT(40), <1>12 DEF OperationalExhausted, Hand
  <2>5. QED BY <1>12, <2>3, <2>4 DEF OperationalExhausted
<1>13. CASE Defer(w)
  <2>1. BackToRetrying(row[hand[w].job], row[hand[w].job].attempts) \in Row
    BY <1>13, RetryingTyped, FieldsTyped DEF Defer, ActorsOK
  <2>2. row' \in [Jobs -> Row]
    BY <1>13, <2>1 DEF Defer
  <2>3. defers' \in [Jobs -> 0 .. MaxDefers]
    <3>1. hand[w].job \in Jobs /\ defers[hand[w].job] + 1 \in 0 .. MaxDefers
      BY <1>13, BoundsAssumption DEF Defer, ActorsOK
    <3>2. QED BY <1>13, <3>1 DEF Defer
  <2>4. QED BY <1>1, <1>13, <2>2, <2>3 DEF Defer
<1>14. CASE Crash(w)
  <2>1. faults' \in 0 .. MaxFaults
    BY <1>14, BoundsAssumption DEF Crash, Fault
  <2>2. delivery' \in [Jobs -> [Deliveries -> {"absent", "waiting", "active", "done"}]]
    BY <1>0, <1>14 DEF Crash, HandedOn
  <2>3. hand' \in [Workers -> Hand]
    BY <1>14, IdleTyped DEF Crash
  <2>4. QED BY <1>14, <2>1, <2>2, <2>3 DEF Crash
<1>15. CASE CancelsItself(w)
  <2>1. [row[hand[w].job] EXCEPT !.cancelRequested = TRUE] \in Row
    BY <1>15, FieldsTyped DEF CancelsItself, ActorsOK
  <2>2. row' \in [Jobs -> Row]
    BY <1>15, <2>1 DEF CancelsItself
  <2>3. hand' \in [Workers -> Hand]
    BY ZenonT(40), <1>15 DEF CancelsItself, Hand
  <2>4. QED BY <1>15, <2>2, <2>3 DEF CancelsItself
<1>16. CASE Stall(w)
  <2>1. faults' \in 0 .. MaxFaults
    BY <1>16, BoundsAssumption DEF Stall, Fault
  <2>2. delivery' \in [Jobs -> [Deliveries -> Known]]
    BY <1>0, <1>16 DEF Stall, HandedOn
  <2>3. hand' \in [Workers -> Hand]
    BY ZenonT(40), <1>16 DEF Stall, Hand
  <2>4. QED BY <1>16, <2>1, <2>2, <2>3 DEF Stall
<1>17. QED
  BY <1>2, <1>3, <1>4, <1>5, <1>6, <1>7, <1>8, <1>9, <1>10, <1>11, <1>12, <1>13, <1>14, <1>15, <1>16
  DEF Router, Processor

LEMMA ScannerTypes ==
  ASSUME IInv, NEW s \in Scanners, Pass(s) \/ Reclaim(s)
  PROVE  TypeOK'
<1> USE DEF IInv, TypeOK
<1>1. CASE ScanExpired(s)
  BY <1>1 DEF ScanExpired, Scan
<1>2. CASE ScanRunaway(s)
  BY <1>2 DEF ScanRunaway, Scan
<1>3. ASSUME NEW j \in Jobs, RetryInPlace(s, j) PROVE TypeOK'
  <2>1. CanRetryInPlace(row[j], scan[s].guard) =>
          BackToRetrying(row[j], row[j].attempts + 1) \in Row
    <3>1. row[j] \in Row /\ row[j].attempts \in 0 .. MaxAttempts + 1
      BY FieldsTyped
    <3>2. CanRetryInPlace(row[j], scan[s].guard) => row[j].attempts + 1 \in 0 .. MaxAttempts + 1
      BY <3>1, MaxAttemptsAssumption DEF CanRetryInPlace
    <3>3. QED BY <3>1, <3>2, RetryingTyped
  <2>2. row' \in [Jobs -> Row]
    BY <1>3, <2>1 DEF RetryInPlace
  <2>3. scan' \in [Scanners -> Scan]
    <3>1. /\ [scan[s] EXCEPT !.todo = @ \ {j}] \in Scan
          /\ [scan[s] EXCEPT !.todo = @ \ {j}, !.dead = j] \in Scan
      BY DEF Scan
    <3>2. QED BY <1>3, <3>1 DEF RetryInPlace
  <2>4. QED BY <1>3, <2>2, <2>3 DEF RetryInPlace
<1>4. CASE DeadLetter(s)
  <2>1. Finished(row[scan[s].dead], "FAILED") \in Row
    BY <1>4, FinishedTyped DEF DeadLetter, Terminal, Scan
  <2>2. QED BY <1>4, <2>1 DEF DeadLetter, Scan
<1>5. QED BY <1>1, <1>2, <1>3, <1>4 DEF Pass, Reclaim

LEMMA ReconcileTypes == ASSUME IInv, NEW j \in Jobs, Reconcile(j) PROVE TypeOK'
<1> USE DEF IInv, TypeOK
<1>1. \A outcome \in {"CANCELED", "FAILED"} : Finished(row[j], outcome) \in Row
  BY FinishedTyped DEF Terminal
<1>2. row' \in [Jobs -> Row]
  BY <1>1 DEF Reconcile
<1>3. QED BY <1>2 DEF Reconcile

LEMMA ClockTypes == IInv /\ Clock => TypeOK'
<1> SUFFICES ASSUME IInv, NEW j \in Jobs, LeaseExpires(j) \/ GraceElapses(j) \/ RuntimeElapses(j)
             PROVE  TypeOK'
  BY DEF Clock
<1> USE DEF IInv, TypeOK
<1>1. row[j] \in Row
  OBVIOUS
<1>2. row' \in [Jobs -> Row]
  BY <1>1, FieldsTyped DEF LeaseExpires, GraceElapses, LeaseAges, RuntimeElapses
<1>3. QED BY <1>2 DEF LeaseExpires, GraceElapses, LeaseAges, RuntimeElapses

LEMMA StepTypes == IInv /\ [Next]_vars => TypeOK'
<1> SUFFICES ASSUME IInv, [Next]_vars PROVE TypeOK'  OBVIOUS
<1>1. CASE UNCHANGED vars
  BY <1>1 DEF IInv, TypeOK, vars
<1>2. CASE Next
  BY <1>2, UserTypes, ProducerTypes, WorkerTypes, ScannerTypes, ReconcileTypes, ClockTypes DEF Next
<1>3. QED BY <1>1, <1>2

-----------------------------------------------------------------------------
(* What a step may do to one row and to one worker.                         *)

(* A row moves by one of the guarded updates, claims and charges apart. *)
RowMove(j) ==
  LET r == row[j] IN
  \/ row'[j] = r
  \/ r.status = "ABSENT" /\ row'[j] = QueuedRow
  \/ \E seen \in {"QUEUED", "RETRYING", "RUNNING"} :
       CancelApplies(r, seen) /\ row'[j] = CancelRow(r, seen)
  \/ \E d \in Deliveries : row'[j] = [r EXCEPT !.stamp = d]
  \/ \E tok \in Nat : CanAckCancel(r, tok) /\ row'[j] = Finished(r, "CANCELED")
  \/ r.status = "RUNNING" /\ row'[j] = Finished(r, "FAILED")
  \/ \E w \in Workers : /\ hand[w].pc = "working" /\ hand[w].job = j
                        /\ CanWrite(r, hand[w].token) /\ row'[j] = Finished(r, "COMPLETED")
  \/ r.status = "RUNNING" /\ \E n \in 0 .. MaxAttempts : row'[j] = BackToRetrying(r, n)
  \/ r.lease # "none" /\ \E new \in {"expired", "stale"} : row'[j] = [r EXCEPT !.lease = new]
  \/ r.token # NoToken /\ row'[j] = [r EXCEPT !.overdue = TRUE]
  \/ j \in VerifyJobs /\ r.status = "RUNNING" /\ row'[j] = [r EXCEPT !.cancelRequested = TRUE]
  \/ /\ j \in VerifyJobs /\ r.status \in {"QUEUED", "RETRYING", "FAILED", "CANCELING"}
     /\ \E outcome \in {"CANCELED", "FAILED"} : row'[j] = Finished(r, outcome)

(* A worker picks a delivery up, lets go of it, or moves to another stage   *)
(* of it with the token it has.                                             *)
HandMove(w) ==
  \/ hand'[w] = hand[w]
  \/ hand'[w] = IdleHand
  \/ hand'[w] = [hand[w] EXCEPT !.id = NoDelivery]
  \/ \E j \in Jobs, d \in Deliveries :
       hand'[w] = [pc |-> "routed", job |-> j, id |-> d, token |-> NoToken]
  \/ /\ hand[w].pc \in {"claimed", "working"}
     /\ \E q \in {"working", "acking"} : hand'[w] = [hand[w] EXCEPT !.pc = q]

ProducerMove(p) ==
  producer'[p].pc # "idle" => producer'[p].job \in Jobs /\ producer'[p].id \in Deliveries

Ordinary == /\ UNCHANGED claims
            /\ \A j \in Jobs : RowMove(j)
            /\ \A w \in Workers : HandMove(w)
            /\ \A p \in Producers : ProducerMove(p)

LEMMA UserMoves == IInv /\ UserStep => Ordinary
<1> SUFFICES ASSUME IInv, UserStep PROVE Ordinary  OBVIOUS
<1> USE DEF IInv, TypeOK, Ordinary, RowMove, HandMove, ProducerMove
<1>1. ASSUME NEW p \in Producers, NEW j \in Jobs, CreateJob(p, j) PROVE Ordinary
  BY <1>1, DeliveryIds DEF CreateJob, ActorsOK
<1>2. ASSUME NEW p \in Producers, NEW j \in Jobs, NEW k \in Jobs, RetryCreates(p, j, k) PROVE Ordinary
  BY <1>2, DeliveryIds DEF RetryCreates, ActorsOK
<1>3. ASSUME NEW p \in Producers, NEW j \in Jobs, NEW k \in Jobs, RetryReuses(p, j, k) PROVE Ordinary
  BY <1>3, DeliveryIds DEF RetryReuses, ActorsOK
<1>4. ASSUME NEW j \in Jobs, CancelRead(j) PROVE Ordinary
  BY <1>4 DEF CancelRead, ActorsOK
<1>5. ASSUME NEW j \in Jobs, CancelWrite(j) PROVE Ordinary
  <2>1. observed[j] \in {"QUEUED", "RETRYING", "RUNNING"}
    BY <1>5 DEF CancelWrite
  <2>2. \A i \in Jobs : RowMove(i)
    BY <1>5, <2>1 DEF CancelWrite
  <2>3. QED BY <1>5, <2>2 DEF CancelWrite, ActorsOK
<1>6. ASSUME Archive PROVE Ordinary
  BY <1>6 DEF Archive, ActorsOK
<1>7. QED BY <1>1, <1>2, <1>3, <1>4, <1>5, <1>6 DEF UserStep

LEMMA ProducerMoves ==
  ASSUME IInv, NEW p \in Producers,
         ProducerStep(p) \/ Candidate(p) \/ AddFails(p) \/ ProducerCrash(p)
  PROVE  Ordinary
<1> USE DEF IInv, TypeOK, Ordinary, RowMove, HandMove, ProducerMove, ActorsOK
<1>1. ASSUME NEW j \in Jobs, PendingCandidate(p, j) PROVE Ordinary
  BY <1>1, DeliveryIds DEF PendingCandidate
<1>2. ASSUME NEW j \in Jobs, VerifyCandidate(p, j) PROVE Ordinary
  <2>1. RetryDelivery(row[j].attempts) \in Deliveries
    BY DeliveryIds, FieldsTyped
  <2>2. QED BY <1>2, <2>1 DEF VerifyCandidate
<1>3. CASE ReadForDelivery(p)
  <2>1. \A q \in Producers : ProducerMove(q)
    <3>1. \/ producer' = [producer EXCEPT ![p] = IdleProducer]
          \/ producer' = [producer EXCEPT ![p].pc = "adding"]
      BY <1>3 DEF ReadForDelivery, ProducerDone
    <3>2. producer[p] \in Delivering /\ producer[p].pc = "reading"
      BY <1>3 DEF ReadForDelivery
    <3>3. QED BY <3>1, <3>2 DEF IdleProducer, Delivering
  <2>2. QED BY <1>3, <2>1 DEF ReadForDelivery
<1>4. CASE AddDelivery(p)
  BY <1>4 DEF AddDelivery, Delivering
<1>5. CASE AddFails(p)
  BY <1>5 DEF AddFails, ProducerDone, IdleProducer
<1>6. CASE StampDelivery(p)
  BY <1>6 DEF StampDelivery, ProducerDone, IdleProducer
<1>7. CASE ProducerCrash(p)
  BY <1>7 DEF ProducerCrash, ProducerDone, IdleProducer
<1>8. QED BY <1>1, <1>2, <1>3, <1>4, <1>5, <1>6, <1>7 DEF ProducerStep, Candidate

LEMMA WorkerMoves ==
  ASSUME IInv, NEW w \in Workers, Router(w) \/ Processor(w) \/ Crash(w) \/ Stall(w)
  PROVE  Ordinary \/ Claim(w) \/ OperationalExhausted(w)
<1> USE DEF IInv, TypeOK, Ordinary, HandMove, ProducerMove, ActorsOK, Returns
<1>1. ASSUME NEW j \in Jobs, NEW d \in Deliveries, Receive(w, j, d) PROVE Ordinary
  BY <1>1 DEF Receive, RowMove
<1>2. ASSUME NEW j \in Jobs, NEW d \in Deliveries, ReceiveSkips(w, j, d) PROVE Ordinary
  BY <1>2 DEF ReceiveSkips, RowMove
<1>3. CASE ClaimRefused(w)
  BY <1>3 DEF ClaimRefused, RowMove
<1>4. CASE RouteProceeds(w)
  BY <1>4 DEF RouteProceeds, RowMove
<1>5. CASE ObserveCancel(w)
  BY <1>5 DEF ObserveCancel, RowMove
<1>6. CASE AckCancel(w)
  <2>1. hand[w].token \in Nat
    BY DEF Hand
  <2>2. \A j \in Jobs : RowMove(j)
    BY <1>6, <2>1 DEF AckCancel, RowMove
  <2>3. QED BY <1>6, <2>2 DEF AckCancel
<1>7. ASSUME NEW outcome \in {"COMPLETED", "FAILED"}, Finish(w, outcome) PROVE Ordinary
  <2>1. \A j \in Jobs : RowMove(j)
    BY <1>7 DEF Finish, CanWrite, RowMove
  <2>2. QED BY <1>7, <2>1 DEF Finish
<1>8. CASE WriteRefused(w)
  BY <1>8 DEF WriteRefused, RowMove
<1>9. CASE OperationalRetry(w)
  <2>1. hand[w].job \in Jobs /\ row[hand[w].job] \in Row
    BY <1>9 DEF OperationalRetry
  <2>2. row[hand[w].job].attempts \in 0 .. MaxAttempts + 1
    BY <2>1, FieldsTyped
  <2>3. row[hand[w].job].attempts + 1 \in 0 .. MaxAttempts
    BY <1>9, <2>2, MaxAttemptsAssumption DEF OperationalRetry
  <2>4. \A j \in Jobs : RowMove(j)
    BY <1>9, <2>3 DEF OperationalRetry, OwnsRunning, RowMove
  <2>5. QED BY <1>9, <2>4 DEF OperationalRetry
<1>10. CASE Defer(w)
  <2>1. hand[w].job \in Jobs /\ row[hand[w].job] \in Row
    BY <1>10 DEF Defer
  <2>2. row[hand[w].job].attempts \in 0 .. MaxAttempts
    <3>1. row[hand[w].job].attempts \in 0 .. MaxAttempts + 1
      BY <2>1, FieldsTyped
    <3>2. ~(row[hand[w].job].attempts > MaxAttempts)
      BY <1>10, <2>1 DEF Defer, OwnsRunning, BudgetKept
    <3>3. QED BY <3>1, <3>2, MaxAttemptsAssumption
  <2>3. \A j \in Jobs : RowMove(j)
    BY <1>10, <2>2 DEF Defer, OwnsRunning, RowMove
  <2>4. QED BY <1>10, <2>3 DEF Defer
<1>11. CASE Crash(w)
  BY <1>11 DEF Crash, RowMove
<1>12. CASE CancelsItself(w)
  <2>1. \A j \in Jobs : RowMove(j)
    BY <1>12 DEF CancelsItself, OwnsRunning, RowMove
  <2>2. QED BY <1>12, <2>1 DEF CancelsItself
<1>13. CASE Stall(w)
  BY <1>13 DEF Stall, RowMove
<1>14. QED
  BY <1>1, <1>2, <1>3, <1>4, <1>5, <1>6, <1>7, <1>8, <1>9, <1>10, <1>11, <1>12, <1>13
  DEF Router, Processor

LEMMA ScannerMoves ==
  ASSUME IInv, NEW s \in Scanners, Pass(s) \/ Reclaim(s)
  PROVE  Ordinary
<1> USE DEF IInv, TypeOK, Ordinary, RowMove, HandMove, ProducerMove, ActorsOK
<1>1. CASE ScanExpired(s)
  BY <1>1 DEF ScanExpired
<1>2. CASE ScanRunaway(s)
  BY <1>2 DEF ScanRunaway
<1>3. ASSUME NEW j \in Jobs, RetryInPlace(s, j) PROVE Ordinary
  <2>1. CanRetryInPlace(row[j], scan[s].guard) => row[j].attempts + 1 \in 0 .. MaxAttempts
    <3>1. row[j].attempts \in 0 .. MaxAttempts + 1
      BY FieldsTyped
    <3>2. QED BY <3>1, MaxAttemptsAssumption DEF CanRetryInPlace
  <2>2. \A i \in Jobs : RowMove(i)
    BY <1>3, <2>1 DEF RetryInPlace, CanRetryInPlace, Recoverable
  <2>3. QED BY <1>3, <2>2 DEF RetryInPlace
<1>4. CASE DeadLetter(s)
  <2>1. \A i \in Jobs : RowMove(i)
    BY <1>4 DEF DeadLetter, CanDeadLetter, Recoverable
  <2>2. QED BY <1>4, <2>1 DEF DeadLetter
<1>5. QED BY <1>1, <1>2, <1>3, <1>4 DEF Pass, Reclaim

LEMMA ReconcileMoves == ASSUME IInv, NEW j \in Jobs, Reconcile(j) PROVE Ordinary
<1> USE DEF IInv, TypeOK
<1>1. \A i \in Jobs : RowMove(i)
  BY DEF Reconcile, RowMove
<1>2. QED BY <1>1 DEF Reconcile, Ordinary, HandMove, ProducerMove, ActorsOK

LEMMA ClockMoves == IInv /\ Clock => Ordinary
<1> SUFFICES ASSUME IInv, NEW j \in Jobs, LeaseExpires(j) \/ GraceElapses(j) \/ RuntimeElapses(j)
             PROVE  Ordinary
  BY DEF Clock
<1> USE DEF IInv, TypeOK
<1>1. \A i \in Jobs : RowMove(i)
  BY ZenonT(40) DEF LeaseExpires, GraceElapses, LeaseAges, RuntimeElapses, RowMove
<1>2. QED
  BY <1>1 DEF LeaseExpires, GraceElapses, LeaseAges, RuntimeElapses,
              Ordinary, HandMove, ProducerMove, ActorsOK

LEMMA Moves ==
  IInv /\ [Next]_vars =>
    Ordinary \/ \E w \in Workers : Claim(w) \/ OperationalExhausted(w)
<1> SUFFICES ASSUME IInv, [Next]_vars
             PROVE  Ordinary \/ \E w \in Workers : Claim(w) \/ OperationalExhausted(w)
  OBVIOUS
<1>1. CASE UNCHANGED vars
  BY <1>1 DEF IInv, vars, Ordinary, RowMove, HandMove, ProducerMove, ActorsOK
<1>2. CASE Next
  BY <1>2, UserMoves, ProducerMoves, WorkerMoves, ScannerMoves, ReconcileMoves, ClockMoves DEF Next
<1>3. QED BY <1>1, <1>2

-----------------------------------------------------------------------------
(* The inductive step.                                                      *)

(* What LockShape and CancelShape say of the row of one Job. *)
Sound(j, r) ==
  /\ r.status \in Active <=> r.token # NoToken
  /\ r.token # NoToken <=> r.lease # "none"
  /\ r.token # NoToken <=> r.lockedBy # NoWorker
  /\ r.overdue => r.token # NoToken
  /\ r.status = "CANCELING" => r.cancelRequested
  /\ j \notin VerifyJobs => (r.cancelRequested <=> r.status \in {"CANCELING", "CANCELED"})

LEMMA SoundRows == LockShape /\ CancelShape <=> \A j \in Jobs : Sound(j, row[j])
BY DEF LockShape, CancelShape, Sound

LEMMA SoundUpdates ==
  ASSUME NEW j \in Jobs, NEW r \in Row, Sound(j, r)
  PROVE  /\ \A w \in Workers, tok \in Nat \ {NoToken} : CanClaim(r) => Sound(j, Claimed(r, w, tok))
         /\ \A tok \in Nat : CanAckCancel(r, tok) => Sound(j, Finished(r, "CANCELED"))
         /\ \A outcome \in {"COMPLETED", "FAILED"} :
              r.status = "RUNNING" => Sound(j, Finished(r, outcome))
         /\ \A n \in 0 .. MaxAttempts + 1 :
              r.status = "RUNNING" => Sound(j, BackToRetrying(r, n))
         /\ j \in VerifyJobs => \A outcome \in Terminal : Sound(j, Finished(r, outcome))
<1> USE DEF Sound, Row
<1>1. ASSUME NEW w \in Workers, NEW tok \in Nat \ {NoToken}, CanClaim(r)
      PROVE  Sound(j, Claimed(r, w, tok))
  BY <1>1, NoWorkerAssumption DEF CanClaim, Claimed, Claimable, Active
<1>2. ASSUME NEW tok \in Nat, CanAckCancel(r, tok) PROVE Sound(j, Finished(r, "CANCELED"))
  BY <1>2 DEF CanAckCancel, CurrentLease, Finished, Unlocked, Active
<1>3. ASSUME NEW outcome \in {"COMPLETED", "FAILED"}, r.status = "RUNNING"
      PROVE  Sound(j, Finished(r, outcome))
  BY <1>3 DEF Finished, Unlocked, Active
<1>4. ASSUME NEW n \in 0 .. MaxAttempts + 1, r.status = "RUNNING"
      PROVE  Sound(j, BackToRetrying(r, n))
  BY <1>4 DEF BackToRetrying, Unlocked, Active
<1>5. ASSUME j \in VerifyJobs, NEW outcome \in Terminal PROVE Sound(j, Finished(r, outcome))
  BY <1>5 DEF Finished, Unlocked, Active, Terminal
<1>6. QED BY <1>1, <1>2, <1>3, <1>4, <1>5

LEMMA SoundCancel ==
  ASSUME NEW j \in Jobs, NEW r \in Row, Sound(j, r),
         NEW seen \in {"QUEUED", "RETRYING", "RUNNING"}, CancelApplies(r, seen)
  PROVE  Sound(j, CancelRow(r, seen))
BY DEF Sound, Row, CancelApplies, CancelRow, Finished, Unlocked, Active

LEMMA OrdinaryRows ==
  ASSUME IInv, NEW j \in Jobs, RowMove(j)
  PROVE  Sound(j, row'[j])
<1>1. row[j] \in Row /\ Sound(j, row[j])
  BY SoundRows DEF IInv, TypeOK
<1>2. Sound(j, QueuedRow)
  BY DEF Sound, QueuedRow, AbsentRow, Active
<1> DEFINE r == row[j]
<1>3. ASSUME NEW seen \in {"QUEUED", "RETRYING", "RUNNING"},
             CancelApplies(r, seen), row'[j] = CancelRow(r, seen)
      PROVE  Sound(j, row'[j])
  BY <1>1, <1>3, SoundCancel
<1>4. ASSUME NEW tok \in Nat, CanAckCancel(r, tok), row'[j] = Finished(r, "CANCELED")
      PROVE  Sound(j, row'[j])
  BY <1>1, <1>4, SoundUpdates
<1>5. ASSUME r.status = "RUNNING", NEW outcome \in {"COMPLETED", "FAILED"},
             row'[j] = Finished(r, outcome)
      PROVE  Sound(j, row'[j])
  BY <1>1, <1>5, SoundUpdates
<1>6. ASSUME r.status = "RUNNING", NEW n \in 0 .. MaxAttempts, row'[j] = BackToRetrying(r, n)
      PROVE  Sound(j, row'[j])
  <2>1. n \in 0 .. MaxAttempts + 1
    BY MaxAttemptsAssumption
  <2>2. QED BY <1>1, <1>6, <2>1, SoundUpdates
<1>7. ASSUME j \in VerifyJobs, NEW outcome \in {"CANCELED", "FAILED"},
             row'[j] = Finished(r, outcome)
      PROVE  Sound(j, row'[j])
  BY <1>1, <1>7, SoundUpdates DEF Terminal
<1>8. ASSUME NEW d \in Deliveries, row'[j] = [r EXCEPT !.stamp = d] PROVE Sound(j, row'[j])
  BY <1>1, <1>8 DEF Sound, Row
<1>9. ASSUME r.lease # "none", NEW new \in {"expired", "stale"}, row'[j] = [r EXCEPT !.lease = new]
      PROVE  Sound(j, row'[j])
  BY <1>1, <1>9 DEF Sound, Row
<1>10. ASSUME r.token # NoToken, row'[j] = [r EXCEPT !.overdue = TRUE] PROVE Sound(j, row'[j])
  BY <1>1, <1>10 DEF Sound, Row
<1>11. ASSUME j \in VerifyJobs, row'[j] = [r EXCEPT !.cancelRequested = TRUE]
       PROVE  Sound(j, row'[j])
  BY <1>1, <1>11 DEF Sound, Row
<1>12. QED
  BY <1>1, <1>2, <1>3, <1>4, <1>5, <1>6, <1>7, <1>8, <1>9, <1>10, <1>11 DEF RowMove, CanWrite

(* An ordinary move never draws a token, never moves one to another worker, *)
(* and leaves attempts within the budget.                                   *)
LEMMA OrdinaryTokens ==
  ASSUME IInv, NEW j \in Jobs, RowMove(j)
  PROVE  /\ row'[j].token = row[j].token \/ row'[j].token = NoToken
         /\ row'[j].token # NoToken => row'[j].lockedBy = row[j].lockedBy
         /\ row'[j].attempts > MaxAttempts =>
              row[j].attempts = row'[j].attempts /\ row'[j].status \notin Claimable
<1>1. row[j] \in Row /\ Sound(j, row[j]) /\ ~(0 > MaxAttempts)
  BY SoundRows, MaxAttemptsAssumption DEF IInv, TypeOK
<1>2. \A n \in 0 .. MaxAttempts : ~(n > MaxAttempts)
  BY MaxAttemptsAssumption
<1>3. row[j].attempts > MaxAttempts => row[j].status \notin Claimable
  BY DEF IInv, BudgetKept
<1> DEFINE r == row[j]
           Kept == /\ row'[j].token = r.token \/ row'[j].token = NoToken
                   /\ row'[j].token # NoToken => row'[j].lockedBy = r.lockedBy
                   /\ row'[j].attempts > MaxAttempts =>
                        r.attempts = row'[j].attempts /\ row'[j].status \notin Claimable
<1>4. CASE row'[j] = r
  BY <1>3, <1>4
<1>5. CASE row'[j] = QueuedRow
  BY <1>1, <1>5 DEF QueuedRow, AbsentRow
<1>6. ASSUME NEW seen \in {"QUEUED", "RETRYING", "RUNNING"},
             CancelApplies(r, seen), row'[j] = CancelRow(r, seen)
      PROVE  Kept
  BY <1>1, <1>3, <1>6 DEF CancelRow, CancelApplies, Finished, Unlocked, Claimable, Row
<1>7. ASSUME NEW d \in Deliveries, row'[j] = [r EXCEPT !.stamp = d] PROVE Kept
  BY <1>1, <1>3, <1>7 DEF Row
<1>8. ASSUME NEW outcome \in Terminal, row'[j] = Finished(r, outcome) PROVE Kept
  BY <1>1, <1>8 DEF Finished, Unlocked, Claimable, Terminal, Row
<1>9. ASSUME NEW n \in 0 .. MaxAttempts, row'[j] = BackToRetrying(r, n) PROVE Kept
  BY <1>1, <1>2, <1>9 DEF BackToRetrying, Unlocked, Row
<1>10. ASSUME NEW new \in {"expired", "stale"}, row'[j] = [r EXCEPT !.lease = new] PROVE Kept
  BY <1>1, <1>3, <1>10 DEF Row
<1>11. CASE row'[j] = [r EXCEPT !.overdue = TRUE]
  BY <1>1, <1>3, <1>11 DEF Row
<1>12. CASE row'[j] = [r EXCEPT !.cancelRequested = TRUE]
  BY <1>1, <1>3, <1>12 DEF Row
<1>13. QED
  BY <1>4, <1>5, <1>6, <1>7, <1>8, <1>9, <1>10, <1>11, <1>12 DEF RowMove, Terminal

(* An ordinary move gives a worker no token: it keeps the one it has, on    *)
(* the same Job, or drops it.                                               *)
LEMMA OrdinaryHands ==
  ASSUME IInv, NEW w \in Workers, HandMove(w)
  PROVE  /\ hand'[w].pc # "idle" => hand'[w].job \in Jobs
         /\ hand'[w].pc \in {"idle", "routed"} <=> hand'[w].token = NoToken
         /\ hand'[w].token # NoToken =>
              hand'[w].token = hand[w].token /\ hand'[w].job = hand[w].job
         /\ hand'[w].pc \in {"claimed", "working"} => hand[w].pc \in {"claimed", "working"}
<1>1. /\ hand[w] \in Hand
      /\ hand[w].pc # "idle" => hand[w].job \in Jobs
      /\ hand[w].pc \in {"idle", "routed"} <=> hand[w].token = NoToken
  BY DEF IInv, TypeOK, ActorsOK
<1>2. CASE hand'[w] = hand[w]
  BY <1>1, <1>2
<1>3. CASE hand'[w] = IdleHand
  BY <1>3 DEF IdleHand
<1>4. CASE \E j \in Jobs, d \in Deliveries :
             hand'[w] = [pc |-> "routed", job |-> j, id |-> d, token |-> NoToken]
  BY <1>4
<1>5. ASSUME NEW q \in {"working", "acking"}, hand[w].pc \in {"claimed", "working"},
             hand'[w] = [hand[w] EXCEPT !.pc = q]
      PROVE  /\ hand'[w].pc = q /\ hand'[w].token = hand[w].token
             /\ hand'[w].job = hand[w].job
  BY <1>1, <1>5 DEF Hand
<1>6. CASE hand'[w] = [hand[w] EXCEPT !.id = NoDelivery]
  BY <1>1, <1>6 DEF Hand
<1>7. QED BY <1>1, <1>2, <1>3, <1>4, <1>5, <1>6 DEF HandMove

LEMMA OrdinaryStep == IInv /\ Ordinary /\ TypeOK' => IInv'
<1> SUFFICES ASSUME IInv, Ordinary, TypeOK' PROVE IInv'  OBVIOUS
<1>1. ASSUME NEW w \in Workers
      PROVE  /\ hand'[w].token = NoToken \/
                  (hand'[w].token = hand[w].token /\ hand'[w].job = hand[w].job)
             /\ hand'[w].pc # "idle" => hand'[w].job \in Jobs
             /\ hand'[w].pc \in {"idle", "routed"} <=> hand'[w].token = NoToken
             /\ hand'[w].pc \in {"claimed", "working"} => hand[w].pc \in {"claimed", "working"}
  BY OrdinaryHands DEF Ordinary
<1>2. ASSUME NEW j \in Jobs
      PROVE  /\ row'[j].token = row[j].token \/ row'[j].token = NoToken
             /\ row'[j].token # NoToken => row'[j].lockedBy = row[j].lockedBy
             /\ row'[j].attempts > MaxAttempts =>
                  row[j].attempts = row'[j].attempts /\ row'[j].status \notin Claimable
  BY OrdinaryTokens DEF Ordinary
<1>3. UNCHANGED claims /\ \A j \in Jobs : 0 <= claims[j]
  BY DEF Ordinary, IInv, TypeOK
<1>4. ActorsOK'
  <2>1. ASSUME NEW w \in Workers, hand'[w].pc # "idle"
        PROVE  hand'[w].token <= claims'[hand'[w].job]
    <3>1. CASE hand'[w].token = NoToken
      BY <1>1, <1>3, <2>1, <3>1 DEF NoToken
    <3>2. CASE hand'[w].token # NoToken
      BY <1>1, <1>3, <3>2 DEF IInv, ActorsOK
    <3>3. QED BY <3>1, <3>2
  <2>2. QED BY <1>1, <2>1 DEF ActorsOK, Ordinary, ProducerMove
<1>5. TokensIssued'
  BY <1>2, <1>3 DEF IInv, TokensIssued, NoToken
<1>6. BudgetKept'
  <2>1. ASSUME NEW j \in Jobs, row'[j].attempts > MaxAttempts, NEW w \in Workers,
               hand'[w].job = j, hand'[w].pc \in {"claimed", "working"}
        PROVE  hand'[w].token # row'[j].token
    <3>1. hand[w].token # row[j].token /\ hand'[w].token = hand[w].token /\ hand[w].token # NoToken
      BY <1>1, <1>2, <2>1 DEF IInv, BudgetKept, ActorsOK
    <3>2. QED BY <1>2, <3>1
  <2>2. QED BY <1>2, <2>1 DEF BudgetKept
<1>7. SingleOwner'
  <2>1. ASSUME NEW w \in Workers, hand'[w].token # NoToken
        PROVE  /\ row'[hand'[w].job].token = hand'[w].token => row'[hand'[w].job].lockedBy = w
               /\ \A v \in Workers \ {w} :
                    hand'[v].job = hand'[w].job => hand'[v].token # hand'[w].token
    <3>1. hand[w].token = hand'[w].token /\ hand[w].job = hand'[w].job /\ hand[w].job \in Jobs
      BY <1>1, <2>1 DEF IInv, ActorsOK
    <3>2. QED BY <1>1, <1>2, <2>1, <3>1 DEF IInv, SingleOwner
  <2>2. QED BY <2>1 DEF SingleOwner
<1>8. LockShape' /\ CancelShape'
  BY OrdinaryRows DEF Ordinary, LockShape, CancelShape, Sound
<1>9. QED BY <1>4, <1>5, <1>6, <1>7, <1>8 DEF IInv

(* A claim draws a token newer than any token the Job ever had. *)
LEMMA ClaimStep ==
  ASSUME IInv, TypeOK', NEW w \in Workers, Claim(w)
  PROVE  IInv'
<1> DEFINE j == hand[w].job
           tok == claims[j] + 1
<1>1. /\ j \in Jobs /\ hand[w] \in Hand /\ row[j] \in Row
      /\ Sound(j, row[j]) /\ CanClaim(row[j]) /\ claims[j] \in Nat /\ tok \in Nat \ {NoToken}
  BY SoundRows DEF IInv, TypeOK, ActorsOK, Claim, NoToken
<1>2. /\ row' = [row EXCEPT ![j] = Claimed(row[j], w, tok)]
      /\ claims' = [claims EXCEPT ![j] = tok]
      /\ hand' = [hand EXCEPT ![w].pc = "claimed", ![w].token = tok]
      /\ UNCHANGED producer
  BY DEF Claim
<1>3. /\ row'[j].token = tok /\ row'[j].lockedBy = w /\ row'[j].status = "RUNNING"
      /\ row'[j].attempts = row[j].attempts
      /\ \A i \in Jobs \ {j} : row'[i] = row[i] /\ claims'[i] = claims[i]
      /\ claims'[j] = tok
  BY SMTT(20), <1>1, <1>2 DEF IInv, TypeOK, Claimed, Row
<1>4. /\ hand'[w].token = tok /\ hand'[w].job = j /\ hand'[w].pc = "claimed"
      /\ \A v \in Workers \ {w} : hand'[v] = hand[v]
  BY <1>1, <1>2 DEF IInv, TypeOK, Hand
<1>5. \A v \in Workers :
        /\ hand[v].token \in Nat
        /\ hand[v].pc # "idle" => hand[v].job \in Jobs /\ hand[v].token <= claims[hand[v].job]
        /\ hand[v].pc \in {"idle", "routed"} <=> hand[v].token = NoToken
  BY DEF IInv, TypeOK, Hand, ActorsOK
<1>6. \A v \in Workers \ {w} : hand[v].job = j => hand[v].token # tok
  BY <1>1, <1>5 DEF NoToken
<1>7. ActorsOK'
  <2>1. ASSUME NEW v \in Workers, hand'[v].pc # "idle"
        PROVE  hand'[v].token <= claims'[hand'[v].job]
    BY <1>1, <1>3, <1>4, <1>5, <2>1
  <2>2. ASSUME NEW v \in Workers
        PROVE  /\ hand'[v].pc # "idle" => hand'[v].job \in Jobs
               /\ hand'[v].pc \in {"idle", "routed"} <=> hand'[v].token = NoToken
    BY <1>1, <1>4, <1>5 DEF IInv, ActorsOK
  <2>3. QED BY <1>2, <2>1, <2>2 DEF IInv, ActorsOK
<1>8. TokensIssued'
  BY <1>1, <1>3 DEF IInv, TokensIssued
<1>9. BudgetKept'
  <2>1. \A i \in Jobs \ {j} : row'[i] = row[i]
    BY <1>3
  <2>2. ~(row'[j].attempts > MaxAttempts)
    BY <1>1, <1>3 DEF IInv, BudgetKept, CanClaim
  <2>3. QED BY <1>4, <2>1, <2>2 DEF IInv, BudgetKept
<1>10. SingleOwner'
  <2>1. ASSUME NEW v \in Workers, hand'[v].token # NoToken
        PROVE  /\ row'[hand'[v].job].token = hand'[v].token => row'[hand'[v].job].lockedBy = v
               /\ \A u \in Workers \ {v} :
                    hand'[u].job = hand'[v].job => hand'[u].token # hand'[v].token
    <3>1. CASE v = w
      BY <1>3, <1>4, <1>6, <3>1
    <3>2. CASE v # w
      BY <1>1, <1>3, <1>4, <1>5, <1>6, <2>1, <3>2 DEF IInv, SingleOwner
    <3>3. QED BY <3>1, <3>2
  <2>2. QED BY <2>1 DEF SingleOwner
<1>11. LockShape' /\ CancelShape'
  <2>1. Sound(j, row'[j])
    BY <1>1, <1>2, SoundUpdates DEF IInv, TypeOK
  <2>2. \A i \in Jobs : Sound(i, row'[i])
    BY <1>3, <2>1, SoundRows DEF IInv
  <2>3. QED BY <2>2 DEF LockShape, CancelShape, Sound
<1>12. QED BY <1>7, <1>8, <1>9, <1>10, <1>11 DEF IInv

(* The charge of an exhausted attempt may exceed the budget, but the worker *)
(* that made it has left its processor and no other has the token.          *)
LEMMA ExhaustedStep ==
  ASSUME IInv, TypeOK', NEW w \in Workers, OperationalExhausted(w)
  PROVE  IInv'
<1> DEFINE j == hand[w].job
<1>1. /\ j \in Jobs /\ hand[w] \in Hand /\ row[j] \in Row /\ Sound(j, row[j])
      /\ hand[w].pc = "working" /\ row[j].token = hand[w].token /\ row[j].status = "RUNNING"
  BY SoundRows DEF IInv, TypeOK, ActorsOK, OperationalExhausted, OwnsRunning
<1>2. /\ row' = [row EXCEPT ![j] = [row[j] EXCEPT !.attempts = row[j].attempts + 1]]
      /\ hand' = [hand EXCEPT ![w].pc = "failing"]
      /\ UNCHANGED <<claims, producer>>
  BY DEF OperationalExhausted
<1>3. /\ row'[j] = [row[j] EXCEPT !.attempts = row[j].attempts + 1]
      /\ \A i \in Jobs : /\ row'[i].token = row[i].token /\ row'[i].lockedBy = row[i].lockedBy
                         /\ row'[i].status = row[i].status
      /\ \A i \in Jobs \ {j} : row'[i] = row[i]
  BY <1>1, <1>2 DEF IInv, TypeOK, Row
<1>4. /\ \A v \in Workers : /\ hand'[v].token = hand[v].token /\ hand'[v].job = hand[v].job
      /\ hand'[w].pc = "failing" /\ \A v \in Workers \ {w} : hand'[v] = hand[v]
  BY <1>1, <1>2 DEF IInv, TypeOK, Hand
<1>5. ActorsOK'
  BY <1>1, <1>2, <1>4 DEF IInv, ActorsOK
<1>6. TokensIssued'
  BY <1>2, <1>3 DEF IInv, TokensIssued
<1>7. BudgetKept'
  <2>1. \A v \in Workers : hand'[v].job = j /\ hand'[v].pc \in {"claimed", "working"} =>
                             hand'[v].token # row'[j].token
    BY <1>1, <1>3, <1>4 DEF IInv, SingleOwner, ActorsOK
  <2>2. row'[j].status \notin Claimable
    BY <1>1, <1>3 DEF Claimable
  <2>3. QED BY <1>3, <1>4, <2>1, <2>2 DEF IInv, BudgetKept
<1>8. SingleOwner'
  <2>1. \A v \in Workers : hand[v].token # NoToken => hand[v].job \in Jobs
    BY DEF IInv, ActorsOK
  <2>2. QED BY <1>3, <1>4, <2>1 DEF IInv, SingleOwner
<1>9. LockShape' /\ CancelShape'
  <2>1. Sound(j, row'[j])
    BY <1>1, <1>3 DEF Sound, Row
  <2>2. \A i \in Jobs : Sound(i, row'[i])
    BY <1>3, <2>1, SoundRows DEF IInv
  <2>3. QED BY <2>2 DEF LockShape, CancelShape, Sound
<1>10. QED BY <1>5, <1>6, <1>7, <1>8, <1>9 DEF IInv

-----------------------------------------------------------------------------
(* Theorems.                                                                *)

LEMMA InvInit == Init => IInv
<1> SUFFICES ASSUME Init PROVE IInv  OBVIOUS
<1>1. TypeOK
  BY TypeInit
<1>2. \A j \in Jobs : row[j] = AbsentRow /\ claims[j] = 0
  BY DEF Init
<1>3. \A w \in Workers : hand[w] = IdleHand
  BY DEF Init
<1>4. \A p \in Producers : producer[p] = IdleProducer
  BY DEF Init
<1>5. LockShape /\ CancelShape
  BY <1>2 DEF LockShape, CancelShape, AbsentRow, Active, NoToken
<1>6. ActorsOK /\ SingleOwner
  BY <1>3, <1>4 DEF ActorsOK, SingleOwner, IdleHand, IdleProducer
<1>7. TokensIssued /\ BudgetKept
  BY <1>2, MaxAttemptsAssumption DEF TokensIssued, BudgetKept, AbsentRow, NoToken
<1>8. QED BY <1>1, <1>5, <1>6, <1>7 DEF IInv

LEMMA InvStep == IInv /\ [Next]_vars => IInv'
BY StepTypes, Moves, OrdinaryStep, ClaimStep, ExhaustedStep

(* The inductive invariant holds in every reachable state. *)
THEOREM Invariance == Spec => []IInv
<1>1. QED BY InvInit, InvStep, PTL DEF Spec

(* Every variable keeps its type: no sequence of claims, charges, retries   *)
(* and deferrals takes attempts beyond maxAttempts + 1, and a delivery id   *)
(* is always one of the Job's own.                                          *)
THEOREM TypesHold == Spec => []TypeOK
<1>1. IInv => TypeOK  BY DEF IInv
<1>2. QED BY <1>1, Invariance, PTL

(* The lock columns are set exactly while the Job is RUNNING or CANCELING,  *)
(* for any number of workers, scanners and concurrent cancellations.        *)
THEOREM LocksAreShaped == Spec => []LockShape
<1>1. IInv => LockShape  BY DEF IInv
<1>2. QED BY <1>1, Invariance, PTL

(* A recorded cancellation and the status never disagree. *)
THEOREM CancellationsAreShaped == Spec => []CancelShape
<1>1. IInv => CancelShape  BY DEF IInv
<1>2. QED BY <1>1, Invariance, PTL

(* At most one worker owns a Job, and it is the one the row names. *)
THEOREM OneOwner == Spec => []SingleOwner
<1>1. IInv => SingleOwner  BY DEF IInv
<1>2. QED BY <1>1, Invariance, PTL

(* What one step may do to a decided Job. *)
FinalAt(j) ==
  row[j].status \in Terminal =>
    \/ Decided(row'[j]) = Decided(row[j])
    \/ /\ j \in VerifyJobs /\ row[j].status = "FAILED"
       /\ Decided(row'[j]) = Decided([row[j] EXCEPT !.status = "CANCELED"])

LEMMA FinalStep == IInv /\ [Next]_vars => \A j \in Jobs : FinalAt(j)
<1> DEFINE Kept(i) == Decided(row'[i]) = Decided(row[i])
           Settled(i) == /\ i \in VerifyJobs /\ row[i].status = "FAILED"
                         /\ Decided(row'[i]) = Decided([row[i] EXCEPT !.status = "CANCELED"])
<1> SUFFICES ASSUME IInv, [Next]_vars, NEW j \in Jobs, row[j].status \in Terminal
             PROVE  Kept(j) \/ Settled(j)
  BY DEF FinalAt
<1>1. row[j] \in Row /\ Sound(j, row[j])
  BY SoundRows DEF IInv, TypeOK
<1>2. /\ row[j].token = NoToken /\ row[j].lease = "none" /\ row[j].lockedBy = NoWorker
      /\ row[j].overdue = FALSE
  BY <1>1 DEF Sound, Active, Terminal, Row
<1>3. ASSUME Ordinary PROVE Kept(j) \/ Settled(j)
  <2>1. RowMove(j)
    BY <1>3 DEF Ordinary
  <2>2. ASSUME NEW d \in Deliveries, row'[j] = [row[j] EXCEPT !.stamp = d]
        PROVE  Kept(j)
    BY <1>1, <2>2 DEF Decided, Row
  <2>3. ASSUME j \in VerifyJobs, row[j].status = "FAILED",
               NEW outcome \in {"CANCELED", "FAILED"}, row'[j] = Finished(row[j], outcome)
        PROVE  Kept(j) \/ Settled(j)
    <3>1. Unlocked(row[j]) = row[j]
      BY <1>1, <1>2 DEF Unlocked, Row
    <3>2. CASE outcome = "FAILED"
      <4>1. row'[j] = row[j]
        BY <1>1, <2>3, <3>1, <3>2 DEF Finished, Row
      <4>2. QED BY <4>1
    <3>3. CASE outcome = "CANCELED"
      BY <2>3, <3>1, <3>3 DEF Finished
    <3>4. QED BY <2>3, <3>2, <3>3
  <2>4. QED BY <1>2, <2>1, <2>2, <2>3
               DEF RowMove, Terminal, CancelApplies, CanAckCancel, CurrentLease, CanWrite
<1>4. ASSUME NEW w \in Workers, Claim(w) PROVE row'[j] = row[j]
  BY <1>4 DEF Claim, CanClaim, Claimable, Terminal, IInv, TypeOK
<1>5. ASSUME NEW w \in Workers, OperationalExhausted(w) PROVE row'[j] = row[j]
  BY <1>5 DEF OperationalExhausted, OwnsRunning, Terminal, IInv, TypeOK
<1>6. QED BY <1>3, <1>4, <1>5, Moves

(* Whatever late writers do, a decided Job keeps its outcome, its attempts  *)
(* and its empty lock.                                                      *)
THEOREM DecisionsAreFinal == Spec => TerminalIsFinal
<1>1. IInv /\ [Next]_vars =>
        [\A j \in Jobs :
           row[j].status \in Terminal =>
             \/ Decided(row'[j]) = Decided(row[j])
             \/ /\ j \in VerifyJobs /\ row[j].status = "FAILED"
                /\ Decided(row'[j]) = Decided([row[j] EXCEPT !.status = "CANCELED"])]_vars
  BY FinalStep DEF FinalAt
<1>2. QED BY <1>1, Invariance, PTL DEF Spec, TerminalIsFinal

(* COMPLETED is written only by the worker the row names, under a live      *)
(* lease.                                                                   *)
THEOREM OwnersComplete == Spec => CompletedByOwner
<1>1. IInv /\ [Next]_vars =>
        [\A j \in Jobs :
           row'[j].status = "COMPLETED" /\ row[j].status # "COMPLETED" =>
             /\ row[j].lease = "live"
             /\ \E w \in Workers : /\ hand[w].job = j /\ hand[w].token = row[j].token
                                  /\ row[j].lockedBy = w /\ hand[w].pc = "working"]_vars
  <2> SUFFICES ASSUME IInv, [Next]_vars, NEW j \in Jobs,
                      row'[j].status = "COMPLETED", row[j].status # "COMPLETED"
               PROVE  /\ row[j].lease = "live"
                      /\ \E w \in Workers : /\ hand[w].job = j /\ hand[w].token = row[j].token
                                           /\ row[j].lockedBy = w /\ hand[w].pc = "working"
    OBVIOUS
  <2>1. row[j] \in Row /\ Sound(j, row[j])
    BY SoundRows DEF IInv, TypeOK
  <2>2. ASSUME NEW w \in Workers, Claim(w) PROVE FALSE
    BY <2>1, <2>2 DEF Claim, Claimed, Row, IInv, TypeOK
  <2>3. ASSUME NEW w \in Workers, OperationalExhausted(w) PROVE FALSE
    BY <2>1, <2>3 DEF OperationalExhausted, OwnsRunning, Row, IInv, TypeOK
  <2>4. RowMove(j)
    BY <2>2, <2>3, Moves DEF Ordinary
  <2>5. PICK w \in Workers : hand[w].pc = "working" /\ hand[w].job = j /\ CanWrite(row[j], hand[w].token)
    BY <2>1, <2>4
    DEF RowMove, QueuedRow, AbsentRow, CancelRow, Finished, Unlocked, BackToRetrying, Row
  <2>6. row[j].lease = "live" /\ row[j].status = "RUNNING" /\ row[j].token = hand[w].token
    BY <2>5 DEF CanWrite, CurrentLease
  <2>7. row[j].lockedBy = w
    BY <2>5, <2>6 DEF IInv, SingleOwner, CanWrite, CurrentLease
  <2>8. QED BY <2>5, <2>6, <2>7
<1>2. QED BY <1>1, Invariance, PTL DEF Spec, CompletedByOwner

-----------------------------------------------------------------------------
(* The retry lineage.                                                       *)

(* Only the transaction of an authorised retry writes retryOfJobId.         *)
LEMMA LineageMoves ==
  IInv /\ [Next]_vars =>
    UNCHANGED retryOf \/ \E p \in Producers, i, n \in Jobs : RetryCreates(p, i, n)
<1> SUFFICES ASSUME [Next]_vars
             PROVE  UNCHANGED retryOf \/ \E p \in Producers, i, n \in Jobs : RetryCreates(p, i, n)
  OBVIOUS
<1>1. CASE UNCHANGED vars
  BY <1>1 DEF vars
<1>2. CASE UserStep
  BY <1>2 DEF UserStep, CreateJob, RetryReuses, CancelRead, CancelWrite, Archive
<1>3. ASSUME NEW p \in Producers, ProducerStep(p) \/ Candidate(p) \/ AddFails(p) \/ ProducerCrash(p)
      PROVE  UNCHANGED retryOf
  BY <1>3 DEF ProducerStep, Candidate, PendingCandidate, VerifyCandidate, ReadForDelivery,
              AddDelivery, StampDelivery, AddFails, ProducerCrash
<1>4. ASSUME NEW w \in Workers, Router(w) PROVE UNCHANGED retryOf
  BY <1>4 DEF Router, Receive, ReceiveSkips, Claim, ClaimRefused, RouteProceeds, ObserveCancel, AckCancel
<1>5. ASSUME NEW w \in Workers, Processor(w) \/ Crash(w) \/ Stall(w) PROVE UNCHANGED retryOf
  BY <1>5 DEF Processor, Finish, WriteRefused, OperationalRetry, OperationalExhausted, Defer,
              CancelsItself, Crash, Stall
<1>6. ASSUME NEW s \in Scanners, Pass(s) \/ Reclaim(s) PROVE UNCHANGED retryOf
  BY <1>6 DEF Pass, Reclaim, ScanExpired, ScanRunaway, RetryInPlace, DeadLetter
<1>7. ASSUME NEW j \in Jobs, Reconcile(j) PROVE UNCHANGED retryOf
  BY <1>7 DEF Reconcile
<1>8. CASE Clock
  BY <1>8 DEF Clock, LeaseExpires, GraceElapses, LeaseAges, RuntimeElapses
<1>9. QED BY <1>1, <1>2, <1>3, <1>4, <1>5, <1>6, <1>7, <1>8 DEF Next

=============================================================================
