------------------------ MODULE JobRefinementProofs ------------------------
(* Theorems about JobLease that need the effect of each statement on the    *)
(* one row it writes: the account of runs, the truth of the stamp, the live *)
(* lease, and that the whole system implements JobLifecycle.  For every set *)
(* of Jobs, workers, producers and scanners and every value of the bounds.  *)
EXTENDS JobLeaseProofs

-----------------------------------------------------------------------------
(* What one statement writes.                                               *)

(* A row that does not exist yet has no past. *)
Fresh == \A j \in Jobs : row[j].status = "ABSENT" => row[j].attempts = 0 /\ claims[j] = 0

(* An attempt or a deferral is paid by a running Job only, one at a time,   *)
(* and nothing else returns a Job to RETRYING.                              *)
Paid(j) ==
  \/ /\ row'[j].attempts = row[j].attempts /\ defers'[j] = defers[j]
     /\ row'[j].status = "RETRYING" => row[j].status = "RETRYING"
  \/ /\ row[j].status = "RUNNING" /\ row'[j].status \in {"RETRYING", "RUNNING"}
     /\ row'[j].attempts + defers'[j] = row[j].attempts + defers[j] + 1

(* A stamp is kept, cleared, or set by the producer that made the delivery. *)
Stamped(j) ==
  \/ row'[j].stamp \in {row[j].stamp, NoDelivery}
  \/ \E p \in Producers : /\ producer[p].pc = "stamping" /\ producer[p].job = j
                          /\ row'[j].stamp = producer[p].id

Wrote(j) == /\ \A i \in Jobs \ {j} : row'[i] = row[i] /\ defers'[i] = defers[i]
            /\ Paid(j) /\ Stamped(j)

OneRow == UNCHANGED <<row, defers>> \/ \E j \in Jobs : Wrote(j)

LEMMA Updates ==
  ASSUME NEW r \in Row
  PROVE  /\ \A outcome : /\ Finished(r, outcome).status = outcome
                         /\ Finished(r, outcome).attempts = r.attempts
                         /\ Finished(r, outcome).stamp = r.stamp
         /\ \A seen : /\ CancelRow(r, seen).status \in {"CANCELING", "CANCELED"}
                      /\ CancelRow(r, seen).attempts = r.attempts
                      /\ CancelRow(r, seen).stamp = r.stamp
         /\ \A w, tok : /\ Claimed(r, w, tok).status = "RUNNING"
                        /\ Claimed(r, w, tok).attempts = r.attempts
                        /\ Claimed(r, w, tok).stamp = r.stamp
         /\ \A n : /\ BackToRetrying(r, n).status = "RETRYING"
                   /\ BackToRetrying(r, n).attempts = n
                   /\ BackToRetrying(r, n).stamp = NoDelivery
BY DEF Finished, CancelRow, Claimed, BackToRetrying, Unlocked, Row

LEMMA Counts == ASSUME IInv, NEW j \in Jobs PROVE row[j].attempts \in Nat /\ defers[j] \in Nat
<1>1. row[j] \in Row /\ defers[j] \in 0 .. MaxDefers  BY DEF IInv, TypeOK
<1>2. row[j].attempts \in 0 .. MaxAttempts + 1  BY <1>1, FieldsTyped
<1> QED BY <1>1, <1>2, BoundsAssumption, MaxAttemptsAssumption

LEMMA NewRow == QueuedRow.status = "QUEUED" /\ QueuedRow.attempts = 0 /\ QueuedRow.stamp = NoDelivery
BY DEF QueuedRow, AbsentRow

(* The usual statement: it sets one row, charges nothing and leaves the     *)
(* stamp as it is.                                                          *)
LEMMA Plain ==
  ASSUME IInv, NEW j \in Jobs, NEW r, row' = [row EXCEPT ![j] = r], UNCHANGED defers,
         r.attempts = row[j].attempts, r.stamp \in {row[j].stamp, NoDelivery},
         r.status = "RETRYING" => row[j].status = "RETRYING"
  PROVE  OneRow
<1>1. row'[j] = r /\ \A i \in Jobs \ {j} : row'[i] = row[i]
  BY DEF IInv, TypeOK
<1> QED BY <1>1 DEF OneRow, Wrote, Paid, Stamped

LEMMA UserWrites == IInv /\ Fresh /\ UserStep => OneRow
<1> SUFFICES ASSUME IInv, Fresh, UserStep PROVE OneRow  OBVIOUS
<1>1. ASSUME NEW j \in Jobs, row[j].status = "ABSENT",
             row' = [row EXCEPT ![j] = QueuedRow], UNCHANGED defers
      PROVE  OneRow
  BY <1>1, NewRow, Plain DEF Fresh
<1>2. ASSUME NEW j \in Jobs, CancelWrite(j) PROVE OneRow
  <2>1. row[j] \in Row  BY DEF IInv, TypeOK
  <2>2. CASE row' = row  BY <1>2, <2>2 DEF CancelWrite, OneRow
  <2>3. CASE row' = [row EXCEPT ![j] = CancelRow(row[j], observed[j])]
    <3> DEFINE r == CancelRow(row[j], observed[j])
    <3>1. /\ r.attempts = row[j].attempts /\ r.stamp \in {row[j].stamp, NoDelivery}
          /\ (r.status = "RETRYING" => row[j].status = "RETRYING")
      BY <2>1, Updates
    <3>2. UNCHANGED defers /\ row' = [row EXCEPT ![j] = r]  BY <1>2, <2>3 DEF CancelWrite
    <3> HIDE DEF r
    <3> QED BY <3>1, <3>2, Plain
  <2> QED BY <1>2, <2>2, <2>3 DEF CancelWrite
<1>3. ASSUME NEW p \in Producers, NEW j \in Jobs, CreateJob(p, j) PROVE OneRow
  BY <1>1, <1>3 DEF CreateJob
<1>4. ASSUME NEW p \in Producers, NEW j \in Jobs, NEW k \in Jobs, RetryCreates(p, j, k) PROVE OneRow
  BY <1>1, <1>4 DEF RetryCreates
<1> QED BY <1>2, <1>3, <1>4 DEF UserStep, RetryReuses, CancelRead, Archive, OneRow

LEMMA ProducerWrites ==
  ASSUME IInv, NEW p \in Producers,
         ProducerStep(p) \/ Candidate(p) \/ AddFails(p) \/ ProducerCrash(p)
  PROVE  OneRow
<1>1. CASE StampDelivery(p)
  <2> DEFINE j == producer[p].job
  <2>1. j \in Jobs /\ row[j] \in Row /\ row \in [Jobs -> Row]
    BY <1>1 DEF StampDelivery, IInv, TypeOK, ActorsOK
  <2>2. CASE row' = row  BY <1>1, <2>2 DEF StampDelivery, OneRow
  <2>3. CASE row' = [row EXCEPT ![j].stamp = producer[p].id]
    <3>1. /\ row'[j] = [row[j] EXCEPT !.stamp = producer[p].id]
          /\ \A i \in Jobs \ {j} : row'[i] = row[i]
      BY <2>1, <2>3
    <3>2. /\ row'[j].stamp = producer[p].id /\ row'[j].attempts = row[j].attempts
          /\ row'[j].status = row[j].status
      BY <2>1, <3>1 DEF Row
    <3>3. Stamped(j) /\ Paid(j)
      BY <1>1, <3>2 DEF StampDelivery, Stamped, Paid
    <3> QED BY <1>1, <2>1, <3>1, <3>3 DEF StampDelivery, OneRow, Wrote
  <2> QED BY <1>1, <2>2, <2>3 DEF StampDelivery
<1> QED BY <1>1 DEF ProducerStep, Candidate, PendingCandidate, VerifyCandidate, ReadForDelivery,
                    AddDelivery, AddFails, ProducerCrash, OneRow

(* A row taken back is charged an attempt, or else a deferral. *)
LEMMA TakenBack ==
  ASSUME IInv, NEW j \in Jobs, row[j].status = "RUNNING", NEW n \in Nat,
         row' = [row EXCEPT ![j] = BackToRetrying(row[j], n)],
         \/ n = row[j].attempts + 1 /\ UNCHANGED defers
         \/ n = row[j].attempts /\ defers' = [defers EXCEPT ![j] = defers[j] + 1]
  PROVE  OneRow
<1>1. /\ row[j] \in Row /\ row[j].attempts \in Nat /\ defers[j] \in Nat
      /\ row'[j] = BackToRetrying(row[j], n)
      /\ \A i \in Jobs \ {j} : row'[i] = row[i] /\ defers'[i] = defers[i]
  <2>1. row[j] \in Row  BY DEF IInv, TypeOK
  <2>2. row[j].attempts \in Nat /\ defers[j] \in Nat  BY Counts
  <2>3. row'[j] = BackToRetrying(row[j], n) /\ \A i \in Jobs \ {j} : row'[i] = row[i]
    BY DEF IInv, TypeOK
  <2>4. \A i \in Jobs \ {j} : defers'[i] = defers[i]
    BY DEF IInv, TypeOK
  <2> QED BY <2>1, <2>2, <2>3, <2>4
<1>2. row'[j].status = "RETRYING" /\ row'[j].attempts = n /\ row'[j].stamp = NoDelivery
  BY <1>1, Updates
<1>3. n + defers'[j] = row[j].attempts + defers[j] + 1
  BY <1>1 DEF IInv, TypeOK
<1> QED BY <1>1, <1>2, <1>3 DEF OneRow, Wrote, Paid, Stamped

LEMMA RouterWrites ==
  ASSUME IInv, NEW w \in Workers, Router(w) PROVE OneRow
<1> DEFINE j == hand[w].job
<1>1. hand[w].pc # "idle" => j \in Jobs /\ row[j] \in Row
  BY DEF IInv, TypeOK, ActorsOK
<1>2. CASE Claim(w)
  <2> DEFINE r == Claimed(row[j], w, claims[j] + 1)
  <2>1. j \in Jobs /\ row[j] \in Row /\ row' = [row EXCEPT ![j] = r] /\ UNCHANGED defers
    BY <1>1, <1>2 DEF Claim
  <2>2. r.attempts = row[j].attempts /\ r.stamp = row[j].stamp /\ r.status = "RUNNING"
    BY <2>1, Updates
  <2> HIDE DEF r
  <2> QED BY <2>1, <2>2, Plain
<1>3. CASE AckCancel(w)
  <2> DEFINE r == Finished(row[j], "CANCELED")
  <2>1. j \in Jobs /\ row[j] \in Row /\ UNCHANGED defers /\ (row' = row \/ row' = [row EXCEPT ![j] = r])
    BY <1>1, <1>3 DEF AckCancel
  <2>2. r.attempts = row[j].attempts /\ r.stamp = row[j].stamp /\ r.status = "CANCELED"
    BY <2>1, Updates
  <2> HIDE DEF r
  <2>3. CASE row' = row  BY <2>1, <2>3 DEF OneRow
  <2> QED BY <2>1, <2>2, <2>3, Plain
<1> QED BY <1>2, <1>3 DEF Router, Receive, ReceiveSkips, ClaimRefused, RouteProceeds, ObserveCancel, OneRow

LEMMA ProcessorWrites ==
  ASSUME IInv, NEW w \in Workers, Processor(w) \/ Crash(w) \/ Stall(w) PROVE OneRow
<1> DEFINE j == hand[w].job
<1>1. hand[w].pc # "idle" => j \in Jobs /\ row[j] \in Row /\ row[j].attempts \in Nat /\ defers[j] \in Nat
  <2>1. hand[w].pc # "idle" => j \in Jobs  BY DEF IInv, ActorsOK
  <2> QED BY <2>1, Counts DEF IInv, TypeOK
<1>2. ASSUME NEW outcome \in {"COMPLETED", "FAILED"}, Finish(w, outcome) PROVE OneRow
  <2> DEFINE r == Finished(row[j], outcome)
  <2>1. j \in Jobs /\ row[j] \in Row /\ UNCHANGED defers /\ row' = [row EXCEPT ![j] = r]
    BY <1>1, <1>2 DEF Finish
  <2>2. r.attempts = row[j].attempts /\ r.stamp = row[j].stamp /\ (r.status = "RETRYING" => row[j].status = "RETRYING")
    BY <2>1, Updates
  <2> HIDE DEF r
  <2> QED BY <2>1, <2>2, Plain
<1>3. CASE OperationalRetry(w)
  <2>1. /\ j \in Jobs /\ row[j].attempts + 1 \in Nat /\ row[j].status = "RUNNING" /\ UNCHANGED defers
        /\ row' = [row EXCEPT ![j] = BackToRetrying(row[j], row[j].attempts + 1)]
    BY <1>1, <1>3 DEF OperationalRetry, OwnsRunning
  <2> QED BY <2>1, TakenBack
<1>4. CASE Defer(w)
  <2>1. /\ j \in Jobs /\ row[j].attempts \in Nat /\ row[j].status = "RUNNING"
        /\ defers' = [defers EXCEPT ![j] = defers[j] + 1]
        /\ row' = [row EXCEPT ![j] = BackToRetrying(row[j], row[j].attempts)]
    BY <1>1, <1>4 DEF Defer, OwnsRunning
  <2> QED BY <2>1, TakenBack
<1>5. CASE OperationalExhausted(w)
  <2>1. /\ j \in Jobs /\ row[j] \in Row /\ row[j].status = "RUNNING" /\ UNCHANGED defers
        /\ row' = [row EXCEPT ![j].attempts = row[j].attempts + 1]
    BY <1>1, <1>5 DEF OperationalExhausted, OwnsRunning
  <2>2. /\ row'[j] = [row[j] EXCEPT !.attempts = row[j].attempts + 1]
        /\ \A i \in Jobs \ {j} : row'[i] = row[i]
    BY <2>1 DEF IInv, TypeOK
  <2>3. /\ row'[j].attempts = row[j].attempts + 1 /\ row'[j].status = "RUNNING"
        /\ row'[j].stamp = row[j].stamp
    BY <2>1, <2>2 DEF Row
  <2>4. row[j].attempts \in Nat /\ defers[j] \in Nat /\ defers'[j] = defers[j]
    BY <1>1, <1>5, <2>1 DEF OperationalExhausted
  <2>5. Paid(j) /\ Stamped(j)  BY <2>1, <2>3, <2>4 DEF Paid, Stamped
  <2> QED BY <2>1, <2>2, <2>5 DEF OneRow, Wrote
<1>6. CASE CancelsItself(w)
  <2>1. CASE row' = row  BY <1>6, <2>1 DEF CancelsItself, OneRow
  <2>2. CASE row' = [row EXCEPT ![j].cancelRequested = TRUE]
    <3> DEFINE r == [row[j] EXCEPT !.cancelRequested = TRUE]
    <3>1. j \in Jobs /\ row[j] \in Row /\ row' = [row EXCEPT ![j] = r] /\ UNCHANGED defers
      BY <1>1, <1>6, <2>2 DEF CancelsItself
    <3>2. r.attempts = row[j].attempts /\ r.stamp = row[j].stamp /\ r.status = row[j].status
      BY <3>1 DEF Row
    <3> HIDE DEF r
    <3> QED BY <3>1, <3>2, Plain
  <2> QED BY <1>6, <2>1, <2>2 DEF CancelsItself
<1>7. CASE WriteRefused(w) \/ Crash(w) \/ Stall(w)
  BY <1>7 DEF WriteRefused, Crash, Stall, OneRow
<1> QED BY <1>2, <1>3, <1>4, <1>5, <1>6, <1>7 DEF Processor

LEMMA ScannerWrites ==
  ASSUME IInv, NEW s \in Scanners, Pass(s) \/ Reclaim(s) PROVE OneRow
<1>1. ASSUME NEW j \in Jobs, RetryInPlace(s, j) PROVE OneRow
  <2>1. CASE row' = row  BY <1>1, <2>1 DEF RetryInPlace, OneRow
  <2>2. CASE row' # row
    <3>1. row[j].attempts \in Nat  BY Counts
    <3>2. /\ row[j].attempts + 1 \in Nat /\ row[j].status = "RUNNING" /\ UNCHANGED defers
          /\ row' = [row EXCEPT ![j] = BackToRetrying(row[j], row[j].attempts + 1)]
      BY <1>1, <2>2, <3>1 DEF RetryInPlace, CanRetryInPlace, Recoverable
    <3> QED BY <3>2, TakenBack
  <2> QED BY <2>1, <2>2
<1>2. CASE DeadLetter(s)
  <2> DEFINE j == scan[s].dead
             r == Finished(row[j], "FAILED")
  <2>1. j \in Jobs /\ row[j] \in Row  BY <1>2 DEF DeadLetter, IInv, TypeOK, Scan
  <2>2. UNCHANGED defers /\ (row' = row \/ row' = [row EXCEPT ![j] = r])
    BY <1>2 DEF DeadLetter
  <2>3. r.attempts = row[j].attempts /\ r.stamp = row[j].stamp /\ r.status = "FAILED"
    BY <2>1, Updates
  <2> HIDE DEF r
  <2>4. CASE row' = row  BY <2>2, <2>4 DEF OneRow
  <2> QED BY <2>1, <2>2, <2>3, <2>4, Plain
<1> QED BY <1>1, <1>2 DEF Pass, Reclaim, ScanExpired, ScanRunaway, OneRow

LEMMA RestWrites == IInv /\ (Clock \/ \E j \in Jobs : Reconcile(j)) => OneRow
<1> SUFFICES ASSUME IInv, NEW j \in Jobs,
                    Reconcile(j) \/ LeaseExpires(j) \/ GraceElapses(j) \/ RuntimeElapses(j)
             PROVE  OneRow
  BY DEF Clock
<1>1. row[j] \in Row  BY DEF IInv, TypeOK
<1>2. CASE Reconcile(j)
  <2>1. PICK outcome \in {"CANCELED", "FAILED"} : row' = [row EXCEPT ![j] = Finished(row[j], outcome)]
    BY <1>2 DEF Reconcile
  <2> DEFINE r == Finished(row[j], outcome)
  <2>2. r.attempts = row[j].attempts /\ r.stamp = row[j].stamp /\ (r.status = "RETRYING" => row[j].status = "RETRYING")
    BY <1>1, Updates
  <2>3. UNCHANGED defers /\ row' = [row EXCEPT ![j] = r]  BY <1>2, <2>1 DEF Reconcile
  <2> HIDE DEF r
  <2> QED BY <2>2, <2>3, Plain
<1>3. ASSUME NEW new, row' = [row EXCEPT ![j].lease = new], UNCHANGED defers PROVE OneRow
  <2> DEFINE r == [row[j] EXCEPT !.lease = new]
  <2>1. r.attempts = row[j].attempts /\ r.stamp = row[j].stamp /\ r.status = row[j].status
    BY <1>1 DEF Row
  <2>2. row' = [row EXCEPT ![j] = r]  BY <1>3
  <2> HIDE DEF r
  <2> QED BY <1>3, <2>1, <2>2, Plain
<1>4. CASE RuntimeElapses(j)
  <2> DEFINE r == [row[j] EXCEPT !.overdue = TRUE]
  <2>1. r.attempts = row[j].attempts /\ r.stamp = row[j].stamp /\ r.status = row[j].status
    BY <1>1 DEF Row
  <2>2. row' = [row EXCEPT ![j] = r] /\ UNCHANGED defers  BY <1>4 DEF RuntimeElapses
  <2> HIDE DEF r
  <2> QED BY <2>1, <2>2, Plain
<1> QED BY <1>2, <1>3, <1>4 DEF LeaseExpires, GraceElapses, LeaseAges

LEMMA Writes == IInv /\ Fresh /\ [Next]_vars => OneRow
<1>1. UNCHANGED vars => OneRow  BY DEF vars, OneRow
<1> QED BY <1>1, UserWrites, ProducerWrites, RouterWrites, ProcessorWrites, ScannerWrites, RestWrites DEF Next

-----------------------------------------------------------------------------
(* The account of runs.                                                     *)

(* Nothing but its creation and a claim changes what an ordinary move makes *)
(* of the beginning of a Job.                                               *)
LEMMA Beginnings ==
  ASSUME IInv, NEW j \in Jobs, RowMove(j)
  PROVE  /\ row'[j].status = "ABSENT" => row[j].status = "ABSENT"
         /\ row'[j].status = "QUEUED" => row[j].status \in {"ABSENT", "QUEUED"}
<1> DEFINE r == row[j]
           Kept == /\ row'[j].status = "ABSENT" => r.status = "ABSENT"
                   /\ row'[j].status = "QUEUED" => r.status \in {"ABSENT", "QUEUED"}
<1>1. r \in Row  BY DEF IInv, TypeOK
<1>2. ASSUME r.status = "ABSENT", row'[j] = QueuedRow PROVE Kept
  BY <1>2, NewRow
<1>3. ASSUME NEW d \in Deliveries, row'[j] = [r EXCEPT !.stamp = d] PROVE Kept
  BY <1>1, <1>3 DEF Row
<1>4. ASSUME NEW new \in {"expired", "stale"}, row'[j] = [r EXCEPT !.lease = new] PROVE Kept
  BY <1>1, <1>4 DEF Row
<1>5. ASSUME row'[j] = [r EXCEPT !.overdue = TRUE] \/ row'[j] = [r EXCEPT !.cancelRequested = TRUE] PROVE Kept
  BY <1>1, <1>5 DEF Row
<1>6. ASSUME NEW seen \in {"QUEUED", "RETRYING", "RUNNING"}, row'[j] = CancelRow(r, seen) PROVE Kept
  BY <1>1, <1>6, Updates
<1>7. ASSUME NEW outcome \in {"COMPLETED", "FAILED", "CANCELED"}, row'[j] = Finished(r, outcome) PROVE Kept
  BY <1>1, <1>7, Updates
<1>8. ASSUME NEW n \in 0 .. MaxAttempts, row'[j] = BackToRetrying(r, n) PROVE Kept
  BY <1>1, <1>8, Updates
<1>9. CASE row'[j] = r  BY <1>9
<1> QED BY <1>2, <1>3, <1>4, <1>5, <1>6, <1>7, <1>8, <1>9 DEF RowMove

AccountInv == IInv /\ Fresh /\ RunsAreAccountedFor

Accounted(j) ==
  LET r == row[j] IN
  /\ r.status = "ABSENT" => r.attempts = 0 /\ claims[j] = 0
  /\ claims[j] <= r.attempts + defers[j] + 1
  /\ r.status = "QUEUED" => claims[j] = 0
  /\ r.status = "RETRYING" => claims[j] <= r.attempts + defers[j]

LEMMA AccountByJob == Fresh /\ RunsAreAccountedFor <=> \A j \in Jobs : Accounted(j)
BY DEF Fresh, RunsAreAccountedFor, Accounted

LEMMA ChargeKeepsStatus ==
  ASSUME IInv, NEW w \in Workers, OperationalExhausted(w)
  PROVE  UNCHANGED claims /\ \A j \in Jobs : row'[j].status = row[j].status
<1>1. UNCHANGED claims  BY DEF OperationalExhausted
<1> DEFINE k == hand[w].job
<1>2. k \in Jobs /\ row[k] \in Row  BY DEF IInv, TypeOK, ActorsOK, OperationalExhausted
<1>3. row' = [row EXCEPT ![k] = [row[k] EXCEPT !.attempts = row[k].attempts + 1]]
  BY DEF OperationalExhausted
<1> QED BY <1>1, <1>2, <1>3 DEF IInv, TypeOK, Row

LEMMA AccountStep == AccountInv /\ [Next]_vars => AccountInv'
<1> SUFFICES ASSUME AccountInv, [Next]_vars PROVE AccountInv'  OBVIOUS
<1>1. IInv /\ IInv' /\ OneRow /\ \A j \in Jobs : Accounted(j)
  BY InvStep, Writes, AccountByJob DEF AccountInv
<1>2. ASSUME NEW j \in Jobs
      PROVE  /\ row[j].attempts \in Nat /\ defers[j] \in Nat /\ claims[j] \in Nat
             /\ row'[j].attempts \in Nat /\ defers'[j] \in Nat
  <2>1. row[j].attempts \in Nat /\ defers[j] \in Nat /\ claims[j] \in Nat
    BY <1>1, Counts DEF IInv, TypeOK
  <2>2. row'[j] \in Row /\ defers'[j] \in 0 .. MaxDefers  BY <1>1 DEF IInv, TypeOK
  <2>3. row'[j].attempts \in 0 .. MaxAttempts + 1  BY <2>2, FieldsTyped
  <2> QED BY <2>1, <2>2, <2>3, BoundsAssumption, MaxAttemptsAssumption
<1>3. ASSUME NEW j \in Jobs
      PROVE  Paid(j) \/ (row'[j] = row[j] /\ defers'[j] = defers[j])
  BY <1>1 DEF OneRow, Wrote
<1>4. ASSUME NEW w \in Workers, Claim(w), NEW j \in Jobs PROVE Accounted(j)'
  <2> DEFINE k == hand[w].job
  <2>1. k \in Jobs /\ row[k] \in Row /\ row[k].status \in Claimable
    BY <1>1, <1>4 DEF IInv, TypeOK, ActorsOK, Claim, CanClaim
  <2>2. /\ row' = [row EXCEPT ![k] = Claimed(row[k], w, claims[k] + 1)]
        /\ claims' = [claims EXCEPT ![k] = claims[k] + 1] /\ UNCHANGED defers
    BY <1>4 DEF Claim
  <2>3. CASE j = k
    <3>1. row'[j] = Claimed(row[j], w, claims[j] + 1) /\ claims'[j] = claims[j] + 1
      BY <1>1, <2>2, <2>3 DEF IInv, TypeOK
    <3>2. row'[j].status = "RUNNING" /\ row'[j].attempts = row[j].attempts
      BY <2>1, <2>3, <3>1, Updates
    <3>3. claims[j] <= row[j].attempts + defers[j]
      BY <1>1, <1>2, <2>1, <2>3 DEF Accounted, Claimable
    <3> QED BY <1>2, <2>2, <3>1, <3>2, <3>3 DEF Accounted
  <2>4. CASE j # k
    <3>1. row'[j] = row[j] /\ claims'[j] = claims[j]
      BY <1>1, <2>2, <2>4 DEF IInv, TypeOK
    <3> QED BY <1>1, <2>2, <3>1 DEF Accounted
  <2> QED BY <2>3, <2>4
<1>5. ASSUME UNCHANGED claims, NEW j \in Jobs,
             \/ RowMove(j) 
             \/ row'[j].status = row[j].status
      PROVE  Accounted(j)'
  <2>1. /\ row'[j].status = "ABSENT" => row[j].status = "ABSENT"
        /\ row'[j].status = "QUEUED" => row[j].status \in {"ABSENT", "QUEUED"}
    BY <1>1, <1>5, Beginnings
  <2>2. CASE Paid(j)
    BY <1>1, <1>2, <1>5, <2>1, <2>2 DEF Paid, Accounted
  <2>3. CASE row'[j] = row[j] /\ defers'[j] = defers[j]
    BY <1>1, <1>5, <2>3 DEF Accounted
  <2> QED BY <1>3, <2>2, <2>3
<1>6. ASSUME NEW w \in Workers, OperationalExhausted(w)
      PROVE  UNCHANGED claims /\ \A j \in Jobs : row'[j].status = row[j].status
  BY <1>1, <1>6, ChargeKeepsStatus
<1>7. \A j \in Jobs : Accounted(j)'
  BY <1>1, <1>4, <1>5, <1>6, Moves DEF Ordinary
<1> QED BY <1>1, <1>7, AccountByJob DEF AccountInv, Fresh, RunsAreAccountedFor, Accounted

LEMMA AccountInit == Init => AccountInv
<1>1. Init => Fresh /\ RunsAreAccountedFor
  BY DEF Init, Fresh, RunsAreAccountedFor, AbsentRow
<1> QED BY <1>1, InvInit DEF AccountInv

(* A duplicated, late or redelivered message never buys a Job another run:  *)
(* each one is paid for by its creation, an attempt counted or a deferral.  *)
THEOREM RunsArePaidFor == Spec => []RunsAreAccountedFor
<1>1. AccountInv => RunsAreAccountedFor  BY DEF AccountInv
<1> QED BY <1>1, AccountInit, AccountStep, PTL DEF Spec

-----------------------------------------------------------------------------
(* The stamp.                                                               *)

(* What BullMQ was given once it knows for good. *)
Remembered ==
  \A j \in Jobs, d \in Deliveries : delivery[j][d] # "absent" => delivery'[j][d] # "absent"

(* Whoever is about to stamp has added the delivery it will name. *)
StampersAdded ==
  \A p \in Producers :
    producer[p].pc = "stamping" => delivery[producer[p].job][producer[p].id] # "absent"

LEMMA Put ==
  ASSUME IInv, NEW j, NEW d, NEW known, known # "absent",
         delivery' = [delivery EXCEPT ![j][d] = known]
  PROVE  Remembered
BY DEF IInv, TypeOK, Remembered

LEMMA AddedIsKnown == \A known : Added(known) # "absent"
BY DEF Added

LEMMA ProducerDeliveries ==
  ASSUME IInv, NEW p \in Producers,
         ProducerStep(p) \/ Candidate(p) \/ AddFails(p) \/ ProducerCrash(p)
  PROVE  Remembered
<1>1. CASE AddDelivery(p)
  BY <1>1, Put, AddedIsKnown DEF AddDelivery
<1>2. CASE AddFails(p)
  <2>1. CASE UNCHANGED delivery  BY <2>1 DEF Remembered
  <2> QED BY <1>2, <2>1, Put, AddedIsKnown DEF AddFails
<1> QED BY <1>1, <1>2 DEF ProducerStep, Candidate, PendingCandidate, VerifyCandidate, ReadForDelivery,
                          StampDelivery, ProducerCrash, Remembered

LEMMA WorkerDeliveries ==
  ASSUME IInv, NEW w \in Workers, Router(w) \/ Processor(w) \/ Crash(w) \/ Stall(w)
  PROVE  Remembered
<1>1. ASSUME NEW state \in {"waiting", "done"}, delivery' = Marked(w, state) PROVE Remembered
  <2>1. CASE delivery' = delivery  BY <2>1 DEF Remembered
  <2> QED BY <1>1, <2>1, Put DEF Marked
<1>2. ASSUME HandedOn(w) PROVE Remembered
  BY <1>1, <1>2 DEF HandedOn
<1>3. ASSUME Returns(w) PROVE Remembered
  BY <1>1, <1>3 DEF Returns
<1>4. ASSUME NEW j \in Jobs, NEW d \in Deliveries, Receive(w, j, d) \/ ReceiveSkips(w, j, d)
      PROVE  Remembered
  <2>1. PICK known \in {"active", "done"} : delivery' = [delivery EXCEPT ![j][d] = known]
    BY <1>4 DEF Receive, ReceiveSkips
  <2> QED BY <2>1, Put
<1>5. CASE Router(w)
  BY <1>3, <1>4, <1>5 DEF Router, Claim, ClaimRefused, RouteProceeds, ObserveCancel, AckCancel, Remembered
<1>6. CASE Processor(w)
  BY <1>3, <1>6 DEF Processor, Finish, WriteRefused, OperationalRetry, OperationalExhausted, Defer,
                    CancelsItself, Remembered
<1> QED BY <1>2, <1>5, <1>6 DEF Crash, Stall

LEMMA DeliveriesStay == IInv /\ [Next]_vars => Remembered
<1> SUFFICES ASSUME IInv, [Next]_vars PROVE Remembered  OBVIOUS
<1>1. ASSUME UNCHANGED delivery PROVE Remembered  BY <1>1 DEF Remembered
<1>2. UserStep => UNCHANGED delivery
  BY DEF UserStep, CreateJob, RetryCreates, RetryReuses, CancelRead, CancelWrite, Archive
<1>3. ASSUME NEW s \in Scanners, Pass(s) \/ Reclaim(s) PROVE UNCHANGED delivery
  BY <1>3 DEF Pass, Reclaim, ScanExpired, ScanRunaway, RetryInPlace, DeadLetter
<1>4. ASSUME NEW j \in Jobs, Reconcile(j) PROVE UNCHANGED delivery
  BY <1>4 DEF Reconcile
<1>5. Clock => UNCHANGED delivery
  BY DEF Clock, LeaseExpires, GraceElapses, LeaseAges, RuntimeElapses
<1>6. UNCHANGED vars => UNCHANGED delivery
  BY DEF vars
<1> QED BY <1>1, <1>2, <1>3, <1>4, <1>5, <1>6, ProducerDeliveries, WorkerDeliveries DEF Next

(* A producer reaches the stamp through a successful add only. *)
LEMMA Stampers ==
  ASSUME IInv, [Next]_vars, NEW p \in Producers, producer'[p].pc = "stamping"
  PROVE  producer'[p] = producer[p] \/ AddDelivery(p)
<1> DEFINE Goal == producer'[p] = producer[p] \/ AddDelivery(p)
<1>0. /\ producer \in [Producers -> Delivering]
      /\ IdleProducer.pc = "idle"
  BY DEF IInv, TypeOK, IdleProducer
<1>1. ASSUME NEW q \in Producers, NEW next, producer' = [producer EXCEPT ![q] = next],
             next.pc # "stamping"
      PROVE  Goal
  BY <1>0, <1>1
<1>2. CASE UserStep
  BY <1>1, <1>2 DEF UserStep, CreateJob, RetryCreates, RetryReuses, CancelRead, CancelWrite, Archive
<1>3. ASSUME NEW q \in Producers, Candidate(q) PROVE Goal
  BY <1>1, <1>3 DEF Candidate, PendingCandidate, VerifyCandidate
<1>4. ASSUME NEW q \in Producers, StampDelivery(q) \/ AddFails(q) \/ ProducerCrash(q) PROVE Goal
  BY <1>0, <1>1, <1>4 DEF StampDelivery, AddFails, ProducerCrash, ProducerDone
<1>5. ASSUME NEW q \in Producers, ReadForDelivery(q) PROVE Goal
  <2>1. CASE ProducerDone(q)
    BY <1>0, <1>1, <2>1 DEF ProducerDone
  <2>2. CASE producer' = [producer EXCEPT ![q].pc = "adding"]
    BY <1>0, <2>2 DEF Delivering
  <2> QED BY <1>5, <2>1, <2>2 DEF ReadForDelivery
<1>6. ASSUME NEW q \in Producers, AddDelivery(q) PROVE Goal
  BY <1>0, <1>6 DEF AddDelivery
<1>7. ASSUME NEW w \in Workers, Router(w) \/ Processor(w) \/ Crash(w) \/ Stall(w) PROVE UNCHANGED producer
  BY <1>7 DEF Router, Receive, ReceiveSkips, Claim, ClaimRefused, RouteProceeds, ObserveCancel, AckCancel,
              Processor, Finish, WriteRefused, OperationalRetry, OperationalExhausted, Defer,
              CancelsItself, Crash, Stall
<1>8. ASSUME NEW s \in Scanners, Pass(s) \/ Reclaim(s) PROVE UNCHANGED producer
  BY <1>8 DEF Pass, Reclaim, ScanExpired, ScanRunaway, RetryInPlace, DeadLetter
<1>9. ASSUME NEW j \in Jobs, Reconcile(j) PROVE UNCHANGED producer
  BY <1>9 DEF Reconcile
<1>10. Clock \/ UNCHANGED vars => UNCHANGED producer
  BY DEF Clock, LeaseExpires, GraceElapses, LeaseAges, RuntimeElapses, vars
<1> QED BY <1>2, <1>3, <1>4, <1>5, <1>6, <1>7, <1>8, <1>9, <1>10 DEF Next, ProducerStep

StampInv == AccountInv /\ StampedWasAdded /\ StampersAdded

LEMMA StampStep == StampInv /\ [Next]_vars => StampInv'
<1> SUFFICES ASSUME StampInv, [Next]_vars PROVE StampInv'  OBVIOUS
<1>1. IInv /\ OneRow /\ Remembered /\ AccountInv'
  BY AccountStep, Writes, DeliveriesStay DEF StampInv, AccountInv
<1>2. ASSUME NEW j \in Jobs, row'[j].stamp # NoDelivery
      PROVE  delivery'[j][row'[j].stamp] # "absent"
  <2>1. \/ row'[j].stamp = row[j].stamp
        \/ \E p \in Producers : /\ producer[p].pc = "stamping" /\ producer[p].job = j
                                /\ row'[j].stamp = producer[p].id
    BY <1>1, <1>2 DEF OneRow, Wrote, Stamped
  <2>2. row'[j] \in Row  BY <1>1 DEF AccountInv, IInv, TypeOK
  <2>3. row'[j].stamp \in Deliveries  BY <1>2, <2>2 DEF Row
  <2>4. delivery[j][row'[j].stamp] # "absent"
    BY <1>2, <2>1 DEF StampInv, StampedWasAdded, StampersAdded
  <2> QED BY <1>1, <2>3, <2>4 DEF Remembered
<1>3. ASSUME NEW p \in Producers, producer'[p].pc = "stamping"
      PROVE  delivery'[producer'[p].job][producer'[p].id] # "absent"
  <2>1. CASE producer'[p] = producer[p]
    <3>1. producer[p].job \in Jobs /\ producer[p].id \in Deliveries
      BY <1>1, <1>3, <2>1 DEF IInv, ActorsOK
    <3> QED BY <1>1, <1>3, <2>1, <3>1 DEF StampInv, StampersAdded, Remembered
  <2>2. CASE AddDelivery(p)
    <3>1. /\ producer[p].job \in Jobs /\ producer[p].id \in Deliveries /\ producer[p] \in Delivering
          /\ delivery' = [delivery EXCEPT ![producer[p].job][producer[p].id] = Added(@)]
          /\ producer' = [producer EXCEPT ![p].pc = "stamping"]
      BY <1>1, <2>2 DEF AddDelivery, IInv, TypeOK, ActorsOK
    <3>2. producer'[p].job = producer[p].job /\ producer'[p].id = producer[p].id
      BY <1>1, <3>1 DEF IInv, TypeOK, Delivering
    <3>3. delivery'[producer[p].job][producer[p].id] = Added(delivery[producer[p].job][producer[p].id])
      BY <1>1, <3>1 DEF IInv, TypeOK
    <3> QED BY <3>2, <3>3, AddedIsKnown
  <2> QED BY <1>1, <1>3, <2>1, <2>2, Stampers
<1> QED BY <1>1, <1>2, <1>3 DEF StampInv, StampedWasAdded, StampersAdded

(* However producers overtake each other and adds fail, a row says          *)
(* "enqueued" only of a delivery the queue was given.                       *)
THEOREM StampsAreTrue == Spec => []StampedWasAdded
<1>1. Init => StampInv
  BY AccountInit DEF Init, StampInv, StampedWasAdded, StampersAdded, AbsentRow, IdleProducer
<1>2. StampInv => StampedWasAdded  BY DEF StampInv
<1> QED BY <1>1, <1>2, StampStep, PTL DEF Spec

-----------------------------------------------------------------------------
(* The refinement.                                                          *)

(* What an ordinary move makes of the phase of a Job. *)
PhaseMove(j) ==
  LET old == Phase(row[j])
      new == Phase(row'[j]) IN
  \/ new = old
  \/ old = "none" /\ new = "waiting"
  \/ old = "held" /\ new = "waiting" /\ row[j].status = "RUNNING" /\ row'[j].status = "RETRYING"
  \/ old = "held" /\ new \in {"COMPLETED", "FAILED", "canceling"}
  \/ old \in {"waiting", "canceling"} /\ new = "CANCELED"
  \/ /\ j \in VerifyJobs
     /\ \/ old \in {"waiting", "canceling", "FAILED"} /\ new \in {"CANCELED", "FAILED"}
        \/ old = "held" /\ new = "CANCELED"

LEMMA Phases ==
  ASSUME IInv, NEW j \in Jobs, RowMove(j) PROVE PhaseMove(j)
<1> DEFINE r == row[j]
<1>1. r \in Row /\ Sound(j, r)  BY SoundRows DEF IInv, TypeOK
<1> USE DEF PhaseMove, Phase, Claimable
<1>2. ASSUME r.status = "ABSENT", row'[j] = QueuedRow PROVE PhaseMove(j)
  BY <1>2, NewRow
<1>3. ASSUME NEW d \in Deliveries, row'[j] = [r EXCEPT !.stamp = d] PROVE PhaseMove(j)
  <2>1. row'[j].status = r.status  BY <1>1, <1>3 DEF Row
  <2> QED BY <2>1
<1>4. ASSUME NEW new \in {"expired", "stale"}, row'[j] = [r EXCEPT !.lease = new] PROVE PhaseMove(j)
  <2>1. row'[j].status = r.status  BY <1>1, <1>4 DEF Row
  <2> QED BY <2>1
<1>5. ASSUME row'[j] = [r EXCEPT !.overdue = TRUE] \/ row'[j] = [r EXCEPT !.cancelRequested = TRUE]
      PROVE  PhaseMove(j)
  <2>1. row'[j].status = r.status  BY <1>1, <1>5 DEF Row
  <2> QED BY <2>1
<1>6. ASSUME NEW seen \in {"QUEUED", "RETRYING", "RUNNING"}, CancelApplies(r, seen),
             row'[j] = CancelRow(r, seen)
      PROVE  PhaseMove(j)
  <2>1. r.status = seen  BY <1>6 DEF CancelApplies
  <2>2. row'[j].status = IF seen = "RUNNING" THEN "CANCELING" ELSE "CANCELED"
    BY <1>1, <1>6 DEF CancelRow, Finished, Unlocked, Row
  <2> QED BY <2>1, <2>2
<1>7. ASSUME NEW tok \in Nat, CanAckCancel(r, tok), row'[j] = Finished(r, "CANCELED") PROVE PhaseMove(j)
  <2>1. row'[j].status = "CANCELED"  BY <1>1, <1>7, Updates
  <2>2. r.status = "CANCELING" \/ (r.status = "RUNNING" /\ j \in VerifyJobs)
    BY <1>1, <1>7 DEF CanAckCancel, Sound
  <2> QED BY <2>1, <2>2
<1>8. ASSUME NEW outcome \in {"COMPLETED", "FAILED"}, r.status = "RUNNING", row'[j] = Finished(r, outcome)
      PROVE  PhaseMove(j)
  <2>1. row'[j].status = outcome  BY <1>1, <1>8, Updates
  <2> QED BY <1>8, <2>1
<1>9. ASSUME NEW n \in 0 .. MaxAttempts, r.status = "RUNNING", row'[j] = BackToRetrying(r, n)
      PROVE  PhaseMove(j)
  <2>1. row'[j].status = "RETRYING"  BY <1>1, <1>9, Updates
  <2> QED BY <1>9, <2>1
<1>10. ASSUME NEW outcome \in {"CANCELED", "FAILED"}, j \in VerifyJobs,
              r.status \in {"QUEUED", "RETRYING", "FAILED", "CANCELING"}, row'[j] = Finished(r, outcome)
       PROVE  PhaseMove(j)
  <2>1. row'[j].status = outcome  BY <1>1, <1>10, Updates
  <2> QED BY <1>10, <2>1
<1>11. CASE row'[j] = r  BY <1>11
<1> HIDE DEF PhaseMove, Phase, Claimable
<1> QED BY <1>2, <1>3, <1>4, <1>5, <1>6, <1>7, <1>8, <1>9, <1>10, <1>11 DEF RowMove, CanWrite

(* The variables of JobLifecycle, as JobLease has them. *)
PhaseOf == [j \in Jobs |-> Phase(row[j])]
CreditOf == [j \in Jobs |-> row[j].attempts + defers[j] + 1]

LEMMA OneJobMoves ==
  ASSUME AccountInv, NEW j \in Jobs, Wrote(j)
  PROVE  /\ PhaseOf' = [PhaseOf EXCEPT ![j] = Phase(row'[j])]
         /\ CreditOf' = [CreditOf EXCEPT ![j] = row'[j].attempts + defers'[j] + 1]
         /\ PhaseOf[j] = Phase(row[j]) /\ CreditOf[j] = row[j].attempts + defers[j] + 1
         /\ row[j].attempts \in Nat /\ defers[j] \in Nat
         /\ \/ row'[j].attempts + defers'[j] + 1 = CreditOf[j]
            \/ /\ row'[j].attempts + defers'[j] + 1 = CreditOf[j] + 1
               /\ row[j].status = "RUNNING" /\ row'[j].status \in {"RETRYING", "RUNNING"}
<1>1. row[j].attempts \in Nat /\ defers[j] \in Nat  BY Counts DEF AccountInv
<1>2. \A i \in Jobs \ {j} : row'[i] = row[i] /\ defers'[i] = defers[i]  BY DEF Wrote
<1>3. PhaseOf' = [PhaseOf EXCEPT ![j] = Phase(row'[j])]  BY <1>2 DEF PhaseOf
<1>4. CreditOf' = [CreditOf EXCEPT ![j] = row'[j].attempts + defers'[j] + 1]  BY <1>2 DEF CreditOf
<1>5. PhaseOf[j] = Phase(row[j]) /\ CreditOf[j] = row[j].attempts + defers[j] + 1
  BY DEF PhaseOf, CreditOf
<1>6. Paid(j)  BY DEF Wrote
<1>7. \/ row'[j].attempts + defers'[j] + 1 = CreditOf[j]
      \/ /\ row'[j].attempts + defers'[j] + 1 = CreditOf[j] + 1
         /\ row[j].status = "RUNNING" /\ row'[j].status \in {"RETRYING", "RUNNING"}
  BY <1>1, <1>5, <1>6 DEF Paid
<1> QED BY <1>1, <1>3, <1>4, <1>5, <1>7

(* A step that writes the row of Job j and is neither a claim nor a retry. *)
LEMMA OrdinaryLife ==
  ASSUME AccountInv, NEW j \in Jobs, Wrote(j), UNCHANGED <<claims, retryOf>>,
         RowMove(j) \/ row'[j].status = row[j].status
  PROVE  \/ UNCHANGED <<PhaseOf, CreditOf>>
         \/ \E i \in Jobs : \/ Lifecycle!Commit(i) \/ Lifecycle!TakeBack(i) \/ Lifecycle!Charge(i)
                            \/ Lifecycle!Decide(i) \/ Lifecycle!Cancel(i) \/ Lifecycle!Settle(i)
<1>1. PhaseMove(j)
  <2>1. CASE row'[j].status = row[j].status  BY <2>1 DEF PhaseMove, Phase
  <2> QED BY <2>1, Phases DEF AccountInv
<1> DEFINE old == Phase(row[j])
           new == Phase(row'[j])
           cost == row'[j].attempts + defers'[j] + 1
<1>2. /\ PhaseOf' = [PhaseOf EXCEPT ![j] = new] /\ PhaseOf[j] = old
      /\ CreditOf' = [CreditOf EXCEPT ![j] = cost]
      /\ \/ cost = CreditOf[j]
         \/ /\ cost = CreditOf[j] + 1
            /\ row[j].status = "RUNNING" /\ row'[j].status \in {"RETRYING", "RUNNING"}
  BY OneJobMoves
<1>3. /\ old = "held" <=> row[j].status = "RUNNING"
      /\ row'[j].status = "RUNNING" => new = "held"
      /\ row'[j].status = "RETRYING" => new = "waiting"
  <2>1. row[j].status \in JobStatus  BY DEF AccountInv, IInv, TypeOK, Row
  <2> QED BY <2>1 DEF Phase, JobStatus, Claimable, Active, Terminal
<1>4. row'[j].status = "RETRYING" /\ row[j].status = "RUNNING" => cost = CreditOf[j] + 1
  <2>1. Paid(j)  BY DEF Wrote
  <2>2. row'[j].status = "RETRYING" /\ row[j].status = "RUNNING" =>
          row'[j].attempts + defers'[j] = row[j].attempts + defers[j] + 1
    BY <2>1 DEF Paid
  <2> QED BY <2>2, OneJobMoves
<1>5. CreditOf[j] \in Nat
  BY OneJobMoves
<1> DEFINE Free == UNCHANGED <<CreditOf, claims, retryOf>>
<1>6. /\ PhaseOf = [i \in Jobs |-> Phase(row[i])]
      /\ CreditOf = [i \in Jobs |-> row[i].attempts + defers[i] + 1]
  BY DEF PhaseOf, CreditOf
<1>7. cost = CreditOf[j] => Free
  BY <1>2, <1>6
<1>8. new = old => UNCHANGED PhaseOf
  BY <1>2, <1>6
<1> USE DEF Lifecycle!Moves, PhaseOf, CreditOf
<1> HIDE DEF PhaseMove
<1>9. CASE cost # CreditOf[j]
  <2>1. CASE row'[j].status = "RETRYING"
    <3>1. Lifecycle!TakeBack(j)  BY <1>2, <1>3, <1>9, <2>1 DEF Lifecycle!TakeBack
    <3> QED BY <3>1
  <2>2. CASE row'[j].status = "RUNNING"
    <3>1. Lifecycle!Charge(j)  BY <1>2, <1>3, <1>8, <1>9, <2>2 DEF Lifecycle!Charge
    <3> QED BY <3>1
  <2> QED BY <1>2, <1>9, <2>1, <2>2
<1>10. CASE cost = CreditOf[j]
  <2>0. Free  BY <1>7, <1>10
  <2>1. CASE new = old  BY <2>0, <2>1, <1>8
  <2>2. CASE old = "none" /\ new = "waiting"
    <3>1. Lifecycle!Commit(j)  BY <1>2, <2>0, <2>2 DEF Lifecycle!Commit
    <3> QED BY <3>1
  <2>3. ASSUME old = "held", NEW outcome \in {"COMPLETED", "FAILED"}, new = outcome
        PROVE  Lifecycle!Decide(j)
    BY <1>2, <2>0, <2>3 DEF Lifecycle!Decide
  <2>4. ASSUME \/ old = "held" /\ new = "canceling"
               \/ old \in {"waiting", "canceling"} /\ new = "CANCELED"
        PROVE  Lifecycle!Cancel(j)
    BY <1>2, <2>0, <2>4 DEF Lifecycle!Cancel
  <2>5. ASSUME j \in VerifyJobs,
               \/ old \in {"waiting", "canceling", "FAILED"} /\ new \in {"CANCELED", "FAILED"}
               \/ old = "held" /\ new = "CANCELED"
        PROVE  Lifecycle!Settle(j)
    BY <1>2, <2>0, <2>5 DEF Lifecycle!Settle
  <2>6. ASSUME row[j].status = "RUNNING", row'[j].status = "RETRYING" PROVE FALSE
    BY <1>4, <1>10, <1>5, <2>6
  <2> HIDE DEF old, new, PhaseOf, CreditOf
  <2>7. \/ new = old
        \/ old = "none" /\ new = "waiting"
        \/ \E outcome \in {"COMPLETED", "FAILED"} : old = "held" /\ new = outcome
        \/ \/ old = "held" /\ new = "canceling"
           \/ old \in {"waiting", "canceling"} /\ new = "CANCELED"
        \/ /\ j \in VerifyJobs
           /\ \/ old \in {"waiting", "canceling", "FAILED"} /\ new \in {"CANCELED", "FAILED"}
              \/ old = "held" /\ new = "CANCELED"
    BY <1>1, <2>6 DEF PhaseMove, old, new
  <2> QED BY <2>1, <2>2, <2>3, <2>4, <2>5, <2>7
<1> QED BY <1>9, <1>10

LEMMA GrantStep ==
  ASSUME AccountInv, NEW w \in Workers, Claim(w)
  PROVE  \E j \in Jobs : Lifecycle!Grant(j)
<1> DEFINE j == hand[w].job
<1>1. /\ j \in Jobs /\ row[j] \in Row /\ row[j].status \in Claimable
      /\ row' = [row EXCEPT ![j] = Claimed(row[j], w, claims[j] + 1)]
      /\ claims' = [claims EXCEPT ![j] = claims[j] + 1] /\ UNCHANGED <<defers, retryOf>>
  BY DEF AccountInv, IInv, TypeOK, ActorsOK, Claim, CanClaim
<1>2. row'[j].status = "RUNNING" /\ row'[j].attempts = row[j].attempts
  <2>1. row'[j] = Claimed(row[j], w, claims[j] + 1)  BY <1>1 DEF AccountInv, IInv, TypeOK
  <2> QED BY <1>1, <2>1, Updates
<1>3. \A i \in Jobs \ {j} : row'[i] = row[i]
  BY <1>1 DEF AccountInv, IInv, TypeOK
<1>4. claims[j] < row[j].attempts + defers[j] + 1
  <2>1. row[j].attempts \in Nat /\ defers[j] \in Nat /\ claims[j] \in Nat
    BY <1>1, Counts DEF AccountInv, IInv, TypeOK
  <2> QED BY <1>1, <2>1 DEF AccountInv, RunsAreAccountedFor, Claimable
<1>5. Phase(row[j]) = "waiting" /\ Phase(row'[j]) = "held"
  BY <1>1, <1>2 DEF Phase, Claimable
<1>6. PhaseOf' = [PhaseOf EXCEPT ![j] = "held"] /\ PhaseOf[j] = "waiting"
  BY <1>1, <1>3, <1>5 DEF PhaseOf
<1>7. UNCHANGED CreditOf /\ claims[j] < CreditOf[j]
  BY <1>1, <1>2, <1>3, <1>4 DEF CreditOf
<1>8. Lifecycle!Grant(j)
  BY <1>1, <1>6, <1>7 DEF Lifecycle!Grant, Lifecycle!Moves, PhaseOf, CreditOf
<1> QED BY <1>1, <1>8

LEMMA SucceedStep ==
  ASSUME AccountInv, NEW p \in Producers, NEW j \in Jobs, NEW k \in Jobs, RetryCreates(p, j, k)
  PROVE  Lifecycle!Succeed(j, k)
<1>1. /\ row[j].status = "FAILED" /\ row[k].status = "ABSENT" /\ \A i \in Jobs : retryOf[i] # j
      /\ row' = [row EXCEPT ![k] = QueuedRow] /\ retryOf' = [retryOf EXCEPT ![k] = j]
      /\ UNCHANGED <<claims, defers>>
  BY DEF RetryCreates
<1>2. row'[k] = QueuedRow /\ \A i \in Jobs \ {k} : row'[i] = row[i]
  BY <1>1 DEF AccountInv, IInv, TypeOK
<1>3. row'[k].status = "QUEUED" /\ row'[k].attempts = row[k].attempts
  BY <1>1, <1>2, NewRow DEF AccountInv, Fresh
<1>4. Phase(row[j]) = "FAILED" /\ Phase(row[k]) = "none" /\ Phase(row'[k]) = "waiting"
  BY <1>1, <1>3 DEF Phase, Claimable
<1>5. PhaseOf' = [PhaseOf EXCEPT ![k] = "waiting"] /\ PhaseOf[k] = "none" /\ PhaseOf[j] = "FAILED"
  BY <1>2, <1>4 DEF PhaseOf
<1>6. UNCHANGED CreditOf
  BY <1>1, <1>2, <1>3 DEF CreditOf
<1> QED BY <1>1, <1>5, <1>6 DEF Lifecycle!Succeed, Lifecycle!Moves, PhaseOf, CreditOf

(* Every step of JobLease is a step of JobLifecycle, or none. *)
LEMMA Simulates ==
  ASSUME AccountInv, [Next]_vars
  PROVE  Lifecycle!Next \/ UNCHANGED <<PhaseOf, retryOf, claims, CreditOf>>
<1>1. OneRow /\ (UNCHANGED retryOf \/ \E p \in Producers, i, n \in Jobs : RetryCreates(p, i, n))
  BY Writes, LineageMoves DEF AccountInv
<1>2. ASSUME NEW w \in Workers, Claim(w) PROVE Lifecycle!Next
  BY <1>2, GrantStep DEF Lifecycle!Next
<1>3. ASSUME NEW p \in Producers, NEW i \in Jobs, NEW n \in Jobs, RetryCreates(p, i, n) PROVE Lifecycle!Next
  BY <1>3, SucceedStep DEF Lifecycle!Next
<1>4. ASSUME UNCHANGED <<claims, retryOf>>, \A j \in Jobs : RowMove(j) \/ row'[j].status = row[j].status
      PROVE  Lifecycle!Next \/ UNCHANGED <<PhaseOf, retryOf, claims, CreditOf>>
  <2>1. CASE UNCHANGED <<row, defers>>  BY <1>4, <2>1 DEF PhaseOf, CreditOf
  <2>2. ASSUME NEW j \in Jobs, Wrote(j)
        PROVE  Lifecycle!Next \/ UNCHANGED <<PhaseOf, retryOf, claims, CreditOf>>
    BY <1>4, <2>2, OrdinaryLife DEF Lifecycle!Next
  <2> QED BY <1>1, <2>1, <2>2 DEF OneRow
<1>5. ASSUME NEW w \in Workers, OperationalExhausted(w)
      PROVE  UNCHANGED <<claims, retryOf>> /\ \A j \in Jobs : row'[j].status = row[j].status
  BY <1>5, ChargeKeepsStatus DEF OperationalExhausted
<1>6. CASE Ordinary  BY <1>1, <1>3, <1>4, <1>6 DEF Ordinary
<1> QED BY <1>2, <1>4, <1>5, <1>6, Moves DEF AccountInv

(* The whole system, with its leases, deliveries, passes, stalls and        *)
(* crashes, implements the lifecycle of a Job: every run is granted while   *)
(* it is paid for, a Job is decided once, and a failed one has at most one  *)
(* successor.                                                               *)
THEOREM LifecycleIsImplemented == Spec => ImplementsLifecycle
<1>1. Init => Lifecycle!Init
  BY DEF Init, Lifecycle!Init, AbsentRow, Phase, Claimable
<1>2. AccountInv /\ [Next]_vars =>
        [Lifecycle!Next]_<<[j \in Jobs |-> Phase(row[j])], retryOf, claims,
                          [j \in Jobs |-> row[j].attempts + defers[j] + 1]>>
  BY Simulates DEF PhaseOf, CreditOf
<1> QED BY <1>1, <1>2, AccountInit, AccountStep, PTL DEF Spec, ImplementsLifecycle, Lifecycle!Spec

-----------------------------------------------------------------------------
(* The live lease.                                                          *)

(* Who may take a token away. *)
Excused(j) ==
  \/ \E w \in Workers : hand[w].job = j /\ hand[w].token = row[j].token /\ hand'[w] = IdleHand
  \/ \E s \in Scanners : scan[s].guard = "RUNTIME" /\ scan'[s] # scan[s]
  \/ j \in VerifyJobs /\ row[j].status = "CANCELING"

LEMMA UnlessExcused ==
  ASSUME IInv, NEW j \in Jobs, row[j].lease = "live", [Next]_vars
  PROVE  row'[j].token = row[j].token \/ Excused(j)
<1> DEFINE Goal == row'[j].token = row[j].token \/ Excused(j)
<1>1. /\ row \in [Jobs -> Row] /\ row[j] \in Row
      /\ row[j].status \in Active /\ row[j].status \notin {"ABSENT", "QUEUED", "RETRYING", "FAILED"}
  BY DEF IInv, TypeOK, LockShape, Active
<1>2. UNCHANGED row => Goal
  OBVIOUS
<1>3. ASSUME NEW k \in Jobs, k # j, NEW r, row' = [row EXCEPT ![k] = r] PROVE Goal
  BY <1>1, <1>3
<1>4. CASE UserStep
  <2>1. ASSUME NEW p \in Producers, NEW i \in Jobs, CreateJob(p, i) PROVE Goal
    BY <1>1, <1>3, <2>1 DEF CreateJob
  <2>2. ASSUME NEW p \in Producers, NEW i \in Jobs, NEW k \in Jobs, RetryCreates(p, i, k) PROVE Goal
    BY <1>1, <1>3, <2>2 DEF RetryCreates
  <2>3. ASSUME NEW i \in Jobs, CancelWrite(i) PROVE Goal
    <3>1. CASE i = j /\ row' # row
      <4>1. /\ observed[j] \in {"QUEUED", "RETRYING", "RUNNING"} /\ row[j].status = observed[j]
            /\ row' = [row EXCEPT ![j] = CancelRow(row[j], observed[j])]
        BY <2>3, <3>1 DEF CancelWrite, CancelApplies, IInv, TypeOK
      <4>2. row'[j] = [row[j] EXCEPT !.status = "CANCELING", !.cancelRequested = TRUE]
        BY <1>1, <4>1 DEF CancelRow
      <4> QED BY <1>1, <4>2 DEF Row
    <3> QED BY <1>3, <2>3, <3>1 DEF CancelWrite
  <2> QED BY <1>2, <1>4, <2>1, <2>2, <2>3 DEF UserStep, RetryReuses, CancelRead, Archive
<1>5. ASSUME NEW p \in Producers, ProducerStep(p) \/ Candidate(p) \/ AddFails(p) \/ ProducerCrash(p)
      PROVE  Goal
  <2>1. CASE StampDelivery(p)
    <3>1. row' = row \/ row' = [row EXCEPT ![producer[p].job].stamp = producer[p].id]
      BY <2>1 DEF StampDelivery
    <3> QED BY <1>1, <3>1 DEF Row
  <2> QED BY <1>2, <1>5, <2>1 DEF ProducerStep, Candidate, PendingCandidate, VerifyCandidate, ReadForDelivery,
                                  AddDelivery, AddFails, ProducerCrash
<1>6. ASSUME NEW w \in Workers, Router(w) \/ Processor(w) \/ Crash(w) \/ Stall(w) PROVE Goal
  <2>1. hand[w].pc # "idle" => hand[w].job \in Jobs
    BY DEF IInv, ActorsOK
  <2>2. hand' = [hand EXCEPT ![w] = IdleHand] => hand'[w] = IdleHand
    BY DEF IInv, TypeOK
  <2>3. ASSUME hand[w].job = j, hand[w].token = row[j].token, Returns(w) PROVE Goal
    BY <2>2, <2>3 DEF Returns, Excused
  <2>4. CASE Claim(w)
    BY <1>1, <1>3, <2>1, <2>4 DEF Claim, CanClaim, Claimable
  <2>5. CASE AckCancel(w)
    <3>1. CASE hand[w].job = j /\ CanAckCancel(row[j], hand[w].token)
      BY <2>3, <2>5, <3>1 DEF AckCancel, CanAckCancel, CurrentLease
    <3> QED BY <1>2, <1>3, <2>1, <2>5, <3>1 DEF AckCancel
  <2>6. ASSUME NEW outcome \in {"COMPLETED", "FAILED"}, Finish(w, outcome) PROVE Goal
    <3>1. CASE hand[w].job = j
      BY <2>3, <2>6, <3>1 DEF Finish, CanWrite, CurrentLease
    <3> QED BY <1>3, <2>1, <2>6, <3>1 DEF Finish
  <2>7. CASE OperationalRetry(w) \/ Defer(w)
    <3>1. CASE hand[w].job = j
      BY <2>3, <2>7, <3>1 DEF OperationalRetry, Defer, OwnsRunning
    <3> QED BY <1>3, <2>1, <2>7, <3>1 DEF OperationalRetry, Defer
  <2>8. CASE OperationalExhausted(w)
    <3>1. row' = [row EXCEPT ![hand[w].job].attempts = row[hand[w].job].attempts + 1]
      BY <2>8 DEF OperationalExhausted
    <3> QED BY <1>1, <3>1 DEF Row
  <2>9. CASE CancelsItself(w)
    <3>1. row' = row \/ row' = [row EXCEPT ![hand[w].job].cancelRequested = TRUE]
      BY <2>9 DEF CancelsItself
    <3> QED BY <1>1, <3>1 DEF Row
  <2> QED BY <1>2, <1>6, <2>4, <2>5, <2>6, <2>7, <2>8, <2>9
          DEF Router, Processor, Receive, ReceiveSkips, ClaimRefused, RouteProceeds, ObserveCancel,
              WriteRefused, Crash, Stall
<1>7. ASSUME NEW s \in Scanners, Pass(s) \/ Reclaim(s) PROVE Goal
  <2>1. scan[s].guard = "LEASE" \/ scan[s].guard = "RUNTIME"
    BY DEF IInv, TypeOK, Scan
  <2>2. ASSUME NEW k \in Jobs, RetryInPlace(s, k) PROVE Goal
    <3>1. CASE k = j /\ row' # row
      <4>1. scan[s].guard = "RUNTIME"
        BY <2>1, <2>2, <3>1 DEF RetryInPlace, CanRetryInPlace, Recoverable, LeaseOver
      <4>2. scan'[s] # scan[s]
        <5>1. scan' = [scan EXCEPT ![s].todo = @ \ {k}] /\ k \in scan[s].todo
          BY <2>2, <3>1 DEF RetryInPlace
        <5>2. scan'[s].todo = scan[s].todo \ {k}
          BY <5>1 DEF IInv, TypeOK, Scan
        <5> QED BY <5>1, <5>2
      <4> QED BY <4>1, <4>2 DEF Excused
    <3> QED BY <1>3, <2>2, <3>1 DEF RetryInPlace
  <2>3. CASE DeadLetter(s)
    <3>1. scan[s].dead \in Jobs
      BY <2>3 DEF DeadLetter, IInv, TypeOK, Scan
    <3>2. CASE scan[s].dead = j /\ row' # row
      <4>1. scan[s].guard = "RUNTIME"
        BY <2>1, <2>3, <3>2 DEF DeadLetter, CanDeadLetter, Recoverable, LeaseOver
      <4>2. scan'[s] # scan[s]
        <5>1. scan' = [scan EXCEPT ![s].dead = NoJob] /\ scan[s].dead # NoJob
          BY <2>3 DEF DeadLetter
        <5>2. scan'[s].dead = NoJob
          BY <5>1 DEF IInv, TypeOK, Scan
        <5> QED BY <5>1, <5>2
      <4> QED BY <4>1, <4>2 DEF Excused
    <3> QED BY <1>3, <2>3, <3>1, <3>2 DEF DeadLetter
  <2> QED BY <1>2, <1>7, <2>2, <2>3 DEF Pass, Reclaim, ScanExpired, ScanRunaway
<1>8. ASSUME NEW k \in Jobs, Reconcile(k) PROVE Goal
  <2>1. CASE k = j
    BY <1>1, <1>8, <2>1 DEF Reconcile, Excused
  <2> QED BY <1>3, <1>8, <2>1 DEF Reconcile
<1>9. CASE Clock
  <2>1. ASSUME NEW k \in Jobs, NEW new, row' = [row EXCEPT ![k].lease = new] PROVE Goal
    BY <1>1, <2>1 DEF Row
  <2>2. ASSUME NEW k \in Jobs, row' = [row EXCEPT ![k].overdue = TRUE] PROVE Goal
    BY <1>1, <2>2 DEF Row
  <2> QED BY <1>9, <2>1, <2>2 DEF Clock, LeaseExpires, GraceElapses, LeaseAges, RuntimeElapses
<1>10. UNCHANGED vars => Goal
  BY DEF vars
<1> QED BY <1>4, <1>5, <1>6, <1>7, <1>8, <1>9, <1>10 DEF Next

(* A pass of the expired-lease detector never takes a Job from a worker     *)
(* whose lease is live, however old its list: the token goes by the         *)
(* worker's own write, by the runaway pass, or with a verification that is  *)
(* being canceled.                                                          *)
THEOREM LiveLeasesAreKept == Spec => LiveLeaseIsKept
<1>1. IInv /\ [Next]_vars =>
        [\A j \in Jobs :
           row[j].lease = "live" /\ row'[j].token # row[j].token =>
             \/ \E w \in Workers : hand[w].job = j /\ hand[w].token = row[j].token /\ hand'[w] = IdleHand
             \/ \E s \in Scanners : scan[s].guard = "RUNTIME" /\ scan'[s] # scan[s]
             \/ j \in VerifyJobs /\ row[j].status = "CANCELING"]_vars
  BY UnlessExcused DEF Excused
<1> QED BY <1>1, Invariance, PTL DEF Spec, LiveLeaseIsKept

=============================================================================
