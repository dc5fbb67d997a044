---------------------------- MODULE JobRowProofs ----------------------------
(* Typing of the updates of a Job's row, for the theorems about the modules *)
(* that share module JobRow.                                                *)
EXTENDS JobRow, TLAPS

LEMMA DeliveryIds ==
  /\ FirstDelivery \in Deliveries
  /\ NoDelivery \notin Deliveries
  /\ \A n \in 0 .. MaxAttempts + 1 : RetryDelivery(n) \in Deliveries
BY MaxAttemptsAssumption DEF FirstDelivery, Deliveries, NoDelivery, RetryDelivery

LEMMA RowsTyped == AbsentRow \in Row /\ QueuedRow \in Row
<1>1. AbsentRow \in Row
  BY MaxAttemptsAssumption DEF AbsentRow, Row, JobStatus, NoToken, NoDelivery
<1>2. QueuedRow \in Row
  BY <1>1 DEF QueuedRow, Row, JobStatus, Claimable
<1>3. QED BY <1>1, <1>2

LEMMA ClaimedTyped ==
  ASSUME NEW r \in Row, NEW w \in Workers, NEW tok \in Nat
  PROVE  Claimed(r, w, tok) \in Row
BY DEF Claimed, Row, JobStatus, Active

LEMMA FinishedTyped ==
  ASSUME NEW r \in Row, NEW outcome \in Terminal
  PROVE  Finished(r, outcome) \in Row
BY DEF Finished, Unlocked, Row, NoToken, JobStatus, Terminal

LEMMA RetryingTyped ==
  ASSUME NEW r \in Row, NEW n \in 0 .. MaxAttempts + 1
  PROVE  BackToRetrying(r, n) \in Row
BY DEF BackToRetrying, Unlocked, Row, NoToken, NoDelivery, JobStatus, Claimable

LEMMA CancelRowTyped ==
  ASSUME NEW r \in Row, NEW seen
  PROVE  CancelRow(r, seen) \in Row
BY DEF CancelRow, Finished, Unlocked, Row, NoToken, JobStatus, Terminal, Active

LEMMA FieldsTyped ==
  ASSUME NEW r \in Row
  PROVE  /\ r.attempts \in 0 .. MaxAttempts + 1
         /\ \A d \in Deliveries : [r EXCEPT !.stamp = d] \in Row
         /\ \A new \in {"expired", "stale"} : [r EXCEPT !.lease = new] \in Row
         /\ [r EXCEPT !.overdue = TRUE] \in Row
         /\ [r EXCEPT !.cancelRequested = TRUE] \in Row
         /\ \A n \in 0 .. MaxAttempts + 1 : [r EXCEPT !.attempts = n] \in Row
BY DEF Row

LEMMA NextAttempt ==
  ASSUME NEW r \in Row, r.attempts <= MaxAttempts \/ r.attempts + 1 <= MaxAttempts
  PROVE  r.attempts + 1 \in 0 .. MaxAttempts + 1
<1>1. r.attempts \in 0 .. MaxAttempts + 1  BY FieldsTyped
<1>2. QED BY <1>1, MaxAttemptsAssumption

=============================================================================
