------------------------- MODULE AiOperationProofs -------------------------
(* Theorems of AiOperation, for any number of submitters, pollers, crashes, *)
(* polls and attempts.                                                      *)
(*                                                                          *)
(* RowMoves says once in which ways the Job may change, handler by handler, *)
(* and TaskMoves the same of the AiTask; the invariants argue from these.   *)
(* Only the type of the tokens needs a fresh one to exist; nothing else     *)
(* needs the lock to be exclusive, only that every update repeats what it   *)
(* relies on.                                                               *)
EXTENDS AiOperation, FiniteSetTheorems, TLAPS

RowOK == /\ {"status", "cancelRequested", "token", "lockedBy", "lease"} \subseteq DOMAIN row
         /\ row.status \in JobStatus
         /\ row.cancelRequested \in BOOLEAN

TaskOK == task \in Task

HandlersOK ==
  /\ DOMAIN submit = Workers /\ DOMAIN poll = Workers
  /\ \A w \in Workers : /\ DOMAIN submit[w] = {"pc", "token", "external", "error"}
                        /\ submit[w].error \in {"refused", "other"}
                        /\ DOMAIN poll[w] = {"pc", "token"}

(* A recorded cancellation and the status of the Job never disagree. *)
CancelRecorded == row.cancelRequested <=> row.status \in {"CANCELING", "CANCELED"}

-----------------------------------------------------------------------------
(* The ways in which the Job may change.                                    *)

Untouched == UNCHANGED <<row.status, row.cancelRequested>>

Began == row.status \in Claimable /\ ~row.cancelRequested /\ row'.status = "RUNNING"

Left == row.status = "RUNNING" /\ row'.status \in {"RETRYING", "FAILED"}

Acknowledged == row.status = "CANCELING" /\ row'.status = "CANCELED"

Requested ==
  /\ row'.cancelRequested
  /\ \/ row.status = "RUNNING" /\ row'.status = "CANCELING"
     \/ row.status \in Claimable /\ row'.status = "CANCELED"

Kept == row'.cancelRequested = row.cancelRequested

Delivered ==
  /\ DOMAIN row' = DOMAIN row
  /\ row.status = "RUNNING" /\ ~row.cancelRequested
  /\ row'.status = "COMPLETED" /\ row'.cancelRequested = row.cancelRequested

RowMove == /\ DOMAIN row' = DOMAIN row
           /\ Untouched \/ (Kept /\ (Began \/ Left \/ Acknowledged)) \/ Requested

(* An acknowledged cancellation leaves CANCELING, as the two columns agree. *)
LEMMA AckMoves ==
  ASSUME RowOK, CancelRecorded, NEW tok, CanAckCancel(row, tok), row' = Finished(row, "CANCELED")
  PROVE  DOMAIN row' = DOMAIN row /\ Kept /\ Acknowledged
BY DEF RowOK, CancelRecorded, CanAckCancel, Finished, Unlocked, Kept, Acknowledged

(* Whatever a submit handler does, the Job makes one of these moves. *)
LEMMA SubmitMovesRow ==
  ASSUME RowOK, CancelRecorded, NEW w \in Submitters, Deliver(w) \/ SubmitStep(w)
  PROVE  RowMove
<1> USE DEF RowMove
<1>1. CASE Deliver(w)
  BY <1>1 DEF Deliver, CanClaim, Claimed, Kept, Began, RowOK
<1>2. CASE RouterCancels(w)
  <2>1. CASE CanAckCancel(row, submit[w].token)
    BY <1>2, <2>1, AckMoves DEF RouterCancels
  <2>2. CASE ~CanAckCancel(row, submit[w].token)
    BY <1>2, <2>2 DEF RouterCancels, Untouched
  <2> QED BY <2>1, <2>2
<1>3. CASE FailJob(w)
  BY <1>3 DEF FailJob, CanWrite, Finished, Unlocked, Kept, Left, Untouched, RowOK
<1>4. CASE \/ SubmitReads(w) \/ SubmitChecks(w) \/ Prepare(w) \/ Reserve(w) \/ CreateCall(w)
           \/ Record(w) \/ Schedule(w) \/ FailSubmission(w)
  BY <1>4 DEF SubmitReads, SubmitChecks, Prepare, Reserve, CreateCall, Record, Schedule,
              FailSubmission, Untouched
<1> QED BY <1>1, <1>2, <1>3, <1>4 DEF SubmitStep

(* A poll step may also complete the Job, and only Complete does. *)
LEMMA PollMovesRow ==
  ASSUME RowOK, CancelRecorded, NEW w \in Pollers, PollStep(w)
  PROVE  RowMove \/ (Delivered /\ Complete(w))
<1> USE DEF RowMove
<1>1. CASE ListDue(w) \/ LoadJob(w) \/ CheckCancel(w) \/ CallProvider(w) \/ RereadJob(w)
           \/ Reschedule(w) \/ FailTask(w)
  BY <1>1 DEF ListDue, LoadJob, CheckCancel, CallProvider, RereadJob, Reschedule, FailTask, Untouched
<1>2. CASE LockJob(w) BY <1>2 DEF LockJob, Untouched, RowOK
<1>3. CASE RenewLock(w) BY <1>3 DEF RenewLock, Untouched, RowOK
<1>4. CASE Complete(w)
  BY <1>4 DEF Complete, CanComplete, Delivered, Untouched, RowOK
<1>5. CASE CloseJob(w) BY <1>5 DEF CloseJob, Untouched, Kept, Left, RowOK
<1>6. CASE FinalizeCanceled(w)
  BY <1>6 DEF FinalizeCanceled, Untouched, Kept, Acknowledged, RowOK
<1>7. CASE ReleaseLock(w)
  BY <1>7 DEF ReleaseLock, Unlocked, Untouched, RowOK
<1> QED BY <1>1, <1>2, <1>3, <1>4, <1>5, <1>6, <1>7 DEF PollStep

(* The user, the passes, the clock and a crash. *)
LEMMA RestMovesRow ==
  ASSUME RowOK, CancelRecorded, UserStep \/ Pass \/ Clock \/ (\E w \in Workers : Crash(w))
  PROVE  RowMove
<1> USE DEF RowMove
<1>1. CASE CancelWrite
  BY <1>1 DEF CancelWrite, CancelApplies, CancelRow, Finished, Unlocked, Requested, Untouched, RowOK,
              Claimable
<1>2. CASE CancelRead \/ CloseQueuedTask \/ RetryDecides \/ RetrySucceeds
  BY <1>2 DEF CancelRead, CloseQueuedTask, RetryDecides, RetrySucceeds, Untouched
<1>3. ASSUME NEW guard, Reclaim(guard) PROVE DOMAIN row' = DOMAIN row /\ Kept /\ Left
  BY <1>3 DEF Reclaim, CanRetryInPlace, CanDeadLetter, Recoverable, BackToRetrying, Finished,
              Unlocked, Kept, Left, RowOK
<1>4. CASE Clock BY <1>4 DEF Clock, LeaseExpires, TaskAges, Untouched, RowOK
<1>5. CASE \E w \in Workers : Crash(w) BY <1>5 DEF Crash, Untouched
<1> QED BY <1>1, <1>2, <1>3, <1>4, <1>5 DEF UserStep, Pass

-----------------------------------------------------------------------------
LEMMA RowStaysOK ==
  ASSUME RowOK, CancelRecorded, Next PROVE RowOK' /\ CancelRecorded'
<1>1. DOMAIN row' = DOMAIN row
  BY SubmitMovesRow, PollMovesRow, RestMovesRow DEF Next, RowMove, Delivered
<1>2. RowMove \/ Delivered
  BY SubmitMovesRow, PollMovesRow, RestMovesRow DEF Next
<1>3. row'.status \in JobStatus /\ row'.cancelRequested \in BOOLEAN
  BY <1>2 DEF RowOK, RowMove, Delivered, Untouched, Kept, Began, Left, Acknowledged, Requested,
              JobStatus, Claimable, Active, Terminal
<1>4. CancelRecorded'
  BY <1>2 DEF RowOK, CancelRecorded, RowMove, Delivered, Untouched, Kept, Began, Left, Acknowledged,
              Requested, Claimable
<1> QED BY <1>1, <1>3, <1>4 DEF RowOK

-----------------------------------------------------------------------------
(* The ways in which the AiTask may change.                                 *)

Grows == (task.external => task'.external) /\ (task.reserved => task'.reserved)

StaysDecided == task.status \notin Open => task'.status \notin Open

NoVerdict == task'.status \in {"SUCCEEDED", "CANCELED"} => task'.status = task.status

TaskMove == TaskOK' /\ Grows /\ StaysDecided

LEMMA SubmitMovesTask ==
  ASSUME TaskOK, HandlersOK, NEW w \in Submitters, Deliver(w) \/ SubmitStep(w)
  PROVE  TaskMove /\ NoVerdict
<1> USE DEF TaskOK, Task, Open, TaskMove, Grows, StaysDecided, NoVerdict
<1>1. CASE \/ Deliver(w) \/ RouterCancels(w) \/ SubmitReads(w) \/ SubmitChecks(w) \/ Prepare(w)
           \/ CreateCall(w) \/ FailJob(w)
  BY <1>1 DEF Deliver, RouterCancels, SubmitReads, SubmitChecks, Prepare, CreateCall, FailJob
<1>2. CASE Reserve(w) BY <1>2 DEF Reserve
<1>3. CASE Record(w) BY <1>3 DEF Record
<1>4. CASE Schedule(w) BY <1>4 DEF Schedule, CanSchedule
<1>5. CASE FailSubmission(w)
  <2>1. submit[w].error \in {"refused", "other"}
    BY HandlersAssumption DEF HandlersOK
  <2> QED BY <1>5, <2>1 DEF FailSubmission
<1> QED BY <1>1, <1>2, <1>3, <1>4, <1>5 DEF SubmitStep

LEMMA PollMovesTask ==
  ASSUME TaskOK, NEW w \in Pollers, PollStep(w)
  PROVE  TaskMove /\ (NoVerdict \/ Complete(w) \/ FinalizeCanceled(w))
<1> USE DEF TaskOK, Task, Open, TaskMove, Grows, StaysDecided, NoVerdict
<1>1. CASE ListDue(w) \/ LoadJob(w) \/ LockJob(w) \/ CheckCancel(w) \/ CallProvider(w)
           \/ RereadJob(w) \/ RenewLock(w) \/ CloseJob(w) \/ ReleaseLock(w)
  BY <1>1 DEF ListDue, LoadJob, LockJob, CheckCancel, CallProvider, RereadJob, RenewLock, CloseJob,
              ReleaseLock
<1>2. CASE Reschedule(w)
  <2>1. (IF task.polls < MaxPolls THEN task.polls + 1 ELSE task.polls) \in 0 .. MaxPolls
    BY PollBoundsAssumption
  <2> QED BY <1>2, <2>1 DEF Reschedule
<1>3. CASE Complete(w) BY <1>3 DEF Complete
<1>4. CASE FailTask(w) BY <1>4 DEF FailTask
<1>5. CASE FinalizeCanceled(w) BY <1>5 DEF FinalizeCanceled, CanceledTask
<1> QED BY <1>1, <1>2, <1>3, <1>4, <1>5 DEF PollStep

LEMMA RestMovesTask ==
  ASSUME TaskOK, UserStep \/ Pass \/ Clock \/ (\E w \in Workers : Crash(w))
  PROVE  TaskMove /\ (NoVerdict \/ CloseQueuedTask)
<1> USE DEF TaskOK, Task, Open, TaskMove, Grows, StaysDecided, NoVerdict
<1>1. CASE CloseQueuedTask BY <1>1 DEF CloseQueuedTask
<1>2. CASE TaskAges BY <1>2, PollBoundsAssumption DEF TaskAges
<1>3. CASE CancelRead \/ CancelWrite \/ RetryDecides \/ RetrySucceeds \/ Pass \/ LeaseExpires
           \/ (\E w \in Workers : Crash(w))
  BY <1>3 DEF CancelRead, CancelWrite, RetryDecides, RetrySucceeds, Pass, Reclaim, LeaseExpires, Crash
<1> QED BY <1>1, <1>2, <1>3 DEF UserStep, Clock

LEMMA TaskMoves ==
  ASSUME TaskOK, HandlersOK, Next PROVE TaskMove
BY SubmitMovesTask, PollMovesTask, RestMovesTask DEF Next
-----------------------------------------------------------------------------
(* The handlers: a step of one leaves the others alone.                     *)

SubmitAlone(w) == \A v \in Workers \ {w} : submit'[v] = submit[v]
PollAlone(w) == \A v \in Workers \ {w} : poll'[v] = poll[v]

LEMMA SubmitMovesHandlers ==
  ASSUME HandlersOK, NEW w \in Submitters, Deliver(w) \/ SubmitStep(w)
  PROVE  HandlersOK' /\ SubmitAlone(w) /\ UNCHANGED poll
<1> USE HandlersAssumption DEF HandlersOK, SubmitAlone, IdleSubmit, SubmitTo, SubmitFails, SubmitEnds
<1>1. CASE Deliver(w) BY <1>1 DEF Deliver
<1>2. CASE RouterCancels(w) \/ SubmitReads(w) \/ SubmitChecks(w)
  BY <1>2 DEF RouterCancels, SubmitReads, SubmitChecks
<1>3. CASE Prepare(w) \/ Reserve(w) \/ CreateCall(w)
  BY <1>3 DEF Prepare, Reserve, CreateCall
<1>4. CASE Record(w) \/ Schedule(w) \/ FailSubmission(w) \/ FailJob(w)
  BY <1>4 DEF Record, Schedule, FailSubmission, FailJob
<1> QED BY <1>1, <1>2, <1>3, <1>4 DEF SubmitStep

LEMMA PollMovesHandlers ==
  ASSUME HandlersOK, NEW w \in Pollers, PollStep(w)
  PROVE  HandlersOK' /\ PollAlone(w) /\ UNCHANGED <<submit, created, retry>>
<1> USE HandlersAssumption DEF HandlersOK, PollAlone, IdlePoll, PollTo, PollEnds
<1>1. CASE ListDue(w) \/ LoadJob(w) \/ LockJob(w) BY <1>1 DEF ListDue, LoadJob, LockJob
<1>2. CASE CheckCancel(w) \/ CallProvider(w) \/ RereadJob(w)
  BY <1>2 DEF CheckCancel, CallProvider, RereadJob
<1>3. CASE Reschedule(w) \/ RenewLock(w) \/ Complete(w)
  BY <1>3 DEF Reschedule, RenewLock, Complete
<1>4. CASE FailTask(w) \/ CloseJob(w) \/ FinalizeCanceled(w) \/ ReleaseLock(w)
  BY <1>4 DEF FailTask, CloseJob, FinalizeCanceled, ReleaseLock
<1> QED BY <1>1, <1>2, <1>3, <1>4 DEF PollStep

LEMMA RestMovesHandlers ==
  ASSUME HandlersOK, UserStep \/ Pass \/ Clock \/ (\E w \in Workers : Crash(w))
  PROVE  /\ HandlersOK'
         /\ UNCHANGED <<created, committed>>
         /\ \A v \in Workers : submit'[v] \in {submit[v], IdleSubmit} /\ poll'[v] \in {poll[v], IdlePoll}
<1> USE DEF HandlersOK, IdleSubmit, IdlePoll
<1>1. CASE \E w \in Workers : Crash(w) BY <1>1 DEF Crash
<1>2. CASE UserStep \/ Pass \/ Clock
  BY <1>2 DEF UserStep, CancelRead, CancelWrite, CloseQueuedTask, RetryDecides, RetrySucceeds, Pass,
              Reclaim, Clock, LeaseExpires, TaskAges
<1> QED BY <1>1, <1>2

(* The records keep their shape, and the columns of a cancellation agree.   *)
Sound == RowOK /\ CancelRecorded /\ TaskOK /\ HandlersOK

LEMMA InitSound == ASSUME Init PROVE Sound
<1>1. RowOK /\ CancelRecorded
  BY DEF Init, RowOK, CancelRecorded, QueuedRow, AbsentRow, JobStatus, Claimable
<1>2. TaskOK
  BY PollBoundsAssumption DEF Init, TaskOK, Task, Open
<1>3. HandlersOK
  BY DEF Init, HandlersOK, IdleSubmit, IdlePoll
<1> QED BY <1>1, <1>2, <1>3 DEF Sound

LEMMA SoundStays == ASSUME Sound, [Next]_vars PROVE Sound'
<1>1. CASE Next
  <2>1. RowOK' /\ CancelRecorded'
    BY <1>1, RowStaysOK DEF Sound
  <2>2. TaskOK'
    BY <1>1, TaskMoves DEF Sound, TaskMove
  <2>3. HandlersOK'
    BY <1>1, SubmitMovesHandlers, PollMovesHandlers, RestMovesHandlers DEF Sound, Next
  <2> QED BY <2>1, <2>2, <2>3 DEF Sound
<1>2. CASE UNCHANGED vars
  BY <1>2 DEF vars, Sound, RowOK, CancelRecorded, TaskOK, HandlersOK
<1> QED BY <1>1, <1>2

(* Job and AiTask keep their shape, and a recorded cancellation agrees with *)
(* the status of the Job: what the other theorems start from.               *)
THEOREM Soundness == Spec => []Sound
BY InitSound, SoundStays, PTL DEF Spec

(* No late writer opens a decided AiTask again: every path of the submit    *)
(* handler and of the poll step that writes its status repeats that it is   *)
(* open, or fails it.                                                       *)
THEOREM DecidedTasksStay == Spec => TaskNeverReopens
<1>1. ASSUME Sound, [Next]_vars
      PROVE  [task.status \notin Open => task'.status \notin Open]_vars
  <2>1. CASE Next BY <1>1, <2>1, TaskMoves DEF Sound, TaskMove, StaysDecided
  <2>2. CASE UNCHANGED vars BY <2>2
  <2> QED BY <1>1, <2>1, <2>2
<1> QED BY <1>1, Soundness, PTL DEF Spec, TaskNeverReopens
-----------------------------------------------------------------------------
(* One provider task.                                                       *)

NoneCreates == \A w \in Workers : submit[w].pc # "creating"

(* The reservation is the only way to the create call and is never undone,  *)
(* so from it on at most one handler is calling, and none once the call has *)
(* returned.  An AiTask whose one call was refused, like one without a      *)
(* reservation behind a FAILED Job, has no task and gets none.              *)
ReservedFirst ==
  /\ created = 0 \/ (created = 1 /\ task.reserved /\ NoneCreates)
  /\ \A v, w \in Workers : submit[v].pc = "creating" /\ submit[w].pc = "creating" => v = w
  /\ NoneCreates \/ task.reserved

RefusedCreatesNone ==
  task.error = "refused" \/ (\E w \in Workers : submit[w].error = "refused")
    => task.reserved /\ created = 0 /\ NoneCreates

RetriedCreatesNone == retry # "no" => row.status = "FAILED" /\ created = 0 /\ NoneCreates

OnceInv == ReservedFirst /\ RefusedCreatesNone /\ RetriedCreatesNone

LEMMA FailedStays ==
  ASSUME Sound, Next, row.status = "FAILED" PROVE row'.status = "FAILED"
<1>1. RowMove \/ Delivered
  BY SubmitMovesRow, PollMovesRow, RestMovesRow DEF Next, Sound
<1> QED BY <1>1 DEF RowMove, Delivered, Untouched, Kept, Began, Left, Acknowledged, Requested, Claimable

(* Every step of a submit handler but the reservation and the create call   *)
(* enters no create call and remembers no refusal it did not know of.       *)
Calm(w) ==
  /\ submit'[w].pc # "creating"
  /\ submit'[w].error \in {submit[w].error, "other"}
  /\ UNCHANGED created
  /\ task'.reserved = task.reserved
  /\ task'.error \in {task.error, submit[w].error, "other"}

LEMMA CalmSteps ==
  ASSUME TaskOK, HandlersOK, NEW w \in Submitters, Deliver(w) \/ SubmitStep(w)
  PROVE  Calm(w) \/ Reserve(w) \/ CreateCall(w)
<1>0. w \in Workers BY HandlersAssumption
<1>1. CASE Reserve(w) \/ CreateCall(w) BY <1>1
<1>2. CASE Deliver(w) \/ RouterCancels(w) \/ SubmitReads(w) \/ SubmitChecks(w) \/ Prepare(w)
           \/ Record(w) \/ Schedule(w) \/ FailSubmission(w) \/ FailJob(w)
  <2>1. submit'[w].pc # "creating" /\ submit'[w].error \in {submit[w].error, "other"}
    <3> USE <1>0 DEF HandlersOK, IdleSubmit, SubmitTo, SubmitFails, SubmitEnds
    <3>1. CASE Deliver(w) BY <3>1 DEF Deliver
    <3>2. CASE RouterCancels(w) BY <3>2 DEF RouterCancels
    <3>3. CASE SubmitReads(w) BY <3>3 DEF SubmitReads
    <3>4. CASE SubmitChecks(w) BY <3>4 DEF SubmitChecks
    <3>5. CASE Prepare(w) BY <3>5 DEF Prepare
    <3>6. CASE Record(w) BY <3>6 DEF Record
    <3>7. CASE Schedule(w) BY <3>7 DEF Schedule
    <3>8. CASE FailSubmission(w) BY <3>8 DEF FailSubmission
    <3>9. CASE FailJob(w) BY <3>9 DEF FailJob
    <3> QED BY <1>2, <3>1, <3>2, <3>3, <3>4, <3>5, <3>6, <3>7, <3>8, <3>9
  <2>2. task'.reserved = task.reserved /\ task'.error \in {task.error, submit[w].error, "other"}
    BY <1>2 DEF TaskOK, Task, Deliver, RouterCancels, SubmitReads, SubmitChecks, Prepare, Record,
                Schedule, FailSubmission, FailJob
  <2>3. UNCHANGED created
    BY <1>2 DEF Deliver, RouterCancels, SubmitReads, SubmitChecks, Prepare, Record, Schedule,
                FailSubmission, FailJob
  <2> QED BY <2>1, <2>2, <2>3 DEF Calm
<1> QED BY <1>1, <1>2 DEF SubmitStep

LEMMA SubmitKeepsOnce ==
  ASSUME Sound, OnceInv, NEW w \in Submitters, Deliver(w) \/ SubmitStep(w)
  PROVE  OnceInv'
<1>0. SubmitAlone(w) /\ w \in Workers /\ HandlersOK /\ TaskOK
  BY SubmitMovesHandlers, HandlersAssumption DEF Sound
<1>1. retry' = retry /\ (row.status = "FAILED" => row'.status = "FAILED")
  <2>1. Next BY DEF Next
  <2>2. UNCHANGED retry
    BY DEF Deliver, SubmitStep, RouterCancels, SubmitReads, SubmitChecks, Prepare, Reserve,
           CreateCall, Record, Schedule, FailSubmission, FailJob
  <2> QED BY <2>1, <2>2, FailedStays
<1> USE <1>0 DEF SubmitAlone, HandlersOK, OnceInv, ReservedFirst, RefusedCreatesNone,
                 RetriedCreatesNone, NoneCreates, SubmitAt, SubmitTo, SubmitFails
<1>2. CASE Calm(w) BY <1>1, <1>2 DEF Calm
<1>3. CASE Reserve(w) BY <1>1, <1>3 DEF Reserve, CanReserve, TaskOK, Task
<1>4. CASE CreateCall(w) BY <1>1, <1>4 DEF CreateCall
<1> QED BY <1>0, <1>2, <1>3, <1>4, CalmSteps

(* No other step touches a submission, except that a crash ends one; the    *)
(* others write "other" over the error of the AiTask or leave it.           *)
LEMMA OthersKeepOnce ==
  ASSUME Sound, OnceInv, Next,
         UNCHANGED <<created, retry>>, task'.reserved = task.reserved, task'.error \in {task.error, "other"},
         \A v \in Workers : submit'[v] \in {submit[v], IdleSubmit}
  PROVE  OnceInv'
BY FailedStays DEF OnceInv, ReservedFirst, RefusedCreatesNone, RetriedCreatesNone, NoneCreates, IdleSubmit

LEMMA PollKeepsOnce ==
  ASSUME Sound, OnceInv, NEW w \in Pollers, PollStep(w)
  PROVE  OnceInv'
<1>1. Next BY DEF Next
<1>2. UNCHANGED <<submit, created, retry>>
  BY PollMovesHandlers DEF Sound
<1>3. task'.reserved = task.reserved /\ task'.error \in {task.error, "other"}
  <2> USE DEF Sound, TaskOK, Task
  <2>1. CASE Reschedule(w) BY <2>1 DEF Reschedule
  <2>2. CASE Complete(w) BY <2>2 DEF Complete
  <2>3. CASE FailTask(w) BY <2>3 DEF FailTask
  <2>4. CASE FinalizeCanceled(w) BY <2>4 DEF FinalizeCanceled, CanceledTask
  <2>5. CASE \/ ListDue(w) \/ LoadJob(w) \/ LockJob(w) \/ CheckCancel(w) \/ CallProvider(w)
             \/ RereadJob(w) \/ RenewLock(w) \/ CloseJob(w) \/ ReleaseLock(w)
    BY <2>5 DEF ListDue, LoadJob, LockJob, CheckCancel, CallProvider, RereadJob, RenewLock, CloseJob,
                ReleaseLock
  <2> QED BY <2>1, <2>2, <2>3, <2>4, <2>5 DEF PollStep
<1> QED BY <1>1, <1>2, <1>3, OthersKeepOnce

LEMMA RestKeepsOnce ==
  ASSUME Sound, OnceInv, UserStep \/ Pass \/ Clock \/ (\E w \in Workers : Crash(w))
  PROVE  OnceInv'
<1>1. Next BY DEF Next
<1>2. UNCHANGED created /\ \A v \in Workers : submit'[v] \in {submit[v], IdleSubmit}
  BY RestMovesHandlers DEF Sound
<1>3. task'.reserved = task.reserved /\ task'.error \in {task.error, "other"}
  BY DEF Sound, TaskOK, Task, UserStep, CancelRead, CancelWrite, CloseQueuedTask, RetryDecides,
         RetrySucceeds, Pass, Reclaim, Clock, LeaseExpires, TaskAges, Crash
<1>4. CASE UNCHANGED retry BY <1>1, <1>2, <1>3, <1>4, OthersKeepOnce
<1>5. CASE RetryDecides
  <2>1. created = 0 /\ NoneCreates
    BY <1>5 DEF RetryDecides, Unsubmitted, OnceInv, ReservedFirst, RefusedCreatesNone
  <2> QED BY <1>5, <2>1 DEF RetryDecides, OnceInv, ReservedFirst, RefusedCreatesNone,
                            RetriedCreatesNone, NoneCreates
<1>6. CASE RetrySucceeds
  BY <1>6 DEF RetrySucceeds, OnceInv, ReservedFirst, RefusedCreatesNone, RetriedCreatesNone, NoneCreates
<1> QED BY <1>4, <1>5, <1>6 DEF UserStep, CancelRead, CancelWrite, CloseQueuedTask, Pass, Reclaim, Clock,
                               LeaseExpires, TaskAges, Crash

(* The reservation of a submission precedes its call, and neither a refused *)
(* nor a retried operation has created anything at the provider.            *)
THEOREM ReservationsHold == Spec => []OnceInv
<1>1. Init => OnceInv
  BY DEF Init, OnceInv, ReservedFirst, RefusedCreatesNone, RetriedCreatesNone, NoneCreates, IdleSubmit
<1>2. ASSUME Sound, OnceInv, [Next]_vars PROVE OnceInv'
  <2>1. CASE Next BY <1>2, <2>1, SubmitKeepsOnce, PollKeepsOnce, RestKeepsOnce DEF Next
  <2>2. CASE UNCHANGED vars
    BY <1>2, <2>2 DEF vars, OnceInv, ReservedFirst, RefusedCreatesNone, RetriedCreatesNone, NoneCreates
  <2> QED BY <1>2, <2>1, <2>2
<1> QED BY <1>1, <1>2, Soundness, PTL DEF Spec

(* The provider is asked for at most one task, however often the Job is     *)
(* taken back, delivered again or retried by the user.                      *)
THEOREM ProviderAskedOnce == Spec => []CreatedOnce
<1>1. OnceInv => CreatedOnce
  BY DEF OnceInv, ReservedFirst, RetriedCreatesNone, NoneCreates, CreatedOnce
<1> QED BY <1>1, ReservationsHold, PTL

-----------------------------------------------------------------------------
(* Compatible outcomes.                                                     *)

(* A handler that is about to close the AiTask as canceled has seen the     *)
(* cancellation of the Job, which is never taken back.                      *)
ClosersSaw ==
  /\ \A w \in Workers : poll[w].pc = "finalizing" => row.status \in {"CANCELING", "CANCELED"}
  /\ cancel = "closing" => row.status = "CANCELED"

OutcomesInv == OutcomesCompatible /\ ClosersSaw

LEMMA DecisionsStay ==
  ASSUME Sound, Next
  PROVE  /\ row.status = "COMPLETED" => row'.status = "COMPLETED"
         /\ row.status = "CANCELED" => row'.status = "CANCELED"
         /\ row.status \in {"CANCELING", "CANCELED"} => row'.status \in {"CANCELING", "CANCELED"}
<1>1. RowMove \/ Delivered
  BY SubmitMovesRow, PollMovesRow, RestMovesRow DEF Next, Sound
<1> QED BY <1>1 DEF RowMove, Delivered, Untouched, Kept, Began, Left, Acknowledged, Requested, Claimable

LEMMA ClosersStillSaw ==
  ASSUME Sound, ClosersSaw, Next PROVE ClosersSaw'
<1> USE DecisionsStay DEF ClosersSaw
<1>1. ASSUME NEW w \in Submitters, Deliver(w) \/ SubmitStep(w) PROVE ClosersSaw'
  <2>1. UNCHANGED cancel
    BY <1>1 DEF Deliver, SubmitStep, RouterCancels, SubmitReads, SubmitChecks, Prepare, Reserve,
                CreateCall, Record, Schedule, FailSubmission, FailJob
  <2>2. UNCHANGED poll BY <1>1, SubmitMovesHandlers DEF Sound
  <2> QED BY <2>1, <2>2
<1>2. ASSUME NEW w \in Pollers, PollStep(w) PROVE ClosersSaw'
  <2>1. PollAlone(w) /\ w \in Workers BY <1>2, PollMovesHandlers, HandlersAssumption DEF Sound
  <2>2. UNCHANGED cancel
    BY <1>2 DEF PollStep, ListDue, LoadJob, LockJob, CheckCancel, CallProvider, RereadJob, Reschedule,
                RenewLock, Complete, FailTask, CloseJob, FinalizeCanceled, ReleaseLock
  <2>3. poll'[w].pc = "finalizing" => row.cancelRequested /\ UNCHANGED row
    <3> USE <2>1 DEF Sound, HandlersOK, PollTo, PollEnds, IdlePoll
    <3>1. CASE CheckCancel(w) BY <3>1 DEF CheckCancel
    <3>2. CASE RereadJob(w) BY <3>2 DEF RereadJob
    <3>3. CASE ListDue(w) \/ LoadJob(w) \/ LockJob(w) BY <3>3 DEF ListDue, LoadJob, LockJob
    <3>4. CASE CallProvider(w) \/ Reschedule(w) \/ RenewLock(w)
      BY <3>4 DEF CallProvider, Reschedule, RenewLock
    <3>5. CASE Complete(w) BY <3>5 DEF Complete
    <3>6. CASE FailTask(w) \/ CloseJob(w) BY <3>6 DEF FailTask, CloseJob
    <3>7. CASE FinalizeCanceled(w) \/ ReleaseLock(w) BY <3>7 DEF FinalizeCanceled, ReleaseLock
    <3> QED BY <1>2, <3>1, <3>2, <3>3, <3>4, <3>5, <3>6, <3>7 DEF PollStep
  <2> QED BY <2>1, <2>2, <2>3 DEF PollAlone, Sound, CancelRecorded
<1>3. CASE UserStep \/ Pass \/ Clock \/ (\E w \in Workers : Crash(w))
  <2>1. \A w \in Workers : poll'[w].pc = "finalizing" => poll[w].pc = "finalizing"
    BY <1>3, RestMovesHandlers DEF Sound, IdlePoll
  <2>2. cancel' = "closing" => cancel = "closing" \/ row'.status = "CANCELED"
    <3>1. CASE CancelWrite
      BY <3>1 DEF CancelWrite, CancelRow, Finished, Unlocked, Sound, RowOK
    <3>2. CASE ~CancelWrite
      BY <1>3, <3>2 DEF UserStep, CancelRead, CloseQueuedTask, RetryDecides, RetrySucceeds, Pass,
                        Reclaim, Clock, LeaseExpires, TaskAges, Crash
    <3> QED BY <3>1, <3>2
  <2> QED BY <2>1, <2>2
<1> QED BY <1>1, <1>2, <1>3 DEF Next

(* However the handlers, the user and the passes interleave, a successful   *)
(* or canceled AiTask stands beside a Job of the same outcome.              *)
THEOREM OutcomesAgree == Spec => []OutcomesCompatible
<1>1. Init => OutcomesInv
  BY DEF Init, OutcomesInv, OutcomesCompatible, ClosersSaw, QueuedRow, AbsentRow, IdlePoll
<1>2. ASSUME Sound, OutcomesInv, [Next]_vars PROVE OutcomesInv'
  <2>1. CASE Next
    <3>1. ClosersSaw' BY <1>2, <2>1, ClosersStillSaw DEF OutcomesInv
    <3>2. CancelRecorded' BY <1>2, <2>1, RowStaysOK DEF Sound
    <3>3. CASE NoVerdict
      BY <1>2, <2>1, <3>1, <3>2, <3>3, DecisionsStay DEF OutcomesInv, OutcomesCompatible, NoVerdict, CancelRecorded
    <3>4. ASSUME NEW w \in Pollers, Complete(w) PROVE OutcomesInv'
      <4>1. \/ UNCHANGED <<row, task>>
            \/ row'.status = "COMPLETED" /\ task'.status = "SUCCEEDED"
        BY <1>2, <3>4 DEF Complete, Sound, RowOK, TaskOK, Task
      <4> QED BY <1>2, <3>1, <3>2, <4>1 DEF OutcomesInv, OutcomesCompatible, CancelRecorded
    <3>5. ASSUME NEW w \in Pollers, FinalizeCanceled(w) PROVE OutcomesInv'
      <4>1. row.status \in {"CANCELING", "CANCELED"}
        BY <1>2, <3>5, HandlersAssumption DEF FinalizeCanceled, PollAt, OutcomesInv, ClosersSaw
      <4>2. row'.status = "CANCELED"
        BY <1>2, <3>5, <4>1 DEF FinalizeCanceled, Sound, RowOK
      <4>3. task'.status # "SUCCEEDED" \/ task'.status = task.status
        BY <1>2, <3>5 DEF FinalizeCanceled, CanceledTask, Sound, TaskOK, Task
      <4> QED BY <1>2, <3>1, <3>2, <4>1, <4>2, <4>3 DEF OutcomesInv, OutcomesCompatible, CancelRecorded
    <3>6. CASE CloseQueuedTask
      <4>1. row.status = "CANCELED" /\ UNCHANGED row
        BY <1>2, <3>6 DEF CloseQueuedTask, OutcomesInv, ClosersSaw
      <4>2. task'.status # "SUCCEEDED" \/ task'.status = task.status
        BY <1>2, <3>6 DEF CloseQueuedTask, Sound, TaskOK, Task
      <4> QED BY <1>2, <3>1, <3>2, <4>1, <4>2 DEF OutcomesInv, OutcomesCompatible, CancelRecorded
    <3>7. OutcomesInv' \/ NoVerdict
      BY <1>2, <2>1, <3>4, <3>5, <3>6, SubmitMovesTask, PollMovesTask, RestMovesTask
         DEF Next, Sound
    <3> QED BY <3>3, <3>7
  <2>2. CASE UNCHANGED vars
    BY <1>2, <2>2 DEF vars, OutcomesInv, OutcomesCompatible, ClosersSaw
  <2> QED BY <1>2, <2>1, <2>2
<1>3. OutcomesInv => OutcomesCompatible BY DEF OutcomesInv
<1> QED BY <1>1, <1>2, <1>3, Soundness, PTL DEF Spec
-----------------------------------------------------------------------------
(* One batch of predictions, for a task the provider created.               *)

(* Whoever has an id in hand, or works on one, has it from the create call. *)
SubmitKnows(w) ==
  /\ submit[w].pc = "recording" => created = 1
  /\ submit[w].pc = "scheduling" => task.external
  /\ submit[w].external => task.external

PollKnows(w) == poll[w].pc \in {"calling", "answered", "completing"} => task.external

IdsCreated ==
  /\ task.external => created = 1
  /\ \A w \in Workers : SubmitKnows(w) /\ PollKnows(w)

Batches == /\ committed = IF row.status = "COMPLETED" THEN 1 ELSE 0
           /\ row.status = "COMPLETED" => task.external

CommitInv == IdsCreated /\ Batches

LEMMA SubmitKeepsIds ==
  ASSUME Sound, ReservedFirst, IdsCreated, NEW w \in Submitters, Deliver(w) \/ SubmitStep(w)
  PROVE  IdsCreated'
<1>1. /\ SubmitAlone(w) /\ UNCHANGED poll /\ HandlersOK /\ w \in Workers
      /\ TaskOK /\ TaskOK' /\ (task.external => task'.external)
  BY SubmitMovesHandlers, SubmitMovesTask, HandlersAssumption DEF Sound, TaskMove, Grows
<1>2. CASE CreateCall(w)
  <2>1. created = 0 /\ created' \in {0, 1} /\ UNCHANGED task
    BY <1>1, <1>2 DEF CreateCall, SubmitAt, ReservedFirst, NoneCreates
  <2>2. submit'[w].pc = "recording" => created' = 1
    BY <1>1, <1>2, <2>1 DEF CreateCall, SubmitTo, SubmitFails, HandlersOK
  <2>3. submit'[w].pc # "scheduling" /\ submit'[w].external = submit[w].external
    BY <1>1, <1>2 DEF CreateCall, SubmitTo, SubmitFails, HandlersOK
  <2>4. \A v \in Workers : submit[v].pc # "recording"
    BY <2>1 DEF IdsCreated, SubmitKnows
  <2>5. ~task.external
    BY <2>1 DEF IdsCreated
  <2> QED BY <1>1, <2>1, <2>2, <2>3, <2>4, <2>5
         DEF IdsCreated, SubmitKnows, PollKnows, SubmitAlone
<1>3. CASE ~CreateCall(w)
  <2>0. SubmitKnows(w) /\ (task.external => created = 1)
    BY <1>1 DEF IdsCreated
  <2>1. SubmitKnows(w)' /\ UNCHANGED created /\ (task'.external => created = 1)
    <3> USE <1>1, <2>0 DEF SubmitKnows, HandlersOK, IdleSubmit, SubmitAt, SubmitTo, SubmitFails, SubmitEnds, TaskOK, Task
    <3>1. CASE Deliver(w) BY <3>1 DEF Deliver
    <3>2. CASE RouterCancels(w) BY <3>2 DEF RouterCancels
    <3>3. CASE SubmitReads(w) BY <3>3 DEF SubmitReads
    <3>4. CASE SubmitChecks(w) BY <3>4 DEF SubmitChecks
    <3>5. CASE Prepare(w) BY <3>5 DEF Prepare
    <3>6. CASE Reserve(w) BY <3>6 DEF Reserve
    <3>7. CASE Record(w) BY <3>7 DEF Record
    <3>8. CASE Schedule(w) BY <3>8 DEF Schedule
    <3>9. CASE FailSubmission(w) BY <3>9 DEF FailSubmission
    <3>10. CASE FailJob(w) BY <3>10 DEF FailJob
    <3> QED BY <1>3, <3>1, <3>2, <3>3, <3>4, <3>5, <3>6, <3>7, <3>8, <3>9, <3>10 DEF SubmitStep
  <2>2. ASSUME NEW v \in Workers \ {w} PROVE SubmitKnows(v)'
    BY <1>1, <2>1 DEF IdsCreated, SubmitKnows, SubmitAlone
  <2>3. ASSUME NEW v \in Workers PROVE PollKnows(v)'
    BY <1>1 DEF IdsCreated, PollKnows
  <2> QED BY <2>1, <2>2, <2>3 DEF IdsCreated
<1> QED BY <1>2, <1>3

LEMMA PollKeepsIds ==
  ASSUME Sound, IdsCreated, NEW w \in Pollers, PollStep(w)
  PROVE  IdsCreated'
<1>1. /\ PollAlone(w) /\ UNCHANGED <<submit, created>> /\ HandlersOK /\ w \in Workers
      /\ TaskOK /\ task'.external = task.external
  <2>1. task'.external = task.external
    BY DEF Sound, TaskOK, Task, PollStep, ListDue, LoadJob, LockJob, CheckCancel, CallProvider,
           RereadJob, Reschedule, RenewLock, Complete, FailTask, CloseJob, FinalizeCanceled,
           ReleaseLock, CanceledTask
  <2> QED BY <2>1, PollMovesHandlers, HandlersAssumption DEF Sound
<1>2. poll'[w].pc \in {"calling", "answered", "completing"} => task.external
  <2> USE <1>1 DEF HandlersOK, IdsCreated, PollKnows, IdlePoll, PollAt, PollTo, PollEnds, TaskOK, Task
  <2>1. CASE CheckCancel(w) BY <2>1 DEF CheckCancel
  <2>2. CASE CallProvider(w) BY <2>2 DEF CallProvider
  <2>3. CASE RereadJob(w) BY <2>3 DEF RereadJob
  <2>4. CASE ListDue(w) \/ LoadJob(w) \/ LockJob(w) BY <2>4 DEF ListDue, LoadJob, LockJob
  <2>5. CASE Reschedule(w) \/ RenewLock(w) BY <2>5 DEF Reschedule, RenewLock
  <2>6. CASE Complete(w) BY <2>6 DEF Complete
  <2>7. CASE FailTask(w) \/ CloseJob(w) BY <2>7 DEF FailTask, CloseJob
  <2>8. CASE FinalizeCanceled(w) \/ ReleaseLock(w) BY <2>8 DEF FinalizeCanceled, ReleaseLock
  <2> QED BY <2>1, <2>2, <2>3, <2>4, <2>5, <2>6, <2>7, <2>8 DEF PollStep
<1> QED BY <1>1, <1>2 DEF PollAlone, IdsCreated, SubmitKnows, PollKnows

LEMMA RestKeepsIds ==
  ASSUME Sound, IdsCreated, UserStep \/ Pass \/ Clock \/ (\E w \in Workers : Crash(w))
  PROVE  IdsCreated'
<1>1. task'.external = task.external
  BY DEF Sound, TaskOK, Task, UserStep, CancelRead, CancelWrite, CloseQueuedTask, RetryDecides,
         RetrySucceeds, Pass, Reclaim, Clock, LeaseExpires, TaskAges, Crash
<1>2. /\ UNCHANGED created
      /\ \A v \in Workers : submit'[v] \in {submit[v], IdleSubmit} /\ poll'[v] \in {poll[v], IdlePoll}
  BY RestMovesHandlers DEF Sound
<1>3. ASSUME NEW v \in Workers PROVE SubmitKnows(v)' /\ PollKnows(v)'
  BY <1>1, <1>2 DEF IdsCreated, SubmitKnows, PollKnows, IdleSubmit, IdlePoll
<1> QED BY <1>1, <1>2, <1>3 DEF IdsCreated

LEMMA BatchesKept ==
  ASSUME Sound, CommitInv, Next PROVE Batches'
<1>1. task.external => task'.external
  BY TaskMoves DEF Sound, TaskMove, Grows
<1>2. ASSUME RowMove, UNCHANGED committed PROVE Batches'
  BY <1>1, <1>2 DEF CommitInv, Batches, RowMove, Untouched, Kept, Began, Left, Acknowledged, Requested,
                    Claimable
<1>3. ASSUME NEW w \in Submitters, Deliver(w) \/ SubmitStep(w) PROVE Batches'
  <2>1. UNCHANGED committed
    BY <1>3 DEF Deliver, SubmitStep, RouterCancels, SubmitReads, SubmitChecks, Prepare, Reserve,
                CreateCall, Record, Schedule, FailSubmission, FailJob
  <2> QED BY <1>2, <1>3, <2>1, SubmitMovesRow DEF Sound
<1>4. ASSUME NEW w \in Pollers, PollStep(w) PROVE Batches'
  <2>1. CASE Complete(w)
    <3>1. task.external
      BY <2>1, HandlersAssumption DEF Complete, PollAt, CommitInv, IdsCreated, PollKnows
    <3> QED BY <1>1, <2>1, <3>1 DEF Complete, CanComplete, CommitInv, Batches, Sound, RowOK
  <2>2. CASE ~Complete(w)
    <3>1. UNCHANGED committed
      BY <1>4, <2>2 DEF PollStep, ListDue, LoadJob, LockJob, CheckCancel, CallProvider, RereadJob,
                        Reschedule, RenewLock, FailTask, CloseJob, FinalizeCanceled, ReleaseLock
    <3> QED BY <1>2, <1>4, <2>2, <3>1, PollMovesRow DEF Sound
  <2> QED BY <2>1, <2>2
<1>5. CASE UserStep \/ Pass \/ Clock \/ (\E w \in Workers : Crash(w))
  BY <1>2, <1>5, RestMovesRow, RestMovesHandlers DEF Sound
<1> QED BY <1>3, <1>4, <1>5 DEF Next

(* Duplicate polls, lost locks and late answers commit nothing: there is    *)
(* one batch, exactly when the Job is COMPLETED, and the provider had       *)
(* created the task it answers for.                                         *)
THEOREM BatchesAreCommittedOnce == Spec => []CommittedWithJob
<1>1. Init => CommitInv
  <2>1. Init => \A w \in Workers : SubmitKnows(w) /\ PollKnows(w)
    <3>1. ASSUME Init, NEW w \in Workers PROVE submit[w] = IdleSubmit /\ poll[w] = IdlePoll
      BY <3>1 DEF Init
    <3>2. IdleSubmit.pc = "idle" /\ ~IdleSubmit.external /\ IdlePoll.pc = "idle"
      BY DEF IdleSubmit, IdlePoll
    <3> QED BY <3>1, <3>2 DEF SubmitKnows, PollKnows
  <2> QED BY <2>1 DEF Init, CommitInv, IdsCreated, Batches, QueuedRow, AbsentRow
<1>2. ASSUME Sound, OnceInv, CommitInv, [Next]_vars PROVE CommitInv'
  <2>1. CASE Next
    <3>1. IdsCreated'
      BY <1>2, <2>1, SubmitKeepsIds, PollKeepsIds, RestKeepsIds DEF Next, CommitInv, OnceInv
    <3> QED BY <1>2, <2>1, <3>1, BatchesKept DEF CommitInv
  <2>2. CASE UNCHANGED vars
    BY <1>2, <2>2 DEF vars, CommitInv, IdsCreated, SubmitKnows, PollKnows, Batches
  <2> QED BY <1>2, <2>1, <2>2
<1>3. CommitInv => CommittedWithJob
  BY DEF CommitInv, IdsCreated, Batches, CommittedWithJob
<1> QED BY <1>1, <1>2, <1>3, Soundness, ReservationsHold, PTL DEF Spec
-----------------------------------------------------------------------------
(* The lease.                                                               *)

OwnerKept == row.lease = "live" /\ row'.token \notin {row.token, NoToken} => row'.lockedBy = row.lockedBy

LEMMA SubmitKeepsOwner ==
  ASSUME RowOK, NEW w \in Submitters, Deliver(w) \/ SubmitStep(w) PROVE OwnerKept
<1> USE DEF RowOK, OwnerKept
<1>1. CASE Deliver(w) BY <1>1 DEF Deliver, CanClaim, LeaseOver
<1>2. CASE RouterCancels(w) BY <1>2 DEF RouterCancels, Finished, Unlocked
<1>3. CASE FailJob(w) BY <1>3 DEF FailJob, Finished, Unlocked
<1>4. CASE \/ SubmitReads(w) \/ SubmitChecks(w) \/ Prepare(w) \/ Reserve(w) \/ CreateCall(w)
           \/ Record(w) \/ Schedule(w) \/ FailSubmission(w)
  BY <1>4 DEF SubmitReads, SubmitChecks, Prepare, Reserve, CreateCall, Record, Schedule, FailSubmission
<1> QED BY <1>1, <1>2, <1>3, <1>4 DEF SubmitStep

LEMMA PollKeepsOwner ==
  ASSUME RowOK, NEW w \in Pollers, PollStep(w) PROVE OwnerKept
<1> USE DEF RowOK, OwnerKept
<1>1. CASE LockJob(w) BY <1>1 DEF LockJob, CanReclaim, CanRenew, LeaseOver
<1>2. CASE RenewLock(w) BY <1>2 DEF RenewLock
<1>3. CASE Complete(w) BY <1>3 DEF Complete
<1>4. CASE CloseJob(w) BY <1>4 DEF CloseJob
<1>5. CASE FinalizeCanceled(w) BY <1>5 DEF FinalizeCanceled
<1>6. CASE ReleaseLock(w) BY <1>6 DEF ReleaseLock, Unlocked
<1>7. CASE ListDue(w) \/ LoadJob(w) \/ CheckCancel(w) \/ CallProvider(w) \/ RereadJob(w)
           \/ Reschedule(w) \/ FailTask(w)
  BY <1>7 DEF ListDue, LoadJob, CheckCancel, CallProvider, RereadJob, Reschedule, FailTask
<1> QED BY <1>1, <1>2, <1>3, <1>4, <1>5, <1>6, <1>7 DEF PollStep

LEMMA RestKeepsOwner ==
  ASSUME RowOK, UserStep \/ Pass \/ Clock \/ (\E w \in Workers : Crash(w)) PROVE OwnerKept
<1> USE DEF RowOK, OwnerKept
<1>1. CASE CancelWrite BY <1>1 DEF CancelWrite, CancelRow, Finished, Unlocked
<1>2. ASSUME NEW guard, Reclaim(guard) PROVE OwnerKept
  BY <1>2 DEF Reclaim, BackToRetrying, Finished, Unlocked
<1>3. CASE LeaseExpires BY <1>3 DEF LeaseExpires
<1>4. CASE \/ CancelRead \/ CloseQueuedTask \/ RetryDecides \/ RetrySucceeds \/ TaskAges
           \/ (\E w \in Workers : Crash(w))
  BY <1>4 DEF CancelRead, CloseQueuedTask, RetryDecides, RetrySucceeds, TaskAges, Crash
<1> QED BY <1>1, <1>2, <1>3, <1>4 DEF UserStep, Pass, Clock

(* While a lease is live only its owner draws the Job a new token, whether  *)
(* or not tokens are distinct.                                              *)
THEOREM LeasesStayWithOwners == Spec => LeaseStaysWithOwner
<1>1. ASSUME Sound, [Next]_vars PROVE [OwnerKept]_vars
  BY <1>1, SubmitKeepsOwner, PollKeepsOwner, RestKeepsOwner DEF Next, Sound
<1> QED BY <1>1, Soundness, PTL DEF Spec, LeaseStaysWithOwner, OwnerKept
-----------------------------------------------------------------------------
(* Types.  A token is drawn where more numbers than holders are at hand.    *)

LEMMA TokensOf ==
  ASSUME NEW f, DOMAIN f = Workers
  PROVE  IsFiniteSet({f[w] : w \in Workers}) /\ Cardinality({f[w] : w \in Workers}) <= Cardinality(Workers)
<1> DEFINE T == {f[w] : w \in Workers}
           g == [w \in Workers |-> f[w]]
<1>1. g \in Surjection(Workers, T) BY DEF Surjection
<1> QED BY <1>1, FS_Surjection, WorkersAssumption

LEMMA FreshTokenTyped == FreshToken \in Nat
<1> DEFINE N == Cardinality(Workers)
           S == {submit[w].token : w \in Workers}
           P == {poll[w].token : w \in Workers}
<1>1. IsFiniteSet(S) /\ Cardinality(S) <= N
  <2> DEFINE f == [w \in Workers |-> submit[w].token]
  <2>1. DOMAIN f = Workers /\ S = {f[w] : w \in Workers} OBVIOUS
  <2> HIDE DEF f
  <2> QED BY <2>1, TokensOf
<1>2. IsFiniteSet(P) /\ Cardinality(P) <= N
  <2> DEFINE f == [w \in Workers |-> poll[w].token]
  <2>1. DOMAIN f = Workers /\ P = {f[w] : w \in Workers} OBVIOUS
  <2> HIDE DEF f
  <2> QED BY <2>1, TokensOf
<1>3. N \in Nat BY FS_CardinalityType, WorkersAssumption
<1> HIDE DEF N, S, P
<1>4. /\ IsFiniteSet(S \union P) /\ Cardinality(S \union P) <= 2 * N
      /\ Cardinality(S \union P) \in Nat
  <2>1. S \intersect P \in SUBSET S OBVIOUS
  <2>2. IsFiniteSet(S \intersect P) BY <1>1, <2>1, FS_Subset
  <2>3. /\ Cardinality(S) \in Nat /\ Cardinality(P) \in Nat
        /\ Cardinality(S \intersect P) \in Nat
    BY <1>1, <1>2, <2>2, FS_CardinalityType
  <2>4. /\ IsFiniteSet(S \union P)
        /\ Cardinality(S \union P) = Cardinality(S) + Cardinality(P) - Cardinality(S \intersect P)
    BY <1>1, <1>2, FS_Union
  <2>5. Cardinality(S \union P) \in Nat BY <2>4, FS_CardinalityType
  <2> QED BY <1>1, <1>2, <1>3, <2>3, <2>4, <2>5
<1>5. Remembered = (S \union P) \union {row.token}
  BY DEF Remembered, S, P
<1>6. /\ IsFiniteSet(Remembered) /\ Cardinality(Remembered) <= 2 * N + 1
      /\ Cardinality(Remembered) \in Nat
  <2>1. /\ IsFiniteSet(Remembered)
        /\ Cardinality(Remembered) = IF row.token \in S \union P THEN Cardinality(S \union P)
                                      ELSE Cardinality(S \union P) + 1
    BY <1>4, <1>5, FS_AddElement
  <2> QED BY <1>3, <1>4, <2>1
<1>7. Cardinality(1 .. 2 * N + 2) = 2 * N + 2
  BY <1>3, FS_Interval
<1>8. ~(1 .. 2 * N + 2 \subseteq Remembered)
  <2> SUFFICES ASSUME 1 .. 2 * N + 2 \subseteq Remembered PROVE FALSE
    OBVIOUS
  <2>1. Cardinality(1 .. 2 * N + 2) <= Cardinality(Remembered)
    BY <1>6, FS_Subset
  <2> QED BY <1>3, <1>6, <1>7, <2>1
<1>9. \E t \in 1 .. 2 * N + 2 : t \notin Remembered
  BY <1>8
<1>10. FreshToken \in 1 .. 2 * N + 2
  BY <1>9 DEF FreshToken, N
<1> QED BY <1>3, <1>10
LEMMA SubmitMovesTyped ==
  ASSUME TypeOK, NEW w \in Workers
  PROVE  /\ \A to \in {"preparing", "scheduling"} : SubmitTo(w, to) => submit' \in [Workers -> Submit]
         /\ SubmitFails(w, "other") => submit' \in [Workers -> Submit]
         /\ SubmitEnds(w) => submit' \in [Workers -> Submit]
<1>1. ASSUME NEW to \in {"preparing", "scheduling"}, SubmitTo(w, to) PROVE submit' \in [Workers -> Submit]
  BY <1>1 DEF TypeOK, Submit, SubmitTo
<1>2. ASSUME SubmitFails(w, "other") PROVE submit' \in [Workers -> Submit]
  BY ZenonT(40), <1>2 DEF TypeOK, Submit, SubmitFails
<1>3. ASSUME SubmitEnds(w) PROVE submit' \in [Workers -> Submit]
  BY <1>3 DEF TypeOK, Submit, SubmitEnds, IdleSubmit, NoToken
<1> QED BY <1>1, <1>2, <1>3

LEMMA SubmitTyped ==
  ASSUME TypeOK, NEW w \in Submitters, Deliver(w) \/ SubmitStep(w)
  PROVE  submit' \in [Workers -> Submit]
<1>0. CASE SubmitChecks(w) \/ Schedule(w)
  BY <1>0, SubmitMovesTyped, HandlersAssumption DEF SubmitChecks, Schedule
<1> USE FreshTokenTyped, HandlersAssumption
    DEF TypeOK, Submit, IdleSubmit, NoToken, SubmitTo, SubmitFails, SubmitEnds
<1>1. CASE Deliver(w) BY <1>1 DEF Deliver
<1>2. CASE RouterCancels(w) BY <1>2 DEF RouterCancels
<1>3. CASE SubmitReads(w) BY <1>3 DEF SubmitReads, Task
<1>4. CASE Prepare(w) BY <1>4 DEF Prepare
<1>5. CASE Reserve(w) BY <1>5 DEF Reserve
<1>6. CASE CreateCall(w) BY <1>6 DEF CreateCall
<1>7. CASE Record(w) BY <1>7 DEF Record
<1>8. CASE FailSubmission(w) BY <1>8 DEF FailSubmission
<1>9. CASE FailJob(w) BY <1>9 DEF FailJob
<1> QED BY <1>0, <1>1, <1>2, <1>3, <1>4, <1>5, <1>6, <1>7, <1>8, <1>9 DEF SubmitStep

LEMMA PollTyped ==
  ASSUME TypeOK, NEW w \in Pollers, PollStep(w)
  PROVE  poll' \in [Workers -> Poll]
<1> USE FreshTokenTyped, HandlersAssumption DEF TypeOK, Poll, IdlePoll, NoToken, PollTo, PollEnds
<1>1. CASE ListDue(w) BY <1>1 DEF ListDue
<1>2. CASE LoadJob(w) BY <1>2 DEF LoadJob, Row
<1>3. CASE LockJob(w) BY <1>3 DEF LockJob
<1>4. CASE CheckCancel(w) BY <1>4 DEF CheckCancel
<1>5. CASE CallProvider(w) BY <1>5 DEF CallProvider
<1>6. CASE RereadJob(w) BY <1>6 DEF RereadJob
<1>7. CASE Reschedule(w) BY <1>7 DEF Reschedule
<1>8. CASE RenewLock(w) BY <1>8 DEF RenewLock
<1>9. CASE Complete(w) BY <1>9 DEF Complete
<1>10. CASE FailTask(w) BY <1>10 DEF FailTask
<1>11. CASE CloseJob(w) BY <1>11 DEF CloseJob
<1>12. CASE FinalizeCanceled(w) BY <1>12 DEF FinalizeCanceled
<1>13. CASE ReleaseLock(w) BY <1>13 DEF ReleaseLock
<1> QED BY <1>1, <1>2, <1>3, <1>4, <1>5, <1>6, <1>7, <1>8, <1>9, <1>10, <1>11, <1>12, <1>13 DEF PollStep
LEMMA RowTyped ==
  ASSUME TypeOK, Next
  PROVE  row' \in Row
<1> USE DEF TypeOK, Row, JobStatus, Claimable, Active, Terminal
<1>1. ASSUME NEW w \in Submitters, Deliver(w) \/ SubmitStep(w) PROVE row' \in Row
  <2>1. CASE Deliver(w) BY <2>1, FreshTokenTyped, HandlersAssumption DEF Deliver, Claimed
  <2>2. CASE RouterCancels(w) BY <2>2 DEF RouterCancels, Finished, Unlocked, NoToken
  <2>3. CASE FailJob(w) BY <2>3 DEF FailJob, Finished, Unlocked, NoToken
  <2>4. CASE \/ SubmitReads(w) \/ SubmitChecks(w) \/ Prepare(w) \/ Reserve(w) \/ CreateCall(w)
             \/ Record(w) \/ Schedule(w) \/ FailSubmission(w)
    BY <2>4 DEF SubmitReads, SubmitChecks, Prepare, Reserve, CreateCall, Record, Schedule, FailSubmission
  <2> QED BY <1>1, <2>1, <2>2, <2>3, <2>4 DEF SubmitStep
<1>2. ASSUME NEW w \in Pollers, PollStep(w) PROVE row' \in Row
  <2>1. CASE LockJob(w) BY ZenonT(40), <2>1, FreshTokenTyped, HandlersAssumption DEF LockJob
  <2>2. CASE RenewLock(w) BY <2>2 DEF RenewLock
  <2>3. CASE Complete(w) BY <2>3 DEF Complete
  <2>4. CASE CloseJob(w) BY <2>4 DEF CloseJob
  <2>5. CASE FinalizeCanceled(w) BY <2>5 DEF FinalizeCanceled
  <2>6. CASE ReleaseLock(w) BY <2>6 DEF ReleaseLock, Unlocked, NoToken
  <2>7. CASE ListDue(w) \/ LoadJob(w) \/ CheckCancel(w) \/ CallProvider(w) \/ RereadJob(w)
             \/ Reschedule(w) \/ FailTask(w)
    BY <2>7 DEF ListDue, LoadJob, CheckCancel, CallProvider, RereadJob, Reschedule, FailTask
  <2> QED BY <1>2, <2>1, <2>2, <2>3, <2>4, <2>5, <2>6, <2>7 DEF PollStep
<1>3. CASE CancelWrite
  <2>1. Finished(row, "CANCELED") \in Row BY DEF Finished, Unlocked, NoToken
  <2>2. [Finished(row, "CANCELED") EXCEPT !.cancelRequested = TRUE] \in Row BY <2>1
  <2>3. [row EXCEPT !.status = "CANCELING", !.cancelRequested = TRUE] \in Row OBVIOUS
  <2> QED BY <1>3, <2>2, <2>3 DEF CancelWrite, CancelRow
<1>4. ASSUME NEW guard, Reclaim(guard) PROVE row' \in Row
  <2>1. CASE CanRetryInPlace(row, guard) /\ row' = BackToRetrying(row, row.attempts + 1)
    <3>1. row.attempts + 1 \in 0 .. MaxAttempts + 1
      BY <2>1, MaxAttemptsAssumption DEF CanRetryInPlace
    <3> QED BY <2>1, <3>1 DEF BackToRetrying, Unlocked, NoToken, NoDelivery
  <2>2. CASE row' = Finished(row, "FAILED") BY <2>2 DEF Finished, Unlocked, NoToken
  <2> QED BY <1>4, <2>1, <2>2 DEF Reclaim
<1>5. CASE LeaseExpires BY <1>5 DEF LeaseExpires
<1>6. CASE \/ CancelRead \/ CloseQueuedTask \/ RetryDecides \/ RetrySucceeds \/ TaskAges
           \/ (\E w \in Workers : Crash(w))
  BY <1>6 DEF CancelRead, CloseQueuedTask, RetryDecides, RetrySucceeds, TaskAges, Crash
<1> QED BY <1>1, <1>2, <1>3, <1>4, <1>5, <1>6 DEF Next, UserStep, Pass, Clock

LEMMA RestTyped ==
  ASSUME TypeOK, Next
  PROVE  /\ created' \in Nat /\ committed' \in Nat
         /\ cancel' \in {"none", "QUEUED", "RETRYING", "RUNNING", "closing"}
         /\ retry' \in {"no", "deciding", "successor"}
         /\ up' \subseteq Workers
<1> USE DEF TypeOK
<1>1. ASSUME NEW w \in Submitters, Deliver(w) \/ SubmitStep(w)
      PROVE  created' \in Nat /\ UNCHANGED <<committed, cancel, retry, up>>
  BY <1>1 DEF Deliver, SubmitStep, RouterCancels, SubmitReads, SubmitChecks, Prepare, Reserve,
              CreateCall, Record, Schedule, FailSubmission, FailJob
<1>2. ASSUME NEW w \in Pollers, PollStep(w)
      PROVE  committed' \in Nat /\ UNCHANGED <<created, cancel, retry, up>>
  BY <1>2 DEF PollStep, ListDue, LoadJob, LockJob, CheckCancel, CallProvider, RereadJob, Reschedule,
              RenewLock, Complete, FailTask, CloseJob, FinalizeCanceled, ReleaseLock
<1>3. ASSUME NEW w \in Workers, Crash(w)
      PROVE  up' \subseteq Workers /\ UNCHANGED <<created, committed, cancel, retry>>
  BY <1>3 DEF Crash
<1>4. CASE UserStep
  BY <1>4 DEF UserStep, CancelRead, CancelWrite, CloseQueuedTask, RetryDecides, RetrySucceeds
<1>5. CASE Pass \/ Clock
  BY <1>5 DEF Pass, Reclaim, Clock, LeaseExpires, TaskAges
<1> QED BY <1>1, <1>2, <1>3, <1>4, <1>5 DEF Next

(* Every variable keeps its type for all constants; in particular no pass   *)
(* charges an attempt beyond the budget.                                    *)
THEOREM OperationTypesHold == Spec => []TypeOK
<1>1. Init => TypeOK
  <2>1. ASSUME Init PROVE row \in Row
    <3>1. 0 \in 0 .. MaxAttempts + 1 /\ 0 \in Nat BY MaxAttemptsAssumption
    <3>2. AbsentRow \in Row BY <3>1 DEF AbsentRow, Row, JobStatus, NoToken
    <3> QED BY <2>1, <3>2 DEF Init, QueuedRow, Row, JobStatus, Claimable
  <2>2. ASSUME Init PROVE submit \in [Workers -> Submit] /\ poll \in [Workers -> Poll]
    BY <2>2 DEF Init, Submit, Poll, IdleSubmit, IdlePoll, NoToken
  <2> QED BY <2>1, <2>2, PollBoundsAssumption DEF Init, TypeOK, Task, Open
<1>2. ASSUME TypeOK, Sound, [Next]_vars PROVE TypeOK'
  <2>1. CASE Next
    <3>1. task' \in Task BY <1>2, <2>1, TaskMoves DEF Sound, TaskMove, TaskOK
    <3>2. submit' \in [Workers -> Submit] /\ poll' \in [Workers -> Poll]
      <4> DEFINE Typed == submit' \in [Workers -> Submit] /\ poll' \in [Workers -> Poll]
      <4>1. ASSUME NEW w \in Submitters, Deliver(w) \/ SubmitStep(w) PROVE Typed
        BY <1>2, <4>1, SubmitTyped, SubmitMovesHandlers DEF Sound, TypeOK
      <4>2. ASSUME NEW w \in Pollers, PollStep(w) PROVE Typed
        BY <1>2, <4>2, PollTyped, PollMovesHandlers DEF Sound, TypeOK
      <4>3. ASSUME NEW w \in Workers, Crash(w) PROVE Typed
        BY <1>2, <4>3 DEF Crash, TypeOK, Submit, Poll, IdleSubmit, IdlePoll, NoToken
      <4>4. CASE UserStep \/ Pass \/ Clock
        BY <1>2, <4>4 DEF TypeOK, UserStep, CancelRead, CancelWrite, CloseQueuedTask, RetryDecides,
                          RetrySucceeds, Pass, Reclaim, Clock, LeaseExpires, TaskAges
      <4> QED BY <2>1, <4>1, <4>2, <4>3, <4>4 DEF Next
    <3> QED BY <1>2, <2>1, <3>1, <3>2, RowTyped, RestTyped DEF TypeOK
  <2>2. CASE UNCHANGED vars BY <1>2, <2>2 DEF vars, TypeOK
  <2> QED BY <1>2, <2>1, <2>2
<1> QED BY <1>1, <1>2, Soundness, PTL DEF Spec

=============================================================================
