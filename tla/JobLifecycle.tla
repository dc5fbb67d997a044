---------------------------- MODULE JobLifecycle ----------------------------
(***************************************************************************)
(* What the durable Job system promises of a Job, without leases, tokens,   *)
(* deliveries or clocks (docs/job-system.md, "Lifecycle"): a Job waits, is  *)
(* held by one run at a time, may be taken back to wait again, and is       *)
(* decided once.  A cancellation is decided at once while the Job waits and *)
(* by the run that holds it otherwise.  A failed Job is immutable history;  *)
(* retrying it commits at most one successor.  Every run has to be paid     *)
(* for: by the creation of the Job, by an attempt or by a deferral.  A Job  *)
(* that serves a record of its own (a media verification) is overseen: when *)
(* the record is closed, the Job is settled with it, unless a run holds it. *)
(***************************************************************************)
EXTENDS Integers

CONSTANTS Jobs, NoJob,
          Overseen   \* the Jobs settled together with what they serve

VARIABLES phase,    \* Job -> where it is in its life
          parent,   \* Job -> the failed Job it retries
          runs,     \* Job -> runs granted so far
          credit    \* Job -> runs paid for so far

Phases == {"none", "waiting", "held", "canceling", "COMPLETED", "FAILED", "CANCELED"}

Init == /\ phase = [j \in Jobs |-> "none"]
        /\ parent = [j \in Jobs |-> NoJob]
        /\ runs = [j \in Jobs |-> 0]
        /\ credit = [j \in Jobs |-> 1]

Moves(j, from, to) == phase[j] \in from /\ phase' = [phase EXCEPT ![j] = to]

Commit(j) == Moves(j, {"none"}, "waiting") /\ UNCHANGED <<parent, runs, credit>>

Succeed(j, k) ==
  /\ phase[j] = "FAILED" /\ \A i \in Jobs : parent[i] # j
  /\ Moves(k, {"none"}, "waiting")
  /\ parent' = [parent EXCEPT ![k] = j]
  /\ UNCHANGED <<runs, credit>>

Grant(j) ==
  /\ runs[j] < credit[j]
  /\ Moves(j, {"waiting"}, "held")
  /\ runs' = [runs EXCEPT ![j] = @ + 1]
  /\ UNCHANGED <<parent, credit>>

TakeBack(j) ==
  /\ Moves(j, {"held"}, "waiting")
  /\ credit' = [credit EXCEPT ![j] = @ + 1]
  /\ UNCHANGED <<parent, runs>>

(* An exhausted attempt is charged before the decision. *)
Charge(j) ==
  /\ phase[j] = "held"
  /\ credit' = [credit EXCEPT ![j] = @ + 1]
  /\ UNCHANGED <<phase, parent, runs>>

Decide(j) ==
  /\ \E outcome \in {"COMPLETED", "FAILED"} : Moves(j, {"held"}, outcome)
  /\ UNCHANGED <<parent, runs, credit>>

Cancel(j) == /\ \/ Moves(j, {"waiting", "canceling"}, "CANCELED")
                \/ Moves(j, {"held"}, "canceling")
             /\ UNCHANGED <<parent, runs, credit>>

Settle(j) ==
  /\ j \in Overseen
  /\ \/ \E outcome \in {"FAILED", "CANCELED"} : Moves(j, {"waiting", "canceling", "FAILED"}, outcome)
     \/ Moves(j, {"held"}, "CANCELED")   \* the run cancels itself
  /\ UNCHANGED <<parent, runs, credit>>

Next == \/ \E j \in Jobs : Commit(j) \/ Grant(j) \/ TakeBack(j) \/ Charge(j) \/ Decide(j) \/ Cancel(j)
        \/ \E j \in Jobs : Settle(j)
        \/ \E j, k \in Jobs : Succeed(j, k)

Spec == Init /\ [][Next]_<<phase, parent, runs, credit>>

=============================================================================
