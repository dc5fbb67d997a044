----------------------- MODULE MediaVerificationProofs -----------------------
(* Theorems of MediaVerification, for any number of items, generations,     *)
(* requests, workers, claims and faults.                                    *)
(*                                                                          *)
(* A verification is touched by many hands, most of which hold what they    *)
(* read some steps ago.  Standing says what an actor that holds such a      *)
(* reading may still rely on; BodyFacts, LinkFacts and JobFacts say how a   *)
(* row agrees with its objects, its Asset and its Job; Stays says what no   *)
(* step takes back from a row, whoever holds a reading of it.               *)
EXTENDS MediaVerification, TLAPS

VerificationRow ==
  [status: {"ABSENT", "PURGED"} \union NonTerminal \union Ended, source: Uploads \union {NoObject},
   sealedAt: 0 .. 2, hash: Bodies \union {"none"}, deadline: Nat, cleared: BOOLEAN]

(* The Job with attempts of any number: their bound is a matter of its own. *)
JobKind == [status: JobStatus, token: Nat, lockedBy: Workers \union {NoWorker},
            lease: {"none", "live", "expired", "stale"}, overdue: BOOLEAN, attempts: Nat,
            cancelRequested: BOOLEAN, stamp: {NoDelivery} \union Deliveries]

ActorKind == [pc: Pc, v: V \union {<<>>}, token: Nat, at: 0 .. 2,
              seen: {"ABSENT"} \union NonTerminal \union Ended, reason: Reasons \union {NoReason}]

RequestKind == [pc: {"idle", "asked", "admit", "publish", "link", "check", "remove"},
                item: Items \union {<<>>}]

RowKinds == row \in [V -> VerificationRow]
JobKinds == job \in [V -> JobKind] /\ claims \in [V -> Nat]
ActorKinds == actor \in [Actors -> ActorKind]
StoreKinds == /\ staged \in [Items -> Uploads \union {NoObject}]
              /\ puts \in [Items -> 0 .. MaxPuts]
              /\ sealed \in [V -> Seals \union {NoSeal}]
LinkKinds == /\ assets \subseteq Items \X (0 .. MaxGeneration)
             /\ link \in [Items -> NoLink .. MaxGeneration]
WebKinds == /\ now \in 0 .. MaxTime /\ inactive \in BOOLEAN
            /\ import \in [status: {"PREPARING", "COMMITTED", "EXPIRED"},
                           job: {"RUNNING", "FAILED", "COMPLETED"}]
            /\ request \in [Requests -> RequestKind]
            /\ commit \in {"idle", "complete", "incomplete"} /\ overdue \in BOOLEAN
            /\ faults \in 0 .. MaxFaults

Kinds == RowKinds /\ JobKinds /\ ActorKinds /\ StoreKinds /\ LinkKinds /\ WebKinds

(* What is under the sealed key was copied from the recorded upload, and    *)
(* what was decided about it is true of that upload.                        *)
BodyFacts(v) ==
  /\ Exists(v) => row[v].source \in Uploads
  /\ row[v].status = "ABSENT" => sealed[v] = NoSeal
  /\ Exists(v) /\ sealed[v].at # 0 => sealed[v].body = row[v].source.body
  /\ row[v].status \in {"VERIFIED", "PUBLISHED"} => /\ row[v].hash = row[v].source.body
                                                    /\ row[v].hash # "junk"
  /\ row[v].status = "PUBLISHED" => sealed[v].at # 0
  /\ row[v].status = "REJECTED" => row[v].source.body = "junk"

LinkFacts(v) ==
  /\ v \in assets <=> row[v].status = "PUBLISHED"
  /\ row[v].status = "PUBLISHED" => link[v[1]] # NoLink

(* A purged row leaves a decided Job, and nobody who could admit its item.  *)
JobFacts(v) ==
  /\ job[v].status = "ABSENT" <=> row[v].status = "ABSENT"
  /\ job[v].status = "COMPLETED" => row[v].status = "PUBLISHED"
  /\ row[v].status = "PURGED" => /\ now = MaxTime /\ job[v].status \in Terminal
                                 /\ \A r \in Requests : request[r].item = v[1] => request[r].pc # "admit"

Standing(a) ==
  LET v == actor[a].v
      pc == actor[a].pc
  IN
  /\ pc # "idle" => v \in V /\ Exists(v)
  /\ pc \notin {"idle", "finish", "end"} => actor[a].seen \in NonTerminal
  /\ pc \in {"swap", "clean"} => actor[a].reason \in Reasons
  /\ pc = "swap" /\ actor[a].reason = "REFUSED" => row[v].source.body = "junk"
  /\ pc = "finish" => row[v].status = "PUBLISHED"
  /\ pc \in {"clean", "end"} => row[v].status \in Unpublished
  /\ pc = "commit" /\ row[v].status = "VERIFIED" => sealed[v].at # 0

(* The scan decides with a reason at hand until it has settled the Job.     *)
ScanStanding ==
  /\ At(Scanner, "idle") \/ At(Scanner, "swap") \/ At(Scanner, "clean") \/ At(Scanner, "end")
  /\ ~At(Scanner, "idle") => actor[Scanner].reason \in Reasons

RequestStanding == \A r \in Requests : request[r].pc # "idle" => request[r].item \in Items

AllLinked == \A i \in Items : link[i] # NoLink

(* A commit that has counted every item as linked stays right, as links are *)
(* never removed.                                                           *)
ImportFacts ==
  /\ commit = "complete" => AllLinked
  /\ import.status = "COMMITTED" => AllLinked
  /\ import.job = "RUNNING" => import.status = "PREPARING"

Facts ==
  /\ \A v \in V : BodyFacts(v) /\ LinkFacts(v) /\ JobFacts(v)
  /\ \A a \in Actors : Standing(a)
  /\ ScanStanding /\ RequestStanding /\ ImportFacts

IInv == Kinds /\ Facts

LEMMA Keys ==
  ASSUME NEW v \in V
  PROVE  /\ v[1] \in Items /\ v[2] \in Generations /\ v = <<v[1], v[2]>>
         /\ v[2] \in 1 .. MaxGeneration /\ \A i : v # <<i, Direct>>
BY VerificationBounds DEF V, Generations, Direct

-----------------------------------------------------------------------------
(* Which steps touch what.                                                  *)

LEMMA RowSteps ==
  ASSUME Next
  PROVE  \/ row' = row
         \/ \E r \in Requests : Admit(r)
         \/ \E w \in Workers : RecordSeal(w) \/ Probe(w) \/ Publish(w)
         \/ \E a \in Actors : Terminalize(a) \/ Clean(a)
         \/ \E v \in V : Purge(v)
<1>1. ASSUME NEW i \in Items, Put(i) \/ \E r \in Requests : Ask(r, i) PROVE row' = row
  BY <1>1 DEF Put, Ask, rowVars
<1>2. ASSUME NEW r \in Requests, RequestStep(r) \/ InspectFails(r) \/ RequestDies(r)
      PROVE row' = row \/ Admit(r)
  BY <1>2 DEF RequestStep, Inspect, PublishDirect, LinkDirect, CheckUnpublished, RemoveUnpublished,
              InspectFails, RequestDies, rowVars
<1>3. ASSUME NEW w \in Workers, VerifierStep(w) \/ OperationalFailure(w) \/ Crash(w)
      PROVE \/ row' = row \/ RecordSeal(w) \/ Probe(w) \/ Publish(w) \/ Terminalize(w) \/ Clean(w)
  BY <1>3 DEF VerifierStep, Copy, PublishGuard, Defer, Complete, EndJob, OperationalFailure, Crash, rowVars
<1>4. ASSUME NEW w \in Workers, NEW v \in V, Claim(w, v) PROVE row' = row BY <1>4 DEF Claim
<1>5. ASSUME NEW v \in V, LeaseExpires(v) \/ Recover(v) \/ Cancel(v) \/ Retry(v) \/ Reconcile(v)
      PROVE row' = row
  BY <1>5 DEF LeaseExpires, Recover, Cancel, Retry, Reconcile, rowVars
<1>6. ASSUME ScannerStep \/ ScannerCrash PROVE row' = row \/ Terminalize(Scanner) \/ Clean(Scanner)
  BY <1>6 DEF ScannerStep, Settle, ScannerCrash, rowVars
<1>7. ASSUME WebStep \/ Tick \/ Archive PROVE row' = row
  BY <1>7 DEF WebStep, CommitCounts, CommitWrites, ListOverdue, ExpireImport, Tick, Archive, rowVars
<1> QED BY <1>1, <1>2, <1>3, <1>4, <1>5, <1>6, <1>7 DEF Next, Actors

LEMMA SealedSteps ==
  ASSUME Next
  PROVE  \/ sealed' = sealed
         \/ \E w \in Workers : Copy(w)
         \/ \E a \in Actors : Clean(a)
         \/ \E v \in V : Purge(v)
<1>1. ASSUME NEW i \in Items, Put(i) \/ \E r \in Requests : Ask(r, i) PROVE sealed' = sealed
  BY <1>1 DEF Put, Ask, itemVars
<1>2. ASSUME NEW r \in Requests, RequestStep(r) \/ InspectFails(r) \/ RequestDies(r)
      PROVE sealed' = sealed
  BY <1>2 DEF RequestStep, Inspect, Admit, PublishDirect, LinkDirect, CheckUnpublished,
              RemoveUnpublished, InspectFails, RequestDies, itemVars
<1>3. ASSUME NEW w \in Workers, VerifierStep(w) \/ OperationalFailure(w) \/ Crash(w)
      PROVE sealed' = sealed \/ Copy(w) \/ Clean(w)
  BY <1>3 DEF VerifierStep, RecordSeal, Probe, PublishGuard, Defer, Publish, Complete, Terminalize,
              EndJob, OperationalFailure, Crash, itemVars
<1>4. ASSUME NEW w \in Workers, NEW v \in V, Claim(w, v) PROVE sealed' = sealed
  BY <1>4 DEF Claim, itemVars
<1>5. ASSUME NEW v \in V, LeaseExpires(v) \/ Recover(v) \/ Cancel(v) \/ Retry(v) \/ Reconcile(v)
      PROVE sealed' = sealed
  BY <1>5 DEF LeaseExpires, Recover, Cancel, Retry, Reconcile, itemVars
<1>6. ASSUME ScannerStep \/ ScannerCrash PROVE sealed' = sealed \/ Clean(Scanner)
  BY <1>6 DEF ScannerStep, Terminalize, Settle, ScannerCrash, itemVars
<1>7. ASSUME WebStep \/ Tick \/ Archive PROVE sealed' = sealed
  BY <1>7 DEF WebStep, CommitCounts, CommitWrites, ListOverdue, ExpireImport, Tick, Archive, itemVars
<1> QED BY <1>1, <1>2, <1>3, <1>4, <1>5, <1>6, <1>7 DEF Next, Actors

LEMMA LinkSteps ==
  ASSUME Next
  PROVE  \/ UNCHANGED <<assets, link>>
         \/ \E r \in Requests : PublishDirect(r) \/ LinkDirect(r)
         \/ \E w \in Workers : Publish(w)
<1>1. ASSUME NEW i \in Items, Put(i) \/ \E r \in Requests : Ask(r, i)
      PROVE UNCHANGED <<assets, link>>
  BY <1>1 DEF Put, Ask, itemVars
<1>2. ASSUME NEW r \in Requests, RequestStep(r) \/ InspectFails(r) \/ RequestDies(r)
      PROVE UNCHANGED <<assets, link>> \/ PublishDirect(r) \/ LinkDirect(r)
  BY <1>2 DEF RequestStep, Inspect, Admit, CheckUnpublished,
              RemoveUnpublished, InspectFails, RequestDies, itemVars
<1>3. ASSUME NEW w \in Workers, VerifierStep(w) \/ OperationalFailure(w) \/ Crash(w)
      PROVE UNCHANGED <<assets, link>> \/ Publish(w)
  BY <1>3 DEF VerifierStep, Copy, RecordSeal, Probe, PublishGuard, Defer, Complete, Terminalize,
              Clean, EndJob, OperationalFailure, Crash, itemVars
<1>4. ASSUME NEW w \in Workers, NEW v \in V, Claim(w, v) PROVE UNCHANGED <<assets, link>>
  BY <1>4 DEF Claim, itemVars
<1>5. ASSUME NEW v \in V, \/ LeaseExpires(v) \/ Recover(v) \/ Cancel(v) \/ Retry(v)
                          \/ Reconcile(v) \/ Purge(v)
      PROVE UNCHANGED <<assets, link>>
  BY <1>5 DEF LeaseExpires, Recover, Cancel, Retry, Reconcile, Purge, itemVars
<1>6. ASSUME ScannerStep \/ ScannerCrash PROVE UNCHANGED <<assets, link>>
  BY <1>6 DEF ScannerStep, Terminalize, Clean, Settle, ScannerCrash, itemVars
<1>7. ASSUME WebStep \/ Tick \/ Archive PROVE UNCHANGED <<assets, link>>
  BY <1>7 DEF WebStep, CommitCounts, CommitWrites, ListOverdue, ExpireImport, Tick, Archive, itemVars
<1> QED BY <1>1, <1>2, <1>3, <1>4, <1>5, <1>6, <1>7 DEF Next

-----------------------------------------------------------------------------
(* Types of rows and objects.                                               *)

LEMMA Outcomes ==
  ASSUME NEW reason \in Reasons
  PROVE  /\ Outcome(reason) \in Unpublished
         /\ Outcome(reason) = "REJECTED" => reason = "REFUSED"
BY DEF Reasons, Outcome, Unpublished

(* An admission adds a row where the item has none of that generation.      *)
Admitted(r, v) ==
  /\ request[r].pc = "admit" /\ request[r].item = v[1] /\ ~Exists(v)
  /\ staged[v[1]] # NoObject
  /\ row' = [row EXCEPT ![v] = [NoRow EXCEPT !.status = "PENDING", !.source = staged[v[1]],
                                             !.deadline = now + Allowance]]
  /\ job' = [job EXCEPT ![v] = QueuedRow]

LEMMA NextGenerationIsNew ==
  ASSUME NEW i, NEW g \in Generations, NextGeneration(i, g) PROVE ~Exists(<<i, g>>)
<1>1. CASE g = 1 BY <1>1 DEF NextGeneration
<1>2. CASE g # 1
  <2>1. Latest(i, g - 1) BY <1>2 DEF NextGeneration
  <2>2. g > g - 1 BY DEF Generations
  <2> QED BY <2>1, <2>2 DEF Latest
<1> QED BY <1>1, <1>2

LEMMA AdmitAdds ==
  ASSUME RowKinds, JobKinds, NEW r \in Requests, Admit(r)
  PROVE  UNCHANGED <<row, job>> \/ \E v \in V : Admitted(r, v)
<1> DEFINE i == request[r].item
<1>1. SUFFICES ASSUME NEW g \in Generations, NextGeneration(i, g), staged[i] # NoObject,
               row' = [row EXCEPT ![<<i, g>>] = [NoRow EXCEPT !.status = "PENDING", !.source = staged[i],
                                                              !.deadline = now + Allowance]],
               job' = [job EXCEPT ![<<i, g>>] = QueuedRow]
               PROVE UNCHANGED <<row, job>> \/ \E v \in V : Admitted(r, v)
  BY DEF Admit
<1>2. CASE i \in Items
  <2>1. <<i, g>> \in V BY <1>2 DEF V
  <2>2. ~Exists(<<i, g>>) BY <1>1, NextGenerationIsNew
  <2>3. request[r].pc = "admit" BY DEF Admit
  <2> QED BY <1>1, <2>1, <2>2, <2>3 DEF Admitted
<1>3. CASE i \notin Items
  <2>1. <<i, g>> \notin V BY <1>3 DEF V
  <2> QED BY <1>1, <2>1 DEF RowKinds, JobKinds
<1> QED BY <1>2, <1>3

LEMMA NoRowKind == NoRow \in VerificationRow
BY DEF NoRow, VerificationRow

LEMMA RowKindsStep ==
  ASSUME IInv, Next
  PROVE  RowKinds'
<1> USE DEF RowKinds
<1>0. Kinds /\ \A a \in Actors : Standing(a) BY DEF IInv, Facts
<1>1. CASE row' = row BY <1>0, <1>1 DEF Kinds
<1>2. ASSUME NEW r \in Requests, Admit(r) PROVE RowKinds'
  <2>1. CASE row' = row BY <1>0, <2>1 DEF Kinds
  <2>2. ASSUME NEW v \in V, Admitted(r, v) PROVE RowKinds'
    <3>1. staged[v[1]] \in Uploads BY <1>0, <2>2, Keys DEF Kinds, StoreKinds, Admitted
    <3>2. now + Allowance \in Nat BY <1>0, VerificationBounds DEF Kinds, WebKinds
    <3>3. [NoRow EXCEPT !.status = "PENDING", !.source = staged[v[1]], !.deadline = now + Allowance]
            \in VerificationRow
      BY <3>1, <3>2, NoRowKind DEF VerificationRow, NonTerminal
    <3> QED BY <1>0, <2>2, <3>3 DEF Admitted, Kinds
  <2> QED BY <1>0, <1>2, <2>1, <2>2, AdmitAdds DEF Kinds
<1>3. ASSUME NEW w \in Workers, RecordSeal(w) PROVE RowKinds'
  <2>1. actor[w].at \in 0 .. 2 BY <1>0 DEF Kinds, ActorKinds, ActorKind, Actors
  <2>2. PICK at \in 0 .. 2 : \E v :
          row' = row \/ row' = [row EXCEPT ![v].status = "SEALED", ![v].sealedAt = at]
    BY <1>3, <2>1 DEF RecordSeal
  <2>3. ASSUME NEW v, row' = [row EXCEPT ![v].status = "SEALED", ![v].sealedAt = at] PROVE RowKinds'
    <3>1. row' = [row EXCEPT ![v] = [row[v] EXCEPT !.status = "SEALED", !.sealedAt = at]]
      BY <2>3
    <3>2. v \in V => [row[v] EXCEPT !.status = "SEALED", !.sealedAt = at] \in VerificationRow
      BY <1>0 DEF Kinds, VerificationRow, NonTerminal
    <3> QED BY <1>0, <3>1, <3>2 DEF Kinds
  <2> QED BY <1>1, <2>2, <2>3
<1>4. ASSUME NEW w \in Workers, Probe(w) PROVE RowKinds'
  <2>1. actor[w].v \in V BY <1>0, <1>4 DEF Probe, At, Standing, Actors
  <2>2. SealIntact(actor[w].v) => sealed[actor[w].v].body \in Bodies
    BY <1>0, <2>1 DEF SealIntact, Kinds, StoreKinds, Seals, NoSeal
  <2> QED BY <1>0, <1>4, <2>1, <2>2 DEF Probe, Kinds, VerificationRow, NonTerminal
<1>5. ASSUME NEW w \in Workers, Publish(w) PROVE RowKinds'
  BY <1>0, <1>5 DEF Publish, Kinds, VerificationRow, Ended
<1>6. ASSUME NEW a \in Actors, Terminalize(a) PROVE RowKinds'
  <2>1. Outcome(actor[a].reason) \in Unpublished
    BY <1>0, <1>6, Outcomes DEF Terminalize, At, Standing
  <2>2. row' = row \/ row' = [row EXCEPT ![actor[a].v].status = Outcome(actor[a].reason)]
    BY <1>6 DEF Terminalize
  <2>3. ASSUME NEW v, row' = [row EXCEPT ![v].status = Outcome(actor[a].reason)] PROVE RowKinds'
    <3>1. v \in V => [row[v] EXCEPT !.status = Outcome(actor[a].reason)] \in VerificationRow
      BY <1>0, <2>1 DEF Kinds, VerificationRow, Ended
    <3>2. row' = [row EXCEPT ![v] = [row[v] EXCEPT !.status = Outcome(actor[a].reason)]] BY <2>3
    <3> QED BY <1>0, <3>1, <3>2 DEF Kinds
  <2> QED BY <1>1, <2>2, <2>3
<1>7. ASSUME NEW a \in Actors, Clean(a) PROVE RowKinds'
  <2>1. row' = row \/ row' = [row EXCEPT ![actor[a].v].cleared = TRUE] BY <1>7 DEF Clean
  <2>2. ASSUME NEW v, row' = [row EXCEPT ![v].cleared = TRUE] PROVE RowKinds'
    <3>1. v \in V => [row[v] EXCEPT !.cleared = TRUE] \in VerificationRow
      BY <1>0 DEF Kinds, VerificationRow
    <3>2. row' = [row EXCEPT ![v] = [row[v] EXCEPT !.cleared = TRUE]] BY <2>2
    <3> QED BY <1>0, <3>1, <3>2 DEF Kinds
  <2> QED BY <1>1, <2>1, <2>2
<1>8. ASSUME NEW v \in V, Purge(v) PROVE RowKinds'
  <2>1. [NoRow EXCEPT !.status = "PURGED"] \in VerificationRow BY NoRowKind DEF VerificationRow
  <2>2. row' = row \/ row' = [row EXCEPT ![v] = [NoRow EXCEPT !.status = "PURGED"]]
    BY <1>8 DEF Purge
  <2> QED BY <1>0, <2>1, <2>2 DEF Kinds
<1> QED BY <1>1, <1>2, <1>3, <1>4, <1>5, <1>6, <1>7, <1>8, RowSteps

-----------------------------------------------------------------------------
(* The ways in which a row and its sealed object may change.                *)

Becomes(v, from, to) ==
  /\ row[v].status \in from /\ row'[v].status \in to
  /\ row'[v].source = row[v].source

Kept(v) == Becomes(v, {row[v].status}, {row[v].status}) /\ row'[v].hash = row[v].hash

Added(v) ==
  /\ row[v].status = "ABSENT" /\ row'[v].status = "PENDING" /\ row'[v].source \in Uploads
  /\ job'[v].status = "QUEUED"

SealRecorded(v) == Becomes(v, {"PENDING"}, {"SEALED"})

Checked(v) ==
  /\ Becomes(v, {"SEALED"}, {"VERIFIED"})
  /\ sealed[v].at # 0 /\ row'[v].hash = sealed[v].body /\ sealed[v].body # "junk"

Published(v) ==
  /\ Becomes(v, {"VERIFIED"}, {"PUBLISHED"}) /\ row'[v].hash = row[v].hash
  /\ sealed[v].at # 0 /\ job[v].status = "RUNNING"
  /\ assets' = assets \union {v} /\ link' = Linked(v[1], v[2])

Closed(v) ==
  /\ Becomes(v, NonTerminal, Unpublished)
  /\ row'[v].status = "REJECTED" => row[v].source.body = "junk"

Purged(v) ==
  /\ row[v].status \in Unpublished /\ row'[v].status = "PURGED" /\ Quiet(v)
  /\ now = MaxTime /\ job[v].status \in Terminal /\ UNCHANGED <<now, job, request>>

RowMoves(v) ==
  Kept(v) \/ Added(v) \/ SealRecorded(v) \/ Checked(v) \/ Published(v) \/ Closed(v) \/ Purged(v)

LEMMA RowMove ==
  ASSUME IInv, Next
  PROVE  \A v \in V : RowMoves(v)
<1> SUFFICES ASSUME NEW v \in V PROVE RowMoves(v) OBVIOUS
<1> USE DEF RowMoves
<1>0. /\ row \in [V -> VerificationRow]
      /\ \A a \in Actors : Standing(a)
      /\ BodyFacts(v) /\ JobFacts(v)
  BY DEF IInv, Kinds, RowKinds, Facts
<1>00. Kept(v) \/ row'[v] # row[v] BY DEF Kept, Becomes
<1>1. CASE row' = row BY <1>00, <1>1
<1>2. ASSUME NEW r \in Requests, Admit(r) PROVE RowMoves(v)
  <2>1. ASSUME NEW u \in V, Admitted(r, u) PROVE RowMoves(v)
    <3>1. CASE u = v
      <4>1. row[v].status = "ABSENT" BY <1>0, <2>1, <3>1 DEF Admitted, Exists, JobFacts
      <4>2. staged[v[1]] \in Uploads
        BY <2>1, <3>1, Keys DEF Admitted, IInv, Kinds, StoreKinds
      <4>3. row'[v] = [NoRow EXCEPT !.status = "PENDING", !.source = staged[v[1]],
                                    !.deadline = now + Allowance]
        BY <1>0, <2>1, <3>1 DEF Admitted
      <4>4. row'[v].status = "PENDING" /\ row'[v].source = staged[v[1]]
        BY <4>3, NoRowKind DEF VerificationRow
      <4>5. job'[v].status = "QUEUED"
        <5>1. job \in [V -> JobKind] BY DEF IInv, Kinds, JobKinds
        <5>2. AbsentRow \in JobKind BY DEF AbsentRow, JobKind, JobStatus, NoToken
        <5>3. QueuedRow.status = "QUEUED" BY <5>2 DEF QueuedRow, JobKind
        <5> QED BY <2>1, <3>1, <5>1, <5>3 DEF Admitted
      <4> QED BY <4>1, <4>2, <4>4, <4>5 DEF Added
    <3>2. CASE u # v BY <1>0, <1>00, <2>1, <3>2 DEF Admitted
    <3> QED BY <3>1, <3>2
  <2> QED BY <1>1, <1>2, <2>1, AdmitAdds DEF IInv, Kinds
<1>3. ASSUME NEW w \in Workers, RecordSeal(w) PROVE RowMoves(v)
  <2>1. CASE v = actor[w].v /\ row' # row
    BY <1>0, <1>3, <2>1 DEF RecordSeal, Swaps, SealRecorded, Becomes, VerificationRow
  <2>2. CASE v # actor[w].v BY <1>0, <1>00, <1>3, <2>2 DEF RecordSeal
  <2> QED BY <1>1, <2>1, <2>2
<1>4. ASSUME NEW w \in Workers, Probe(w) PROVE RowMoves(v)
  <2>1. CASE v = actor[w].v /\ row' # row
    BY <1>0, <1>4, <2>1 DEF Probe, Swaps, SealIntact, Accepts, Checked, Becomes, VerificationRow
  <2>2. CASE v # actor[w].v BY <1>0, <1>00, <1>4, <2>2 DEF Probe
  <2> QED BY <1>1, <2>1, <2>2
<1>5. ASSUME NEW w \in Workers, Publish(w) PROVE RowMoves(v)
  <2>1. CASE v = actor[w].v /\ row' # row
    <3>1. sealed[v].at # 0 /\ row[v].status = "VERIFIED"
      BY <1>0, <1>5, <2>1 DEF Publish, At, Standing, Actors
    <3>2. job[v].status = "RUNNING"
      BY <1>5, <2>1 DEF Publish, StillOwner, Mine, CanWrite
    <3>3. /\ row' = [row EXCEPT ![v].status = "PUBLISHED"]
          /\ assets' = assets \union {v} /\ link' = Linked(v[1], v[2])
      BY <1>5, <2>1 DEF Publish
    <3> QED BY <1>0, <3>1, <3>2, <3>3 DEF Published, Becomes, VerificationRow
  <2>2. CASE v # actor[w].v BY <1>0, <1>00, <1>5, <2>2 DEF Publish
  <2> QED BY <1>1, <2>1, <2>2
<1>6. ASSUME NEW a \in Actors, Terminalize(a) PROVE RowMoves(v)
  <2> DEFINE outcome == Outcome(actor[a].reason)
  <2>1. CASE v = actor[a].v /\ row' # row
    <3>1. /\ row[v].status = actor[a].seen /\ actor[a].pc = "swap"
          /\ row' = [row EXCEPT ![v].status = outcome]
      BY <1>6, <2>1 DEF Terminalize, Swaps, At
    <3>2. /\ row[v].status \in NonTerminal /\ actor[a].reason \in Reasons
          /\ actor[a].reason = "REFUSED" => row[v].source.body = "junk"
      BY <1>0, <2>1, <3>1 DEF Standing
    <3>3. outcome \in Unpublished /\ (outcome = "REJECTED" => actor[a].reason = "REFUSED")
      BY <3>2, Outcomes
    <3> HIDE DEF outcome
    <3>4. row'[v].status = outcome /\ row'[v].source = row[v].source
      BY <1>0, <3>1 DEF VerificationRow
    <3> QED BY <3>2, <3>3, <3>4 DEF Closed, Becomes
  <2>2. CASE v # actor[a].v BY <1>0, <1>00, <1>6, <2>2 DEF Terminalize
  <2> QED BY <1>1, <2>1, <2>2
<1>7. ASSUME NEW a \in Actors, Clean(a) PROVE RowMoves(v)
  <2>1. row' = row \/ row' = [row EXCEPT ![actor[a].v].cleared = TRUE] BY <1>7 DEF Clean
  <2>2. CASE row' = [row EXCEPT ![actor[a].v].cleared = TRUE]
    BY <1>0, <2>2 DEF Kept, Becomes, VerificationRow
  <2> QED BY <1>1, <2>1, <2>2
<1>8. ASSUME NEW u \in V, Purge(u) PROVE RowMoves(v)
  <2>1. CASE u = v /\ row' # row
    <3>1. row'[v] = [NoRow EXCEPT !.status = "PURGED"] BY <1>0, <1>8, <2>1 DEF Purge
    <3>2. row'[v].status = "PURGED" BY <3>1, NoRowKind DEF VerificationRow
    <3>3. /\ row[v].status \in Unpublished /\ Quiet(v)
          /\ now = MaxTime /\ job[v].status \in Terminal /\ UNCHANGED <<now, job, request>>
      BY <1>8, <2>1 DEF Purge, envVars, webVars
    <3> QED BY <3>2, <3>3 DEF Purged
  <2>2. CASE u # v BY <1>0, <1>00, <1>8, <2>2 DEF Purge
  <2> QED BY <1>1, <2>1, <2>2
<1> QED BY <1>1, <1>2, <1>3, <1>4, <1>5, <1>6, <1>7, <1>8, RowSteps

(* A sealed key is written with the recorded upload, and emptied only after *)
(* the verification has ended unpublished.                                  *)
SealMoves(v) ==
  \/ sealed'[v] = sealed[v]
  \/ Exists(v) /\ sealed'[v].at # 0 /\ sealed'[v].body = row[v].source.body
  \/ row[v].status \in Unpublished /\ sealed'[v] = NoSeal

LEMMA SealMove ==
  ASSUME IInv, Next
  PROVE  \A v \in V : SealMoves(v)
<1> SUFFICES ASSUME NEW v \in V PROVE SealMoves(v) OBVIOUS
<1>0. /\ sealed \in [V -> Seals \union {NoSeal}]
      /\ \A a \in Actors : Standing(a)
  BY DEF IInv, Kinds, StoreKinds, Facts
<1>1. CASE sealed' = sealed BY <1>1 DEF SealMoves
<1>2. ASSUME NEW w \in Workers, Copy(w) PROVE SealMoves(v)
  <2>1. CASE v = actor[w].v /\ sealed' # sealed
    <3>1. /\ staged[v[1]] = row[v].source /\ Exists(v)
          /\ \E at \in {1, 2} : sealed' = [sealed EXCEPT ![v] = [at |-> at, body |-> staged[v[1]].body]]
      BY <1>0, <1>2, <2>1 DEF Copy, At, Standing, Actors
    <3> QED BY <1>0, <3>1 DEF SealMoves
  <2>2. CASE v # actor[w].v BY <1>0, <1>2, <2>2 DEF Copy, SealMoves
  <2> QED BY <1>1, <2>1, <2>2
<1>3. ASSUME NEW a \in Actors, Clean(a) PROVE SealMoves(v)
  <2>1. \/ sealed' = sealed
        \/ sealed' = [sealed EXCEPT ![actor[a].v] = NoSeal]
    BY <1>3 DEF Clean, Cleans
  <2>2. row[actor[a].v].status \in Unpublished BY <1>0, <1>3 DEF Clean, At, Standing
  <2> QED BY <1>0, <2>1, <2>2 DEF SealMoves
<1>4. ASSUME NEW u \in V, Purge(u) PROVE SealMoves(v)
  <2>1. \/ sealed' = sealed
        \/ sealed' = [sealed EXCEPT ![u] = NoSeal]
    BY <1>4 DEF Purge, Cleans
  <2>2. row[u].status \in Unpublished BY <1>4 DEF Purge
  <2> QED BY <1>0, <2>1, <2>2 DEF SealMoves
<1> QED BY <1>1, <1>2, <1>3, <1>4, SealedSteps

LEMMA BodyStep ==
  ASSUME IInv, Next
  PROVE  \A v \in V : BodyFacts(v)'
<1> SUFFICES ASSUME NEW v \in V PROVE BodyFacts(v)' OBVIOUS
<1>1. BodyFacts(v) /\ RowMoves(v) /\ SealMoves(v) BY RowMove, SealMove DEF IInv, Facts
<1>2. sealed[v].at = 0 => sealed[v] = NoSeal BY DEF IInv, Kinds, StoreKinds, Seals
<1>3. NoSeal.at = 0 BY DEF NoSeal
<1> QED
  BY <1>1, <1>2, <1>3
  DEF BodyFacts, RowMoves, SealMoves, Becomes, Kept, Added, SealRecorded, Checked, Published, Closed,
      Purged, Exists, NonTerminal, Unpublished

-----------------------------------------------------------------------------
(* Requests, uploads, links and the import.                                 *)

RequestMoves(r) ==
  \/ \E i \in Items : request' = [request EXCEPT ![r] = [pc |-> "asked", item |-> i]]
  \/ \E pc \in {"admit", "publish", "link", "check", "remove"} :
       /\ request[r].pc # "idle" /\ Goes(r, pc)
       /\ pc = "admit" => now < ImportDeadline
  \/ Answered(r)

LEMMA RequestMove ==
  ASSUME Next
  PROVE  request' = request \/ \E r \in Requests : RequestMoves(r)
<1>1. ASSUME NEW i \in Items, Put(i) PROVE request' = request BY <1>1 DEF Put, webVars
<1>2. ASSUME NEW r \in Requests, NEW i \in Items, Ask(r, i) PROVE RequestMoves(r)
  BY <1>2 DEF Ask, RequestMoves
<1>3. ASSUME NEW r \in Requests, RequestStep(r) \/ InspectFails(r) \/ RequestDies(r)
      PROVE RequestMoves(r)
  <2>1. CASE Inspect(r) BY <2>1 DEF Inspect, InspectTo, RequestMoves
  <2>2. CASE Admit(r) BY <2>2 DEF Admit, RequestMoves
  <2>3. CASE PublishDirect(r) BY <2>3 DEF PublishDirect, RequestMoves
  <2>4. CASE CheckUnpublished(r) BY <2>4 DEF CheckUnpublished, RequestMoves
  <2>5. CASE InspectFails(r) BY <2>5 DEF InspectFails, RequestMoves
  <2>6. CASE LinkDirect(r) \/ RemoveUnpublished(r) \/ RequestDies(r)
    BY <2>6 DEF LinkDirect, RemoveUnpublished, RequestDies, RequestMoves
  <2> QED BY <1>3, <2>1, <2>2, <2>3, <2>4, <2>5, <2>6 DEF RequestStep
<1>4. ASSUME NEW w \in Workers, VerifierStep(w) \/ OperationalFailure(w) \/ Crash(w)
      PROVE request' = request
  BY <1>4 DEF VerifierStep, Copy, RecordSeal, Probe, PublishGuard, Defer, Publish, Complete,
              Terminalize, Clean, EndJob, OperationalFailure, Crash, webVars
<1>5. ASSUME NEW w \in Workers, NEW v \in V, Claim(w, v) PROVE request' = request
  BY <1>5 DEF Claim, webVars
<1>6. ASSUME NEW v \in V, \/ LeaseExpires(v) \/ Recover(v) \/ Cancel(v) \/ Retry(v)
                          \/ Reconcile(v) \/ Purge(v)
      PROVE request' = request
  BY <1>6 DEF LeaseExpires, Recover, Cancel, Retry, Reconcile, Purge, webVars
<1>7. ASSUME ScannerStep \/ ScannerCrash PROVE request' = request
  BY <1>7 DEF ScannerStep, Terminalize, Clean, Settle, ScannerCrash, webVars
<1>8. ASSUME WebStep \/ Tick \/ Archive PROVE request' = request
  BY <1>8 DEF WebStep, CommitCounts, CommitWrites, ListOverdue, ExpireImport, Tick, Archive, webVars
<1> QED BY <1>1, <1>2, <1>3, <1>4, <1>5, <1>6, <1>7, <1>8 DEF Next

LEMMA RequestsStay ==
  ASSUME IInv, Next
  PROVE  request' \in [Requests -> RequestKind] /\ RequestStanding'
<1>1. request \in [Requests -> RequestKind] /\ RequestStanding BY DEF IInv, Kinds, WebKinds, Facts
<1>2. CASE request' = request BY <1>1, <1>2 DEF RequestStanding
<1>3. ASSUME NEW r \in Requests, RequestMoves(r)
      PROVE request' \in [Requests -> RequestKind] /\ RequestStanding'
  <2>1. ASSUME NEW i \in Items, request' = [request EXCEPT ![r] = [pc |-> "asked", item |-> i]]
        PROVE request' \in [Requests -> RequestKind] /\ RequestStanding'
    BY <1>1, <2>1 DEF RequestStanding, RequestKind
  <2>2. ASSUME NEW pc \in {"admit", "publish", "link", "check", "remove"},
               request[r].pc # "idle", Goes(r, pc)
        PROVE request' \in [Requests -> RequestKind] /\ RequestStanding'
    BY <1>1, <2>2 DEF RequestStanding, RequestKind, Goes
  <2>3. CASE Answered(r)
    BY <1>1, <2>3 DEF RequestStanding, RequestKind, Answered, IdleRequest
  <2> QED BY <1>3, <2>1, <2>2, <2>3 DEF RequestMoves
<1> QED BY <1>2, <1>3, RequestMove

LEMMA LinksStay ==
  ASSUME IInv, NEW j, NEW g \in 0 .. MaxGeneration, link' = Linked(j, g)
  PROVE  /\ link' \in [Items -> NoLink .. MaxGeneration]
         /\ \A i \in Items : link[i] # NoLink => link'[i] = link[i]
         /\ j \in Items => link'[j] # NoLink
<1>1. link \in [Items -> NoLink .. MaxGeneration] BY DEF IInv, Kinds, LinkKinds
<1>2. g \in NoLink .. MaxGeneration /\ g # NoLink BY VerificationBounds DEF NoLink
<1> QED BY <1>1, <1>2 DEF Linked

LEMMA LinkStep ==
  ASSUME IInv, Next
  PROVE  /\ LinkKinds'
         /\ \A i \in Items : link[i] # NoLink => link'[i] = link[i]
         /\ \A v \in V : LinkFacts(v)'
<1>0. /\ LinkKinds /\ RequestStanding
      /\ \A v \in V : LinkFacts(v) /\ RowMoves(v)
      /\ \A a \in Actors : Standing(a)
  BY RowMove DEF IInv, Kinds, Facts
<1> DEFINE Goal == LinkKinds' /\ \A i \in Items : link[i] # NoLink => link'[i] = link[i]
<1>1. Goal
  <2>1. CASE UNCHANGED <<assets, link>> BY <1>0, <2>1 DEF LinkKinds
  <2>2. ASSUME NEW r \in Requests, PublishDirect(r) PROVE Goal
    <3>1. request[r].item \in Items BY <1>0, <2>2 DEF PublishDirect, RequestStanding
    <3>2. 0 \in 0 .. MaxGeneration BY VerificationBounds
    <3> QED BY <1>0, <2>2, <3>1, <3>2 DEF PublishDirect, LinkKinds, Direct
  <2>3. ASSUME NEW r \in Requests, LinkDirect(r) PROVE Goal
    <3>1. 0 \in 0 .. MaxGeneration BY VerificationBounds
    <3> QED BY <1>0, <2>3, <3>1, LinksStay DEF LinkDirect, LinkKinds, Direct
  <2>4. ASSUME NEW w \in Workers, Publish(w) PROVE Goal
    <3>1. actor[w].v \in V BY <1>0, <2>4 DEF Publish, At, Standing, Actors
    <3>2. /\ actor[w].v \in Items \X (0 .. MaxGeneration)
          /\ actor[w].v[2] \in 0 .. MaxGeneration
      BY <3>1, VerificationBounds DEF V, Generations
    <3> QED BY <1>0, <2>1, <2>4, <3>2, LinksStay DEF Publish, LinkKinds
  <2> QED BY <2>1, <2>2, <2>3, <2>4, LinkSteps
<1>2. ASSUME NEW v \in V PROVE LinkFacts(v)'
  <2>0. /\ LinkFacts(v) /\ RowMoves(v) /\ v[1] \in Items
        /\ link[v[1]] # NoLink => link'[v[1]] # NoLink
    BY <1>0, <1>1, Keys
  <2>1. CASE Published(v)
    <3>1. v[2] \in 0 .. MaxGeneration BY Keys, VerificationBounds
    <3>2. link'[v[1]] # NoLink BY <2>0, <2>1, <3>1, LinksStay DEF Published
    <3> QED BY <2>1, <3>2 DEF Published, Becomes, LinkFacts
  <2>2. CASE ~Published(v)
    <3>1. row'[v].status = "PUBLISHED" <=> row[v].status = "PUBLISHED"
      BY <2>0, <2>2 DEF RowMoves, Kept, Added, SealRecorded, Checked, Closed, Purged, Becomes,
                        NonTerminal, Unpublished
    <3>2. v \in assets' <=> v \in assets
      <4>1. ASSUME NEW r \in Requests, PublishDirect(r) PROVE v \in assets' <=> v \in assets
        BY <4>1, Keys DEF PublishDirect
      <4>2. ASSUME NEW w \in Workers, Publish(w) PROVE v \in assets' <=> v \in assets
        <5>1. CASE assets' = assets BY <5>1
        <5>2. CASE /\ row[actor[w].v].status = "VERIFIED"
                   /\ row' = [row EXCEPT ![actor[w].v].status = "PUBLISHED"]
                   /\ assets' = assets \union {actor[w].v}
          <6>1. row \in [V -> VerificationRow] BY DEF IInv, Kinds, RowKinds
          <6>2. v # actor[w].v BY <3>1, <5>2, <6>1 DEF VerificationRow
          <6> QED BY <5>2, <6>2
        <5> QED BY <4>2, <5>1, <5>2 DEF Publish
      <4>3. ASSUME NEW r \in Requests, LinkDirect(r) PROVE assets' = assets BY <4>3 DEF LinkDirect
      <4> QED BY <4>1, <4>2, <4>3, LinkSteps
    <3> QED BY <2>0, <3>1, <3>2 DEF LinkFacts
  <2> QED BY <2>1, <2>2
<1> QED BY <1>1, <1>2

(* The uploads, the clock and the import keep their types.                  *)
LEMMA StoreKindsStep ==
  ASSUME IInv, Next
  PROVE  StoreKinds'
<1> USE DEF StoreKinds
<1>0. StoreKinds /\ \A a \in Actors : Standing(a) BY DEF IInv, Kinds, Facts
<1>1. sealed' \in [V -> Seals \union {NoSeal}]
  <2>1. ASSUME NEW w \in Workers, Copy(w) PROVE sealed' \in [V -> Seals \union {NoSeal}]
    <3>1. CASE sealed' = sealed BY <1>0, <3>1
    <3>2. ASSUME NEW at \in {1, 2}, staged[actor[w].v[1]] = row[actor[w].v].source,
                 sealed' = [sealed EXCEPT ![actor[w].v] = [at |-> at, body |-> staged[actor[w].v[1]].body]]
          PROVE sealed' \in [V -> Seals \union {NoSeal}]
      <4>1. actor[w].v \in V /\ row[actor[w].v].source \in Uploads
        BY <1>0, <2>1 DEF Copy, At, Standing, Actors, IInv, Facts, BodyFacts
      <4> QED BY <1>0, <3>2, <4>1 DEF Seals, Uploads
    <3> QED BY <2>1, <3>1, <3>2 DEF Copy
  <2>2. ASSUME NEW a \in Actors, Clean(a) PROVE sealed' \in [V -> Seals \union {NoSeal}]
    BY <1>0, <2>2 DEF Clean, Cleans
  <2>3. ASSUME NEW v \in V, Purge(v) PROVE sealed' \in [V -> Seals \union {NoSeal}]
    BY <1>0, <2>3 DEF Purge, Cleans
  <2> QED BY <1>0, <2>1, <2>2, <2>3, SealedSteps
<1>2. /\ staged' \in [Items -> Uploads \union {NoObject}]
      /\ puts' \in [Items -> 0 .. MaxPuts]
  <2> DEFINE Goal == /\ staged' \in [Items -> Uploads \union {NoObject}]
                     /\ puts' \in [Items -> 0 .. MaxPuts]
  <2>0. CASE UNCHANGED <<staged, puts>> BY <1>0, <2>0
  <2>1. ASSUME NEW i \in Items, Put(i) PROVE Goal
    <3>1. puts[i] + 1 \in 1 .. MaxPuts BY <1>0, <2>1, VerificationBounds DEF Put
    <3> QED BY <1>0, <2>1, <3>1, VerificationBounds DEF Put, Uploads
  <2>2. ASSUME NEW i \in Items, NEW r \in Requests, Ask(r, i) PROVE Goal
    BY <2>0, <2>2 DEF Ask, itemVars
  <2>3. ASSUME NEW r \in Requests, RequestStep(r) \/ InspectFails(r) \/ RequestDies(r) PROVE Goal
    <3>1. CASE RemoveUnpublished(r) BY <1>0, <3>1 DEF RemoveUnpublished
    <3> QED BY <2>0, <2>3, <3>1 DEF RequestStep, Inspect, Admit, PublishDirect, LinkDirect,
               CheckUnpublished, InspectFails, RequestDies, itemVars
  <2>4. ASSUME NEW a \in Actors, Clean(a) PROVE Goal BY <1>0, <2>4 DEF Clean, Cleans
  <2>5. ASSUME NEW w \in Workers, VerifierStep(w) \/ OperationalFailure(w) \/ Crash(w) PROVE Goal
    <3>1. CASE RecordSeal(w) BY <1>0, <3>1 DEF RecordSeal
    <3>2. CASE Clean(w) BY <2>4, <3>2 DEF Actors
    <3> QED BY <2>0, <2>5, <3>1, <3>2 DEF VerifierStep, Copy, Probe, PublishGuard, Defer, Publish,
               Complete, Terminalize, EndJob, OperationalFailure, Crash, itemVars
  <2>6. ASSUME NEW w \in Workers, NEW v \in V, Claim(w, v) PROVE Goal
    BY <2>0, <2>6 DEF Claim, itemVars
  <2>7. ASSUME NEW v \in V, \/ LeaseExpires(v) \/ Recover(v) \/ Cancel(v) \/ Retry(v)
                            \/ Reconcile(v) \/ Purge(v)
        PROVE Goal
    <3>1. CASE Purge(v) BY <1>0, <3>1 DEF Purge, Cleans
    <3> QED BY <2>0, <2>7, <3>1 DEF LeaseExpires, Recover, Cancel, Retry, Reconcile, itemVars
  <2>8. CASE ScannerStep \/ ScannerCrash
    BY <2>0, <2>4, <2>8 DEF ScannerStep, Terminalize, Settle, ScannerCrash, itemVars, Actors
  <2>9. CASE WebStep \/ Tick \/ Archive
    BY <2>0, <2>9 DEF WebStep, CommitCounts, CommitWrites, ListOverdue, ExpireImport, Tick, Archive,
                      itemVars
  <2> QED BY <2>1, <2>2, <2>3, <2>5, <2>6, <2>7, <2>8, <2>9 DEF Next
<1> QED BY <1>1, <1>2

LEMMA ImportSteps ==
  ASSUME Next
  PROVE  /\ import' = import \/ CommitWrites \/ ExpireImport
         /\ commit' = commit \/ CommitCounts \/ CommitWrites
<1>1. ASSUME NEW i \in Items, Put(i) \/ \E r \in Requests : Ask(r, i)
      PROVE import' = import /\ commit' = commit
  BY <1>1 DEF Put, Ask, webVars
<1>2. ASSUME NEW r \in Requests, RequestStep(r) \/ InspectFails(r) \/ RequestDies(r)
      PROVE import' = import /\ commit' = commit
  BY <1>2 DEF RequestStep, Inspect, Admit, PublishDirect, LinkDirect, CheckUnpublished,
              RemoveUnpublished, InspectFails, RequestDies
<1>3. ASSUME NEW w \in Workers, VerifierStep(w) \/ OperationalFailure(w) \/ Crash(w)
      PROVE import' = import /\ commit' = commit
  BY <1>3 DEF VerifierStep, Copy, RecordSeal, Probe, PublishGuard, Defer, Publish, Complete,
              Terminalize, Clean, EndJob, OperationalFailure, Crash, webVars
<1>4. ASSUME NEW w \in Workers, NEW v \in V, Claim(w, v) PROVE import' = import /\ commit' = commit
  BY <1>4 DEF Claim, webVars
<1>5. ASSUME NEW v \in V, \/ LeaseExpires(v) \/ Recover(v) \/ Cancel(v) \/ Retry(v)
                          \/ Reconcile(v) \/ Purge(v)
      PROVE import' = import /\ commit' = commit
  BY <1>5 DEF LeaseExpires, Recover, Cancel, Retry, Reconcile, Purge, webVars
<1>6. ASSUME ScannerStep \/ ScannerCrash PROVE import' = import /\ commit' = commit
  BY <1>6 DEF ScannerStep, Terminalize, Clean, Settle, ScannerCrash, webVars
<1>7. ASSUME WebStep \/ Tick \/ Archive 
      PROVE /\ import' = import \/ CommitWrites \/ ExpireImport
            /\ commit' = commit \/ CommitCounts \/ CommitWrites
  BY <1>7 DEF WebStep, CommitCounts, ListOverdue, ExpireImport, Tick, Archive, webVars
<1> QED BY <1>1, <1>2, <1>3, <1>4, <1>5, <1>6, <1>7 DEF Next

(* Once nothing runs the import's Job, neither the commit nor the deadline  *)
(* pass decides again; a commit that counted all found all.                 *)
LEMMA ImportStep ==
  ASSUME IInv, Next
  PROVE  /\ ImportFacts'
         /\ import' \in [status: {"PREPARING", "COMMITTED", "EXPIRED"},
                         job: {"RUNNING", "FAILED", "COMPLETED"}]
         /\ commit' \in {"idle", "complete", "incomplete"}
         /\ import.job # "RUNNING" => import' = import
<1>0. /\ ImportFacts
      /\ AllLinked => AllLinked'
      /\ import \in [status: {"PREPARING", "COMMITTED", "EXPIRED"},
                     job: {"RUNNING", "FAILED", "COMPLETED"}]
      /\ commit \in {"idle", "complete", "incomplete"}
  BY LinkStep DEF IInv, Facts, Kinds, WebKinds, AllLinked
<1> HIDE DEF AllLinked
<1>1. CASE UNCHANGED <<import, commit>> BY <1>0, <1>1 DEF ImportFacts
<1>2. CASE CommitCounts
  <2>1. Completed = Items => AllLinked BY DEF Completed, AllLinked
  <2> QED BY <1>0, <1>2, <2>1 DEF CommitCounts, ImportFacts
<1>3. CASE CommitWrites
  <2>1. commit' = "idle" BY <1>3 DEF CommitWrites
  <2>2. CASE import.job # "RUNNING"
    <3>1. import' = import BY <1>3, <2>2 DEF CommitWrites, JobStillOpen
    <3> QED BY <1>0, <2>1, <2>2, <3>1 DEF ImportFacts
  <2>3. CASE import.job = "RUNNING" /\ commit = "complete"
    <3>1. import' = [status |-> "COMMITTED", job |-> "COMPLETED"]
      BY <1>3, <2>3 DEF CommitWrites, JobStillOpen
    <3> QED BY <1>0, <2>1, <2>3, <3>1 DEF ImportFacts
  <2>4. CASE import.job = "RUNNING" /\ commit # "complete"
    <3>1. import' = [import EXCEPT !.job = "FAILED"]
      BY <1>3, <2>4 DEF CommitWrites, JobStillOpen
    <3>2. import.status = "PREPARING" BY <1>0, <2>4 DEF ImportFacts
    <3> QED BY <1>0, <2>1, <2>4, <3>1, <3>2 DEF ImportFacts
  <2> QED BY <2>2, <2>3, <2>4
<1>4. CASE ExpireImport
  <2>1. commit' = commit BY <1>4 DEF ExpireImport
  <2> QED BY <1>0, <1>4, <2>1 DEF ExpireImport, JobStillOpen, ImportFacts
<1> QED BY <1>1, <1>2, <1>3, <1>4, ImportSteps

-----------------------------------------------------------------------------
(* What an actor has read may go stale, what it stands on does not.         *)

LEMMA HeldRows ==
  ASSUME IInv, Next, NEW a \in Actors, actor[a].pc # "idle",
         NEW v, actor[a].v = v
  PROVE  /\ v \in V /\ Exists(v) /\ Exists(v)'
         /\ RowMoves(v) /\ ~Purged(v)
<1>1. Standing(a) BY DEF IInv, Facts
<1>2. v \in V /\ Exists(v) BY <1>1 DEF Standing
<1>3. RowMoves(v) BY <1>2, RowMove
<1>4. ~Purged(v) BY DEF Purged, Quiet
<1>5. Exists(v)'
  BY <1>2, <1>3, <1>4 DEF RowMoves, Kept, Added, SealRecorded, Checked, Published, Closed, Becomes,
                          Exists, NonTerminal, Unpublished
<1> QED BY <1>2, <1>3, <1>4, <1>5

LEMMA OthersStand ==
  ASSUME IInv, Next, NEW a \in Actors, actor'[a] = actor[a]
  PROVE  Standing(a)'
<1> SUFFICES ASSUME NEW v, actor[a].v = v PROVE Standing(a)' OBVIOUS
<1>1. Standing(a) BY DEF IInv, Facts
<1>2. CASE actor[a].pc = "idle" BY <1>2 DEF Standing
<1>3. CASE actor[a].pc # "idle"
  <2>1. v \in V /\ Exists(v) /\ Exists(v)' /\ RowMoves(v) /\ ~Purged(v) BY <1>3, HeldRows
  <2>2. SealMoves(v) BY <2>1, SealMove
  <2>3. row'[v].source = row[v].source
    BY <2>1 DEF RowMoves, Kept, Added, SealRecorded, Checked, Published, Closed, Becomes, Exists
  <2>4. row[v].status = "PUBLISHED" => row'[v].status = "PUBLISHED"
    BY <2>1 DEF RowMoves, Kept, Added, SealRecorded, Checked, Published, Closed, Becomes, NonTerminal
  <2>5. row[v].status \in Unpublished => row'[v].status \in Unpublished
    BY <2>1 DEF RowMoves, Kept, Added, SealRecorded, Checked, Published, Closed, Becomes, NonTerminal,
                Unpublished
  <2>6. row'[v].status = "VERIFIED"
          => \/ row[v].status = "VERIFIED"
             \/ row[v].status = "SEALED" /\ sealed[v].at # 0
    BY <2>1 DEF RowMoves, Kept, Added, SealRecorded, Checked, Published, Closed, Becomes, NonTerminal,
                Unpublished, Exists
  <2>7. row[v].status \in {"SEALED", "VERIFIED"} /\ sealed[v].at # 0 => sealed'[v].at # 0
    BY <2>2 DEF SealMoves, Unpublished
  <2> QED BY <1>1, <1>3, <2>1, <2>3, <2>4, <2>5, <2>6, <2>7 DEF Standing
<1> QED BY <1>2, <1>3

ActorMoves(a) ==
  /\ actor' \in [Actors -> ActorKind] /\ Standing(a)'
  /\ \A b \in Actors \ {a} : actor'[b] = actor[b]
  /\ a = Scanner => ScanStanding'

LEMMA LeavingStands ==
  ASSUME ActorKinds, NEW a \in Actors, Leave(a)
  PROVE  ActorMoves(a)
<1>1. IdleActor \in ActorKind BY DEF IdleActor, ActorKind, Pc, NoToken, Reasons
<1>2. actor'[a] = IdleActor /\ actor' \in [Actors -> ActorKind]
  BY <1>1 DEF ActorKinds, Leave
<1>3. Standing(a)' BY <1>2 DEF Standing, IdleActor
<1>4. a = Scanner => ScanStanding' BY <1>2 DEF ScanStanding, At, IdleActor
<1> QED BY <1>2, <1>3, <1>4 DEF ActorMoves, Leave, ActorKinds

LEMMA LoopingStands ==
  ASSUME ActorKinds, RowKinds', NEW w \in Workers, NEW v \in V, NEW token \in Nat, NEW j,
         Exists(v)', Looped(w, v, token, row'[v], j)
  PROVE  ActorMoves(w)
<1> DEFINE reason == IF row'[v].status \in NonTerminal THEN Boundary(row'[v], j, token) ELSE NoReason
           pc == IF reason # NoReason THEN "swap" ELSE StepOf(row'[v].status)
<1>0. w \in Actors /\ w # Scanner BY ScannerAssumption DEF Actors
<1>1. row'[v].status \in NonTerminal \union Ended
  BY DEF RowKinds, VerificationRow, Exists
<1>2. reason \in {NoReason, "REQUESTED", "DATASET_INACTIVE", "ELAPSED"} BY DEF Boundary
<1>3. reason # NoReason => row'[v].status \in NonTerminal BY DEF Boundary
<1>4. /\ StepOf(row'[v].status) \in {"seal", "probe", "publish", "finish", "end"}
      /\ StepOf(row'[v].status) \in {"seal", "probe", "publish"} => row'[v].status \in NonTerminal
      /\ StepOf(row'[v].status) = "finish" => row'[v].status = "PUBLISHED"
      /\ StepOf(row'[v].status) = "end" => row'[v].status \in Unpublished
  BY <1>1 DEF StepOf, NonTerminal, Ended, Unpublished
<1>5. actor' = [actor EXCEPT ![w] = [pc |-> pc, v |-> v, token |-> token, seen |-> row'[v].status,
                                     reason |-> reason, at |-> 0]]
  BY DEF Looped
<1> HIDE DEF reason
<1>6. /\ pc \in {"swap", "seal", "probe", "publish", "finish", "end"}
      /\ pc \notin {"finish", "end"} => row'[v].status \in NonTerminal
      /\ pc = "finish" => row'[v].status = "PUBLISHED"
      /\ pc = "end" => row'[v].status \in Unpublished
      /\ pc = "swap" => reason \in Reasons \ {"REFUSED"}
  <2>1. CASE reason # NoReason BY <1>2, <1>3, <2>1 DEF Reasons, NoReason
  <2>2. CASE reason = NoReason BY <1>4, <2>2
  <2> QED BY <2>1, <2>2
<1> HIDE DEF pc
<1>7. actor'[w] = [pc |-> pc, v |-> v, token |-> token, seen |-> row'[v].status,
                   reason |-> reason, at |-> 0]
  BY <1>0, <1>5 DEF ActorKinds
<1>8. Standing(w)' BY <1>6, <1>7 DEF Standing
<1>9. actor'[w] \in ActorKind
  BY <1>1, <1>2, <1>6, <1>7 DEF ActorKind, Pc, Reasons
<1> QED BY <1>0, <1>5, <1>8, <1>9 DEF ActorMoves, ActorKinds

(* Every step of an actor leaves it on firm ground.                         *)
LEMMA CopyStands ==
  ASSUME IInv, Next, NEW w \in Workers, Copy(w)
  PROVE  ActorMoves(w)
<1>0. ActorKinds /\ Standing(w) /\ w \in Actors /\ w # Scanner
  BY ScannerAssumption DEF IInv, Kinds, Facts, Actors
<1>1. actor[w].pc = "seal" BY DEF Copy, At
<1>2. row' = row BY DEF Copy, rowVars
<1>3. CASE Deciding(w, "swap", "CHANGED")
  <2>1. actor'[w] = [actor[w] EXCEPT !.pc = "swap", !.reason = "CHANGED"]
    BY <1>0, <1>3 DEF ActorKinds, Deciding
  <2>2. actor'[w] \in ActorKind BY <1>0, <2>1 DEF ActorKinds, ActorKind, Pc, Reasons
  <2>3. /\ actor'[w].pc = "swap" /\ actor'[w].reason = "CHANGED"
        /\ actor'[w].v = actor[w].v /\ actor'[w].seen = actor[w].seen
    BY <1>0, <2>1 DEF ActorKinds, ActorKind
  <2>4. Standing(w)' BY <1>0, <1>1, <1>2, <2>3 DEF Standing, Exists, Reasons
  <2> QED BY <1>0, <1>3, <2>2, <2>4 DEF ActorMoves, Deciding, ActorKinds
<1>4. ASSUME NEW at \in {1, 2}, actor' = [actor EXCEPT ![w].pc = "sealing", ![w].at = at]
      PROVE ActorMoves(w)
  <2>1. actor'[w] = [actor[w] EXCEPT !.pc = "sealing", !.at = at]
    BY <1>0, <1>4 DEF ActorKinds
  <2>2. actor'[w] \in ActorKind
    <3>1. at \in 0 .. 2 OBVIOUS
    <3> QED BY <1>0, <2>1, <3>1 DEF ActorKinds, ActorKind, Pc
  <2>3. /\ actor'[w].pc = "sealing"
        /\ actor'[w].v = actor[w].v /\ actor'[w].seen = actor[w].seen
    BY <1>0, <2>1 DEF ActorKinds, ActorKind
  <2>4. Standing(w)' BY <1>0, <1>1, <1>2, <2>3 DEF Standing, Exists
  <2> QED BY <1>0, <1>4, <2>2, <2>4 DEF ActorMoves, ActorKinds
<1> QED BY <1>3, <1>4 DEF Copy

(* Again looks at the row that is there after the step.                     *)
LEMMA AgainStands ==
  ASSUME IInv, Next, NEW w \in Workers, actor[w].pc # "idle", Again(w)
  PROVE  ActorMoves(w)
<1>1. SUFFICES ASSUME NEW v, actor[w].v = v PROVE ActorMoves(w) OBVIOUS
<1>2. w \in Actors BY DEF Actors
<1>3. v \in V /\ Exists(v)' BY <1>1, <1>2, HeldRows
<1>4. ActorKinds /\ actor[w].token \in Nat BY <1>2 DEF IInv, Kinds, ActorKinds, ActorKind
<1>5. Looped(w, v, actor[w].token, row'[v], Mine(w)) BY <1>1 DEF Again
<1>6. RowKinds' BY RowKindsStep
<1> QED BY <1>3, <1>4, <1>5, <1>6, LoopingStands

LEMMA ProbeStands ==
  ASSUME IInv, Next, NEW w \in Workers, Probe(w)
  PROVE  ActorMoves(w)
<1>0. ActorKinds /\ Standing(w) /\ w \in Actors /\ w # Scanner
  BY ScannerAssumption DEF IInv, Kinds, Facts, Actors
<1>1. actor[w].pc = "probe" /\ actor[w].v \in V /\ Exists(actor[w].v)
  BY <1>0 DEF Probe, At, Standing
<1>2. ASSUME NEW reason \in {"CHANGED", "REFUSED"}, Deciding(w, "swap", reason), row' = row,
             reason = "REFUSED" => row[actor[w].v].source.body = "junk"
      PROVE ActorMoves(w)
  <2>1. actor'[w] = [actor[w] EXCEPT !.pc = "swap", !.reason = reason]
    BY <1>0, <1>2 DEF ActorKinds, Deciding
  <2>2. actor'[w] \in ActorKind BY <1>0, <2>1 DEF ActorKinds, ActorKind, Pc, Reasons
  <2>3. /\ actor'[w].pc = "swap" /\ actor'[w].reason = reason
        /\ actor'[w].v = actor[w].v /\ actor'[w].seen = actor[w].seen
    BY <1>0, <2>1 DEF ActorKinds, ActorKind
  <2>4. Standing(w)' BY <1>0, <1>1, <1>2, <2>3 DEF Standing, Exists, Reasons
  <2> QED BY <1>0, <1>2, <2>2, <2>4 DEF ActorMoves, Deciding, ActorKinds
<1>3. SealIntact(actor[w].v) /\ ~Accepts(sealed[actor[w].v].body)
        => row[actor[w].v].source.body = "junk"
  BY <1>1 DEF SealIntact, Accepts, IInv, Facts, BodyFacts
<1>4. CASE Again(w) BY <1>1, <1>4, AgainStands
<1> QED BY <1>2, <1>3, <1>4 DEF Probe

LEMMA PublishGuardStands ==
  ASSUME IInv, Next, NEW w \in Workers, PublishGuard(w)
  PROVE  ActorMoves(w)
<1>0. ActorKinds /\ Standing(w) /\ w \in Actors /\ w # Scanner
  BY ScannerAssumption DEF IInv, Kinds, Facts, Actors
<1>1. actor[w].pc = "publish" /\ row' = row /\ sealed' = sealed
  BY DEF PublishGuard, At, rowVars, itemVars
<1>2. PICK reason \in {NoReason, "DATASET_INACTIVE", "ELAPSED", "CHANGED"} :
        /\ Deciding(w, IF reason = NoReason THEN "commit" ELSE "swap", reason)
        /\ reason = NoReason => SealIntact(actor[w].v)
  BY DEF PublishGuard, NoReason
<1>3. PICK pc \in {"commit", "swap"} :
        /\ Deciding(w, pc, reason)
        /\ pc = "commit" => sealed[actor[w].v].at # 0
        /\ pc = "swap" => reason # NoReason
  BY <1>2 DEF SealIntact
<1>4. actor'[w] = [actor[w] EXCEPT !.pc = pc, !.reason = reason]
  BY <1>0, <1>3 DEF ActorKinds, Deciding
<1>5. actor'[w] \in ActorKind BY <1>0, <1>4 DEF ActorKinds, ActorKind, Pc, Reasons
<1>6. /\ actor'[w].pc = pc /\ actor'[w].reason = reason
      /\ actor'[w].v = actor[w].v /\ actor'[w].seen = actor[w].seen
  BY <1>0, <1>4 DEF ActorKinds, ActorKind
<1>7. Standing(w)' BY <1>0, <1>1, <1>3, <1>6 DEF Standing, Exists, Reasons, NoReason
<1> QED BY <1>0, <1>3, <1>5, <1>7 DEF ActorMoves, Deciding, ActorKinds

LEMMA GoingMoves ==
  ASSUME ActorKinds, NEW a \in Actors, NEW pc \in Pc, Goto(a, pc)
  PROVE  /\ actor' \in [Actors -> ActorKind]
         /\ \A b \in Actors \ {a} : actor'[b] = actor[b]
         /\ actor'[a].pc = pc /\ actor'[a].v = actor[a].v /\ actor'[a].seen = actor[a].seen
         /\ actor'[a].reason = actor[a].reason
BY DEF ActorKinds, ActorKind, Goto

LEMMA PublishStands ==
  ASSUME IInv, Next, NEW w \in Workers, Publish(w)
  PROVE  ActorMoves(w)
<1>0. ActorKinds /\ Standing(w) /\ w \in Actors /\ w # Scanner
  BY ScannerAssumption DEF IInv, Kinds, Facts, Actors
<1>1. actor[w].pc = "commit" /\ actor[w].v \in V
  BY <1>0 DEF Publish, At, Standing
<1>2. CASE Goto(w, "finish") /\ row' = [row EXCEPT ![actor[w].v].status = "PUBLISHED"]
  <2>1. row'[actor[w].v].status = "PUBLISHED"
    BY <1>1, <1>2 DEF IInv, Kinds, RowKinds, VerificationRow
  <2>2. /\ actor' \in [Actors -> ActorKind]
        /\ \A b \in Actors \ {w} : actor'[b] = actor[b]
        /\ actor'[w].pc = "finish" /\ actor'[w].v = actor[w].v
    BY <1>0, <1>2, GoingMoves DEF Pc
  <2>3. Standing(w)' BY <1>1, <2>1, <2>2 DEF Standing, Exists
  <2> QED BY <1>0, <2>2, <2>3 DEF ActorMoves
<1>3. CASE Leave(w) BY <1>0, <1>3, LeavingStands
<1>4. CASE Again(w) BY <1>1, <1>4, AgainStands
<1> QED BY <1>2, <1>3, <1>4 DEF Publish

LEMMA TerminalizeStands ==
  ASSUME IInv, Next, NEW a \in Actors, Terminalize(a)
  PROVE  ActorMoves(a)
<1>0. ActorKinds /\ Standing(a) BY DEF IInv, Kinds, Facts
<1>1. /\ actor[a].pc = "swap" /\ actor[a].v \in V
      /\ actor[a].seen \in NonTerminal /\ actor[a].reason \in Reasons
  BY <1>0 DEF Terminalize, At, Standing
<1>2. CASE Goto(a, "clean") /\ row' = [row EXCEPT ![actor[a].v].status = Outcome(actor[a].reason)]
  <2>1. row'[actor[a].v].status \in Unpublished
    <3>1. Outcome(actor[a].reason) \in Unpublished BY <1>1, Outcomes
    <3> QED BY <1>1, <1>2, <3>1 DEF IInv, Kinds, RowKinds, VerificationRow
  <2>2. /\ actor' \in [Actors -> ActorKind]
        /\ \A b \in Actors \ {a} : actor'[b] = actor[b]
        /\ actor'[a].pc = "clean" /\ actor'[a].v = actor[a].v /\ actor'[a].seen = actor[a].seen
        /\ actor'[a].reason = actor[a].reason
    BY <1>0, <1>2, GoingMoves DEF Pc
  <2>3. Standing(a)' BY <1>1, <2>1, <2>2 DEF Standing, Exists, Unpublished
  <2>4. a = Scanner => ScanStanding' BY <1>1, <2>2 DEF ScanStanding, At
  <2> QED BY <2>2, <2>3, <2>4 DEF ActorMoves
<1>3. CASE Leave(a) BY <1>0, <1>3, LeavingStands
<1>4. CASE Again(a) /\ a # Scanner BY <1>1, <1>4, AgainStands DEF Actors
<1> QED BY <1>2, <1>3, <1>4 DEF Terminalize

LEMMA CleanStands ==
  ASSUME IInv, Next, NEW a \in Actors, Clean(a)
  PROVE  ActorMoves(a)
<1>1. SUFFICES ASSUME NEW v, actor[a].v = v PROVE ActorMoves(a) OBVIOUS
<1>2. ActorKinds /\ Standing(a) BY DEF IInv, Kinds, Facts
<1>3. /\ actor[a].pc = "clean" /\ row[v].status \in Unpublished
      /\ actor[a].reason \in Reasons
  BY <1>1, <1>2 DEF Clean, At, Standing
<1>4. v \in V /\ Exists(v)' /\ RowMoves(v) /\ ~Purged(v) BY <1>1, <1>3, HeldRows
<1>5. row'[v].status \in Unpublished
  BY <1>3, <1>4 DEF RowMoves, Kept, Added, SealRecorded, Checked, Published, Closed, Becomes,
                    NonTerminal, Unpublished
<1>6. /\ actor' \in [Actors -> ActorKind]
      /\ \A b \in Actors \ {a} : actor'[b] = actor[b]
      /\ actor'[a].pc = "end" /\ actor'[a].v = v /\ actor'[a].reason = actor[a].reason
  BY <1>1, <1>2, GoingMoves DEF Clean, Pc
<1>7. Standing(a)' BY <1>4, <1>5, <1>6 DEF Standing
<1>8. a = Scanner => ScanStanding' BY <1>3, <1>6 DEF ScanStanding, At
<1> QED BY <1>6, <1>7, <1>8 DEF ActorMoves

LEMMA ClaimStands ==
  ASSUME IInv, Next, NEW w \in Workers, NEW v \in V, Claim(w, v)
  PROVE  ActorMoves(w)
<1>1. ActorKinds /\ JobFacts(v) /\ row \in [V -> VerificationRow] /\ claims[v] \in Nat
  BY DEF IInv, Kinds, Facts, RowKinds, JobKinds
<1>2. row' = row BY DEF Claim
<1>3. Exists(v)' BY <1>1, <1>2 DEF Claim, CanClaim, Claimable, Terminal, JobFacts, Exists
<1>4. RowKinds' BY <1>1, <1>2 DEF RowKinds
<1>5. PICK token, j : token = claims[v] + 1 /\ Looped(w, v, token, row'[v], j)
  BY <1>2 DEF Claim
<1>6. token \in Nat BY <1>1, <1>5
<1> QED BY <1>1, <1>3, <1>4, <1>5, <1>6, LoopingStands

LEMMA ReconcileStands ==
  ASSUME IInv, Next, NEW v \in V, Reconcile(v)
  PROVE  ActorMoves(Scanner)
<1>1. ActorKinds /\ Scanner \in Actors BY DEF IInv, Kinds, Actors
<1>2. row' = row /\ row[v].status \in NonTerminal BY DEF Reconcile, rowVars
<1>3. PICK reason \in {"REQUESTED", "DATASET_INACTIVE", "IMPORT_ENDED", "ELAPSED"} :
        actor' = [actor EXCEPT ![Scanner] = [IdleActor EXCEPT !.pc = "swap", !.v = v,
                                             !.seen = row[v].status, !.reason = reason]]
  BY DEF Reconcile, Decision
<1>4. IdleActor \in ActorKind BY DEF IdleActor, ActorKind, Pc, NoToken, Reasons
<1>5. actor'[Scanner] = [IdleActor EXCEPT !.pc = "swap", !.v = v,
                                          !.seen = row[v].status, !.reason = reason]
  BY <1>1, <1>3 DEF ActorKinds
<1>6. /\ actor'[Scanner] \in ActorKind
      /\ actor'[Scanner].pc = "swap" /\ actor'[Scanner].v = v
      /\ actor'[Scanner].seen = row[v].status /\ actor'[Scanner].reason = reason
  BY <1>2, <1>4, <1>5 DEF ActorKind, Pc, Reasons
<1>7. Standing(Scanner)' BY <1>2, <1>6 DEF Standing, Exists, Reasons, NonTerminal
<1>8. ScanStanding' BY <1>6 DEF ScanStanding, At, Reasons
<1> QED BY <1>1, <1>3, <1>6, <1>7, <1>8 DEF ActorMoves, ActorKinds

LEMMA ActorMove ==
  ASSUME IInv, Next
  PROVE  actor' = actor \/ \E a \in Actors : ActorMoves(a)
<1>0. ActorKinds BY DEF IInv, Kinds
<1>1. ASSUME NEW i \in Items, Put(i) \/ \E r \in Requests : Ask(r, i) PROVE actor' = actor
  BY <1>1 DEF Put, Ask
<1>2. ASSUME NEW r \in Requests, RequestStep(r) \/ InspectFails(r) \/ RequestDies(r)
      PROVE actor' = actor
  BY <1>2 DEF RequestStep, Inspect, Admit, PublishDirect, LinkDirect, CheckUnpublished,
              RemoveUnpublished, InspectFails, RequestDies
<1>3. ASSUME NEW w \in Workers, VerifierStep(w) \/ OperationalFailure(w) \/ Crash(w)
      PROVE ActorMoves(w)
  <2>0. w \in Actors BY DEF Actors
  <2>1. CASE Copy(w) BY <2>1, CopyStands
  <2>2. CASE RecordSeal(w)
    <3>1. actor[w].pc # "idle" /\ Again(w) BY <2>2 DEF RecordSeal, At
    <3> QED BY <3>1, AgainStands
  <2>3. CASE Probe(w) BY <2>3, ProbeStands
  <2>4. CASE PublishGuard(w) BY <2>4, PublishGuardStands
  <2>5. CASE Publish(w) BY <2>5, PublishStands
  <2>6. CASE Terminalize(w) BY <2>0, <2>6, TerminalizeStands
  <2>7. CASE Clean(w) BY <2>0, <2>7, CleanStands
  <2>8. CASE Defer(w) \/ Complete(w) \/ EndJob(w) \/ OperationalFailure(w) \/ Crash(w)
    <3>1. Leave(w) BY <2>8 DEF Defer, Complete, EndJob, OperationalFailure, Crash
    <3> QED BY <1>0, <2>0, <3>1, LeavingStands
  <2> QED BY <1>3, <2>1, <2>2, <2>3, <2>4, <2>5, <2>6, <2>7, <2>8 DEF VerifierStep
<1>4. ASSUME NEW w \in Workers, NEW v \in V, Claim(w, v) PROVE ActorMoves(w)
  BY <1>4, ClaimStands
<1>5. ASSUME NEW v \in V, Reconcile(v) PROVE ActorMoves(Scanner)
  BY <1>5, ReconcileStands
<1>6. ASSUME NEW v \in V, LeaseExpires(v) \/ Recover(v) \/ Cancel(v) \/ Retry(v) \/ Purge(v)
      PROVE actor' = actor
  BY <1>6 DEF LeaseExpires, Recover, Cancel, Retry, Purge
<1>7. ASSUME ScannerStep \/ ScannerCrash PROVE ActorMoves(Scanner)
  <2>1. Scanner \in Actors BY DEF Actors
  <2>2. CASE Terminalize(Scanner) BY <2>1, <2>2, TerminalizeStands
  <2>3. CASE Clean(Scanner) BY <2>1, <2>3, CleanStands
  <2>4. CASE Settle \/ ScannerCrash
    <3>1. Leave(Scanner) BY <2>4 DEF Settle, ScannerCrash
    <3> QED BY <1>0, <2>1, <3>1, LeavingStands
  <2> QED BY <1>7, <2>2, <2>3, <2>4 DEF ScannerStep
<1>8. ASSUME WebStep \/ Tick \/ Archive PROVE actor' = actor
  BY <1>8 DEF WebStep, CommitCounts, CommitWrites, ListOverdue, ExpireImport, Tick, Archive
<1> QED BY <1>1, <1>2, <1>3, <1>4, <1>5, <1>6, <1>7, <1>8 DEF Next, Actors

LEMMA ActorStep ==
  ASSUME IInv, Next
  PROVE  ActorKinds' /\ ScanStanding' /\ \A a \in Actors : Standing(a)'
<1>1. ActorKinds /\ ScanStanding BY DEF IInv, Kinds, Facts
<1>2. CASE actor' = actor
  BY <1>1, <1>2, OthersStand DEF ActorKinds, ScanStanding, At
<1>3. ASSUME NEW a \in Actors, ActorMoves(a)
      PROVE ActorKinds' /\ ScanStanding' /\ \A b \in Actors : Standing(b)'
  <2>1. ASSUME NEW b \in Actors PROVE Standing(b)'
    BY <1>3, OthersStand DEF ActorMoves
  <2>2. ScanStanding'
    <3>1. CASE a = Scanner BY <1>3, <3>1 DEF ActorMoves
    <3>2. CASE a # Scanner
      <4>1. actor'[Scanner] = actor[Scanner] BY <1>3, <3>2 DEF ActorMoves, Actors
      <4> QED BY <1>1, <4>1 DEF ScanStanding, At
    <3> QED BY <3>1, <3>2
  <2> QED BY <1>3, <2>1, <2>2 DEF ActorMoves, ActorKinds
<1> QED BY <1>2, <1>3, ActorMove

-----------------------------------------------------------------------------
(* The ways in which a Job may change.                                      *)

(* No step gives a decided Job back, but for the retry of a verification    *)
(* that is still open, and only a published row lets its Job be COMPLETED.  *)
JobMoves(v) ==
  /\ job'[v].status = "ABSENT" <=> job[v].status = "ABSENT"
  /\ job[v].status \in Terminal => job'[v].status \in Terminal \/ row[v].status \in NonTerminal
  /\ job'[v].status = "COMPLETED" => job[v].status = "COMPLETED" \/ row[v].status = "PUBLISHED"

(* One Job at a time, by one of the updates of JobRow.                      *)
Updated(v, j) == job' = [job EXCEPT ![v] = j] /\ j \in JobKind

LEMMA JobUpdates ==
  ASSUME NEW j \in JobKind
  PROVE  /\ \A outcome \in JobStatus : Finished(j, outcome) \in JobKind /\ Finished(j, outcome).status = outcome
         /\ \A n \in Nat : BackToRetrying(j, n) \in JobKind /\ BackToRetrying(j, n).status = "RETRYING"
         /\ [j EXCEPT !.lease = "expired"] \in JobKind
         /\ Charged(j) \in JobKind
         /\ [j EXCEPT !.cancelRequested = TRUE] \in JobKind
<1> USE DEF JobKind
<1>1. /\ NoToken \in Nat /\ NoDelivery \in {NoDelivery} \union Deliveries
      /\ "RETRYING" \in JobStatus /\ "RUNNING" \in JobStatus
  BY DEF NoToken, JobStatus, Claimable, Active
<1>2. Unlocked(j) \in JobKind BY <1>1 DEF Unlocked
<1>3. \A outcome \in JobStatus : Finished(j, outcome) \in JobKind /\ Finished(j, outcome).status = outcome
  BY <1>2 DEF Finished
<1>4. \A n \in Nat : BackToRetrying(j, n) \in JobKind /\ BackToRetrying(j, n).status = "RETRYING"
  BY <1>1, <1>2 DEF BackToRetrying
<1>5. [j EXCEPT !.lease = "expired"] \in JobKind OBVIOUS
<1>6. Charged(j) \in JobKind BY DEF Charged
<1>7. [j EXCEPT !.cancelRequested = TRUE] \in JobKind OBVIOUS
<1> QED BY <1>3, <1>4, <1>5, <1>6, <1>7

LEMMA ClaimedKind ==
  ASSUME NEW j \in JobKind, NEW w \in Workers, NEW token \in Nat
  PROVE  Claimed(j, w, token) \in JobKind /\ Claimed(j, w, token).status = "RUNNING"
BY DEF Claimed, JobKind, JobStatus, Active

LEMMA QueuedKind == QueuedRow \in JobKind /\ QueuedRow.status = "QUEUED" /\ QueuedRow.attempts = 0
<1>1. AbsentRow \in JobKind /\ AbsentRow.attempts = 0
  BY DEF AbsentRow, JobKind, JobStatus, NoToken
<1> QED BY <1>1 DEF QueuedRow, JobKind, JobStatus, Claimable

LEMMA UpdateMoves ==
  ASSUME job \in [V -> JobKind], NEW u \in V, NEW j \in JobKind, job' = [job EXCEPT ![u] = j],
         job[u].status # "ABSENT", j.status # "ABSENT",
         job[u].status \in Terminal => j.status \in Terminal \/ row[u].status \in NonTerminal,
         j.status = "COMPLETED" => job[u].status = "COMPLETED" \/ row[u].status = "PUBLISHED"
  PROVE  job' \in [V -> JobKind] /\ \A v \in V : JobMoves(v)
BY DEF JobMoves

LEMMA EndedJobMoves ==
  ASSUME NEW j \in JobKind, j.status # "ABSENT", NEW token, NEW status
  PROVE  /\ EndedJob(j, token, status) \in JobKind
         /\ EndedJob(j, token, status).status # "ABSENT"
         /\ j.status \in Terminal => EndedJob(j, token, status).status \in Terminal
         /\ EndedJob(j, token, status).status = "COMPLETED" => j.status = "COMPLETED"
<1>0. "CANCELED" \in JobStatus /\ "FAILED" \in JobStatus BY DEF JobStatus, Terminal
<1>1. CASE status = "CANCELED"
  <2>1. PICK asked \in JobKind :
          /\ asked.status = j.status
          /\ EndedJob(j, token, status) = IF CanAckCancel(asked, token) THEN Finished(asked, "CANCELED") ELSE asked
    <3>1. /\ [j EXCEPT !.cancelRequested = TRUE] \in JobKind
          /\ [j EXCEPT !.cancelRequested = TRUE].status = j.status
      BY JobUpdates DEF JobKind
    <3> QED BY <1>1, <3>1 DEF EndedJob
  <2>2. Finished(asked, "CANCELED") \in JobKind /\ Finished(asked, "CANCELED").status = "CANCELED"
    BY <1>0, <2>1, JobUpdates
  <2> QED BY <2>1, <2>2 DEF Terminal
<1>2. CASE status # "CANCELED"
  <2>1. Finished(j, "FAILED") \in JobKind /\ Finished(j, "FAILED").status = "FAILED"
    BY <1>0, JobUpdates
  <2>2. EndedJob(j, token, status) \in {j, Finished(j, "FAILED")} BY <1>2 DEF EndedJob
  <2> QED BY <2>1, <2>2 DEF Terminal
<1> QED BY <1>1, <1>2

JobGoal == JobKinds' /\ \A v \in V : JobMoves(v) \/ Added(v)

(* The worker's own updates: none but its completion gives COMPLETED.       *)
LEMMA WorkerJobMove ==
  ASSUME IInv, NEW w \in Workers,
         Defer(w) \/ Complete(w) \/ OperationalFailure(w) \/ EndJob(w)
  PROVE  JobGoal
<1>0. /\ job \in [V -> JobKind] /\ claims \in [V -> Nat] /\ Standing(w)
      /\ \A v \in V : JobFacts(v)
  BY DEF IInv, Kinds, JobKinds, Facts, Actors
<1>1. claims' = claims BY DEF Defer, Complete, OperationalFailure, EndJob
<1>2. SUFFICES ASSUME NEW v, actor[w].v = v PROVE JobGoal OBVIOUS
<1>3. actor[w].pc # "idle" BY DEF Defer, Complete, OperationalFailure, EndJob, At
<1>4. v \in V /\ Exists(v) /\ job[v].status # "ABSENT"
  BY <1>0, <1>2, <1>3 DEF Standing, JobFacts, Exists
<1>5. job[v] \in JobKind /\ job[v].attempts \in Nat /\ job[v].attempts + 1 \in Nat
  BY <1>0, <1>4 DEF JobKind
<1>6. CASE job' = job BY <1>0, <1>1, <1>6 DEF JobGoal, JobKinds, JobMoves
<1>7. "COMPLETED" \in JobStatus /\ "FAILED" \in JobStatus BY DEF JobStatus, Terminal
<1>8. ASSUME NEW j \in JobKind, job' = [job EXCEPT ![v] = j],
             job[v].status = "RUNNING", j.status \in {"RETRYING", "FAILED", "RUNNING"}
      PROVE JobGoal
  BY <1>0, <1>1, <1>4, <1>8, UpdateMoves DEF JobGoal, JobKinds, Terminal
<1>9. CASE Defer(w)
  <2>1. BackToRetrying(job[v], job[v].attempts) \in JobKind
        /\ BackToRetrying(job[v], job[v].attempts).status = "RETRYING"
    BY <1>5, JobUpdates
  <2>2. CASE /\ job[v].status = "RUNNING"
             /\ job' = [job EXCEPT ![v] = BackToRetrying(job[v], job[v].attempts)]
    BY <1>8, <2>1, <2>2
  <2> QED BY <1>2, <1>6, <1>9, <2>2 DEF Defer, Mine
<1>10. CASE Complete(w)
  <2>1. Finished(job[v], "COMPLETED") \in JobKind /\ Finished(job[v], "COMPLETED").status = "COMPLETED"
    BY <1>5, <1>7, JobUpdates
  <2>2. row[v].status = "PUBLISHED" BY <1>0, <1>2, <1>10 DEF Complete, At, Standing
  <2>3. CASE job[v].status = "RUNNING" /\ job' = [job EXCEPT ![v] = Finished(job[v], "COMPLETED")]
    BY <1>0, <1>1, <1>4, <2>1, <2>2, <2>3, UpdateMoves DEF JobGoal, JobKinds, Terminal
  <2> QED BY <1>2, <1>6, <1>10, <2>3 DEF Complete, Mine, CanWrite
<1>11. CASE OperationalFailure(w)
  <2>1. BackToRetrying(job[v], job[v].attempts + 1) \in JobKind
        /\ BackToRetrying(job[v], job[v].attempts + 1).status = "RETRYING"
    BY <1>5, JobUpdates
  <2>2. /\ Charged(job[v]) \in JobKind
        /\ Charged(job[v]).status = job[v].status
    BY <1>5, JobUpdates DEF JobKind, Charged
  <2>3. /\ Finished(Charged(job[v]), "FAILED") \in JobKind
        /\ Finished(Charged(job[v]), "FAILED").status = "FAILED"
    BY <1>7, <2>2, JobUpdates
  <2>4. CASE ~(job[v].token = actor[w].token /\ job[v].status = "RUNNING")
    BY <1>2, <1>6, <1>11, <2>4 DEF OperationalFailure, Mine
  <2>5. CASE job[v].status = "RUNNING" /\ job[v].token = actor[w].token
    <3> DEFINE again == BackToRetrying(job[v], job[v].attempts + 1)
               charged == Charged(job[v])
               failed == Finished(charged, "FAILED")
    <3>1. job' = [job EXCEPT ![v] = IF job[v].attempts + 1 < MaxAttempts THEN again
                                    ELSE IF CurrentLease(job[v], actor[w].token) THEN failed ELSE charged]
      BY <1>2, <1>11, <2>5 DEF OperationalFailure, Mine
    <3>2. /\ {again, charged, failed} \subseteq JobKind
          /\ \A j \in {again, charged, failed} : j.status \in {"RETRYING", "FAILED", "RUNNING"}
      BY <2>1, <2>2, <2>3, <2>5
    <3> HIDE DEF again, charged, failed
    <3>3. PICK j \in {again, charged, failed} : job' = [job EXCEPT ![v] = j] BY <3>1
    <3> QED BY <1>8, <2>5, <3>2, <3>3
  <2> QED BY <2>4, <2>5
<1>12. CASE EndJob(w)
  <2>1. job' = [job EXCEPT ![v] = EndedJob(job[v], actor[w].token, row[v].status)]
    BY <1>2, <1>12 DEF EndJob
  <2>2. PICK j \in JobKind : /\ job' = [job EXCEPT ![v] = j] /\ j.status # "ABSENT"
                             /\ job[v].status \in Terminal => j.status \in Terminal
                             /\ j.status = "COMPLETED" => job[v].status = "COMPLETED"
    BY <1>4, <1>5, <2>1, EndedJobMoves
  <2> QED BY <1>0, <1>1, <1>4, <2>2, UpdateMoves DEF JobGoal, JobKinds
<1> QED BY <1>9, <1>10, <1>11, <1>12

(* A claim, the passes, the users and the scan.                             *)
LEMMA OtherJobMove ==
  ASSUME IInv, NEW v \in V,
         \/ \E w \in Workers : Claim(w, v)
         \/ LeaseExpires(v) \/ Recover(v) \/ Cancel(v) \/ Retry(v)
         \/ Settle /\ actor[Scanner].v = v
  PROVE  JobGoal
<1>0. /\ job \in [V -> JobKind] /\ claims \in [V -> Nat] /\ job[v] \in JobKind /\ JobFacts(v)
  BY DEF IInv, Kinds, JobKinds, Facts
<1>1. claims' \in [V -> Nat]
  BY <1>0 DEF Claim, LeaseExpires, Recover, Cancel, Retry, Settle
<1>2. ASSUME NEW j \in JobKind, job' = [job EXCEPT ![v] = j], j.status \notin {"ABSENT", "COMPLETED"},
             job[v].status # "ABSENT",
             job[v].status \in Terminal => j.status \in Terminal \/ row[v].status \in NonTerminal
      PROVE JobGoal
  BY <1>0, <1>1, <1>2, UpdateMoves DEF JobGoal, JobKinds
<1>3. {"FAILED", "CANCELED", "RETRYING"} \subseteq JobStatus
  BY DEF JobStatus, Terminal, Claimable
<1>4. ASSUME NEW w \in Workers, Claim(w, v) PROVE JobGoal
  <2>1. claims[v] + 1 \in Nat BY <1>0
  <2>2. Claimed(job[v], w, claims[v] + 1) \in JobKind /\ Claimed(job[v], w, claims[v] + 1).status = "RUNNING"
    BY <1>0, <2>1, ClaimedKind
  <2>3. job' = [job EXCEPT ![v] = Claimed(job[v], w, claims[v] + 1)] /\ job[v].status \in Claimable
    BY <1>4 DEF Claim, CanClaim
  <2> QED BY <1>2, <2>2, <2>3 DEF Claimable, Terminal
<1>5. CASE LeaseExpires(v)
  <2>1. /\ job' = [job EXCEPT ![v] = [job[v] EXCEPT !.lease = "expired"]]
        /\ [job[v] EXCEPT !.lease = "expired"] \in JobKind
        /\ [job[v] EXCEPT !.lease = "expired"].status = job[v].status
    BY <1>0, <1>5, JobUpdates DEF LeaseExpires, JobKind
  <2>2. job' \in [V -> JobKind] /\ \A u \in V : job'[u].status = job[u].status BY <1>0, <2>1
  <2> QED BY <1>1, <2>2 DEF JobGoal, JobKinds, JobMoves
<1>6. CASE Recover(v)
  <2>1. job[v].status = "RUNNING" /\ job[v].attempts + 1 \in Nat
    BY <1>0, <1>6 DEF Recover, CanRetryInPlace, CanDeadLetter, Recoverable, JobKind
  <2>2. /\ BackToRetrying(job[v], job[v].attempts + 1) \in JobKind
        /\ BackToRetrying(job[v], job[v].attempts + 1).status = "RETRYING"
        /\ Finished(job[v], "FAILED") \in JobKind /\ Finished(job[v], "FAILED").status = "FAILED"
    BY <1>0, <1>3, <2>1, JobUpdates
  <2>3. \/ job' = [job EXCEPT ![v] = BackToRetrying(job[v], job[v].attempts + 1)]
        \/ job' = [job EXCEPT ![v] = Finished(job[v], "FAILED")]
    BY <1>6 DEF Recover
  <2> QED BY <1>2, <2>1, <2>2, <2>3 DEF Terminal
<1>7. CASE Cancel(v)
  <2>1. /\ Finished(job[v], "CANCELED") \in JobKind
        /\ Finished(job[v], "CANCELED").status = "CANCELED"
    BY <1>0, <1>3, JobUpdates
  <2>2. PICK j \in JobKind : j = CancelRow(job[v], job[v].status) /\ j.status \in {"CANCELING", "CANCELED"}
    <3>1. [Finished(job[v], "CANCELED") EXCEPT !.cancelRequested = TRUE] \in JobKind
          /\ [Finished(job[v], "CANCELED") EXCEPT !.cancelRequested = TRUE].status = "CANCELED"
      BY <2>1, JobUpdates DEF JobKind
    <3>2. [job[v] EXCEPT !.status = "CANCELING", !.cancelRequested = TRUE] \in JobKind
          /\ [job[v] EXCEPT !.status = "CANCELING", !.cancelRequested = TRUE].status = "CANCELING"
      BY <1>0 DEF JobKind, JobStatus, Active
    <3> QED BY <3>1, <3>2 DEF CancelRow
  <2>3. job' = [job EXCEPT ![v] = j] BY <1>7, <2>2 DEF Cancel
  <2>4. job[v].status \in Claimable \union {"RUNNING"} BY <1>7 DEF Cancel
  <2> QED BY <1>2, <2>2, <2>3, <2>4 DEF Claimable, Terminal
<1>8. CASE Retry(v)
  <2>1. /\ job' = [job EXCEPT ![v] = QueuedRow]
        /\ job[v].status = "FAILED" /\ row[v].status \in NonTerminal
    BY <1>8 DEF Retry
  <2> QED BY <1>2, <2>1, QueuedKind
<1>9. CASE Settle /\ actor[Scanner].v = v
  <2>1. CASE job' = job BY <1>0, <1>1, <2>1 DEF JobGoal, JobKinds, JobMoves
  <2>2. ASSUME NEW outcome \in {"CANCELED", "FAILED"},
               job[v].status \in Claimable \union {"FAILED", "CANCELING"},
               job' = [job EXCEPT ![v] = Finished(job[v], outcome)]
        PROVE JobGoal
    <3>1. Finished(job[v], outcome) \in JobKind /\ Finished(job[v], outcome).status = outcome
      BY <1>0, <1>3, JobUpdates
    <3> QED BY <1>2, <2>2, <3>1 DEF Claimable, Terminal
  <2> QED BY <1>9, <2>1, <2>2 DEF Settle
<1> QED BY <1>4, <1>5, <1>6, <1>7, <1>8, <1>9

LEMMA JobMove == ASSUME IInv, Next PROVE JobGoal
<1>0. job \in [V -> JobKind] /\ claims \in [V -> Nat] BY DEF IInv, Kinds, JobKinds
<1>1. CASE UNCHANGED <<job, claims>> BY <1>0, <1>1 DEF JobGoal, JobKinds, JobMoves
<1>2. ASSUME NEW i \in Items, Put(i) \/ \E r \in Requests : Ask(r, i) PROVE JobGoal
  BY <1>1, <1>2 DEF Put, Ask, rowVars
<1>3. ASSUME NEW r \in Requests, Admit(r) PROVE JobGoal
  <2>1. claims' = claims BY <1>3 DEF Admit
  <2>2. ASSUME NEW u \in V, Admitted(r, u) PROVE JobGoal
    <3>1. job' = [job EXCEPT ![u] = QueuedRow] BY <2>2 DEF Admitted
    <3>2. Added(u)
      <4>1. ~Kept(u) /\ ~SealRecorded(u) /\ ~Checked(u) /\ ~Published(u) /\ ~Closed(u) /\ ~Purged(u)
        <5>1. row[u].status \in {"ABSENT", "PURGED"} /\ row'[u].status = "PENDING"
          <6>1. row'[u] = [NoRow EXCEPT !.status = "PENDING", !.source = staged[u[1]],
                                        !.deadline = now + Allowance]
            BY <2>2 DEF Admitted, IInv, Kinds, RowKinds
          <6>2. row'[u].status = "PENDING" BY <6>1 DEF NoRow
          <6> QED BY <2>2, <6>2 DEF Admitted, Exists
        <5> QED BY <5>1 DEF Kept, SealRecorded, Checked, Published, Closed, Purged, Becomes,
                            NonTerminal, Unpublished
      <4> QED BY <4>1, RowMove DEF RowMoves
    <3> QED BY <1>0, <2>1, <3>1, <3>2, QueuedKind DEF JobGoal, JobKinds, JobMoves
  <2> QED BY <1>0, <1>1, <1>3, <2>1, <2>2, AdmitAdds DEF IInv, Kinds
<1>4. ASSUME NEW r \in Requests, RequestStep(r) \/ InspectFails(r) \/ RequestDies(r) PROVE JobGoal
  BY <1>1, <1>3, <1>4 DEF RequestStep, Inspect, PublishDirect, LinkDirect, CheckUnpublished,
                          RemoveUnpublished, InspectFails, RequestDies, rowVars
<1>5. ASSUME NEW w \in Workers, Crash(w) PROVE JobGoal
  <2>1. /\ \A v \in V : job'[v] \in {job[v], [job[v] EXCEPT !.lease = "expired"]}
        /\ DOMAIN job' = V /\ job' = [v \in V |-> job'[v]] /\ claims' = claims
    BY <1>5 DEF Crash
  <2>2. \A v \in V : [job[v] EXCEPT !.lease = "expired"] \in JobKind
                    /\ [job[v] EXCEPT !.lease = "expired"].status = job[v].status
    BY <1>0, JobUpdates DEF JobKind
  <2>3. \A v \in V : job'[v] \in JobKind /\ job'[v].status = job[v].status
    BY <1>0, <2>1, <2>2
  <2> QED BY <1>0, <2>1, <2>3 DEF JobGoal, JobKinds, JobMoves
<1>6. ASSUME NEW w \in Workers, VerifierStep(w) \/ OperationalFailure(w) PROVE JobGoal
  BY <1>1, <1>6, WorkerJobMove DEF VerifierStep, Copy, RecordSeal, Probe, PublishGuard, Publish,
                                   Terminalize, Clean, rowVars
<1>7. ASSUME NEW v \in V, \/ \E w \in Workers : Claim(w, v)
                          \/ LeaseExpires(v) \/ Recover(v) \/ Cancel(v) \/ Retry(v)
      PROVE JobGoal
  BY <1>7, OtherJobMove
<1>8. ASSUME NEW v \in V, Reconcile(v) \/ Purge(v) PROVE JobGoal
  BY <1>1, <1>8 DEF Reconcile, Purge, rowVars
<1>9. ASSUME ScannerStep \/ ScannerCrash PROVE JobGoal
  <2>1. CASE Settle
    <3>1. actor[Scanner].v \in V BY <2>1 DEF Settle, At, Standing, IInv, Facts, Actors
    <3> QED BY <2>1, <3>1, OtherJobMove
  <2> QED BY <1>1, <1>9, <2>1 DEF ScannerStep, Terminalize, Clean, ScannerCrash, rowVars
<1>10. ASSUME WebStep \/ Tick \/ Archive PROVE JobGoal
  BY <1>1, <1>10 DEF WebStep, CommitCounts, CommitWrites, ListOverdue, ExpireImport, Tick, Archive,
                     rowVars
<1> QED BY <1>2, <1>4, <1>5, <1>6, <1>7, <1>8, <1>9, <1>10 DEF Next

LEMMA EnvironmentStep ==
  ASSUME IInv, Next
  PROVE  /\ now' \in 0 .. MaxTime /\ now' >= now /\ inactive' \in BOOLEAN
         /\ overdue' \in BOOLEAN /\ faults' \in 0 .. MaxFaults
<1> DEFINE Goal == /\ now' \in 0 .. MaxTime /\ now' >= now /\ inactive' \in BOOLEAN
                   /\ overdue' \in BOOLEAN /\ faults' \in 0 .. MaxFaults
<1>0. /\ now \in 0 .. MaxTime /\ inactive \in BOOLEAN
      /\ overdue \in BOOLEAN /\ faults \in 0 .. MaxFaults
  BY DEF IInv, Kinds, WebKinds
<1>1. CASE UNCHANGED <<now, inactive, overdue>> /\ (Fault \/ faults' = faults)
  BY <1>0, <1>1, VerificationBounds DEF Fault
<1>2. ASSUME NEW i \in Items, Put(i) \/ \E r \in Requests : Ask(r, i) PROVE Goal
  BY <1>1, <1>2 DEF Put, Ask, envVars, webVars
<1>3. ASSUME NEW r \in Requests, RequestStep(r) \/ InspectFails(r) \/ RequestDies(r) PROVE Goal
  BY <1>1, <1>3 DEF RequestStep, Inspect, Admit, PublishDirect, LinkDirect, CheckUnpublished,
                    RemoveUnpublished, InspectFails, RequestDies, envVars
<1>4. ASSUME NEW a, NEW known, NEW gone, Cleans(a, known, gone) PROVE Fault \/ faults' = faults
  BY <1>4 DEF Cleans
<1>5. ASSUME NEW a, Clean(a) PROVE Goal
  BY <1>1, <1>4, <1>5 DEF Clean, envVars, webVars
<1>6. ASSUME NEW w \in Workers, VerifierStep(w) \/ OperationalFailure(w) \/ Crash(w) PROVE Goal
  BY <1>1, <1>5, <1>6 DEF VerifierStep, Copy, RecordSeal, Probe, PublishGuard, Defer, Publish, Complete,
              Terminalize, EndJob, OperationalFailure, Crash, envVars, webVars
<1>7. ASSUME NEW w \in Workers, NEW v \in V, Claim(w, v) PROVE Goal
  BY <1>1, <1>7 DEF Claim, envVars, webVars
<1>8. ASSUME NEW v \in V, LeaseExpires(v) \/ Recover(v) \/ Cancel(v) \/ Retry(v) \/ Reconcile(v)
      PROVE Goal
  BY <1>1, <1>8 DEF LeaseExpires, Recover, Cancel, Retry, Reconcile, envVars, webVars
<1>9. ASSUME NEW v \in V, Purge(v) PROVE Goal
  BY <1>1, <1>4, <1>9 DEF Purge, envVars, webVars
<1>10. ASSUME ScannerStep \/ ScannerCrash PROVE Goal
  BY <1>1, <1>5, <1>10 DEF ScannerStep, Terminalize, Settle, ScannerCrash, envVars, webVars
<1>11. CASE WebStep
  <2>1. UNCHANGED <<now, inactive, faults>> /\ overdue' \in {overdue, TRUE, FALSE}
    BY <1>11 DEF WebStep, CommitCounts, CommitWrites, ListOverdue, ExpireImport, envVars
  <2>2. now' \in 0 .. MaxTime /\ now' >= now /\ faults' \in 0 .. MaxFaults BY <1>0, <2>1
  <2>3. inactive' \in BOOLEAN /\ overdue' \in BOOLEAN BY <1>0, <2>1, Zenon
  <2> QED BY <2>2, <2>3
<1>12. CASE Tick BY <1>0, <1>12, VerificationBounds DEF Tick, webVars
<1>13. CASE Archive
  <2>1. now' = now /\ inactive' = TRUE /\ overdue' = overdue BY <1>13 DEF Archive, webVars
  <2>2. faults' \in 0 .. MaxFaults BY <1>0, <1>13, VerificationBounds DEF Archive, Fault
  <2> QED BY <1>0, <2>1, <2>2
<1> QED BY <1>2, <1>3, <1>6, <1>7, <1>8, <1>9, <1>10, <1>11, <1>12, <1>13 DEF Next

LEMMA JobStep ==
  ASSUME IInv, Next
  PROVE  \A v \in V : JobFacts(v)'
<1> SUFFICES ASSUME NEW v \in V PROVE JobFacts(v)' OBVIOUS
<1>1. /\ JobFacts(v) /\ RowMoves(v)
      /\ JobMoves(v) \/ Added(v)
  BY RowMove, JobMove DEF IInv, Facts, JobGoal
<1>2. CASE Added(v) BY <1>2 DEF Added, JobFacts
<1>3. CASE JobMoves(v) /\ Purged(v)
  <2>1. job'[v].status \in Terminal BY <1>3 DEF JobMoves, Purged, Unpublished, NonTerminal
  <2>2. job'[v].status \notin {"ABSENT", "COMPLETED"}
    BY <1>1, <1>3 DEF JobMoves, Purged, JobFacts, Terminal, Unpublished
  <2>3. /\ now' = MaxTime /\ row'[v].status = "PURGED"
        /\ \A r \in Requests : request'[r].item # v[1]
    BY <1>3 DEF Purged, Quiet
  <2> QED BY <2>1, <2>2, <2>3 DEF JobFacts
<1>4. CASE JobMoves(v) /\ ~Purged(v) /\ ~Added(v)
  <2>1. /\ row'[v].status = "ABSENT" <=> row[v].status = "ABSENT"
        /\ row[v].status = "PUBLISHED" => row'[v].status = "PUBLISHED"
        /\ row'[v].status = "PURGED" => row[v].status = "PURGED"
    BY <1>1, <1>4 DEF RowMoves, Kept, SealRecorded, Checked, Published, Closed, Becomes,
                            NonTerminal, Unpublished
  <2>2. ASSUME row[v].status = "PURGED"
        PROVE  /\ now' = MaxTime /\ job'[v].status \in Terminal
               /\ \A r \in Requests : request'[r].item = v[1] => request'[r].pc # "admit"
    <3>1. now = MaxTime /\ job[v].status \in Terminal
          /\ \A r \in Requests : request[r].item = v[1] => request[r].pc # "admit"
      BY <1>1, <2>2 DEF JobFacts
    <3>2. now' = MaxTime BY <3>1, EnvironmentStep, VerificationBounds
    <3>3. job'[v].status \in Terminal BY <1>4, <2>2, <3>1 DEF JobMoves, NonTerminal
    <3>4. \A r \in Requests : request'[r].item = v[1] => request'[r].pc # "admit"
      <4>1. request \in [Requests -> RequestKind] BY DEF IInv, Kinds, WebKinds
      <4>2. ASSUME NEW s \in Requests, RequestMoves(s)
            PROVE \A r \in Requests : request'[r].item = v[1] => request'[r].pc # "admit"
        <5>1. ASSUME NEW i \in Items, request' = [request EXCEPT ![s] = [pc |-> "asked", item |-> i]]
              PROVE \A r \in Requests : request'[r].item = v[1] => request'[r].pc # "admit"
          BY <3>1, <4>1, <5>1
        <5>2. ASSUME NEW pc \in {"admit", "publish", "link", "check", "remove"}, Goes(s, pc),
                     pc = "admit" => now < ImportDeadline
              PROVE \A r \in Requests : request'[r].item = v[1] => request'[r].pc # "admit"
          <6>1. pc # "admit" BY <3>1, <5>2, VerificationBounds, RetentionAssumption
          <6> QED BY <3>1, <4>1, <5>2, <6>1 DEF Goes, RequestKind
        <5>3. CASE Answered(s) BY <3>1, <4>1, <5>3 DEF Answered, IdleRequest
        <5> QED BY <4>2, <5>1, <5>2, <5>3 DEF RequestMoves
      <4> QED BY <3>1, <4>2, RequestMove
    <3> QED BY <3>2, <3>3, <3>4
  <2> QED BY <1>1, <1>4, <2>1, <2>2 DEF JobFacts, JobMoves
<1> QED BY <1>1, <1>2, <1>3, <1>4

-----------------------------------------------------------------------------
LEMMA InitIInv == Init => IInv
<1> SUFFICES ASSUME Init PROVE IInv OBVIOUS
<1> USE DEF Init
<1>1. RowKinds /\ \A v \in V : row[v].status = "ABSENT"
  BY NoRowKind DEF RowKinds, NoRow
<1>2. AbsentRow \in JobKind /\ AbsentRow.status = "ABSENT"
  BY DEF AbsentRow, JobKind, JobStatus, NoToken
<1>3. JobKinds /\ \A v \in V : job[v].status = "ABSENT" BY <1>2 DEF JobKinds
<1>4. ActorKinds /\ \A a \in Actors : actor[a].pc = "idle"
  BY DEF ActorKinds, ActorKind, IdleActor, Pc, NoToken, Reasons
<1>5. StoreKinds BY VerificationBounds DEF StoreKinds
<1>6. LinkKinds BY VerificationBounds DEF LinkKinds, NoLink
<1>7. WebKinds /\ RequestStanding
  <2>1. IdleRequest \in RequestKind BY DEF IdleRequest, RequestKind
  <2>2. request \in [Requests -> RequestKind] /\ RequestStanding
    BY <2>1 DEF RequestStanding, IdleRequest
  <2>3. 0 \in 0 .. MaxTime /\ 0 \in 0 .. MaxFaults BY VerificationBounds
  <2> QED BY <2>2, <2>3 DEF WebKinds
<1>8. \A v \in V : BodyFacts(v) /\ LinkFacts(v) /\ JobFacts(v)
  BY <1>1, <1>3 DEF BodyFacts, LinkFacts, JobFacts, Exists
<1>9. ScanStanding /\ \A a \in Actors : Standing(a)
  BY <1>4 DEF ScanStanding, Standing, At, Actors
<1>10. ImportFacts BY DEF ImportFacts
<1> QED BY <1>1, <1>3, <1>4, <1>5, <1>6, <1>7, <1>8, <1>9, <1>10 DEF IInv, Kinds, Facts

LEMMA NextIInv == IInv /\ [Next]_vars => IInv'
<1> SUFFICES ASSUME IInv, [Next]_vars PROVE IInv' OBVIOUS
<1>1. CASE Next
  <2>1. Kinds'
    BY <1>1, RowKindsStep, JobMove, ActorStep, StoreKindsStep, LinkStep, RequestsStay, ImportStep,
       EnvironmentStep DEF Kinds, WebKinds, JobGoal
  <2>2. Facts' BY <1>1, BodyStep, LinkStep, JobStep, ActorStep, RequestsStay, ImportStep DEF Facts
  <2> QED BY <2>1, <2>2 DEF IInv
<1>2. CASE UNCHANGED vars
  BY <1>2 DEF vars, envVars, itemVars, rowVars, webVars, IInv, Kinds, Facts, RowKinds, JobKinds,
              ActorKinds, StoreKinds, LinkKinds, WebKinds, BodyFacts, LinkFacts, JobFacts, Standing,
              ScanStanding, RequestStanding, ImportFacts, AllLinked, Exists, At
<1> QED BY <1>1, <1>2

LEMMA IInvariant == Spec => []IInv
BY InitIInv, NextIInv, PTL DEF Spec

-----------------------------------------------------------------------------
(* Whatever deliveries, crashes and cancellations overlap, an Asset on a    *)
(* sealed key is the publication of its row, of the bytes that were hashed. *)
THEOREM AssetsAreProbed == Spec => []PublishedIsProbed
<1>1. ASSUME IInv, NEW v \in V, row[v].status = "PUBLISHED"
      PROVE  /\ sealed[v].body = row[v].hash /\ row[v].hash \notin {"none", "junk"}
             /\ link[v[1]] # NoLink
  <2>1. BodyFacts(v) /\ LinkFacts(v) BY <1>1 DEF IInv, Facts
  <2>2. row[v].source \in Uploads BY <1>1, <2>1 DEF BodyFacts, Exists
  <2>3. row[v].source.body # "none" BY <2>2, VerificationBounds DEF Uploads
  <2> QED BY <1>1, <2>1, <2>3 DEF BodyFacts, LinkFacts, Exists
<1>2. IInv => PublishedIsProbed
  BY <1>1 DEF PublishedIsProbed, IInv, Facts, LinkFacts
<1> QED BY <1>2, IInvariant, PTL

(* A refusal is about junk, and a COMPLETED Job about a publication.        *)
THEOREM OutcomesHold == Spec => []OutcomesAreTrue
<1>1. IInv => OutcomesAreTrue BY DEF IInv, Facts, BodyFacts, JobFacts, OutcomesAreTrue
<1> QED BY <1>1, IInvariant, PTL

(* The commit and the deadline pass decide an import once between them.     *)
THEOREM ImportsEndOnce == Spec => ImportEndsOnce
<1> DEFINE A == /\ import.job # "RUNNING" => import' = import
                /\ import'.status = "COMMITTED" => \A i \in Items : link'[i] # NoLink
<1>1. ASSUME IInv, [Next]_vars PROVE A \/ UNCHANGED vars
  <2>1. CASE Next BY <1>1, <2>1, ImportStep DEF ImportFacts, AllLinked
  <2> QED BY <1>1, <2>1
<1>2. IInv /\ [Next]_vars => [A]_vars BY <1>1
<1> QED BY <1>2, IInvariant, PTL DEF Spec, ImportEndsOnce

(* No late writer changes a terminal row, its sealed bytes or a link.       *)
THEOREM LastWordsStay == Spec => LastWordStays
<1> DEFINE A == /\ \A v \in V : row[v].status \in Ended => row'[v].status \in {row[v].status, "PURGED"}
                /\ \A v \in V : row[v].status = "PUBLISHED" => sealed'[v].body = sealed[v].body
                /\ \A i \in Items : link[i] # NoLink => link'[i] = link[i]
<1>1. ASSUME IInv, Next PROVE A
  <2>1. ASSUME NEW v \in V, row[v].status \in Ended PROVE row'[v].status \in {row[v].status, "PURGED"}
    <3>1. RowMoves(v) BY <1>1, RowMove
    <3> QED BY <2>1, <3>1 DEF RowMoves, Kept, Added, SealRecorded, Checked, Published, Closed, Purged,
                              Becomes, NonTerminal, Ended, Unpublished
  <2>2. ASSUME NEW v \in V, row[v].status = "PUBLISHED" PROVE sealed'[v].body = sealed[v].body
    <3>1. SealMoves(v) /\ BodyFacts(v) BY <1>1, SealMove DEF IInv, Facts
    <3> QED BY <2>2, <3>1 DEF SealMoves, BodyFacts, Exists, Unpublished
  <2> QED BY <1>1, <2>1, <2>2, LinkStep
<1>2. IInv /\ [Next]_vars => [A]_vars BY <1>1
<1> QED BY <1>2, IInvariant, PTL DEF Spec, LastWordStays

(* Only a Job that runs on publishes: a recorded cancellation or a failure  *)
(* is before every publication or comes too late.                           *)
THEOREM CancellationsPrecede == Spec => NothingPublishedAfterCancel
<1> DEFINE A == \A v \in V : row[v].status # "PUBLISHED" /\ row'[v].status = "PUBLISHED"
                  => job[v].status \notin Terminal \union {"CANCELING"}
<1>1. ASSUME IInv, Next PROVE A
  <2>1. ASSUME NEW v \in V, row[v].status # "PUBLISHED", row'[v].status = "PUBLISHED"
        PROVE job[v].status = "RUNNING"
    <3>1. RowMoves(v) BY <1>1, RowMove
    <3> QED BY <2>1, <3>1 DEF RowMoves, Kept, Added, SealRecorded, Checked, Published, Closed, Purged,
                              Becomes, Unpublished
  <2> QED BY <2>1 DEF Terminal
<1>2. IInv /\ [Next]_vars => [A]_vars BY <1>1
<1> QED BY <1>2, IInvariant, PTL DEF Spec, NothingPublishedAfterCancel

-----------------------------------------------------------------------------
(* Tokens and attempts: no two workers hold a verification under the same   *)
(* token, so that a run is charged at most one attempt.                     *)

Holds(w, v, token) == actor[w].pc # "idle" /\ actor[w].v = v /\ actor[w].token = token

Tokens ==
  /\ \A v \in V : job[v].token <= claims[v]
  /\ \A w \in Workers, v \in V, token \in Nat : Holds(w, v, token) => token \in 1 .. claims[v]
  /\ \A w, u \in Workers, v \in V, token \in Nat :
       Holds(w, v, token) /\ Holds(u, v, token) => w = u

Budget ==
  \A v \in V :
    /\ job[v].attempts <= MaxAttempts + 1
    /\ job[v].status \in Claimable => job[v].attempts <= MaxAttempts
    /\ job[v].status = "RUNNING" => \A w \in Workers :
         Holds(w, v, job[v].token) => job[v].attempts <= MaxAttempts

LEMMA WorkerKeepsToken ==
  ASSUME ActorKinds, NEW w \in Workers, VerifierStep(w) \/ OperationalFailure(w) \/ Crash(w)
  PROVE  /\ actor[w].pc # "idle"
         /\ actor'[w].pc = "idle" \/ (actor'[w].v = actor[w].v /\ actor'[w].token = actor[w].token)
         /\ \A b \in Actors \ {w} : actor'[b] = actor[b]
<1> DEFINE Goal == /\ actor'[w].pc = "idle" \/ (actor'[w].v = actor[w].v /\ actor'[w].token = actor[w].token)
                   /\ \A b \in Actors \ {w} : actor'[b] = actor[b]
<1>0. w \in Actors /\ w # Scanner BY ScannerAssumption DEF Actors
<1>1. ASSUME Leave(w) PROVE Goal BY <1>0, <1>1 DEF ActorKinds, Leave, IdleActor
<1>2. ASSUME Again(w) PROVE Goal BY <1>0, <1>2 DEF ActorKinds, Again, Looped
<1>3. ASSUME NEW pc, NEW reason, Deciding(w, pc, reason) PROVE Goal
  BY <1>0, <1>3 DEF ActorKinds, ActorKind, Deciding
<1>4. ASSUME NEW pc, Goto(w, pc) PROVE Goal BY <1>0, <1>4 DEF ActorKinds, ActorKind, Goto
<1>5. ASSUME NEW at, actor' = [actor EXCEPT ![w].pc = "sealing", ![w].at = at] PROVE Goal
  BY <1>0, <1>5 DEF ActorKinds, ActorKind
<1>6. actor[w].pc # "idle"
  BY DEF VerifierStep, Copy, RecordSeal, Probe, PublishGuard, Defer, Publish, Complete,
         Terminalize, Clean, EndJob, OperationalFailure, Crash, At
<1>7. ASSUME Copy(w) PROVE Goal BY <1>3, <1>5, <1>7 DEF Copy
<1>8. ASSUME Probe(w) PROVE Goal BY <1>2, <1>3, <1>8 DEF Probe
<1>9. ASSUME PublishGuard(w) PROVE Goal
  <2>1. \E pc, reason : Deciding(w, pc, reason) BY <1>9 DEF PublishGuard
  <2> QED BY <1>3, <2>1
<1>10. ASSUME Publish(w) PROVE Goal BY <1>1, <1>2, <1>4, <1>10 DEF Publish
<1>11. ASSUME Terminalize(w) PROVE Goal BY <1>0, <1>2, <1>4, <1>11 DEF Terminalize
<1>12. ASSUME RecordSeal(w) \/ Clean(w) PROVE Goal BY <1>2, <1>4, <1>12 DEF RecordSeal, Clean
<1>13. ASSUME Defer(w) \/ Complete(w) \/ EndJob(w) \/ OperationalFailure(w) \/ Crash(w) PROVE Goal
  BY <1>1, <1>13 DEF Defer, Complete, EndJob, OperationalFailure, Crash
<1> QED BY <1>6, <1>7, <1>8, <1>9, <1>10, <1>11, <1>12, <1>13 DEF VerifierStep

(* Nobody else leaves or claims for a worker.                               *)
LEMMA OtherActors ==
  ASSUME ActorKinds, Next
  PROVE  \/ \A w \in Workers : actor'[w] = actor[w]
         \/ \E w \in Workers : \/ VerifierStep(w) \/ OperationalFailure(w) \/ Crash(w)
                             \/ \E v \in V : Claim(w, v)
<1>1. ASSUME NEW i \in Items, Put(i) \/ \E r \in Requests : Ask(r, i) PROVE actor' = actor
  BY <1>1 DEF Put, Ask
<1>2. ASSUME NEW r \in Requests, RequestStep(r) \/ InspectFails(r) \/ RequestDies(r)
      PROVE actor' = actor
  BY <1>2 DEF RequestStep, Inspect, Admit, PublishDirect, LinkDirect, CheckUnpublished,
              RemoveUnpublished, InspectFails, RequestDies
<1>3. ASSUME NEW x, actor' = [actor EXCEPT ![Scanner] = x]
      PROVE \A w \in Workers : actor'[w] = actor[w]
  BY <1>3, ScannerAssumption DEF ActorKinds, Actors
<1>4. ASSUME NEW v \in V, \/ LeaseExpires(v) \/ Recover(v) \/ Cancel(v) \/ Retry(v)
                          \/ Reconcile(v) \/ Purge(v)
      PROVE \A w \in Workers : actor'[w] = actor[w]
  BY <1>3, <1>4 DEF LeaseExpires, Recover, Cancel, Retry, Reconcile, Purge
<1>5. ASSUME ScannerStep \/ ScannerCrash PROVE \A w \in Workers : actor'[w] = actor[w]
  <2>1. Leave(Scanner) \/ \E pc : Goto(Scanner, pc)
    BY <1>5 DEF ScannerStep, Terminalize, Clean, Settle, ScannerCrash
  <2> QED BY <2>1, ScannerAssumption DEF Leave, Goto, ActorKinds, Actors
<1>6. ASSUME WebStep \/ Tick \/ Archive PROVE actor' = actor
  BY <1>6 DEF WebStep, CommitCounts, CommitWrites, ListOverdue, ExpireImport, Tick, Archive
<1> QED BY <1>1, <1>2, <1>4, <1>5, <1>6 DEF Next

LEMMA HoldersMove ==
  ASSUME ActorKinds, Next, NEW w \in Workers, NEW v \in V, NEW token \in Nat, Holds(w, v, token)'
  PROVE  Holds(w, v, token) \/ (Claim(w, v) /\ token = claims[v] + 1)
<1>0. w \in Actors BY DEF Actors
<1>1. CASE actor'[w] = actor[w] BY <1>1 DEF Holds
<1>2. ASSUME NEW u \in Workers, VerifierStep(u) \/ OperationalFailure(u) \/ Crash(u)
      PROVE Holds(w, v, token)
  <2>1. CASE u = w BY <1>2, <2>1, WorkerKeepsToken DEF Holds
  <2>2. CASE u # w
    <3>1. actor'[w] = actor[w] BY <1>0, <1>2, <2>2, WorkerKeepsToken
    <3> QED BY <3>1 DEF Holds
  <2> QED BY <2>1, <2>2
<1>3. ASSUME NEW u \in Workers, NEW x \in V, Claim(u, x)
      PROVE Holds(w, v, token) \/ (Claim(w, v) /\ token = claims[v] + 1)
  <2>1. CASE u = w
    <3>1. actor'[w].v = x /\ actor'[w].token = claims[x] + 1
      BY <1>0, <1>3, <2>1 DEF Claim, Looped, ActorKinds
    <3> QED BY <1>3, <2>1, <3>1 DEF Holds
  <2>2. CASE u # w
    <3>1. actor'[w] = actor[w] BY <1>0, <1>3, <2>2 DEF Claim, Looped, ActorKinds
    <3> QED BY <3>1 DEF Holds
  <2> QED BY <2>1, <2>2
<1> QED BY <1>1, <1>2, <1>3, OtherActors

(* How the attempts and the token of a Job may change: not at all, by a     *)
(* retry that is still in budget, by a claim, or by the worker that holds   *)
(* the token, which then leaves.                                            *)
Steady(j, k) ==
  /\ k.attempts = j.attempts /\ k.token \in {j.token, NoToken}
  /\ k.status = j.status \/ k.status \notin Claimable \union {"RUNNING"}

Retried(j, k) ==
  /\ k.token = NoToken
  /\ k.attempts = 0 \/ (j.attempts < MaxAttempts /\ k.attempts = j.attempts + 1)

LastStep(w, v, j, k) ==
  /\ Holds(w, v, j.token) /\ j.status = "RUNNING" /\ actor'[w].pc = "idle"
  /\ k.token \in {j.token, NoToken}
  /\ \/ k.attempts = j.attempts /\ k.token = NoToken
     \/ k.attempts = j.attempts + 1 /\ k.status \notin Claimable

Spends(v) ==
  \/ Steady(job[v], job'[v]) \/ Retried(job[v], job'[v])
  \/ \E w \in Workers : Claim(w, v) \/ LastStep(w, v, job[v], job'[v])

LEMMA UpdatedFields ==
  ASSUME NEW j \in JobKind
  PROVE  /\ \A outcome : /\ Finished(j, outcome).attempts = j.attempts
                         /\ Finished(j, outcome).token = NoToken
                         /\ Finished(j, outcome).status = outcome
         /\ \A n : /\ BackToRetrying(j, n).attempts = n /\ BackToRetrying(j, n).token = NoToken
                   /\ BackToRetrying(j, n).status = "RETRYING"
         /\ /\ Charged(j).attempts = j.attempts + 1 /\ Charged(j).token = j.token
            /\ Charged(j).status = j.status
BY DEF JobKind, Finished, Unlocked, BackToRetrying, Charged

LEMMA EndedJobSteady ==
  ASSUME NEW j \in JobKind, NEW token, NEW status
  PROVE  Steady(j, EndedJob(j, token, status))
<1> DEFINE asked == [j EXCEPT !.cancelRequested = TRUE]
<1>1. /\ asked \in JobKind /\ asked.attempts = j.attempts /\ asked.token = j.token
      /\ asked.status = j.status
  BY DEF JobKind
<1> HIDE DEF asked
<1>2. /\ Steady(j, asked) /\ Steady(j, j)
      /\ Steady(j, Finished(j, "CANCELED")) /\ Steady(j, Finished(j, "FAILED"))
      /\ Steady(j, Finished(asked, "CANCELED"))
  <2>1. Steady(j, asked) /\ Steady(j, j) BY <1>1 DEF Steady
  <2>2. \A outcome \in {"CANCELED", "FAILED"} : Steady(j, Finished(j, outcome))
    BY UpdatedFields DEF Steady, Claimable
  <2>3. Steady(j, Finished(asked, "CANCELED"))
    BY <1>1, UpdatedFields DEF Steady, Claimable
  <2> QED BY <2>1, <2>2, <2>3
<1>3. EndedJob(j, token, status) \in {j, asked, Finished(j, "CANCELED"), Finished(j, "FAILED"),
                                      Finished(asked, "CANCELED")}
  BY DEF EndedJob, asked
<1> QED BY <1>2, <1>3

LEMMA WorkerSpends ==
  ASSUME IInv, NEW w \in Workers, Defer(w) \/ Complete(w) \/ OperationalFailure(w) \/ EndJob(w)
  PROVE  \A v \in V : Spends(v)
<1>0. /\ job \in [V -> JobKind] /\ Standing(w) /\ actor \in [Actors -> ActorKind] /\ w \in Actors
  BY DEF IInv, Kinds, JobKinds, ActorKinds, Facts, Actors
<1>1. SUFFICES ASSUME NEW v, actor[w].v = v PROVE \A u \in V : Spends(u) OBVIOUS
<1>2. actor[w].pc # "idle" BY DEF Defer, Complete, OperationalFailure, EndJob, At
<1>3. v \in V /\ job[v] \in JobKind BY <1>0, <1>1, <1>2 DEF Standing
<1>4. \A j : Steady(j, j) BY DEF Steady
<1>5. Leave(w) BY DEF Defer, Complete, OperationalFailure, EndJob
<1>6. actor'[w].pc = "idle" BY <1>0, <1>5 DEF Leave, IdleActor
<1>7. ASSUME NEW k, job' = [job EXCEPT ![v] = k],
             Steady(job[v], k) \/ Retried(job[v], k) \/ LastStep(w, v, job[v], k)
      PROVE \A u \in V : Spends(u)
  <2>1. \A u \in V \ {v} : Spends(u) BY <1>0, <1>4, <1>7 DEF Spends
  <2>2. job'[v] = k BY <1>0, <1>3, <1>7
  <2> QED BY <1>7, <2>1, <2>2 DEF Spends
<1>8. CASE job' = job BY <1>4, <1>8 DEF Spends
<1>9. ASSUME job[v].token = actor[w].token PROVE Holds(w, v, job[v].token)
  BY <1>1, <1>2, <1>9 DEF Holds
<1>10. CASE Defer(w)
  <2>1. CASE /\ job[v].token = actor[w].token /\ job[v].status = "RUNNING"
             /\ job' = [job EXCEPT ![v] = BackToRetrying(job[v], job[v].attempts)]
    <3>1. LastStep(w, v, job[v], BackToRetrying(job[v], job[v].attempts))
      BY <1>3, <1>6, <1>9, <2>1, UpdatedFields DEF LastStep
    <3> QED BY <1>7, <2>1, <3>1
  <2> QED BY <1>1, <1>8, <1>10, <2>1 DEF Defer, Mine
<1>11. CASE Complete(w)
  <2>1. Steady(job[v], Finished(job[v], "COMPLETED"))
    BY <1>3, UpdatedFields DEF Steady, Claimable
  <2> QED BY <1>1, <1>7, <1>8, <1>11, <2>1 DEF Complete
<1>12. CASE OperationalFailure(w)
  <2> DEFINE again == BackToRetrying(job[v], job[v].attempts + 1)
             charged == Charged(job[v])
             failed == Finished(charged, "FAILED")
  <2>1. CASE ~(job[v].token = actor[w].token /\ job[v].status = "RUNNING")
    BY <1>1, <1>8, <1>12, <2>1 DEF OperationalFailure, Mine
  <2>2. CASE job[v].token = actor[w].token /\ job[v].status = "RUNNING"
    <3>1. job' = [job EXCEPT ![v] = IF job[v].attempts + 1 < MaxAttempts THEN again
                                    ELSE IF CurrentLease(job[v], actor[w].token) THEN failed ELSE charged]
      BY <1>1, <1>12, <2>2 DEF OperationalFailure, Mine
    <3>2. job[v].attempts + 1 < MaxAttempts => Retried(job[v], again)
      BY <1>3, UpdatedFields, MaxAttemptsAssumption DEF Retried, JobKind
    <3>3. charged \in JobKind BY <1>3, JobUpdates
    <3>4. LastStep(w, v, job[v], charged) /\ LastStep(w, v, job[v], failed)
      BY <1>3, <1>6, <1>9, <2>2, <3>3, UpdatedFields DEF LastStep, Claimable
    <3> HIDE DEF again, charged, failed
    <3> QED BY <1>7, <3>1, <3>2, <3>4
  <2> QED BY <2>1, <2>2
<1>13. CASE EndJob(w)
  <2>1. job' = [job EXCEPT ![v] = EndedJob(job[v], actor[w].token, row[v].status)]
    BY <1>1, <1>13 DEF EndJob
  <2> QED BY <1>3, <1>7, <2>1, EndedJobSteady
<1> QED BY <1>10, <1>11, <1>12, <1>13

LEMMA OtherSpends ==
  ASSUME IInv, NEW u \in V,
         \/ \E w \in Workers : Claim(w, u)
         \/ LeaseExpires(u) \/ Recover(u) \/ Cancel(u) \/ Retry(u)
         \/ Settle /\ actor[Scanner].v = u
  PROVE  \A v \in V : Spends(v)
<1>0. job \in [V -> JobKind] /\ job[u] \in JobKind BY DEF IInv, Kinds, JobKinds
<1>1. \A j : Steady(j, j) BY DEF Steady
<1>2. ASSUME NEW k, job' = [job EXCEPT ![u] = k], Steady(job[u], k) \/ Retried(job[u], k)
      PROVE \A v \in V : Spends(v)
  <2>1. \A v \in V \ {u} : Spends(v) BY <1>0, <1>1, <1>2 DEF Spends
  <2>2. job'[u] = k BY <1>0, <1>2
  <2> QED BY <1>2, <2>1, <2>2 DEF Spends
<1>3. CASE job' = job BY <1>1, <1>3 DEF Spends
<1>4. ASSUME NEW w \in Workers, Claim(w, u) PROVE \A v \in V : Spends(v)
  <2>1. \A v \in V \ {u} : job'[v] = job[v] BY <1>0, <1>4 DEF Claim
  <2> QED BY <1>1, <1>4, <2>1 DEF Spends
<1>5. \A outcome \in {"CANCELED", "FAILED"} : Steady(job[u], Finished(job[u], outcome))
  BY <1>0, UpdatedFields DEF Steady, Claimable
<1>6. CASE LeaseExpires(u)
  <2>1. Steady(job[u], [job[u] EXCEPT !.lease = "expired"]) BY <1>0 DEF Steady, JobKind
  <2> QED BY <1>2, <1>6, <2>1 DEF LeaseExpires
<1>7. CASE Recover(u)
  <2>1. job[u].attempts < MaxAttempts => Retried(job[u], BackToRetrying(job[u], job[u].attempts + 1))
    BY <1>0, UpdatedFields DEF Retried
  <2>2. job' = [job EXCEPT ![u] = IF CanRetryInPlace(job[u], "LEASE")
                                  THEN BackToRetrying(job[u], job[u].attempts + 1)
                                  ELSE Finished(job[u], "FAILED")]
    BY <1>7 DEF Recover
  <2> QED BY <1>2, <1>5, <2>1, <2>2 DEF CanRetryInPlace
<1>8. CASE Cancel(u)
  <2>1. Steady(job[u], [Finished(job[u], "CANCELED") EXCEPT !.cancelRequested = TRUE])
    <3>1. Finished(job[u], "CANCELED") \in JobKind
      BY <1>0, JobUpdates DEF JobStatus, Terminal
    <3> QED BY <1>5, <3>1 DEF Steady, JobKind
  <2>2. Steady(job[u], [job[u] EXCEPT !.status = "CANCELING", !.cancelRequested = TRUE])
    BY <1>0 DEF Steady, JobKind, Claimable
  <2>3. job' = [job EXCEPT ![u] = CancelRow(job[u], job[u].status)] BY <1>8 DEF Cancel
  <2> QED BY <1>2, <2>1, <2>2, <2>3 DEF CancelRow
<1>9. CASE Retry(u)
  <2>1. QueuedRow.token = NoToken BY DEF QueuedRow, AbsentRow
  <2>2. Retried(job[u], QueuedRow) BY <2>1, QueuedKind DEF Retried
  <2> QED BY <1>2, <1>9, <2>2 DEF Retry
<1>10. CASE Settle /\ actor[Scanner].v = u
  <2>1. job' = job \/ \E outcome \in {"CANCELED", "FAILED"} : job' = [job EXCEPT ![u] = Finished(job[u], outcome)]
    BY <1>10 DEF Settle
  <2> QED BY <1>2, <1>3, <1>5, <2>1
<1> QED BY <1>4, <1>6, <1>7, <1>8, <1>9, <1>10

LEMMA JobSpends ==
  ASSUME IInv, Next
  PROVE  \A v \in V : Spends(v)
<1>0. job \in [V -> JobKind] BY DEF IInv, Kinds, JobKinds
<1>1. CASE job' = job BY <1>1 DEF Spends, Steady
<1>2. ASSUME NEW i \in Items, Put(i) \/ \E r \in Requests : Ask(r, i) PROVE job' = job
  BY <1>2 DEF Put, Ask, rowVars
<1>3. ASSUME NEW r \in Requests, Admit(r) PROVE \A v \in V : Spends(v)
  <2>1. ASSUME NEW u \in V, Admitted(r, u) PROVE \A v \in V : Spends(v)
    <3>1. job' = [job EXCEPT ![u] = QueuedRow] BY <2>1 DEF Admitted
    <3>2. QueuedRow.token = NoToken BY DEF QueuedRow, AbsentRow
    <3>3. Retried(job[u], QueuedRow) BY <3>2, QueuedKind DEF Retried
    <3> QED BY <1>0, <3>1, <3>3 DEF Spends, Steady
  <2> QED BY <1>1, <1>3, <2>1, AdmitAdds DEF IInv, Kinds
<1>4. ASSUME NEW r \in Requests, RequestStep(r) \/ InspectFails(r) \/ RequestDies(r)
      PROVE job' = job \/ Admit(r)
  BY <1>4 DEF RequestStep, Inspect, PublishDirect, LinkDirect, CheckUnpublished,
              RemoveUnpublished, InspectFails, RequestDies, rowVars
<1>5. ASSUME NEW w \in Workers, Crash(w) PROVE \A v \in V : Spends(v)
  <2>1. \A v \in V : job'[v] \in {job[v], [job[v] EXCEPT !.lease = "expired"]} BY <1>5 DEF Crash
  <2>2. \A v \in V : Steady(job[v], job[v]) /\ Steady(job[v], [job[v] EXCEPT !.lease = "expired"])
    BY <1>0 DEF Steady, JobKind
  <2> QED BY <2>1, <2>2 DEF Spends
<1>6. ASSUME NEW w \in Workers, VerifierStep(w) \/ OperationalFailure(w)
      PROVE job' = job \/ \A v \in V : Spends(v)
  BY <1>6, WorkerSpends DEF VerifierStep, Copy, RecordSeal, Probe, PublishGuard, Publish,
                            Terminalize, Clean, rowVars
<1>7. ASSUME NEW u \in V, \/ \E w \in Workers : Claim(w, u)
                          \/ LeaseExpires(u) \/ Recover(u) \/ Cancel(u) \/ Retry(u)
      PROVE \A v \in V : Spends(v)
  BY <1>7, OtherSpends
<1>8. ASSUME NEW u \in V, Reconcile(u) \/ Purge(u) PROVE job' = job
  BY <1>8 DEF Reconcile, Purge, rowVars
<1>9. ASSUME ScannerStep \/ ScannerCrash PROVE job' = job \/ \A v \in V : Spends(v)
  <2>1. CASE Settle
    <3>1. actor[Scanner].v \in V BY <2>1 DEF Settle, At, Standing, IInv, Facts, Actors
    <3> QED BY <2>1, <3>1, OtherSpends
  <2> QED BY <1>9, <2>1 DEF ScannerStep, Terminalize, Clean, ScannerCrash, rowVars
<1>10. ASSUME WebStep \/ Tick \/ Archive PROVE job' = job
  BY <1>10 DEF WebStep, CommitCounts, CommitWrites, ListOverdue, ExpireImport, Tick, Archive, rowVars
<1> QED BY <1>1, <1>2, <1>3, <1>4, <1>5, <1>6, <1>7, <1>8, <1>9, <1>10 DEF Next

LEMMA ClaimsMove ==
  ASSUME claims \in [V -> Nat], Next
  PROVE  /\ \A v \in V : claims'[v] \in Nat /\ claims'[v] >= claims[v]
         /\ \A v \in V, w \in Workers : Claim(w, v) => claims'[v] = claims[v] + 1
<1>1. CASE claims' = claims
  <2>1. ASSUME NEW v \in V, NEW w \in Workers, Claim(w, v) PROVE FALSE
    <3>1. claims'[v] = claims[v] + 1 BY <2>1 DEF Claim
    <3> QED BY <1>1, <2>1, <3>1
  <2> QED BY <1>1, <2>1
<1>2. ASSUME NEW u \in V, NEW x \in Workers, Claim(x, u)
      PROVE  /\ \A v \in V : claims'[v] \in Nat /\ claims'[v] >= claims[v]
             /\ \A v \in V, w \in Workers : Claim(w, v) => claims'[v] = claims[v] + 1
  BY <1>2 DEF Claim
<1>3. ASSUME NEW i \in Items, Put(i) \/ \E r \in Requests : Ask(r, i) PROVE claims' = claims
  BY <1>3 DEF Put, Ask, rowVars
<1>4. ASSUME NEW r \in Requests, RequestStep(r) \/ InspectFails(r) \/ RequestDies(r)
      PROVE claims' = claims
  BY <1>4 DEF RequestStep, Inspect, Admit, PublishDirect, LinkDirect, CheckUnpublished,
              RemoveUnpublished, InspectFails, RequestDies, rowVars
<1>5. ASSUME NEW w \in Workers, VerifierStep(w) \/ OperationalFailure(w) \/ Crash(w)
      PROVE claims' = claims
  BY <1>5 DEF VerifierStep, Copy, RecordSeal, Probe, PublishGuard, Defer, Publish, Complete,
              Terminalize, Clean, EndJob, OperationalFailure, Crash, rowVars
<1>6. ASSUME NEW v \in V, \/ LeaseExpires(v) \/ Recover(v) \/ Cancel(v) \/ Retry(v)
                          \/ Reconcile(v) \/ Purge(v)
      PROVE claims' = claims
  BY <1>6 DEF LeaseExpires, Recover, Cancel, Retry, Reconcile, Purge, rowVars
<1>7. ASSUME ScannerStep \/ ScannerCrash PROVE claims' = claims
  BY <1>7 DEF ScannerStep, Terminalize, Clean, Settle, ScannerCrash, rowVars
<1>8. ASSUME WebStep \/ Tick \/ Archive PROVE claims' = claims
  BY <1>8 DEF WebStep, CommitCounts, CommitWrites, ListOverdue, ExpireImport, Tick, Archive, rowVars
<1> QED BY <1>1, <1>2, <1>3, <1>4, <1>5, <1>6, <1>7, <1>8 DEF Next

(* The row says who has claimed it.                                         *)
LEMMA ClaimLocks ==
  ASSUME job \in [V -> JobKind], NEW v \in V, NEW w \in Workers, Claim(w, v)
  PROVE  job'[v].lockedBy = w
BY DEF Claim, Claimed, JobKind

(* A token in use stays with the one worker that drew it, and only that     *)
(* worker, while it runs, may spend the last attempt but one.               *)
LEMMA BudgetStep ==
  ASSUME IInv, Tokens, Budget, Next
  PROVE  Tokens' /\ Budget'
<1> DEFINE Held(w, v, token) ==
             actor'[w].pc # "idle" /\ actor'[w].v = v /\ actor'[w].token = token
<1>0. /\ job \in [V -> JobKind] /\ claims \in [V -> Nat] /\ ActorKinds
      /\ actor \in [Actors -> ActorKind]
  BY DEF IInv, Kinds, JobKinds, ActorKinds
<1>1. job' \in [V -> JobKind] BY JobMove DEF JobGoal, JobKinds
<1>2. /\ \A v \in V : claims'[v] \in Nat /\ claims'[v] >= claims[v]
      /\ \A v \in V, w \in Workers : Claim(w, v) => claims'[v] = claims[v] + 1
  BY <1>0, ClaimsMove
<1>3. ASSUME NEW w \in Workers, NEW v \in V, NEW token \in Nat, Held(w, v, token)
      PROVE  /\ token \in 1 .. claims'[v]
             /\ Holds(w, v, token) \/ (Claim(w, v) /\ token = claims[v] + 1)
  <2>1. Holds(w, v, token) \/ (Claim(w, v) /\ token = claims[v] + 1)
    BY <1>0, <1>3, HoldersMove DEF Holds
  <2>2. CASE Holds(w, v, token)
    <3>1. token \in 1 .. claims[v] BY <2>2 DEF Tokens
    <3> QED BY <1>0, <1>2, <2>1, <3>1
  <2>3. CASE Claim(w, v) /\ token = claims[v] + 1
    BY <1>0, <1>2, <2>1, <2>3
  <2> QED BY <2>1, <2>2, <2>3
<1>4. ASSUME NEW v \in V PROVE job'[v].token <= claims'[v]
  <2>0. job[v].token <= claims[v] /\ claims[v] \in Nat /\ claims'[v] \in Nat /\ claims'[v] >= claims[v]
        /\ job[v].token \in Nat
    BY <1>0, <1>2 DEF Tokens, JobKind
  <2>1. CASE \E w \in Workers : Claim(w, v)
    <3>1. job'[v].token = claims[v] + 1 BY <1>0, <2>1 DEF Claim, Claimed, JobKind
    <3> QED BY <1>2, <2>0, <2>1, <3>1
  <2>2. CASE job'[v].token \in {job[v].token, NoToken} BY <2>0, <2>2 DEF NoToken
  <2> QED BY <2>1, <2>2, JobSpends DEF Spends, Steady, Retried, LastStep
<1>5. Tokens'
  <2>1. ASSUME NEW w \in Workers, NEW u \in Workers, NEW v \in V, NEW token \in Nat,
               Held(w, v, token), Held(u, v, token)
        PROVE w = u
    <3>1. CASE Holds(w, v, token) /\ Holds(u, v, token) BY <3>1 DEF Tokens
    <3>2. CASE Claim(w, v) /\ Claim(u, v) BY <1>0, <3>2, ClaimLocks
    <3>3. \A x \in Workers : Holds(x, v, token) => token # claims[v] + 1
      BY <1>0 DEF Tokens
    <3> QED BY <1>3, <2>1, <3>1, <3>2, <3>3
  <2> QED BY <1>3, <1>4, <2>1 DEF Tokens, Holds
<1>6. ASSUME NEW v \in V
      PROVE /\ job'[v].attempts <= MaxAttempts + 1
            /\ job'[v].status \in Claimable => job'[v].attempts <= MaxAttempts
            /\ job'[v].status = "RUNNING" => \A w \in Workers :
                 Held(w, v, job'[v].token) => job'[v].attempts <= MaxAttempts
  <2>0. /\ job[v].attempts \in Nat /\ job'[v].attempts \in Nat /\ MaxAttempts \in Nat
        /\ job[v].token \in Nat /\ job'[v].token \in Nat
    BY <1>0, <1>1, MaxAttemptsAssumption DEF JobKind
  <2>1. CASE Steady(job[v], job'[v])
    <3>1. job[v].attempts <= MaxAttempts + 1
          /\ (job[v].status \in Claimable => job[v].attempts <= MaxAttempts)
      BY DEF Budget
    <3>2. ASSUME job'[v].status = "RUNNING", NEW w \in Workers, Held(w, v, job'[v].token)
          PROVE job[v].attempts <= MaxAttempts
      <4>1. job[v].status = "RUNNING" BY <2>1, <3>2 DEF Steady
      <4>2. job'[v].token # 0 BY <1>3, <2>0, <3>2
      <4>3. job'[v].token = job[v].token BY <2>1, <4>2 DEF Steady, NoToken
      <4>4. job[v].token # claims[v] + 1 BY <1>0, <2>0 DEF Tokens
      <4>5. Holds(w, v, job[v].token) BY <1>3, <2>0, <3>2, <4>3, <4>4
      <4> QED BY <4>1, <4>5 DEF Budget
    <3> QED BY <2>1, <3>1, <3>2 DEF Steady
  <2>2. CASE Retried(job[v], job'[v])
    <3>1. job'[v].attempts <= MaxAttempts BY <2>0, <2>2 DEF Retried
    <3> QED BY <2>0, <3>1
  <2>3. ASSUME NEW w \in Workers, Claim(w, v) PROVE job'[v].attempts <= MaxAttempts
    <3>1. job[v].status \in Claimable /\ job'[v].attempts = job[v].attempts
      BY <1>0, <2>3 DEF Claim, CanClaim, Claimed, JobKind
    <3> QED BY <3>1 DEF Budget
  <2>4. ASSUME NEW w \in Workers, LastStep(w, v, job[v], job'[v])
        PROVE /\ job'[v].attempts <= MaxAttempts + 1
              /\ job'[v].status \in Claimable => job'[v].attempts <= MaxAttempts
              /\ \A u \in Workers : ~Held(u, v, job'[v].token)
    <3>1. job[v].attempts <= MaxAttempts BY <2>4 DEF LastStep, Budget
    <3>2. ASSUME NEW u \in Workers, Held(u, v, job'[v].token) PROVE FALSE
      <4>1. job'[v].token # 0 BY <1>3, <2>0, <3>2
      <4>2. job'[v].token = job[v].token BY <2>4, <4>1 DEF LastStep, NoToken
      <4>3. job[v].token # claims[v] + 1 BY <1>0, <2>0 DEF Tokens
      <4>4. Holds(u, v, job[v].token) BY <1>3, <2>0, <3>2, <4>2, <4>3
      <4>5. u = w BY <2>0, <2>4, <4>4 DEF LastStep, Tokens
      <4> QED BY <2>4, <3>2, <4>5 DEF LastStep
    <3> QED BY <2>0, <2>4, <3>1, <3>2 DEF LastStep
  <2> QED BY <2>0, <2>1, <2>2, <2>3, <2>4, JobSpends DEF Spends
<1>7. Budget' BY <1>6 DEF Budget, Holds
<1> QED BY <1>5, <1>7

LEMMA InitBudget == Init => Tokens /\ Budget
<1> SUFFICES ASSUME Init PROVE Tokens /\ Budget OBVIOUS
<1>1. \A v \in V : /\ job[v].token = 0 /\ claims[v] = 0 /\ job[v].attempts = 0
  BY DEF Init, AbsentRow, NoToken
<1>2. \A w \in Workers, v \in V, token \in Nat : ~Holds(w, v, token)
  BY DEF Init, Holds, IdleActor, Actors
<1> QED BY <1>1, <1>2, MaxAttemptsAssumption DEF Tokens, Budget

(* Every column keeps its type; the attempts of a Job exceed the budget by  *)
(* one at most, whichever of its workers and passes charge them.            *)
THEOREM VerificationTypesHold == Spec => []TypeOK
<1>1. IInv /\ Tokens /\ Budget => TypeOK
  <2> SUFFICES ASSUME IInv, Budget PROVE TypeOK OBVIOUS
  <2>1. ASSUME NEW v \in V PROVE job[v] \in Row
    <3>1. job[v] \in JobKind /\ job[v].attempts <= MaxAttempts + 1
      BY DEF IInv, Kinds, JobKinds, Budget
    <3> QED BY <3>1, MaxAttemptsAssumption DEF JobKind, Row
  <2>2. job \in [V -> Row] BY <2>1 DEF IInv, Kinds, JobKinds
  <2> QED BY <2>2 DEF IInv, Kinds, RowKinds, JobKinds, ActorKinds, StoreKinds, LinkKinds, WebKinds,
                      VerificationRow, ActorKind, RequestKind, TypeOK
<1>2. IInv /\ Tokens /\ Budget /\ [Next]_vars => (Tokens /\ Budget)'
  <2> SUFFICES ASSUME IInv, Tokens, Budget, [Next]_vars PROVE (Tokens /\ Budget)' OBVIOUS
  <2>1. CASE UNCHANGED vars
    BY <2>1 DEF vars, rowVars, Tokens, Budget, Holds
  <2> QED BY <2>1, BudgetStep
<1> QED BY <1>1, <1>2, InitBudget, IInvariant, PTL DEF Spec

=============================================================================
