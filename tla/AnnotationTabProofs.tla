------------------------ MODULE AnnotationTabProofs ------------------------
(* Theorems of AnnotationReview about the labelers' browsers: what a key of *)
(* the autosave registry reports, what the save barrier lets through, and   *)
(* what a save overwrites; and that the whole implements ReviewedDocument;  *)
(* for any number of users, annotations and edits.                          *)
EXTENDS AnnotationReviewProofs

Flights == Shapes \X Slots

-----------------------------------------------------------------------------
(* Each request sits under its key; a timer runs for a task not yet sent.   *)
Kinds(slot) == IF slot = "edit" THEN {"geo", "lab"} ELSE {slot}

Keyed(t) ==
  /\ \A s \in Shapes : t.task[s] # None => t.task[s].shape = s /\ t.task[s].kind \in Kinds("edit")
  /\ \A k \in Flights : t.flight[k] # None =>
       t.flight[k].request.shape = k[1] /\ t.flight[k].request.kind \in Kinds(k[2])
  /\ \A s \in t.timer : /\ t.task[s] # None
                        /\ t.flight[<<s, "edit">>] # None => t.flight[<<s, "edit">>].request # t.task[s]

(* A task is the latest edit of its annotation, and no edit has two values. *)
Numbered(t) ==
  /\ \A s \in Shapes : /\ t.mine[s].geo <= used.edits /\ t.mine[s].lab <= used.edits
                       /\ t.draft[s] <= used.edits
                       /\ t.task[s] # None => t.task[s].value >= 1 /\ t.task[s].value = Larger(t.mine[s])
  /\ \A k \in Flights : t.flight[k] # None =>
       /\ t.flight[k].request.value <= used.edits
       /\ IF k[2] = "delete" THEN t.flight[k].request.value = 0 ELSE t.flight[k].request.value >= 1
  /\ \A s \in Shapes : t.task[s] # None /\ t.flight[<<s, "edit">>] # None
       /\ t.flight[<<s, "edit">>].request.value = t.task[s].value
         => t.flight[<<s, "edit">>].request = t.task[s]

(* What was answered "saved" is stored, and a key says no more than that.   *)
Truthful(t) ==
  /\ \A k \in Flights : t.flight[k] # None /\ t.flight[k].answer = "saved"
       => t.flight[k].request.value \in stored
  /\ \A s \in Shapes : /\ t.state[s] = "saved" => Larger(t.mine[s]) \in stored
                       /\ t.state[s] = "conflict" => t.draft[s] # 0

(* A barrier that has heard no refusal waits for every draft not stored.    *)
Awaited(t) ==
  t.barrier # None /\ t.barrier.ok =>
    \A q \in t.barrier.drafts :
      \/ q.value \in stored
      \/ /\ <<q.shape, "edit">> \in t.barrier.waits /\ t.flight[<<q.shape, "edit">>] # None
         /\ t.flight[<<q.shape, "edit">>].request = q

TabInv ==
  /\ stored \subseteq 0 .. used.edits
  /\ \A c \in Labelers : /\ Keyed(tab[c]) /\ Numbered(tab[c])
                         /\ Truthful(tab[c]) /\ Awaited(tab[c])

-----------------------------------------------------------------------------
(* While no answer is lost, a value is asked for under one key of one tab   *)
(* until it is answered, and is stored when it is answered "saved".         *)
Asks(t, s, v) ==
  \/ t.task[s] # None /\ t.task[s].value = v
  \/ \E slot \in {"edit", "create"} : t.flight[<<s, slot>>] # None /\ t.flight[<<s, slot>>].request.value = v

Apart(t) ==
  \A s \in Shapes : t.flight[<<s, "create">>] # None =>
    /\ t.task[s] # None => t.task[s].value # t.flight[<<s, "create">>].request.value
    /\ t.flight[<<s, "edit">>] # None =>
         t.flight[<<s, "edit">>].request.value # t.flight[<<s, "create">>].request.value

AskedOnce ==
  /\ \A c, d \in Labelers : \A r, s \in Shapes : \A v \in 1 .. MaxEdits :
       Asks(tab[c], r, v) /\ Asks(tab[d], s, v) => c = d /\ r = s
  /\ \A c \in Labelers : Apart(tab[c])

Unsent(t, s) == /\ t.task[s] # None
                /\ t.flight[<<s, "edit">>] # None => t.flight[<<s, "edit">>].request # t.task[s]

Unstored(t) ==
  /\ \A s \in Shapes : Unsent(t, s) => t.task[s].value \notin stored
  /\ \A k \in Flights : t.flight[k] # None /\ k[2] # "delete" /\ t.flight[k].answer # "saved"
       => t.flight[k].request.value \notin stored
  /\ \A s \in Shapes : t.draft[s] # 0 => t.draft[s] \notin stored

(* Nobody asks again for a value that was refused. *)
Closed == \A c, d \in Labelers : \A r, s \in Shapes : tab[c].draft[s] # 0 => ~ Asks(tab[d], r, tab[c].draft[s])

NotYetStored == used.others = 0 => Closed /\ \A c \in Labelers : Unstored(tab[c])

-----------------------------------------------------------------------------
(* What a browser has received of an annotation, and what its requests say  *)
(* they are based on.                                                       *)
Was(p, s) ==
  s \notin used.reborn /\ p # None /\ row[s] # None =>
    /\ p.revision <= row[s].revision
    /\ p.revision = row[s].revision => p = row[s]

Based(q) == q.kind # "create" => \/ q.revision = 0
                                 \/ q.base # None /\ q.revision = q.base.revision

Received(t) ==
  /\ \A s \in Shapes :
       /\ Was(t.known[s], s)
       /\ t.shown[s] # None => \/ t.shown[s].revision = 0
                               \/ t.known[s] # None /\ t.shown[s].revision = t.known[s].revision
       /\ t.task[s] # None => Based(t.task[s]) /\ Was(t.task[s].base, s)
  /\ \A k \in Flights : t.flight[k] # None =>
       /\ Based(t.flight[k].request) /\ Was(t.flight[k].request.base, k[1])
       /\ Was(t.flight[k].reply, k[1])

(* Nobody has heard of an annotation that never existed. *)
Unheard(t, s) ==
  /\ t.known[s] = None /\ (t.task[s] # None => t.task[s].base = None)
  /\ \A slot \in Slots : t.flight[<<s, slot>>] # None =>
       t.flight[<<s, slot>>].reply = None /\ t.flight[<<s, slot>>].request.base = None
Unborn(s) == row[s] = None /\ \A d \in Labelers : Unheard(tab[d], s)

Creates(c, s) == tab[c].flight[<<s, "create">>] # None

Origins ==
  /\ \A s \in Shapes : row[s] # None => row[s].revision >= 1
  /\ \A c \in Labelers : Received(tab[c])
  /\ \A s \in Shapes \ used.ids : Unborn(s) /\ \A c \in Labelers : ~ Creates(c, s)
  /\ \A c \in Labelers : \A s \in Shapes : Creates(c, s) =>
       /\ tab[c].flight[<<s, "create">>].request.value \notin stored => Unborn(s)
       /\ \A d \in Labelers : Creates(d, s) => d = c

-----------------------------------------------------------------------------
(* The ways a tab is changed, field by field.                               *)

Screen(t, u) == u.shown = t.shown /\ u.known = t.known /\ u.creating = t.creating
Keys(t, u) == /\ u.task = t.task /\ u.timer = t.timer /\ u.flight = t.flight
              /\ u.state = t.state /\ u.draft = t.draft /\ u.mine = t.mine

New(q) == [request |-> q, answer |-> "none", reply |-> None]

(* The tasks of S are sent. *)
Sends(t, u, S) ==
  /\ Screen(t, u) /\ u.task = t.task /\ u.draft = t.draft /\ u.mine = t.mine
  /\ u.timer \subseteq t.timer \ S
  /\ S \subseteq Shapes /\ \A s \in S : t.task[s] # None /\ t.flight[<<s, "edit">>] = None
  /\ \A k \in Flights : u.flight[k] = IF k[1] \in S /\ k[2] = "edit" THEN New(t.task[k[1]]) ELSE t.flight[k]
  /\ \A s \in Shapes : u.state[s] = IF s \in S THEN "saving" ELSE t.state[s]

(* A request that has no task is sent. *)
Launches(t, u, k, q) ==
  /\ u.known = t.known /\ u.task = t.task /\ u.timer = t.timer /\ u.state = t.state
  /\ u.draft = t.draft /\ u.mine = t.mine /\ u.barrier = t.barrier
  /\ u.flight = [t.flight EXCEPT ![k] = New(q)]
  /\ \A s \in Shapes : u.shown[s] = t.shown[s] \/ (s = k[1] /\ u.shown[s].revision = 0)

(* A request in flight is answered, or its answer lost. *)
Answers(t, u, k, answer, reply) ==
  /\ Screen(t, u) /\ u.task = t.task /\ u.timer = t.timer /\ u.state = t.state
  /\ u.draft = t.draft /\ u.mine = t.mine /\ u.barrier = t.barrier
  /\ t.flight[k] # None /\ u.flight[k] # None
  /\ u.flight = [t.flight EXCEPT ![k] = u.flight[k]]
  /\ u.flight[k].request = t.flight[k].request
  /\ u.flight[k].answer = answer /\ u.flight[k].reply = reply

LEMMA TabTyped ==
  ASSUME TypeOK, NEW c \in Labelers
  PROVE  tab[c] \in Tab /\ c \in Users
BY DEF TypeOK, Labelers

LEMMA FlightTyped ==
  ASSUME NEW t \in Tab, NEW k \in Flights, t.flight[k] # None
  PROVE  /\ t.flight[k] \in Flight /\ t.flight[k].request \in Request
         /\ t.flight[k].answer \in Answer /\ t.flight[k].reply \in Row \union {None}
BY DEF Tab, Flight, Flights

LEMMA NewFlight == \A q \in Request : New(q) \in Flight /\ New(q) # None
BY NoneAssumption DEF New, Flight, Answer

LEMMA OneTab ==
  ASSUME TypeOK, NEW c \in Labelers, NEW t, tab' = [tab EXCEPT ![c] = t]
  PROVE  /\ tab'[c] = t /\ \A d \in Users : d # c => tab'[d] = tab[d]
         /\ Labelers' \subseteq Labelers
         /\ t \in Tab => tab' \in [Users -> Tab \union {None}]
BY DEF TypeOK, Labelers

LEMMA ServeTab ==
  ASSUME TypeOK, NEW c \in Labelers, NEW k \in Flights, NEW answer \in Answer, NEW reply \in Row \union {None},
         tab[c].flight[k] # None,
         tab' = [tab EXCEPT ![c].flight[k].answer = answer, ![c].flight[k].reply = reply]
  PROVE  /\ tab' = [tab EXCEPT ![c] = tab'[c]] /\ tab'[c] \in Tab
         /\ Answers(tab[c], tab'[c], k, answer, reply)
<1> DEFINE t == tab[c]
           u == tab'[c]
<1>1. t \in Tab /\ t.flight[k] \in Flight /\ tab \in [Users -> Tab \union {None}] /\ c \in Users
  BY TabTyped, FlightTyped DEF TypeOK
<1>2. u \in Tab
  BY <1>1 DEF Tab, Flights, Flight
<1>3. tab' = [tab EXCEPT ![c] = u]
  BY <1>1 DEF Tab, Flights, Flight
<1>4. /\ u.shown = t.shown /\ u.known = t.known /\ u.creating = t.creating /\ u.task = t.task
      /\ u.timer = t.timer /\ u.state = t.state /\ u.draft = t.draft /\ u.mine = t.mine
      /\ u.barrier = t.barrier
  BY <1>1 DEF Tab, Flights, Flight
<1>5. u.flight = [t.flight EXCEPT ![k] = u.flight[k]]
  BY <1>1 DEF Tab, Flights, Flight
<1>6. /\ u.flight[k] \in Flight
      /\ u.flight[k].request = t.flight[k].request
      /\ u.flight[k].answer = answer /\ u.flight[k].reply = reply
  BY <1>1 DEF Tab, Flights, Flight
<1>7. u.flight[k] # None
  BY <1>6, NoneAssumption
<1> HIDE DEF t, u
<1>8. Answers(t, u, k, answer, reply)
  BY <1>4, <1>5, <1>6, <1>7 DEF Answers, Screen, t
<1>9. QED BY <1>2, <1>3, <1>8 DEF t, u

LEMMA LoseTab ==
  ASSUME TypeOK, NEW c \in Labelers, NEW k \in Flights, LoseAnswer(c, k)
  PROVE  /\ tab' = [tab EXCEPT ![c] = tab'[c]] /\ tab'[c] \in Tab
         /\ \E a \in {"lost", "none"} : Answers(tab[c], tab'[c], k, a, tab[c].flight[k].reply)
<1> DEFINE t == tab[c]
           r == t.flight[k].reply
<1>1. t \in Tab /\ t.flight[k] # None /\ t.flight[k] \in Flight /\ r \in Row \union {None}
  BY TabTyped, FlightTyped DEF LoseAnswer
<1>2. PICK a \in {"lost", "none"} : tab' = [tab EXCEPT ![c].flight[k].answer = a]
  BY DEF LoseAnswer
<1>5. tab' = [tab EXCEPT ![c].flight[k].answer = a, ![c].flight[k].reply = r]
  BY <1>1, <1>2 DEF TypeOK, Tab, Labelers, Flights, Flight
<1>6. QED BY <1>1, <1>5, ServeTab DEF Answer

-----------------------------------------------------------------------------
(* The bounds.                                                              *)
UsedOK == used \in [edits: 0 .. MaxEdits, starts: 0 .. MaxStarts, others: 0 .. MaxOthers,
                    ids: SUBSET Shapes, reborn: SUBSET Shapes]

LEMMA SpendUsed ==
  ASSUME UsedOK
  PROVE  /\ Spend("edits", MaxEdits) =>
              /\ used' \in [edits: 0 .. MaxEdits, starts: 0 .. MaxStarts, others: 0 .. MaxOthers,
                            ids: SUBSET Shapes, reborn: SUBSET Shapes]
              /\ used'.edits = used.edits + 1 /\ used'.others = used.others
              /\ used'.ids = used.ids /\ used'.reborn = used.reborn
         /\ Spend("starts", MaxStarts) =>
              /\ used' \in [edits: 0 .. MaxEdits, starts: 0 .. MaxStarts, others: 0 .. MaxOthers,
                            ids: SUBSET Shapes, reborn: SUBSET Shapes]
              /\ used'.edits = used.edits /\ used'.others = used.others
              /\ used'.ids = used.ids /\ used'.reborn = used.reborn
         /\ Spend("others", MaxOthers) =>
              /\ used' \in [edits: 0 .. MaxEdits, starts: 0 .. MaxStarts, others: 0 .. MaxOthers,
                            ids: SUBSET Shapes, reborn: SUBSET Shapes]
              /\ used'.edits = used.edits /\ used'.others = used.others + 1
              /\ used'.ids = used.ids /\ used'.reborn = used.reborn
BY ReviewBoundsAssumption DEF UsedOK, Spend

LEMMA NewIdUsed ==
  ASSUME UsedOK, NEW s \in Shapes, NewId(s)
  PROVE  /\ UsedOK'
         /\ used'.edits = used.edits + 1 /\ used'.others = used.others
         /\ used'.ids = used.ids \union {s} /\ used'.reborn = used.reborn /\ s \notin used.ids
<1>1. s \notin used.ids /\ used.edits < MaxEdits
      /\ used' = [used EXCEPT !.edits = used.edits + 1, !.ids = used.ids \union {s}]
  BY DEF NewId
<1>2. used.edits + 1 \in 0 .. MaxEdits /\ used.ids \union {s} \in SUBSET Shapes
  BY <1>1, ReviewBoundsAssumption DEF UsedOK
<1>3. UsedOK'
  BY <1>1, <1>2 DEF UsedOK
<1>4. /\ used'.edits = used.edits + 1 /\ used'.others = used.others
      /\ used'.ids = used.ids \union {s} /\ used'.reborn = used.reborn
  BY <1>1 DEF UsedOK
<1>5. QED BY <1>1, <1>3, <1>4

LEMMA ServeUsed ==
  ASSUME UsedOK, NEW q \in Request, used' = [used EXCEPT !.reborn = @ \union Reborn(q)]
  PROVE  /\ UsedOK'
         /\ used'.edits = used.edits /\ used'.others = used.others
         /\ used'.ids = used.ids /\ used'.reborn = used.reborn \union Reborn(q)
BY DEF UsedOK, Reborn, Request

-----------------------------------------------------------------------------
LEMMA DrawTab ==
  ASSUME TypeOK, NEW c \in Labelers, NEW s \in Shapes, Draw(c, s)
  PROVE  /\ tab' = [tab EXCEPT ![c] = tab'[c]] /\ tab'[c] \in Tab
         /\ \E q \in Request :
              /\ q.kind = "create" /\ q.shape = s /\ q.revision = 0 /\ q.base = None
              /\ q.value = used.edits + 1
              /\ Launches(tab[c], tab'[c], <<s, "create">>, q)
<1> DEFINE t == tab[c]
           u == tab'[c]
           k == <<s, "create">>
           q == [kind |-> "create", shape |-> s, revision |-> 0, value |-> used'.edits, base |-> None]
<1>1. t \in Tab /\ tab \in [Users -> Tab \union {None}] /\ c \in Users /\ UsedOK
  BY TabTyped DEF TypeOK, UsedOK
<1>2. used'.edits = used.edits + 1 /\ used'.edits \in 0 .. MaxEdits
  BY <1>1, NewIdUsed DEF Draw, UsedOK
<1>3. q \in Request /\ k \in Flights /\ New(q) \in Flight
  BY <1>2, NewFlight DEF Request, Kind, Flights, Slots
<1>a. [revision |-> 0, geo |-> q.value, lab |-> 0] \in Row
  BY <1>2, ReviewBoundsAssumption DEF Row
<1>4. tab' = [tab EXCEPT ![c].shown[s] = [revision |-> 0, geo |-> q.value, lab |-> 0],
                         ![c].creating = @ \union {s}, ![c].flight[k] = New(q)]
  BY DEF Draw, New
<1> HIDE DEF q, k
<1>5. u \in Tab
  BY <1>1, <1>3, <1>4, <1>a DEF Tab, Rows, Flights
<1>6. tab' = [tab EXCEPT ![c] = u]
  BY <1>1, <1>4 DEF Tab, Flights
<1>7. /\ u.known = t.known /\ u.task = t.task /\ u.timer = t.timer /\ u.state = t.state
      /\ u.draft = t.draft /\ u.mine = t.mine /\ u.barrier = t.barrier
      /\ u.flight = [t.flight EXCEPT ![k] = New(q)]
      /\ u.shown = [t.shown EXCEPT ![s] = [revision |-> 0, geo |-> q.value, lab |-> 0]]
  BY <1>1, <1>4 DEF Tab, Flights
<1>8. u.shown[s].revision = 0 /\ \A r \in Shapes \ {s} : u.shown[r] = t.shown[r]
  BY <1>1, <1>7 DEF Tab, Rows
<1>9. k[1] = s
  BY DEF k
<1> HIDE DEF t, u
<1>b. \A r \in Shapes : u.shown[r] = t.shown[r] \/ (r = k[1] /\ u.shown[r].revision = 0)
  BY <1>8, <1>9
<1>10. Launches(t, u, k, q)
  BY <1>7, <1>b, Zenon DEF Launches
<1>11. q.kind = "create" /\ q.shape = s /\ q.revision = 0 /\ q.base = None /\ q.value = used.edits + 1
  BY <1>2 DEF q
<1>12. QED BY <1>3, <1>5, <1>6, <1>10, <1>11 DEF k, t, u

LEMMA DeleteTab ==
  ASSUME TypeOK, NEW c \in Labelers, NEW s \in Shapes, Delete(c, s)
  PROVE  /\ tab' = [tab EXCEPT ![c] = tab'[c]] /\ tab'[c] \in Tab
         /\ \E q \in Request :
              /\ q.kind = "delete" /\ q.shape = s /\ q.revision = tab[c].shown[s].revision
              /\ q.base = tab[c].known[s] /\ q.value = 0
              /\ Launches(tab[c], tab'[c], <<s, "delete">>, q)
<1> DEFINE t == tab[c]
           u == tab'[c]
           k == <<s, "delete">>
           q == [kind |-> "delete", shape |-> s, value |-> 0,
                 revision |-> t.shown[s].revision, base |-> t.known[s]]
<1>1. t \in Tab /\ tab \in [Users -> Tab \union {None}] /\ c \in Users
  BY TabTyped DEF TypeOK
<1>2. t.shown[s] \in Row /\ t.known[s] \in Row \union {None}
  BY <1>1 DEF Tab, Rows, Delete
<1>3. q \in Request /\ k \in Flights /\ New(q) \in Flight
  BY <1>2, NewFlight, ReviewBoundsAssumption DEF Request, Row, Kind, Flights, Slots
<1>4. tab' = [tab EXCEPT ![c].flight[k] = New(q)]
  BY DEF Delete, New
<1>11. q.kind = "delete" /\ q.shape = s /\ q.revision = t.shown[s].revision /\ q.base = t.known[s] /\ q.value = 0
  BY DEF q
<1> HIDE DEF q
<1>5. u \in Tab
  BY <1>1, <1>3, <1>4 DEF Tab, Flights
<1>6. tab' = [tab EXCEPT ![c] = u]
  BY <1>1, <1>4 DEF Tab, Flights
<1>7. /\ u.known = t.known /\ u.task = t.task /\ u.timer = t.timer /\ u.state = t.state
      /\ u.draft = t.draft /\ u.mine = t.mine /\ u.barrier = t.barrier
      /\ u.flight = [t.flight EXCEPT ![k] = New(q)]
      /\ u.shown = t.shown
  BY <1>1, <1>4 DEF Tab, Flights
<1> HIDE DEF t, u, k
<1>b. \A r \in Shapes : u.shown[r] = t.shown[r] \/ (r = k[1] /\ u.shown[r].revision = 0)
  BY <1>7
<1>10. Launches(t, u, k, q)
  BY <1>7, <1>b, Zenon DEF Launches
<1>12. QED BY <1>3, <1>5, <1>6, <1>10, <1>11 DEF k, t, u

(* A task is scheduled for its key. *)
Edits(t, u, s, q) ==
  /\ u.known = t.known /\ u.creating = t.creating /\ u.flight = t.flight
  /\ u.draft = t.draft /\ u.barrier = t.barrier
  /\ u.task = [t.task EXCEPT ![s] = q] /\ u.timer = t.timer \union {s}
  /\ u.state = [t.state EXCEPT ![s] = "pending"]
  /\ \/ u.mine[s].geo = q.value /\ u.mine[s].lab = t.mine[s].lab
     \/ u.mine[s].geo = t.mine[s].geo /\ u.mine[s].lab = q.value
  /\ t.shown[s] # None /\ u.shown[s].revision = t.shown[s].revision
  /\ \A r \in Shapes \ {s} : u.mine[r] = t.mine[r] /\ u.shown[r] = t.shown[r]

LEMMA ScheduledTab ==
  ASSUME NEW t \in Tab, NEW s \in Shapes, NEW q \in Request, q.shape = s, q.kind \in {"geo", "lab"},
         t.shown[s] # None
  PROVE  Scheduled(t, q) \in Tab /\ Edits(t, Scheduled(t, q), s, q)
<1> DEFINE u == Scheduled(t, q)
<1>0. t.shown[s] \in Row /\ q.value \in 0 .. MaxEdits
  BY DEF Tab, Rows, Request
<1>1. CASE q.kind = "geo"
  <2>1. u = [t EXCEPT !.shown[s].geo = q.value, !.task[s] = q, !.timer = t.timer \union {s},
                      !.state[s] = "pending", !.mine[s].geo = q.value]
    BY <1>1 DEF Scheduled
  <2> HIDE DEF u
  <2>a. u.shown \in Rows
    BY <1>0, <2>1 DEF Tab, Rows, Row
  <2>b. /\ u.task \in [Shapes -> Request \union {None}] /\ u.timer \subseteq Shapes
        /\ u.state \in [Shapes -> SaveState]
    BY <1>0, <2>1 DEF Tab, SaveState
  <2>c. u.mine \in [Shapes -> [geo: 0 .. MaxEdits, lab: 0 .. MaxEdits]]
    BY <1>0, <2>1 DEF Tab
  <2>2. u \in Tab
    BY <2>1, <2>a, <2>b, <2>c DEF Tab
  <2>3. /\ u.known = t.known /\ u.creating = t.creating /\ u.flight = t.flight
        /\ u.draft = t.draft /\ u.barrier = t.barrier
        /\ u.task = [t.task EXCEPT ![s] = q] /\ u.timer = t.timer \union {s}
        /\ u.state = [t.state EXCEPT ![s] = "pending"]
    BY <1>0, <2>1 DEF Tab
  <2>4. u.mine[s].geo = q.value /\ u.mine[s].lab = t.mine[s].lab
    BY <1>0, <2>1 DEF Tab
  <2>5. u.shown[s].revision = t.shown[s].revision
    BY <1>0, <2>1 DEF Tab, Rows, Row
  <2>6. \A r \in Shapes \ {s} : u.mine[r] = t.mine[r] /\ u.shown[r] = t.shown[r]
    BY <1>0, <2>1 DEF Tab, Rows, Row
  <2>7. Edits(t, u, s, q)
    BY <2>3, <2>4, <2>5, <2>6, Zenon DEF Edits
  <2>8. QED BY <2>2, <2>7 DEF u
<1>2. CASE q.kind = "lab"
  <2>1. u = [t EXCEPT !.shown[s].lab = q.value, !.task[s] = q, !.timer = t.timer \union {s},
                      !.state[s] = "pending", !.mine[s].lab = q.value]
    BY <1>2 DEF Scheduled
  <2> HIDE DEF u
  <2>a. u.shown \in Rows
    BY <1>0, <2>1 DEF Tab, Rows, Row
  <2>b. /\ u.task \in [Shapes -> Request \union {None}] /\ u.timer \subseteq Shapes
        /\ u.state \in [Shapes -> SaveState]
    BY <1>0, <2>1 DEF Tab, SaveState
  <2>c. u.mine \in [Shapes -> [geo: 0 .. MaxEdits, lab: 0 .. MaxEdits]]
    BY <1>0, <2>1 DEF Tab
  <2>2. u \in Tab
    BY <2>1, <2>a, <2>b, <2>c DEF Tab
  <2>3. /\ u.known = t.known /\ u.creating = t.creating /\ u.flight = t.flight
        /\ u.draft = t.draft /\ u.barrier = t.barrier
        /\ u.task = [t.task EXCEPT ![s] = q] /\ u.timer = t.timer \union {s}
        /\ u.state = [t.state EXCEPT ![s] = "pending"]
    BY <1>0, <2>1 DEF Tab
  <2>4. u.mine[s].geo = t.mine[s].geo /\ u.mine[s].lab = q.value
    BY <1>0, <2>1 DEF Tab
  <2>5. u.shown[s].revision = t.shown[s].revision
    BY <1>0, <2>1 DEF Tab, Rows, Row
  <2>6. \A r \in Shapes \ {s} : u.mine[r] = t.mine[r] /\ u.shown[r] = t.shown[r]
    BY <1>0, <2>1 DEF Tab, Rows, Row
  <2>7. Edits(t, u, s, q)
    BY <2>3, <2>4, <2>5, <2>6, Zenon DEF Edits
  <2>8. QED BY <2>2, <2>7 DEF u
<1>3. QED BY <1>1, <1>2

LEMMA EditTab ==
  ASSUME TypeOK, NEW c \in Labelers, NEW s \in Shapes, NEW field \in {"geo", "lab"}, Edit(c, s, field)
  PROVE  /\ tab' = [tab EXCEPT ![c] = tab'[c]] /\ tab'[c] \in Tab
         /\ \E q \in Request :
              /\ q.kind = field /\ q.shape = s /\ q.revision = tab[c].shown[s].revision
              /\ q.base = tab[c].known[s] /\ q.value = used.edits + 1
              /\ Edits(tab[c], tab'[c], s, q)
<1> DEFINE t == tab[c]
           q == [kind |-> field, shape |-> s, revision |-> t.shown[s].revision,
                 value |-> used'.edits, base |-> t.known[s]]
<1>1. t \in Tab /\ tab \in [Users -> Tab \union {None}] /\ c \in Users /\ UsedOK
  BY TabTyped DEF TypeOK, UsedOK
<1>2. used'.edits = used.edits + 1 /\ used'.edits \in 0 .. MaxEdits
  BY <1>1, SpendUsed DEF Edit, UsedOK
<1>3. t.shown[s] \in Row /\ t.known[s] \in Row \union {None} /\ t.shown[s] # None
  BY <1>1 DEF Tab, Rows, Edit
<1>4. q \in Request
  BY <1>2, <1>3 DEF Request, Kind, Row
<1>5. /\ q.kind = field /\ q.shape = s /\ q.revision = t.shown[s].revision
      /\ q.base = t.known[s] /\ q.value = used.edits + 1
  BY <1>2
<1>6. tab' = [tab EXCEPT ![c] = Scheduled(t, q)]
  BY DEF Edit
<1> HIDE DEF q
<1>7. tab'[c] = Scheduled(t, q)
  BY <1>6, OneTab
<1>8. QED BY <1>1, <1>3, <1>4, <1>5, <1>6, <1>7, ScheduledTab

LEMMA TimerTab ==
  ASSUME TypeOK, NEW c \in Labelers, Keyed(tab[c]), NEW s \in Shapes, TimerFires(c, s)
  PROVE  /\ tab' = [tab EXCEPT ![c] = tab'[c]] /\ tab'[c] \in Tab
         /\ tab'[c].barrier = tab[c].barrier
         /\ \E S \in SUBSET Shapes : Sends(tab[c], tab'[c], S)
<1> DEFINE t == tab[c]
           v == [t EXCEPT !.timer = t.timer \ {s}]
           k == <<s, "edit">>
           q == New(t.task[s])
           u == tab'[c]
<1>a. t \in Tab /\ k \in Flights
  BY TabTyped DEF Flights, Slots
<1>b. t.task[s] # None
  BY DEF TimerFires, Keyed
<1>1. t \in Tab /\ t.task[s] # None /\ t.task[s] \in Request /\ k \in Flights
  BY <1>a, <1>b DEF Tab
<1>2. tab' = [tab EXCEPT ![c] = Send(v, s)]
  BY DEF TimerFires
<1>3. u = Send(v, s) /\ tab' = [tab EXCEPT ![c] = u]
  BY <1>2, OneTab
<1>4. /\ v \in Tab /\ Screen(t, v) /\ v.task = t.task /\ v.draft = t.draft /\ v.mine = t.mine
      /\ v.timer = t.timer \ {s} /\ v.flight = t.flight /\ v.state = t.state /\ v.barrier = t.barrier
  BY <1>1 DEF Tab, Screen
<1>5. CASE t.flight[k] # None
  <2>1. u = v
    BY <1>3, <1>4, <1>5 DEF Send
  <2>2. Sends(t, u, {})
    BY <1>4, <2>1 DEF Sends
  <2>3. QED BY <1>3, <1>4, <2>1, <2>2
<1>6. CASE t.flight[k] = None
  <2>0. q \in Flight
    BY <1>1, NewFlight
  <2>1. u = [v EXCEPT !.flight[k] = q, !.state[s] = "saving"]
    BY <1>3, <1>4, <1>6 DEF Send, New
  <2> HIDE DEF v, q, u
  <2>2. u \in Tab
    BY <1>1, <1>4, <2>0, <2>1 DEF Tab, Flights, SaveState
  <2>3. /\ Screen(t, u) /\ u.task = t.task /\ u.draft = t.draft /\ u.mine = t.mine
        /\ u.timer = t.timer \ {s} /\ u.flight = [t.flight EXCEPT ![k] = q]
        /\ u.state = [t.state EXCEPT ![s] = "saving"] /\ u.barrier = t.barrier
    BY <1>1, <1>4, <2>1 DEF Tab, Flights, Screen
  <2>4. \A j \in Flights : u.flight[j] = IF j[1] \in {s} /\ j[2] = "edit" THEN New(t.task[j[1]]) ELSE t.flight[j]
    BY <1>1, <2>3 DEF Tab, Flights, q
  <2>5. \A r \in Shapes : u.state[r] = IF r \in {s} THEN "saving" ELSE t.state[r]
    BY <1>1, <2>3 DEF Tab
  <2>6. \A r \in {s} : t.task[r] # None /\ t.flight[<<r, "edit">>] = None
    BY <1>1, <1>6
  <2>7. Sends(t, u, {s})
    BY <2>3, <2>4, <2>5, <2>6 DEF Sends
  <2>8. QED BY <1>3, <2>2, <2>3, <2>7 DEF u
<1>7. QED BY <1>5, <1>6

Idle(t) == {s \in Shapes : t.task[s] # None /\ t.flight[<<s, "edit">>] = None}

LEMMA FlushTab ==
  ASSUME TypeOK, NEW c \in Labelers, Keyed(tab[c]), NEW goal \in {"submit", "leave"}, Flush(c, goal)
  PROVE  /\ tab' = [tab EXCEPT ![c] = tab'[c]] /\ tab'[c] \in Tab
         /\ Sends(tab[c], tab'[c], Idle(tab[c]))
         /\ tab'[c].barrier # None
         /\ tab'[c].barrier.drafts = {tab[c].task[s] : s \in Idle(tab[c])}
         /\ \A s \in Idle(tab[c]) : <<s, "edit">> \in tab'[c].barrier.waits
<1> DEFINE t == tab[c]
           idle == Idle(t)
           flight == [k \in Flights |-> IF k \in idle \X {"edit"} THEN New(t.task[k[1]]) ELSE t.flight[k]]
           state == [s \in Shapes |-> IF s \in idle THEN "saving" ELSE t.state[s]]
           waits == {k \in Shapes \X {"edit", "create"} : t.flight[k] # None} \union (idle \X {"edit"})
           barrier == [goal |-> goal, waits |-> waits, ok |-> TRUE, revision |-> 0,
                       drafts |-> {t.task[s] : s \in idle}]
           v == [t EXCEPT !.timer = t.timer \ idle, !.flight = flight, !.state = state]
           u == tab'[c]
<1>1. t \in Tab /\ DOMAIN t.flight = Flights
  BY TabTyped DEF Tab, Flights
<1>2. idle \subseteq Shapes
      /\ \A s \in idle : t.task[s] # None /\ t.flight[<<s, "edit">>] = None /\ t.task[s] \in Request
  BY <1>1 DEF Tab, Idle
<1>3. flight \in [Flights -> Flight \union {None}]
  BY <1>1, <1>2, NewFlight DEF Tab, Flights
<1>4. state \in [Shapes -> SaveState]
  BY <1>1 DEF Tab, SaveState
<1>5. barrier \in Barrier
  BY <1>1, <1>2 DEF Barrier
<1>6. tab' = [tab EXCEPT ![c] = [v EXCEPT !.barrier = barrier]]
  BY <1>1 DEF Flush, Idle, New
<1>7. \A k \in Flights : flight[k] = IF k[1] \in idle /\ k[2] = "edit" THEN New(t.task[k[1]]) ELSE t.flight[k]
  BY DEF Flights
<1>8. \A s \in Shapes : state[s] = IF s \in idle THEN "saving" ELSE t.state[s]
  OBVIOUS
<1>9. \A s \in idle : <<s, "edit">> \in waits
  OBVIOUS
<1>10. barrier.drafts = {t.task[s] : s \in idle} /\ barrier.waits = waits /\ barrier # None
  BY <1>5, NoneAssumption
<1> HIDE DEF flight, state, waits, barrier, idle
<1>11. u = [v EXCEPT !.barrier = barrier] /\ tab' = [tab EXCEPT ![c] = u]
  BY <1>6, OneTab
<1>12. u \in Tab
  BY <1>1, <1>3, <1>4, <1>5, <1>11 DEF Tab, Flights
<1>13. /\ Screen(t, u) /\ u.task = t.task /\ u.draft = t.draft /\ u.mine = t.mine
       /\ u.timer = t.timer \ idle /\ u.flight = flight /\ u.state = state /\ u.barrier = barrier
  BY <1>1, <1>11 DEF Tab, Screen
<1>14. Sends(t, u, idle)
  BY <1>2, <1>7, <1>8, <1>13 DEF Sends
<1>15. QED BY <1>9, <1>10, <1>11, <1>12, <1>13, <1>14 DEF idle

(* Only the barrier, or what is on the screen, is changed. *)
LEMMA BarrierTab ==
  ASSUME TypeOK, NEW c \in Labelers, FlushFails(c) \/ FlushReads(c) \/ Submit(c)
  PROVE  /\ tab' = [tab EXCEPT ![c] = tab'[c]] /\ tab'[c] \in Tab
         /\ Keys(tab[c], tab'[c]) /\ Screen(tab[c], tab'[c])
         /\ \/ tab'[c].barrier = None
            \/ /\ tab[c].barrier # None /\ tab'[c].barrier # None
               /\ tab'[c].barrier.ok = tab[c].barrier.ok /\ tab'[c].barrier.waits = tab[c].barrier.waits
               /\ tab'[c].barrier.drafts = tab[c].barrier.drafts
<1> DEFINE t == tab[c]
           u == tab'[c]
<1>1. t \in Tab /\ tab \in [Users -> Tab \union {None}] /\ c \in Users /\ asset.revision \in Nat
  BY TabTyped DEF TypeOK
<1>2. CASE tab' = [tab EXCEPT ![c].barrier = None]
  <2>1. u \in Tab
    BY <1>1, <1>2 DEF Tab
  <2>2. tab' = [tab EXCEPT ![c] = u] /\ Keys(t, u) /\ Screen(t, u) /\ u.barrier = None
    BY <1>1, <1>2 DEF Tab, Keys, Screen
  <2>3. QED BY <2>1, <2>2
<1>3. CASE FlushReads(c)
  <2>1. t.barrier # None /\ t.barrier \in Barrier /\ tab' = [tab EXCEPT ![c].barrier.revision = asset.revision]
    BY <1>1, <1>3 DEF FlushReads, Flushed, Tab
  <2>2. u \in Tab
    BY <1>1, <2>1 DEF Tab, Barrier
  <2>3. tab' = [tab EXCEPT ![c] = u] /\ Keys(t, u) /\ Screen(t, u)
    BY <1>1, <2>1 DEF Tab, Keys, Screen
  <2>4. /\ u.barrier \in Barrier /\ u.barrier.ok = t.barrier.ok /\ u.barrier.waits = t.barrier.waits
        /\ u.barrier.drafts = t.barrier.drafts
    BY <1>1, <2>1 DEF Tab, Barrier
  <2>5. u.barrier # None
    BY <2>4, NoneAssumption
  <2>6. QED BY <2>1, <2>2, <2>3, <2>4, <2>5
<1>4. QED BY <1>2, <1>3 DEF FlushFails, Submit

LEMMA ScreenTab ==
  ASSUME TypeOK, NEW c \in Labelers, Leave(c) \/ Refresh(c)
  PROVE  /\ tab' = [tab EXCEPT ![c] = tab'[c]] /\ tab'[c] \in Tab
         /\ Keys(tab[c], tab'[c]) /\ tab'[c].shown = row /\ tab'[c].known = row
         /\ tab'[c].barrier \in {None, tab[c].barrier}
<1> DEFINE t == tab[c]
           u == tab'[c]
<1>1. t \in Tab /\ tab \in [Users -> Tab \union {None}] /\ c \in Users /\ row \in Rows
  BY TabTyped DEF TypeOK
<1>2. CASE Leave(c)
  <2>1. u \in Tab
    BY <1>1, <1>2 DEF Tab, Leave
  <2>2. /\ tab' = [tab EXCEPT ![c] = u] /\ Keys(t, u) /\ u.shown = row /\ u.known = row
        /\ u.barrier = None
    BY <1>1, <1>2 DEF Tab, Keys, Leave
  <2>3. QED BY <2>1, <2>2
<1>3. CASE Refresh(c)
  <2>1. u \in Tab
    BY <1>1, <1>3 DEF Tab, Refresh
  <2>2. /\ tab' = [tab EXCEPT ![c] = u] /\ Keys(t, u) /\ u.shown = row /\ u.known = row
        /\ u.barrier = t.barrier
    BY <1>1, <1>3 DEF Tab, Keys, Refresh
  <2>3. QED BY <2>1, <2>2
<1>4. QED BY <1>2, <1>3

LEMMA OpenedTyped ==
  ASSUME row \in Rows
  PROVE  Opened \in Tab
BY ReviewBoundsAssumption DEF Opened, Tab, Rows, SaveState

LEMMA ReloadTab ==
  ASSUME TypeOK, NEW c \in Labelers, Reload(c)
  PROVE  tab' = [tab EXCEPT ![c] = tab'[c]] /\ tab'[c] \in Tab /\ tab'[c] = Opened
<1>1. tab' = [tab EXCEPT ![c] = Opened]
  BY DEF Reload
<1> HIDE DEF Opened
<1>2. QED BY <1>1, OpenedTyped, OneTab DEF TypeOK

(* An answer arrives: the canvas, the key and the barrier, in this order. *)
LEMMA ShownTab ==
  ASSUME NEW t \in Tab, NEW f \in Flight, NEW q, q = f.request, NEW s, s = q.shape, NEW u, u = Shown(t, f)
  PROVE  /\ u \in Tab
         /\ u.task = t.task /\ u.timer = t.timer /\ u.flight = t.flight /\ u.mine = t.mine
         /\ u.barrier = t.barrier
         /\ \/ u.shown[s] = t.shown[s] /\ u.known[s] = t.known[s]
            \/ u.shown[s] = None /\ u.known[s] = t.known[s]
            \/ u.shown[s] = f.reply /\ u.known[s] = f.reply
         /\ \A r \in Shapes \ {s} : /\ u.shown[r] = t.shown[r] /\ u.known[r] = t.known[r]
                                    /\ u.state[r] = t.state[r] /\ u.draft[r] = t.draft[r]
         /\ \/ /\ f.answer = "conflict" /\ q.kind \in {"geo", "lab"}
               /\ u.state[s] = "conflict" /\ u.draft[s] = q.value
            \/ /\ ~ (f.answer = "conflict" /\ q.kind \in {"geo", "lab"})
               /\ u.state = t.state /\ u.draft = t.draft
<1> DEFINE Others == \A r \in Shapes \ {s} : /\ u.shown[r] = t.shown[r] /\ u.known[r] = t.known[r]
                                             /\ u.state[r] = t.state[r] /\ u.draft[r] = t.draft[r]
           Same == /\ u.task = t.task /\ u.timer = t.timer /\ u.flight = t.flight /\ u.mine = t.mine
                   /\ u.barrier = t.barrier
<1>1. s \in Shapes /\ q.value \in 0 .. MaxEdits /\ f.reply \in Row \union {None}
  BY DEF Flight, Request
<1>2. CASE f.answer = "saved" /\ q.kind # "delete"
  <2>1. u = [t EXCEPT !.shown[s] = f.reply, !.known[s] = f.reply, !.creating = t.creating \ {s}]
    BY <1>2 DEF Shown
  <2>a. u.shown \in Rows /\ u.known \in Rows /\ u.creating \subseteq Shapes
    BY <1>1, <2>1 DEF Tab, Rows, SaveState
  <2>2. u \in Tab
    BY <1>1, <2>1, <2>a DEF Tab
  <2>3. Same /\ u.state = t.state /\ u.draft = t.draft /\ u.shown[s] = f.reply /\ u.known[s] = f.reply
    BY <1>1, <2>1 DEF Tab, Rows
  <2>4. Others
    BY <1>1, <2>1 DEF Tab, Rows
  <2>5. QED BY <1>2, <2>2, <2>3, <2>4
<1>3. CASE f.answer = "saved" /\ q.kind = "delete"
  <2>1. u = [t EXCEPT !.shown[s] = None]
    BY <1>3 DEF Shown
  <2>a. u.shown \in Rows
    BY <1>1, <2>1 DEF Tab, Rows, SaveState
  <2>2. u \in Tab
    BY <1>1, <2>1, <2>a DEF Tab
  <2>3. Same /\ u.state = t.state /\ u.draft = t.draft /\ u.shown[s] = None /\ u.known[s] = t.known[s]
    BY <1>1, <2>1 DEF Tab, Rows
  <2>4. Others
    BY <1>1, <2>1 DEF Tab, Rows
  <2>5. QED BY <1>3, <2>2, <2>3, <2>4
<1>4. CASE f.answer = "conflict" /\ q.kind \in {"geo", "lab"}
  <2>1. u = [t EXCEPT !.draft[s] = q.value, !.state[s] = "conflict"]
    BY <1>4 DEF Shown, Drafted
  <2>a. u.draft \in [Shapes -> 0 .. MaxEdits] /\ u.state \in [Shapes -> SaveState]
    BY <1>1, <2>1 DEF Tab, Rows, SaveState
  <2>2. u \in Tab
    BY <1>1, <2>1, <2>a DEF Tab
  <2>3. /\ Same /\ u.shown[s] = t.shown[s] /\ u.known[s] = t.known[s]
        /\ u.state[s] = "conflict" /\ u.draft[s] = q.value
    BY <1>1, <2>1 DEF Tab, Rows
  <2>4. Others
    BY <1>1, <2>1 DEF Tab, Rows
  <2>5. QED BY <1>4, <2>2, <2>3, <2>4
<1>5. CASE f.answer = "failed" /\ q.kind = "create"
  <2>1. u = [t EXCEPT !.shown[s] = None, !.creating = t.creating \ {s}]
    BY <1>5 DEF Shown
  <2>a. u.shown \in Rows /\ u.creating \subseteq Shapes
    BY <1>1, <2>1 DEF Tab, Rows, SaveState
  <2>2. u \in Tab
    BY <1>1, <2>1, <2>a DEF Tab
  <2>3. Same /\ u.state = t.state /\ u.draft = t.draft /\ u.shown[s] = None /\ u.known[s] = t.known[s]
    BY <1>1, <2>1 DEF Tab, Rows
  <2>4. Others
    BY <1>1, <2>1 DEF Tab, Rows
  <2>5. QED BY <1>5, <2>2, <2>3, <2>4
<1>6. CASE ~ (f.answer = "saved") /\ ~ (f.answer = "conflict" /\ q.kind \in {"geo", "lab"})
           /\ ~ (f.answer = "failed" /\ q.kind = "create")
  <2>1. u = t
    BY <1>6 DEF Shown
  <2>2. QED BY <1>6, <2>1
<1>7. QED BY <1>2, <1>3, <1>4, <1>5, <1>6

LEMMA SettledTab ==
  ASSUME NEW t \in Tab, NEW q \in Request, NEW answer \in Answer \ {"none"},
         NEW s, s = q.shape, NEW u, u = Settled(t, q, answer)
  PROVE  /\ u \in Tab /\ Screen(t, u)
         /\ u.timer = t.timer /\ u.flight = t.flight /\ u.mine = t.mine /\ u.draft = t.draft
         /\ u.barrier = t.barrier
         /\ \/ /\ t.task[s] = q /\ u.task = [t.task EXCEPT ![s] = None]
               /\ u.state = [t.state EXCEPT ![s] = Outcome(answer)]
            \/ t.task[s] # q /\ u = t
<1>1. s \in Shapes /\ Outcome(answer) \in SaveState
  BY DEF Request, Outcome, Answer, SaveState
<1>2. CASE t.task[s] = q
  <2>1. u = [t EXCEPT !.task[s] = None, !.state[s] = Outcome(answer)]
    BY <1>2 DEF Settled, IsNewest
  <2>a. u.task \in [Shapes -> Request \union {None}] /\ u.state \in [Shapes -> SaveState]
    BY <1>1, <2>1 DEF Tab
  <2>2. u \in Tab
    BY <1>1, <2>1, <2>a DEF Tab
  <2>3. /\ Screen(t, u) /\ u.timer = t.timer /\ u.flight = t.flight /\ u.mine = t.mine /\ u.draft = t.draft
        /\ u.barrier = t.barrier /\ u.task = [t.task EXCEPT ![s] = None]
        /\ u.state = [t.state EXCEPT ![s] = Outcome(answer)]
    BY <1>1, <2>1 DEF Tab, Screen
  <2>4. QED BY <1>2, <2>2, <2>3
<1>3. CASE t.task[s] # q
  <2>1. u = t
    BY <1>3 DEF Settled, IsNewest
  <2>2. QED BY <1>3, <2>1 DEF Screen
<1>4. QED BY <1>2, <1>3

LEMMA HeardTab ==
  ASSUME NEW t \in Tab, NEW k, NEW answer, NEW u, u = Heard(t, k, answer)
  PROVE  /\ u \in Tab /\ Screen(t, u) /\ Keys(t, u)
         /\ \/ u.barrier = t.barrier /\ (t.barrier # None => k \notin t.barrier.waits)
            \/ /\ t.barrier # None /\ u.barrier # None
               /\ u.barrier.waits = t.barrier.waits \ {k} /\ u.barrier.drafts = t.barrier.drafts
               /\ u.barrier.ok = (t.barrier.ok /\ answer = "saved")
<1>1. CASE t.barrier = None \/ k \notin t.barrier.waits
  <2>1. u = t
    BY <1>1 DEF Heard
  <2>2. QED BY <1>1, <2>1 DEF Screen, Keys
<1>2. CASE t.barrier # None /\ k \in t.barrier.waits
  <2>1. u = [t EXCEPT !.barrier.waits = t.barrier.waits \ {k},
                      !.barrier.ok = (t.barrier.ok /\ answer = "saved")]
    BY <1>2 DEF Heard
  <2>2. t.barrier \in Barrier
    BY <1>2 DEF Tab
  <2>3. (t.barrier.ok /\ answer = "saved") \in BOOLEAN
    BY <2>2 DEF Barrier
  <2> DEFINE ok == (t.barrier.ok /\ answer = "saved")
  <2> HIDE DEF ok
  <2>4. u = [t EXCEPT !.barrier.waits = t.barrier.waits \ {k}, !.barrier.ok = ok] /\ ok \in BOOLEAN
    BY <2>1, <2>3 DEF ok
  <2>5. /\ u.barrier \in Barrier
        /\ u.barrier.waits = t.barrier.waits \ {k} /\ u.barrier.drafts = t.barrier.drafts
        /\ u.barrier.ok = ok
    <3>1. u.barrier = [t.barrier EXCEPT !.waits = t.barrier.waits \ {k}, !.ok = ok]
      BY <2>4 DEF Tab
    <3>2. /\ u.barrier.waits = t.barrier.waits \ {k} /\ u.barrier.drafts = t.barrier.drafts
          /\ u.barrier.ok = ok
      BY <2>2, <3>1 DEF Barrier
    <3>3. t.barrier.waits \ {k} \in SUBSET (Shapes \X {"edit", "create"})
      BY <2>2 DEF Barrier
    <3>4. u.barrier \in Barrier
      BY <2>2, <2>4, <3>1, <3>3 DEF Barrier
    <3>5. QED BY <3>2, <3>4
  <2>6. u \in Tab
    BY <2>2, <2>4, <2>5 DEF Tab
  <2>7. Screen(t, u) /\ Keys(t, u)
    BY <2>4 DEF Tab, Screen, Keys
  <2>8. u.barrier # None
    BY <2>5, NoneAssumption
  <2>9. QED BY <1>2, <2>5, <2>6, <2>7, <2>8 DEF ok
<1>3. QED BY <1>1, <1>2

HearsBarrier(t, u, k, answer) ==
  \/ u.barrier = t.barrier /\ (t.barrier # None => k \notin t.barrier.waits)
  \/ /\ t.barrier # None /\ u.barrier # None
     /\ u.barrier.waits = t.barrier.waits \ {k} /\ u.barrier.drafts = t.barrier.drafts
     /\ u.barrier.ok = (t.barrier.ok /\ answer = "saved")

(* What a tab makes of the answer to the request under key k. *)
Hears(t, u, k) ==
  LET f == t.flight[k]
      s == k[1]
      newest == k[2] = "edit" /\ t.task[s] = f.request
  IN /\ f # None /\ f.answer # "none"
     /\ u.timer = t.timer /\ u.mine = t.mine /\ u.flight = [t.flight EXCEPT ![k] = None]
     /\ u.task = IF newest THEN [t.task EXCEPT ![s] = None] ELSE t.task
     /\ \A r \in Shapes \ {s} : /\ u.shown[r] = t.shown[r] /\ u.known[r] = t.known[r]
                                /\ u.state[r] = t.state[r] /\ u.draft[r] = t.draft[r]
     /\ \/ u.shown[s] = t.shown[s] /\ u.known[s] = t.known[s]
        \/ u.shown[s] = None /\ u.known[s] = t.known[s]
        \/ u.shown[s] = f.reply /\ u.known[s] = f.reply
     /\ u.draft[s] = t.draft[s] \/ (f.answer = "conflict" /\ k[2] = "edit" /\ u.draft[s] = f.request.value)
     /\ u.state[s] = "saved" => t.state[s] = "saved" \/ (f.answer = "saved" /\ newest)
     /\ u.state[s] = "conflict" => \/ t.state[s] = "conflict" /\ u.draft[s] = t.draft[s]
                                   \/ k[2] = "edit" /\ u.draft[s] = f.request.value
     /\ HearsBarrier(t, u, k, f.answer)

LEMMA ReceiveTab ==
  ASSUME TypeOK, NEW c \in Labelers, Keyed(tab[c]), NEW k \in Flights, Receive(c, k)
  PROVE  tab' = [tab EXCEPT ![c] = tab'[c]] /\ tab'[c] \in Tab /\ Hears(tab[c], tab'[c], k)
<1> DEFINE t == tab[c]
           f == t.flight[k]
           q == f.request
           s == k[1]
           v == Shown(t, f)
           w == [v EXCEPT !.flight[k] = None]
           x == IF k[2] = "edit" THEN Settled(w, q, f.answer) ELSE w
           u == tab'[c]
           newest == k[2] = "edit" /\ t.task[s] = q
<1>1. t \in Tab /\ f # None /\ f.answer # "none" /\ s \in Shapes /\ k[2] \in Slots
  BY TabTyped DEF Receive, Flights
<1>2. f \in Flight /\ q \in Request /\ f.answer \in Answer \ {"none"}
  BY <1>1, FlightTyped
<1>3. q.shape = s /\ (q.kind \in {"geo", "lab"} <=> k[2] = "edit")
  BY <1>1 DEF Keyed, Kinds, Slots
<1>4. tab' = [tab EXCEPT ![c] = Heard(x, k, f.answer)]
  BY DEF Receive
<1>5. u = Heard(x, k, f.answer) /\ tab' = [tab EXCEPT ![c] = u]
  BY <1>4, OneTab
<1>6. /\ v \in Tab /\ v.task = t.task /\ v.timer = t.timer /\ v.flight = t.flight /\ v.mine = t.mine
      /\ v.barrier = t.barrier
      /\ \/ v.shown[s] = t.shown[s] /\ v.known[s] = t.known[s]
         \/ v.shown[s] = None /\ v.known[s] = t.known[s]
         \/ v.shown[s] = f.reply /\ v.known[s] = f.reply
      /\ \A r \in Shapes \ {s} : /\ v.shown[r] = t.shown[r] /\ v.known[r] = t.known[r]
                                 /\ v.state[r] = t.state[r] /\ v.draft[r] = t.draft[r]
      /\ \/ f.answer = "conflict" /\ k[2] = "edit" /\ v.state[s] = "conflict" /\ v.draft[s] = q.value
         \/ ~ (f.answer = "conflict" /\ k[2] = "edit") /\ v.state = t.state /\ v.draft = t.draft
  <2>1. t \in Tab /\ f \in Flight /\ q = f.request /\ s = q.shape /\ v = Shown(t, f)
    BY <1>1, <1>2, <1>3
  <2>2. q.kind \in {"geo", "lab"} <=> k[2] = "edit"
    BY <1>3
  <2> HIDE DEF v, s, q, f, t
  <2>3. QED BY <2>1, <2>2, ShownTab
<1> HIDE DEF v
<1>7. /\ w \in Tab /\ Screen(v, w) /\ w.task = v.task /\ w.timer = v.timer /\ w.mine = v.mine
      /\ w.state = v.state /\ w.draft = v.draft /\ w.barrier = v.barrier
      /\ w.flight = [v.flight EXCEPT ![k] = None]
  BY <1>6 DEF Tab, Flights, Screen
<1> HIDE DEF w
<1>8. /\ x \in Tab /\ Screen(w, x)
      /\ x.timer = w.timer /\ x.flight = w.flight /\ x.mine = w.mine /\ x.draft = w.draft
      /\ x.barrier = w.barrier
      /\ \/ /\ k[2] = "edit" /\ w.task[s] = q /\ x.task = [w.task EXCEPT ![s] = None]
            /\ x.state = [w.state EXCEPT ![s] = Outcome(f.answer)]
         \/ /\ ~ (k[2] = "edit" /\ w.task[s] = q) /\ x = w
  <2>1. CASE k[2] = "edit"
    <3>1. x = Settled(w, q, f.answer)
      BY <2>1
    <3>2. QED BY <1>2, <1>3, <1>7, <2>1, <3>1, SettledTab
  <2>2. CASE k[2] # "edit"
    <3>1. x = w
      BY <2>2
    <3>2. QED BY <1>7, <2>2, <3>1 DEF Screen
  <2>3. QED BY <2>1, <2>2
<1> HIDE DEF x
<1>9. u \in Tab /\ Screen(x, u) /\ Keys(x, u) /\ HearsBarrier(x, u, k, f.answer)
  BY <1>5, <1>8, HeardTab DEF HearsBarrier
<1> HIDE DEF u, t
<1>10. /\ u.timer = t.timer /\ u.mine = t.mine /\ u.flight = [t.flight EXCEPT ![k] = None]
       /\ u.draft = v.draft /\ HearsBarrier(t, u, k, f.answer)
       /\ u.shown = v.shown /\ u.known = v.known
  BY <1>6, <1>7, <1>8, <1>9 DEF Screen, Keys, HearsBarrier
<1>11. u.task = (IF newest THEN [t.task EXCEPT ![s] = None] ELSE t.task) /\ u.state = x.state
  BY <1>6, <1>7, <1>8, <1>9 DEF Keys
<1>12. \A r \in Shapes \ {s} : u.state[r] = t.state[r]
  BY <1>1, <1>6, <1>7, <1>8, <1>11 DEF Tab
<1>13. u.state[s] = IF newest THEN Outcome(f.answer) ELSE v.state[s]
  BY <1>1, <1>6, <1>7, <1>8, <1>11 DEF Tab
<1>14. u.draft[s] = t.draft[s] \/ (f.answer = "conflict" /\ k[2] = "edit" /\ u.draft[s] = q.value)
  BY <1>6, <1>10
<1>15. u.state[s] = "saved" => t.state[s] = "saved" \/ (f.answer = "saved" /\ newest)
  BY <1>6, <1>13 DEF Outcome
<1>16. u.state[s] = "conflict" => \/ t.state[s] = "conflict" /\ u.draft[s] = t.draft[s]
                                  \/ k[2] = "edit" /\ u.draft[s] = q.value
  BY <1>6, <1>10, <1>13 DEF Outcome
<1>17. \A r \in Shapes \ {s} : /\ u.shown[r] = t.shown[r] /\ u.known[r] = t.known[r]
                               /\ u.draft[r] = t.draft[r]
  BY <1>6, <1>10
<1>18. \/ u.shown[s] = t.shown[s] /\ u.known[s] = t.known[s]
       \/ u.shown[s] = None /\ u.known[s] = t.known[s]
       \/ u.shown[s] = f.reply /\ u.known[s] = f.reply
  BY <1>6, <1>10
<1>19. Hears(t, u, k)
  BY <1>1, <1>10, <1>11, <1>12, <1>14, <1>15, <1>16, <1>17, <1>18 DEF Hears
<1>20. QED BY <1>5, <1>9, <1>19 DEF u, t

-----------------------------------------------------------------------------
(* TabInv, one way of changing a tab after the other.                       *)
TabGood(t) == Keyed(t) /\ Numbered(t) /\ Truthful(t) /\ Awaited(t)

Grows == used.edits \in Nat /\ used'.edits \in Nat /\ used.edits <= used'.edits /\ stored \subseteq stored'

LEMMA TabNumbers ==
  ASSUME NEW t \in Tab
  PROVE  /\ \A s \in Shapes : /\ t.mine[s].geo \in Nat /\ t.mine[s].lab \in Nat /\ t.draft[s] \in Nat
                              /\ t.task[s] # None => t.task[s] \in Request /\ t.task[s].value \in Nat
                              /\ t.state[s] \in SaveState
         /\ \A k \in Flights : t.flight[k] # None =>
              t.flight[k] \in Flight /\ t.flight[k].request \in Request /\ t.flight[k].request.value \in Nat
BY ReviewBoundsAssumption DEF Tab, Flight, Flights, Request

LEMMA KeptGood ==
  ASSUME NEW t \in Tab, TabGood(t), Grows
  PROVE  TabGood(t)'
<1>1. Keyed(t)' BY DEF TabGood, Keyed
<1>2. Numbered(t)'
  BY TabNumbers DEF TabGood, Numbered, Grows, Larger
<1>3. Truthful(t)' BY DEF TabGood, Truthful, Grows, Larger
<1>4. Awaited(t)' BY DEF TabGood, Awaited, Grows
<1>5. QED BY <1>1, <1>2, <1>3, <1>4 DEF TabGood

LEMMA EditGood ==
  ASSUME NEW t \in Tab, NEW u \in Tab, TabGood(t), NEW s \in Shapes, NEW q \in Request, Edits(t, u, s, q),
         q.shape = s, q.kind \in {"geo", "lab"}, q.value = used.edits + 1, used'.edits = used.edits + 1,
         used.edits \in Nat, stored' = stored
  PROVE  TabGood(u)'
<1> USE DEF Edits
<1>1. /\ u.task[s] = q /\ \A r \in Shapes \ {s} : u.task[r] = t.task[r]
      /\ u.state[s] = "pending" /\ \A r \in Shapes \ {s} : u.state[r] = t.state[r]
  BY DEF Tab
<1>2. \A k \in Flights : t.flight[k] # None => t.flight[k].request.value <= used.edits
  BY DEF TabGood, Numbered
<1>3. q # None
  BY NoneAssumption
<1>4. t.flight[<<s, "edit">>] # None => /\ t.flight[<<s, "edit">>].request.value <= used.edits
                                        /\ t.flight[<<s, "edit">>].request.value \in Nat
  BY <1>2, TabNumbers DEF Flights, Slots
<1>5. t.flight[<<s, "edit">>] # None => t.flight[<<s, "edit">>].request.value # q.value
  BY <1>4
<1>6. Keyed(u)
  <2>1. \A r \in Shapes : u.task[r] # None => u.task[r].shape = r /\ u.task[r].kind \in Kinds("edit")
    BY <1>1 DEF TabGood, Keyed, Kinds
  <2>2. \A k \in Flights : u.flight[k] # None =>
          u.flight[k].request.shape = k[1] /\ u.flight[k].request.kind \in Kinds(k[2])
    BY DEF TabGood, Keyed
  <2>3. \A r \in u.timer : /\ u.task[r] # None
                           /\ u.flight[<<r, "edit">>] # None => u.flight[<<r, "edit">>].request # u.task[r]
    <3>1. ASSUME NEW r \in t.timer, r # s
          PROVE  /\ u.task[r] # None
                 /\ u.flight[<<r, "edit">>] # None => u.flight[<<r, "edit">>].request # u.task[r]
      <4>1. r \in Shapes BY DEF Tab
      <4>2. QED BY <1>1, <3>1, <4>1 DEF TabGood, Keyed
    <3>2. u.timer = t.timer \union {s} /\ u.flight = t.flight
      OBVIOUS
    <3> HIDE DEF Edits
    <3>3. u.task[s] # None /\ (u.flight[<<s, "edit">>] # None => u.flight[<<s, "edit">>].request # u.task[s])
      BY <1>1, <1>3, <1>5, <3>2
    <3>4. QED BY <3>1, <3>2, <3>3
  <2>4. QED BY <2>1, <2>2, <2>3 DEF Keyed
<1>7. Numbered(u)'
  <2>1. Larger(u.mine[s]) = q.value
    BY TabNumbers DEF TabGood, Numbered, Larger
  <2>2. \A r \in Shapes : u.mine[r].geo <= used.edits + 1 /\ u.mine[r].lab <= used.edits + 1
                          /\ u.draft[r] <= used.edits + 1
    BY TabNumbers DEF TabGood, Numbered
  <2>3. \A r \in Shapes : u.task[r] # None => u.task[r].value >= 1 /\ u.task[r].value = Larger(u.mine[r])
    <3>1. ASSUME NEW r \in Shapes \ {s}, u.task[r] # None
          PROVE  u.task[r].value >= 1 /\ u.task[r].value = Larger(u.mine[r])
      BY <1>1, <3>1 DEF TabGood, Numbered
    <3>2. QED BY <1>1, <2>1, <3>1
  <2>4. \A k \in Flights : u.flight[k] # None =>
          /\ u.flight[k].request.value <= used.edits + 1
          /\ IF k[2] = "delete" THEN u.flight[k].request.value = 0 ELSE u.flight[k].request.value >= 1
    BY TabNumbers DEF TabGood, Numbered
  <2>5. \A r \in Shapes : u.task[r] # None /\ u.flight[<<r, "edit">>] # None
          /\ u.flight[<<r, "edit">>].request.value = u.task[r].value
            => u.flight[<<r, "edit">>].request = u.task[r]
    BY <1>1, <1>5 DEF TabGood, Numbered
  <2>6. QED BY <2>2, <2>3, <2>4, <2>5 DEF Numbered
<1>8. Truthful(u)'
  BY <1>1 DEF TabGood, Truthful
<1>9. Awaited(u)'
  <2>1. u.barrier = t.barrier /\ u.flight = t.flight /\ Awaited(t)
    BY DEF TabGood
  <2> HIDE DEF Edits
  <2>2. stored' = stored
    OBVIOUS
  <2>3. QED BY <2>1, <2>2 DEF Awaited
<1>10. QED BY <1>6, <1>7, <1>8, <1>9 DEF TabGood, Keyed

LEMMA SendGood ==
  ASSUME NEW t \in Tab, NEW u \in Tab, TabGood(t), NEW S, Sends(t, u, S),
         \/ u.barrier = t.barrier
         \/ /\ u.barrier.drafts = {t.task[s] : s \in S}
            /\ \A s \in S : <<s, "edit">> \in u.barrier.waits,
         used'.edits = used.edits, used.edits \in Nat, stored' = stored
  PROVE  TabGood(u)'
<1>1. /\ u.task = t.task /\ u.draft = t.draft /\ u.mine = t.mine /\ u.timer \subseteq t.timer \ S
      /\ S \subseteq Shapes /\ \A s \in S : t.task[s] # None /\ t.flight[<<s, "edit">>] = None
      /\ \A k \in Flights : u.flight[k] = IF k[1] \in S /\ k[2] = "edit" THEN New(t.task[k[1]]) ELSE t.flight[k]
      /\ \A s \in Shapes : u.state[s] = IF s \in S THEN "saving" ELSE t.state[s]
  BY DEF Sends
<1>2. \A s \in Shapes : /\ s \in S => u.flight[<<s, "edit">>] = New(t.task[s])
                        /\ s \notin S => u.flight[<<s, "edit">>] = t.flight[<<s, "edit">>]
  BY <1>1 DEF Flights, Slots
<1>3. \A s \in S : t.task[s] # None /\ t.task[s].shape = s /\ t.task[s].kind \in Kinds("edit")
                   /\ t.task[s].value >= 1 /\ t.task[s].value <= used.edits
  BY <1>1, TabNumbers DEF TabGood, Keyed, Numbered, Larger
<1>4. \A q : New(q).request = q /\ New(q).answer = "none"
  BY DEF New
<1>5. Keyed(u)
  <2>1. \A k \in Flights : u.flight[k] # None =>
          u.flight[k].request.shape = k[1] /\ u.flight[k].request.kind \in Kinds(k[2])
    BY <1>1, <1>3, <1>4 DEF TabGood, Keyed
  <2>2. \A r \in u.timer : r \in Shapes \ S /\ r \in t.timer
    BY <1>1 DEF Tab
  <2>3. \A r \in u.timer : /\ u.task[r] # None
                           /\ u.flight[<<r, "edit">>] # None => u.flight[<<r, "edit">>].request # u.task[r]
    BY <1>1, <1>2, <2>2 DEF TabGood, Keyed
  <2>4. QED BY <1>1, <2>1, <2>3 DEF TabGood, Keyed
<1>6. Numbered(u)'
  <2>1. \A k \in Flights : u.flight[k] # None =>
          /\ u.flight[k].request.value <= used.edits
          /\ IF k[2] = "delete" THEN u.flight[k].request.value = 0 ELSE u.flight[k].request.value >= 1
    BY <1>1, <1>3, <1>4 DEF TabGood, Numbered
  <2>2. \A r \in Shapes : u.task[r] # None /\ u.flight[<<r, "edit">>] # None
          /\ u.flight[<<r, "edit">>].request.value = u.task[r].value
            => u.flight[<<r, "edit">>].request = u.task[r]
    BY <1>1, <1>2, <1>4 DEF TabGood, Numbered
  <2>3. QED BY <1>1, <2>1, <2>2 DEF TabGood, Numbered
<1>7. Truthful(u)'
  BY <1>1, <1>4 DEF TabGood, Truthful
<1>8. Awaited(u)'
  <2>1. CASE u.barrier = t.barrier
    <3>1. SUFFICES ASSUME u.barrier # None, u.barrier.ok, NEW q \in u.barrier.drafts, q.value \notin stored
                   PROVE  /\ <<q.shape, "edit">> \in u.barrier.waits /\ u.flight[<<q.shape, "edit">>] # None
                          /\ u.flight[<<q.shape, "edit">>].request = q
      BY DEF Awaited
    <3>2. /\ <<q.shape, "edit">> \in t.barrier.waits /\ t.flight[<<q.shape, "edit">>] # None
          /\ t.flight[<<q.shape, "edit">>].request = q
      BY <2>1, <3>1 DEF TabGood, Awaited
    <3>3. q.shape \in Shapes
      BY <2>1, <3>1 DEF Tab, Barrier, Request
    <3>4. q.shape \notin S
      BY <1>1, <3>2
    <3>5. QED BY <1>2, <2>1, <3>2, <3>3, <3>4
  <2>2. CASE /\ u.barrier.drafts = {t.task[s] : s \in S}
             /\ \A s \in S : <<s, "edit">> \in u.barrier.waits
    <3>1. ASSUME NEW s \in S
          PROVE  /\ t.task[s].shape = s /\ <<s, "edit">> \in u.barrier.waits
                 /\ u.flight[<<s, "edit">>] # None /\ u.flight[<<s, "edit">>].request = t.task[s]
      <4>1. t.task[s] \in Request
        BY <1>1, <1>3 DEF Tab
      <4>2. QED BY <1>1, <1>2, <1>3, <1>4, <2>2, <4>1, NewFlight
    <3>2. QED
      <4>1. ASSUME NEW q \in u.barrier.drafts
            PROVE  /\ <<q.shape, "edit">> \in u.barrier.waits /\ u.flight[<<q.shape, "edit">>] # None
                   /\ u.flight[<<q.shape, "edit">>].request = q
        <5>1. PICK s \in S : q = t.task[s]
          BY <2>2
        <5>2. QED BY <3>1, <5>1
      <4>2. QED BY <4>1 DEF Awaited
  <2>3. QED BY <2>1, <2>2
<1>9. QED BY <1>5, <1>6, <1>7, <1>8 DEF TabGood, Keyed

LEMMA LaunchGood ==
  ASSUME NEW t \in Tab, NEW u \in Tab, TabGood(t), NEW k \in Flights, NEW q \in Request, Launches(t, u, k, q),
         k[2] \in {"create", "delete"}, q.shape = k[1], q.kind = k[2],
         k[2] = "create" => q.value = used.edits + 1 /\ used'.edits = used.edits + 1,
         k[2] = "delete" => q.value = 0,
         Grows, stored' = stored
  PROVE  TabGood(u)'
<1>1. /\ u.task = t.task /\ u.timer = t.timer /\ u.state = t.state
      /\ u.draft = t.draft /\ u.mine = t.mine /\ u.barrier = t.barrier
  BY DEF Launches
<1>2. u.flight[k] = New(q) /\ \A j \in Flights \ {k} : u.flight[j] = t.flight[j]
  BY DEF Launches, Tab, Flights
<1>3. \A s \in Shapes : u.flight[<<s, "edit">>] = t.flight[<<s, "edit">>]
  BY <1>2 DEF Flights, Slots
<1>4. New(q).request = q /\ New(q).answer = "none"
  BY DEF New
<1>5. Keyed(u)
  <2>1. \A j \in Flights : u.flight[j] # None =>
          u.flight[j].request.shape = j[1] /\ u.flight[j].request.kind \in Kinds(j[2])
    <3>1. q.shape = k[1] /\ q.kind \in Kinds(k[2])
      BY DEF Kinds
    <3>2. \A j \in Flights \ {k} : u.flight[j] # None =>
            u.flight[j].request.shape = j[1] /\ u.flight[j].request.kind \in Kinds(j[2])
      BY <1>2 DEF TabGood, Keyed
    <3>3. QED BY <1>2, <1>4, <3>1, <3>2
  <2>2. \A s \in u.timer : /\ u.task[s] # None
                           /\ u.flight[<<s, "edit">>] # None => u.flight[<<s, "edit">>].request # u.task[s]
    BY <1>1, <1>3 DEF TabGood, Keyed, Tab
  <2>3. QED BY <1>1, <2>1, <2>2 DEF TabGood, Keyed
<1>6. Numbered(u)'
  <2>1. \A j \in Flights : u.flight[j] # None =>
          /\ u.flight[j].request.value <= used'.edits
          /\ IF j[2] = "delete" THEN u.flight[j].request.value = 0 ELSE u.flight[j].request.value >= 1
    <3>1. ASSUME NEW j \in Flights \ {k}, u.flight[j] # None
          PROVE  /\ u.flight[j].request.value <= used'.edits
                 /\ IF j[2] = "delete" THEN u.flight[j].request.value = 0 ELSE u.flight[j].request.value >= 1
      BY <1>2, <3>1, TabNumbers DEF TabGood, Numbered, Grows
    <3>2. /\ q.value <= used'.edits
          /\ IF k[2] = "delete" THEN q.value = 0 ELSE q.value >= 1
      BY DEF Grows
    <3>3. QED BY <1>2, <1>4, <3>1, <3>2
  <2>2. \A s \in Shapes : u.task[s] # None /\ u.flight[<<s, "edit">>] # None
          /\ u.flight[<<s, "edit">>].request.value = u.task[s].value
            => u.flight[<<s, "edit">>].request = u.task[s]
    BY <1>1, <1>3 DEF TabGood, Numbered
  <2>3. Numbered(t)'
    BY KeptGood DEF TabGood
  <2>4. QED BY <1>1, <2>1, <2>2, <2>3 DEF Numbered
<1>7. Truthful(u)'
  <2>1. \A j \in Flights : u.flight[j] # None /\ u.flight[j].answer = "saved" => u.flight[j].request.value \in stored
    BY <1>2, <1>4 DEF TabGood, Truthful
  <2>2. QED BY <1>1, <2>1 DEF TabGood, Truthful
<1>8. Awaited(u)'
  <2>1. u.barrier # None => \A p \in u.barrier.drafts : p.shape \in Shapes
    BY DEF Tab, Barrier, Request
  <2>2. QED BY <1>1, <1>3, <2>1 DEF TabGood, Awaited
<1>9. QED BY <1>5, <1>6, <1>7, <1>8 DEF TabGood, Keyed

LEMMA AnswerGood ==
  ASSUME NEW t \in Tab, NEW u \in Tab, TabGood(t), NEW k \in Flights, NEW answer, NEW reply,
         Answers(t, u, k, answer, reply),
         answer = "saved" => t.flight[k].request.value \in stored',
         used'.edits = used.edits, Grows
  PROVE  TabGood(u)'
<1>1. /\ u.task = t.task /\ u.timer = t.timer /\ u.state = t.state
      /\ u.draft = t.draft /\ u.mine = t.mine /\ u.barrier = t.barrier
  BY DEF Answers
<1>2. \A j \in Flights \ {k} : u.flight[j] = t.flight[j]
  BY DEF Answers, Tab, Flights
<1>3. \A j \in Flights : /\ u.flight[j] = None <=> t.flight[j] = None
                         /\ u.flight[j].request = t.flight[j].request
  BY <1>2 DEF Answers
<1>4. \A s \in Shapes : /\ u.flight[<<s, "edit">>] = None <=> t.flight[<<s, "edit">>] = None
                        /\ u.flight[<<s, "edit">>].request = t.flight[<<s, "edit">>].request
  BY <1>3 DEF Flights, Slots
<1>5. Keyed(u)
  <2>1. \A s \in u.timer : /\ u.task[s] # None
                           /\ u.flight[<<s, "edit">>] # None => u.flight[<<s, "edit">>].request # u.task[s]
    BY <1>1, <1>4 DEF TabGood, Keyed, Tab
  <2>2. QED BY <1>1, <1>3, <2>1 DEF TabGood, Keyed
<1>6. Numbered(u)'
  BY <1>1, <1>3, <1>4 DEF TabGood, Numbered
<1>7. Truthful(u)'
  <2>1. \A j \in Flights : u.flight[j] # None /\ u.flight[j].answer = "saved" => u.flight[j].request.value \in stored'
    BY <1>2, <1>3 DEF TabGood, Truthful, Answers, Grows
  <2>2. QED BY <1>1, <2>1 DEF TabGood, Truthful, Grows
<1>8. Awaited(u)'
  <2>1. u.barrier # None => \A p \in u.barrier.drafts : p.shape \in Shapes
    BY DEF Tab, Barrier, Request
  <2>2. QED BY <1>1, <1>4, <2>1 DEF TabGood, Awaited, Grows
<1>9. QED BY <1>5, <1>6, <1>7, <1>8 DEF TabGood, Keyed

LEMMA HearGood ==
  ASSUME NEW t \in Tab, NEW u \in Tab, TabGood(t), NEW k \in Flights, Hears(t, u, k),
         used' = used, stored' = stored, used.edits \in Nat
  PROVE  TabGood(u)'
<1> DEFINE f == t.flight[k]
           s == k[1]
           newest == k[2] = "edit" /\ t.task[s] = f.request
<1>1. /\ f # None /\ u.timer = t.timer /\ u.mine = t.mine /\ s \in Shapes
      /\ u.task = IF newest THEN [t.task EXCEPT ![s] = None] ELSE t.task
      /\ \A r \in Shapes \ {s} : u.state[r] = t.state[r] /\ u.draft[r] = t.draft[r]
      /\ u.draft[s] = t.draft[s] \/ (k[2] = "edit" /\ u.draft[s] = f.request.value)
      /\ u.state[s] = "saved" => t.state[s] = "saved" \/ (f.answer = "saved" /\ newest)
      /\ u.state[s] = "conflict" => \/ t.state[s] = "conflict" /\ u.draft[s] = t.draft[s]
                                    \/ k[2] = "edit" /\ u.draft[s] = f.request.value
      /\ HearsBarrier(t, u, k, f.answer)
  BY DEF Hears, Flights
<1>2. u.flight[k] = None /\ \A j \in Flights \ {k} : u.flight[j] = t.flight[j]
  BY DEF Hears, Tab, Flights
<1>3. k[2] = "edit" => k = <<s, "edit">>
  BY DEF Flights
<1>4. \A r \in Shapes : /\ u.flight[<<r, "edit">>] # None => u.flight[<<r, "edit">>] = t.flight[<<r, "edit">>]
                        /\ <<r, "edit">> # k => u.flight[<<r, "edit">>] = t.flight[<<r, "edit">>]
  BY <1>2 DEF Flights, Slots
<1>5. /\ \A r \in Shapes : u.task[r] # None => u.task[r] = t.task[r]
      /\ newest => u.task[s] = None
      /\ \A r \in Shapes : r # s \/ ~ newest => u.task[r] = t.task[r]
  BY <1>1 DEF Tab
<1>6. k[2] = "edit" => f.request.value >= 1 /\ f.request.value <= used.edits /\ f.request.value \in Nat
  BY <1>1, TabNumbers DEF TabGood, Numbered
<1>7. f.answer = "saved" => f.request.value \in stored
  BY <1>1 DEF TabGood, Truthful
<1>8. Keyed(u)
  <2>1. ASSUME NEW r \in u.timer
        PROVE  /\ u.task[r] # None
               /\ u.flight[<<r, "edit">>] # None => u.flight[<<r, "edit">>].request # u.task[r]
    <3>1. r \in Shapes /\ r \in t.timer
      BY <1>1 DEF Tab
    <3>2. /\ t.task[r] # None
          /\ t.flight[<<r, "edit">>] # None => t.flight[<<r, "edit">>].request # t.task[r]
      BY <3>1 DEF TabGood, Keyed
    <3>3. ~ (newest /\ r = s)
      BY <1>1, <1>3, <3>2
    <3>4. QED BY <1>4, <1>5, <3>1, <3>2, <3>3
  <2>2. \A j \in Flights : u.flight[j] # None =>
          u.flight[j].request.shape = j[1] /\ u.flight[j].request.kind \in Kinds(j[2])
    BY <1>2 DEF TabGood, Keyed
  <2>3. QED BY <1>5, <2>1, <2>2 DEF TabGood, Keyed
<1>9. Numbered(u)
  <2>1. \A r \in Shapes : u.draft[r] <= used.edits
    BY <1>1, <1>6 DEF TabGood, Numbered
  <2>2. \A r \in Shapes : u.task[r] # None /\ u.flight[<<r, "edit">>] # None
          /\ u.flight[<<r, "edit">>].request.value = u.task[r].value
            => u.flight[<<r, "edit">>].request = u.task[r]
    BY <1>4, <1>5 DEF TabGood, Numbered
  <2>3. \A r \in Shapes : u.task[r] # None => u.task[r].value >= 1 /\ u.task[r].value = Larger(u.mine[r])
    BY <1>1, <1>5 DEF TabGood, Numbered
  <2>4. \A j \in Flights : u.flight[j] # None =>
          /\ u.flight[j].request.value <= used.edits
          /\ IF j[2] = "delete" THEN u.flight[j].request.value = 0 ELSE u.flight[j].request.value >= 1
    BY <1>2 DEF TabGood, Numbered
  <2>5. QED BY <1>1, <2>1, <2>2, <2>3, <2>4 DEF TabGood, Numbered
<1>10. Truthful(u)
  <2>1. \A r \in Shapes : u.state[r] = "saved" => Larger(u.mine[r]) \in stored
    <3>1. newest => f.request.value = Larger(t.mine[s])
      <4>1. newest => t.task[s] # None
        <5>1. f.request # None
          BY <1>1, TabNumbers, NoneAssumption
        <5>2. QED BY <5>1
      <4>2. QED BY <1>1, <4>1 DEF TabGood, Numbered
    <3>2. QED BY <1>1, <1>7, <3>1 DEF TabGood, Truthful
  <2>2. \A r \in Shapes : u.state[r] = "conflict" => u.draft[r] # 0
    BY <1>1, <1>6 DEF TabGood, Truthful
  <2>3. \A j \in Flights : u.flight[j] # None /\ u.flight[j].answer = "saved" => u.flight[j].request.value \in stored
    BY <1>2 DEF TabGood, Truthful
  <2>4. QED BY <2>1, <2>2, <2>3 DEF Truthful
<1>11. Awaited(u)
  <2>1. SUFFICES ASSUME u.barrier # None, u.barrier.ok, NEW q \in u.barrier.drafts, q.value \notin stored
                 PROVE  /\ <<q.shape, "edit">> \in u.barrier.waits /\ u.flight[<<q.shape, "edit">>] # None
                        /\ u.flight[<<q.shape, "edit">>].request = q
    BY DEF Awaited
  <2>2. t.barrier # None /\ t.barrier.ok /\ q \in t.barrier.drafts
    BY <1>1, <2>1 DEF HearsBarrier
  <2>3. /\ <<q.shape, "edit">> \in t.barrier.waits /\ t.flight[<<q.shape, "edit">>] # None
        /\ t.flight[<<q.shape, "edit">>].request = q
    BY <2>1, <2>2 DEF TabGood, Awaited
  <2>4. q.shape \in Shapes
    BY <2>1 DEF Tab, Barrier, Request
  <2>5. <<q.shape, "edit">> # k
    BY <1>1, <1>7, <2>1, <2>3 DEF HearsBarrier
  <2>6. <<q.shape, "edit">> \in u.barrier.waits
    BY <1>1, <2>3, <2>5 DEF HearsBarrier
  <2>7. QED BY <1>4, <2>3, <2>4, <2>5, <2>6
<1>12. QED BY <1>8, <1>9, <1>10, <1>11 DEF TabGood, Keyed, Numbered, Truthful, Awaited

LEMMA PlainGood ==
  ASSUME NEW t \in Tab, NEW u \in Tab, TabGood(t), Keys(t, u),
         \/ u.barrier \in {None, t.barrier}
         \/ /\ t.barrier # None /\ u.barrier # None
            /\ u.barrier.ok = t.barrier.ok /\ u.barrier.waits = t.barrier.waits
            /\ u.barrier.drafts = t.barrier.drafts
  PROVE  TabGood(u)
<1>1. Keyed(u) /\ Numbered(u) /\ Truthful(u)
  BY DEF TabGood, Keys, Keyed, Numbered, Truthful
<1>2. Awaited(u)
  BY DEF TabGood, Keys, Awaited
<1>3. QED BY <1>1, <1>2 DEF TabGood

LEMMA OpenedGood ==
  ASSUME NEW u, u = Opened, used.edits \in Nat
  PROVE  TabGood(u)
<1>1. Keyed(u)
  BY DEF Opened, Keyed, Flights
<1>2. Numbered(u)
  BY DEF Opened, Numbered, Flights, Slots
<1>3. Truthful(u)
  BY DEF Opened, Truthful, Flights
<1>4. Awaited(u)
  BY DEF Opened, Awaited
<1>5. QED BY <1>1, <1>2, <1>3, <1>4 DEF TabGood

-----------------------------------------------------------------------------
(* The rows, and the rest of a step beside the tab.                         *)
LEMMA AppliedRows ==
  ASSUME row \in Rows, NEW q \in Request, Accepted(q), NEW rows, rows = Applied(q)
  PROVE  /\ rows \in Rows
         /\ \A r \in Shapes \ {q.shape} : rows[r] = row[r]
         /\ q.kind = "create" /\ row[q.shape] = None => rows[q.shape] # None /\ rows[q.shape].revision = 1
         /\ q.kind = "create" /\ row[q.shape] # None => rows = row
         /\ q.kind \in {"geo", "lab"} =>
              /\ row[q.shape] # None /\ rows[q.shape] # None
              /\ rows[q.shape].revision = row[q.shape].revision + 1
         /\ q.kind = "delete" => rows[q.shape] = None
         /\ q.kind # "create" => row[q.shape] # None /\ row[q.shape].revision = q.revision
<1> DEFINE s == q.shape
<1>1. s \in Shapes /\ q.value \in 0 .. MaxEdits /\ q.kind \in Kind
  BY DEF Request
<1>2. q.kind # "create" => row[s] # None /\ row[s].revision = q.revision
  BY DEF Accepted, Missing, Stale
<1>3. CASE q.kind = "create" /\ row[s] = None
  <2>1. rows = [row EXCEPT ![s] = [revision |-> 1, geo |-> q.value, lab |-> 0]]
    BY <1>3 DEF Applied
  <2>2. [revision |-> 1, geo |-> q.value, lab |-> 0] \in Row
    BY <1>1, ReviewBoundsAssumption DEF Row
  <2>3. QED BY <1>1, <1>3, <2>1, <2>2, NoneAssumption DEF Rows
<1>4. CASE q.kind = "create" /\ row[s] # None
  <2>1. rows = row
    BY <1>4 DEF Applied
  <2>2. QED BY <1>4, <2>1
<1>5. CASE q.kind = "geo"
  <2>1. rows = [row EXCEPT ![s].geo = q.value, ![s].revision = row[s].revision + 1]
    BY <1>1, <1>5 DEF Applied, Rows
  <2>2. row[s] \in Row
    BY <1>1, <1>2, <1>5 DEF Rows
  <2>3. rows[s] \in Row /\ rows[s].revision = row[s].revision + 1
    BY <1>1, <2>1, <2>2 DEF Rows, Row
  <2>4. rows \in Rows /\ \A r \in Shapes \ {s} : rows[r] = row[r]
    BY <1>1, <2>1, <2>2, <2>3 DEF Rows
  <2>5. QED BY <1>2, <1>5, <2>3, <2>4, NoneAssumption
<1>6. CASE q.kind = "lab"
  <2>1. rows = [row EXCEPT ![s].lab = q.value, ![s].revision = row[s].revision + 1]
    BY <1>1, <1>6 DEF Applied, Rows
  <2>2. row[s] \in Row
    BY <1>1, <1>2, <1>6 DEF Rows
  <2>3. rows[s] \in Row /\ rows[s].revision = row[s].revision + 1
    BY <1>1, <2>1, <2>2 DEF Rows, Row
  <2>4. rows \in Rows /\ \A r \in Shapes \ {s} : rows[r] = row[r]
    BY <1>1, <2>1, <2>2, <2>3 DEF Rows
  <2>5. QED BY <1>2, <1>6, <2>3, <2>4, NoneAssumption
<1>7. CASE q.kind = "delete"
  <2>1. rows = [row EXCEPT ![s] = None]
    BY <1>7 DEF Applied
  <2>2. QED BY <1>1, <1>2, <1>7, <2>1 DEF Rows
<1>8. QED BY <1>1, <1>3, <1>4, <1>5, <1>6, <1>7 DEF Kind

(* A request is served: the answer, the rows and what is stored belong      *)
(* together.                                                                *)
Serves(q, answer) ==
  \/ /\ Accepted(q) /\ answer = "saved" /\ row' = Applied(q) /\ stored' = stored \union {q.value}
     /\ used' = [used EXCEPT !.reborn = used.reborn \union Reborn(q)]
  \/ ~ Accepted(q) /\ answer \in {"conflict", "failed"} /\ UNCHANGED <<row, stored, used>>

LEMMA ServeEffect ==
  ASSUME TypeOK, NEW c \in Labelers, NEW k \in Flights, Serve(c, k)
  PROVE  /\ tab' = [tab EXCEPT ![c] = tab'[c]] /\ tab'[c] \in Tab /\ row' \in Rows
         /\ tab[c].flight[k] # None /\ tab[c].flight[k].request \in Request /\ tab[c].flight[k].answer = "none"
         /\ \E answer \in Answer \ {"none"} :
              /\ Serves(tab[c].flight[k].request, answer)
              /\ Answers(tab[c], tab'[c], k, answer, row'[tab[c].flight[k].request.shape])
<1> DEFINE q == tab[c].flight[k].request
           Post(answer) == tab' = [tab EXCEPT ![c].flight[k].answer = answer, ![c].flight[k].reply = row'[q.shape]]
<1>1. tab[c].flight[k] # None /\ tab[c] \in Tab /\ row \in Rows /\ tab[c].flight[k].answer = "none"
  BY TabTyped DEF Serve, TypeOK
<1>2. q \in Request /\ q.shape \in Shapes
  BY <1>1, FlightTyped DEF Request
<1>3. \E answer \in Answer \ {"none"} : Serves(q, answer) /\ Post(answer)
  <2>1. CASE Accepted(q)
    <3>1. Serves(q, "saved") /\ Post("saved")
      BY <2>1 DEF Serve, Serves
    <3>2. QED BY <3>1 DEF Answer
  <2>2. CASE ~ Accepted(q)
    <3>1. Refusal(q) \in {"conflict", "failed"}
      BY DEF Refusal
    <3>2. Serves(q, Refusal(q)) /\ Post(Refusal(q))
      BY <2>2, <3>1 DEF Serve, Serves
    <3>3. QED BY <3>1, <3>2 DEF Answer
  <2>3. QED BY <2>1, <2>2
<1>4. PICK answer \in Answer \ {"none"} : Serves(q, answer) /\ Post(answer)
  BY <1>3
<1>5. row' \in Rows
  BY <1>1, <1>2, <1>4, AppliedRows DEF Serves
<1>6. row'[q.shape] \in Row \union {None}
  BY <1>2, <1>5 DEF Rows
<1>7. /\ tab' = [tab EXCEPT ![c] = tab'[c]] /\ tab'[c] \in Tab
      /\ Answers(tab[c], tab'[c], k, answer, row'[q.shape])
  BY <1>1, <1>4, <1>6, ServeTab
<1>8. QED BY <1>1, <1>2, <1>4, <1>5, <1>7

-----------------------------------------------------------------------------
(* TypeOK and TabInv, step by step.                                         *)
Beside == Grows /\ UsedOK' /\ row' \in Rows /\ stored' \subseteq 0 .. used'.edits

LEMMA UsedNumbers ==
  ASSUME UsedOK
  PROVE  used.edits \in Nat /\ used.others \in Nat /\ used.edits <= MaxEdits
         /\ used.ids \subseteq Shapes /\ used.reborn \subseteq Shapes
BY ReviewBoundsAssumption DEF UsedOK

LEMMA QuietBeside ==
  ASSUME UsedOK, row \in Rows, stored \subseteq 0 .. used.edits, UNCHANGED <<row, stored>>,
         UsedOK' /\ used'.edits \in {used.edits, used.edits + 1}
  PROVE  Beside
BY UsedNumbers, ReviewBoundsAssumption DEF Beside, Grows, UsedOK

LEMMA ServeGood ==
  ASSUME TypeOK, TabInv, NEW c \in Labelers, NEW u, u = tab'[c], NEW k \in Flights, Serve(c, k)
  PROVE  tab' = [tab EXCEPT ![c] = u] /\ u \in Tab /\ TabGood(u)' /\ Beside
<1> DEFINE t == tab[c]
           q == t.flight[k].request
<1>1. t \in Tab /\ TabGood(t) /\ UsedOK /\ used.edits \in Nat /\ stored \subseteq 0 .. used.edits
  BY TabTyped, UsedNumbers DEF TabInv, TabGood, TypeOK, UsedOK
<1>2. tab' = [tab EXCEPT ![c] = u] /\ u \in Tab /\ row' \in Rows /\ t.flight[k] # None /\ q \in Request
  BY ServeEffect
<1>3. PICK answer \in Answer : Serves(q, answer) /\ Answers(t, u, k, answer, row'[q.shape])
  BY ServeEffect
<1>4. q.value \in 0 .. used.edits
  BY <1>1, <1>2, TabNumbers DEF TabGood, Numbered
<1>5. used'.edits = used.edits /\ UsedOK' /\ stored \subseteq stored' /\ stored' \subseteq 0 .. used'.edits
      /\ (answer = "saved" => q.value \in stored')
  <2>1. CASE used' = [used EXCEPT !.reborn = used.reborn \union Reborn(q)]
              /\ stored' = stored \union {q.value}
    BY <1>1, <1>2, <1>4, <2>1, ServeUsed
  <2>2. CASE UNCHANGED <<stored, used>> /\ answer \in {"conflict", "failed"}
    BY <1>1, <2>2 DEF UsedOK
  <2>3. QED BY <1>3, <2>1, <2>2 DEF Serves
<1>6. Beside
  BY <1>1, <1>2, <1>5 DEF Beside, Grows
<1> HIDE DEF t, q
<1>7. TabGood(u)'
  BY <1>1, <1>2, <1>3, <1>5, <1>6, AnswerGood DEF Beside, q
<1>8. QED BY <1>2, <1>6, <1>7

LEMMA LabelerGood ==
  ASSUME TypeOK, TabInv, NEW c \in Labelers, NEW u, u = tab'[c], LabelerStep(c)
  PROVE  tab' = [tab EXCEPT ![c] = u] /\ u \in Tab /\ TabGood(u)' /\ Beside
<1> DEFINE t == tab[c]
           Goal == tab' = [tab EXCEPT ![c] = u] /\ u \in Tab /\ TabGood(u)' /\ Beside
<1>1. t \in Tab /\ TabGood(t) /\ Keyed(t) /\ UsedOK /\ used.edits \in Nat
      /\ stored \subseteq 0 .. used.edits /\ row \in Rows
  BY TabTyped, UsedNumbers DEF TabInv, TabGood, TypeOK, UsedOK
<1>2. ASSUME NEW s \in Shapes, NEW field \in {"geo", "lab"}, Edit(c, s, field) PROVE Goal
  <2>1. tab' = [tab EXCEPT ![c] = u] /\ u \in Tab
    BY <1>2, EditTab
  <2>2. PICK q \in Request : /\ q.kind = field /\ q.shape = s /\ q.value = used.edits + 1
                             /\ Edits(t, u, s, q)
    BY <1>2, EditTab
  <2>3. UsedOK' /\ used'.edits = used.edits + 1 /\ UNCHANGED <<row, stored>>
    BY <1>1, <1>2, SpendUsed DEF Edit, UsedOK
  <2>4. TabGood(u)'
    BY <1>1, <2>1, <2>2, <2>3, EditGood
  <2>5. Beside
    BY <1>1, <2>3, QuietBeside
  <2>6. QED BY <2>1, <2>4, <2>5
<1>3. ASSUME NEW s \in Shapes, TimerFires(c, s) PROVE Goal
  <2>1. tab' = [tab EXCEPT ![c] = u] /\ u \in Tab /\ u.barrier = t.barrier
    BY <1>1, <1>3, TimerTab
  <2>2. PICK S \in SUBSET Shapes : Sends(t, u, S)
    BY <1>1, <1>3, TimerTab
  <2>3. UNCHANGED <<row, stored, used>>
    BY <1>3 DEF TimerFires
  <2>4. TabGood(u)'
    BY <1>1, <2>1, <2>2, <2>3, SendGood
  <2>5. Beside
    BY <1>1, <2>3, QuietBeside DEF UsedOK
  <2>6. QED BY <2>1, <2>4, <2>5
<1>4. ASSUME NEW s \in Shapes, Draw(c, s) PROVE Goal
  <2>1. tab' = [tab EXCEPT ![c] = u] /\ u \in Tab
    BY <1>4, DrawTab
  <2>2. PICK q \in Request : /\ q.kind = "create" /\ q.shape = s /\ q.value = used.edits + 1
                             /\ Launches(t, u, <<s, "create">>, q)
    BY <1>4, DrawTab
  <2>3. UsedOK' /\ used'.edits = used.edits + 1 /\ UNCHANGED <<row, stored>>
    BY <1>1, <1>4, NewIdUsed DEF Draw
  <2>4. Beside
    BY <1>1, <2>3, QuietBeside
  <2>5. <<s, "create">> \in Flights
    BY DEF Flights, Slots
  <2>6. TabGood(u)'
    BY <1>1, <2>1, <2>2, <2>3, <2>4, <2>5, LaunchGood DEF Beside
  <2>7. QED BY <2>1, <2>4, <2>6
<1>5. ASSUME NEW s \in Shapes, Delete(c, s) PROVE Goal
  <2>1. tab' = [tab EXCEPT ![c] = u] /\ u \in Tab
    BY <1>5, DeleteTab
  <2>2. PICK q \in Request : /\ q.kind = "delete" /\ q.shape = s /\ q.value = 0
                             /\ Launches(t, u, <<s, "delete">>, q)
    BY <1>5, DeleteTab
  <2>3. UsedOK' /\ used'.edits = used.edits /\ UNCHANGED <<row, stored>>
    BY <1>1, <1>5, SpendUsed DEF Delete, UsedOK
  <2>4. Beside
    BY <1>1, <2>3, QuietBeside
  <2>5. <<s, "delete">> \in Flights
    BY DEF Flights, Slots
  <2>6. TabGood(u)'
    BY <1>1, <2>1, <2>2, <2>3, <2>4, <2>5, LaunchGood DEF Beside
  <2>7. QED BY <2>1, <2>4, <2>6
<1>6. ASSUME NEW k \in Flights, Serve(c, k) PROVE Goal
  BY <1>6, ServeGood
<1>7. ASSUME NEW k \in Flights, LoseAnswer(c, k) PROVE Goal
  <2>1. tab' = [tab EXCEPT ![c] = u] /\ u \in Tab
    BY <1>7, LoseTab
  <2>2. PICK a \in {"lost", "none"} : Answers(t, u, k, a, t.flight[k].reply)
    BY <1>7, LoseTab
  <2>3. UsedOK' /\ used'.edits = used.edits /\ UNCHANGED <<row, stored>>
    BY <1>1, <1>7, SpendUsed DEF LoseAnswer, UsedOK
  <2>4. Beside
    BY <1>1, <2>3, QuietBeside
  <2>5. TabGood(u)'
    BY <1>1, <2>1, <2>2, <2>3, <2>4, AnswerGood DEF Beside
  <2>6. QED BY <2>1, <2>4, <2>5
<1>8. ASSUME NEW k \in Flights, Receive(c, k) PROVE Goal
  <2>1. tab' = [tab EXCEPT ![c] = u] /\ u \in Tab /\ Hears(t, u, k)
    BY <1>1, <1>8, ReceiveTab
  <2>2. UNCHANGED <<row, stored, used>>
    BY <1>8 DEF Receive
  <2>3. Beside
    BY <1>1, <2>2, QuietBeside DEF UsedOK
  <2>4. TabGood(u)'
    BY <1>1, <2>1, <2>2, HearGood
  <2>5. QED BY <2>1, <2>3, <2>4
<1>9. ASSUME NEW goal \in {"submit", "leave"}, Flush(c, goal) PROVE Goal
  <2>1. /\ tab' = [tab EXCEPT ![c] = u] /\ u \in Tab /\ Sends(t, u, Idle(t))
        /\ u.barrier.drafts = {t.task[s] : s \in Idle(t)}
        /\ \A s \in Idle(t) : <<s, "edit">> \in u.barrier.waits
    BY <1>1, <1>9, FlushTab
  <2>2. UNCHANGED <<row, stored, used>>
    BY <1>9 DEF Flush
  <2>3. Beside
    BY <1>1, <2>2, QuietBeside DEF UsedOK
  <2>4. TabGood(u)'
    BY <1>1, <2>1, <2>2, SendGood
  <2>5. QED BY <2>1, <2>3, <2>4
<1>10. ASSUME FlushFails(c) \/ FlushReads(c) \/ Submit(c) \/ Leave(c) \/ Refresh(c) PROVE Goal
  <2>1. /\ tab' = [tab EXCEPT ![c] = u] /\ u \in Tab /\ Keys(t, u)
        /\ \/ u.barrier \in {None, t.barrier}
           \/ /\ t.barrier # None /\ u.barrier # None
              /\ u.barrier.ok = t.barrier.ok /\ u.barrier.waits = t.barrier.waits
              /\ u.barrier.drafts = t.barrier.drafts
    BY <1>10, BarrierTab, ScreenTab
  <2>2. UNCHANGED <<row, stored, used>>
    BY <1>10 DEF FlushFails, FlushReads, Submit, Leave, Refresh
  <2>3. Beside
    BY <1>1, <2>2, QuietBeside DEF UsedOK
  <2>4. TabGood(u)
    BY <1>1, <2>1, PlainGood
  <2>5. TabGood(u)'
    BY <2>1, <2>3, <2>4, KeptGood DEF Beside
  <2>6. QED BY <2>1, <2>3, <2>5
<1>11. ASSUME Reload(c) PROVE Goal
  <2>1. tab' = [tab EXCEPT ![c] = u] /\ u \in Tab /\ u = Opened
    BY <1>11, ReloadTab
  <2>2. UNCHANGED <<row, stored, used>>
    BY <1>11 DEF Reload
  <2>3. Beside
    BY <1>1, <2>2, QuietBeside DEF UsedOK
  <2>4. TabGood(u)
    BY <1>1, <2>1, OpenedGood
  <2>5. TabGood(u)'
    BY <2>1, <2>3, <2>4, KeptGood DEF Beside
  <2>6. QED BY <2>1, <2>3, <2>5
<1> HIDE DEF Goal
<1>12. Goal
  <2>1. ASSUME NEW s \in Shapes, (\E field \in {"geo", "lab"} : Edit(c, s, field)) \/ TimerFires(c, s)
                                \/ Draw(c, s) \/ Delete(c, s)
        PROVE  Goal
    BY <1>2, <1>3, <1>4, <1>5, <2>1
  <2>2. ASSUME NEW k \in Shapes \X Slots, Serve(c, k) \/ LoseAnswer(c, k) \/ Receive(c, k)
        PROVE  Goal
    BY <1>6, <1>7, <1>8, <2>2 DEF Flights
  <2>3. ASSUME \E s \in Shapes : (\E field \in {"geo", "lab"} : Edit(c, s, field)) \/ TimerFires(c, s)
                                 \/ Draw(c, s) \/ Delete(c, s)
        PROVE  Goal
    BY <2>1, <2>3
  <2>4. ASSUME \E k \in Shapes \X Slots : Serve(c, k) \/ LoseAnswer(c, k) \/ Receive(c, k)
        PROVE  Goal
    BY <2>2, <2>4
  <2>5. ASSUME \E goal \in {"submit", "leave"} : Flush(c, goal)
        PROVE  Goal
    BY <1>9, <2>5
  <2>6. QED BY <1>10, <1>11, <2>3, <2>4, <2>5 DEF LabelerStep
<1>13. QED BY <1>12 DEF Goal

(* What the server does by itself or for somebody else leaves the tabs.     *)
Elsewhere ==
  \/ ServerStep
  \/ \E action \in DOMAIN Transitions : ColleagueMoves(action)
  \/ \E target \in Status : BulkCount(target)
  \/ \E v \in Reviewers : ReviewerStep(v)

RowMoves(r) ==
  \/ row'[r] = row[r]
  \/ row'[r] = None
  \/ row[r] # None /\ row'[r] # None /\ row'[r].revision = row[r].revision + 1
  \/ row'[r] # None /\ row'[r].revision = 1 /\ r \notin used.ids /\ r \in used'.ids

UsedMoves ==
  /\ UsedOK' /\ used'.edits \in {used.edits, used.edits + 1} /\ used'.others \in {used.others, used.others + 1}
  /\ used.ids \subseteq used'.ids /\ used'.reborn = used.reborn

LEMMA WriteRows ==
  ASSUME row \in Rows, UsedOK, NEW s \in Shapes, Predict(s) \/ ColleagueSaves(s)
  PROVE  /\ tab' = tab /\ stored' = stored /\ UsedMoves
         /\ row' \in Rows /\ \A r \in Shapes : RowMoves(r)
<1>1. CASE Predict(s)
  <2>1. tab' = tab /\ stored' = stored
    BY <1>1 DEF Predict
  <2>2. CASE NewId(s) /\ row' = [row EXCEPT ![s] = [revision |-> 1, geo |-> used'.edits, lab |-> 0]]
    <3>1. UsedMoves /\ s \notin used.ids /\ s \in used'.ids
      BY <2>2, NewIdUsed DEF UsedMoves
    <3>2. [revision |-> 1, geo |-> used'.edits, lab |-> 0] \in Row
      BY <3>1, ReviewBoundsAssumption DEF Row, UsedMoves, UsedOK
    <3>3. row' \in Rows /\ row'[s] # None /\ row'[s].revision = 1 /\ \A r \in Shapes \ {s} : row'[r] = row[r]
      BY <2>2, <3>2, NoneAssumption DEF Rows
    <3>4. QED BY <2>1, <3>1, <3>3 DEF RowMoves
  <2>3. CASE Spend("others", MaxOthers) /\ UNCHANGED row
    <3>1. UsedMoves
      BY <2>3, SpendUsed DEF UsedMoves, UsedOK
    <3>2. QED BY <2>1, <2>3, <3>1 DEF RowMoves
  <2>4. QED BY <1>1, <2>2, <2>3 DEF Predict
<1>2. CASE ColleagueSaves(s)
  <2>1. tab' = tab /\ stored' = stored /\ row[s] # None /\ row[s] \in Row
    BY <1>2 DEF ColleagueSaves, Rows
  <2>2. CASE /\ Spend("edits", MaxEdits)
             /\ \E field \in {"geo", "lab"} :
                  row' = [row EXCEPT ![s][field] = used'.edits, ![s].revision = @ + 1]
    <3>1. UsedMoves
      BY <2>2, SpendUsed DEF UsedMoves, UsedOK
    <3>2. used'.edits \in 0 .. MaxEdits
      BY <3>1 DEF UsedMoves, UsedOK
    <3>3. PICK field \in {"geo", "lab"} :
            row' = [row EXCEPT ![s][field] = used'.edits, ![s].revision = row[s].revision + 1]
      BY <2>1, <2>2 DEF Rows, Row
    <3>4. row'[s] \in Row /\ row'[s].revision = row[s].revision + 1 /\ \A r \in Shapes \ {s} : row'[r] = row[r]
      <4>1. CASE field = "geo"
        <5>1. row' = [row EXCEPT ![s].geo = used'.edits, ![s].revision = row[s].revision + 1]
          BY <3>3, <4>1
        <5>2. QED BY <2>1, <3>2, <5>1 DEF Rows, Row
      <4>2. CASE field = "lab"
        <5>1. row' = [row EXCEPT ![s].lab = used'.edits, ![s].revision = row[s].revision + 1]
          BY <3>3, <4>2
        <5>2. QED BY <2>1, <3>2, <5>1 DEF Rows, Row
      <4>3. QED BY <4>1, <4>2
    <3>5. row' \in Rows
      BY <3>3, <3>4 DEF Rows
    <3>6. row'[s] # None
      BY <3>4, NoneAssumption
    <3>7. QED BY <2>1, <3>1, <3>4, <3>5, <3>6 DEF RowMoves
  <2>3. CASE Spend("others", MaxOthers) /\ row' = [row EXCEPT ![s] = None]
    <3>1. UsedMoves
      BY <2>3, SpendUsed DEF UsedMoves, UsedOK
    <3>2. row' \in Rows /\ row'[s] = None /\ \A r \in Shapes \ {s} : row'[r] = row[r]
      BY <2>3 DEF Rows
    <3>3. QED BY <2>1, <3>1, <3>2 DEF RowMoves
  <2>4. QED BY <1>2, <2>2, <2>3 DEF ColleagueSaves
<1>3. QED BY <1>1, <1>2

LEMMA ElsewhereEffect ==
  ASSUME row \in Rows, UsedOK, Elsewhere
  PROVE  /\ tab' = tab /\ stored' = stored /\ UsedMoves
         /\ row' \in Rows /\ \A r \in Shapes : RowMoves(r)
<1> DEFINE Goal == /\ tab' = tab /\ stored' = stored /\ UsedMoves
                   /\ row' \in Rows /\ \A r \in Shapes : RowMoves(r)
<1>1. ASSUME UNCHANGED <<tab, stored, row, used>> PROVE Goal
  BY <1>1 DEF UsedMoves, UsedOK, RowMoves
<1>2. ASSUME UNCHANGED <<tab, stored, row>>, Spend("others", MaxOthers) \/ Spend("starts", MaxStarts) PROVE Goal
  <2>1. UsedMoves
    BY <1>2, SpendUsed DEF UsedMoves, UsedOK
  <2>2. QED BY <1>2, <2>1 DEF RowMoves
<1> HIDE DEF Goal
<1>3. ASSUME ServerStep PROVE Goal
  <2>1. ASSUME BulkWrite PROVE Goal BY <1>1, <2>1 DEF BulkWrite
  <2>2. ASSUME Describe PROVE Goal BY <1>2, <2>2 DEF Describe
  <2>3. ASSUME NEW s \in Shapes, Predict(s) \/ ColleagueSaves(s) PROVE Goal
    BY <2>3, WriteRows DEF Goal
  <2>4. QED BY <1>3, <2>1, <2>2, <2>3 DEF ServerStep
<1>4. ASSUME NEW action \in DOMAIN Transitions, ColleagueMoves(action) PROVE Goal
  BY <1>1, <1>2, <1>4 DEF ColleagueMoves
<1>5. ASSUME NEW target \in Status, BulkCount(target) PROVE Goal
  BY <1>2, <1>5 DEF BulkCount
<1>6. ASSUME NEW v \in Reviewers, ReviewerStep(v) PROVE Goal
  <2>1. UNCHANGED <<tab, stored, row, used>>
    BY <1>6 DEF ReviewerStep, OpenSelection, OpenWorkflow, ReadHistory, OpenReview, Decide
  <2>2. QED BY <1>1, <2>1
<1>7. Goal
  BY <1>3, <1>4, <1>5, <1>6 DEF Elsewhere
<1>8. QED BY <1>7 DEF Goal

-----------------------------------------------------------------------------
LEMMA TabStep ==
  ASSUME TypeOK, TabInv, [Next]_vars
  PROVE  TabInv' /\ UsedOK' /\ row' \in Rows /\ tab' \in [Users -> Tab \union {None}]
<1>1. UsedOK /\ row \in Rows /\ stored \subseteq 0 .. used.edits /\ tab \in [Users -> Tab \union {None}]
      /\ used.edits \in Nat
  BY UsedNumbers DEF TypeOK, UsedOK, TabInv
<1>2. ASSUME NEW d \in Labelers PROVE tab[d] \in Tab /\ TabGood(tab[d])
  BY TabTyped DEF TabInv, TabGood
<1>3. ASSUME NEW c \in Labelers, LabelerStep(c)
      PROVE  TabInv' /\ UsedOK' /\ row' \in Rows /\ tab' \in [Users -> Tab \union {None}]
  <2> DEFINE u == tab'[c]
  <2>1. tab' = [tab EXCEPT ![c] = u] /\ u \in Tab /\ Beside
    BY <1>3, LabelerGood
  <2>2. ASSUME NEW w, w = tab'[c] PROVE TabGood(w)'
    BY <1>3, <2>2, LabelerGood
  <2>3. /\ \A d \in Users : d # c => tab'[d] = tab[d]
        /\ Labelers' \subseteq Labelers /\ tab' \in [Users -> Tab \union {None}]
    BY <2>1, OneTab
  <2>4. ASSUME NEW d \in Labelers' PROVE TabGood(tab[d])'
    <3>1. d \in Labelers /\ d \in Users
      BY <2>3 DEF Labelers
    <3>2. ASSUME NEW w, w = tab'[d] PROVE TabGood(w)'
      <4>1. CASE d = c BY <2>2, <3>2, <4>1
      <4>2. CASE d # c
        <5>1. w = tab[d] /\ Grows
          BY <2>1, <2>3, <3>1, <3>2, <4>2 DEF Beside
        <5>2. w \in Tab /\ TabGood(w)
          BY <1>2, <3>1, <5>1
        <5>3. QED BY <5>1, <5>2, KeptGood
      <4>3. QED BY <4>1, <4>2
    <3>3. PICK w : w = tab'[d] OBVIOUS
    <3>4. TabGood(w)' BY <3>2, <3>3
    <3>5. QED BY <3>3, <3>4 DEF TabGood, Keyed, Numbered, Truthful, Awaited
  <2>5. TabInv'
    BY <2>1, <2>4 DEF TabInv, TabGood, Beside
  <2>6. QED BY <2>1, <2>3, <2>5 DEF Beside
<1>4. ASSUME tab' = tab, stored' = stored, UsedMoves, row' \in Rows
      PROVE  TabInv' /\ UsedOK' /\ row' \in Rows /\ tab' \in [Users -> Tab \union {None}]
  <2>1. Grows /\ UsedOK' /\ stored' \subseteq 0 .. used'.edits
    BY <1>1, <1>4 DEF UsedMoves, Grows
  <2>2. ASSUME NEW d \in Labelers PROVE TabGood(tab[d])'
    <3>1. PICK w : w = tab[d] OBVIOUS
    <3>2. TabGood(w)' BY <1>2, <2>1, <3>1, KeptGood
    <3>3. QED BY <1>4, <3>1, <3>2 DEF TabGood, Keyed, Numbered, Truthful, Awaited
  <2>3. TabInv'
    BY <1>4, <2>1, <2>2 DEF TabInv, TabGood, Labelers
  <2>4. QED BY <1>1, <1>4, <2>1, <2>3
<1>5. CASE UNCHANGED vars
  <2>1. UsedMoves
    BY <1>1, <1>5 DEF vars, UsedMoves, UsedOK
  <2>2. QED BY <1>1, <1>4, <1>5, <2>1 DEF vars
<1>6. CASE Elsewhere
  BY <1>1, <1>4, <1>6, ElsewhereEffect
<1>7. QED BY <1>3, <1>5, <1>6 DEF Next, Elsewhere

LEMMA PageTyped ==
  ASSUME TypeOK, asset' \in [status: Status, revision: Nat], NEW v \in Reviewers, ReviewerStep(v)
  PROVE  page' \in [Users -> Page \union {None}]
<1>0. v \in Users /\ page \in [Users -> Page \union {None}] /\ row \in Rows
      /\ asset \in [status: Status, revision: Nat] /\ asset.status \in Status /\ asset.revision \in Nat
  BY DEF TypeOK, Reviewers
<1>1. \A rows \in Rows : [canvas |-> rows] \in Page
  BY DEF Page
<1>2. \A p \in Page : WithState(p) \in Page
  BY <1>0 DEF Page, WithState
<1>3. CASE OpenSelection(v)
  BY <1>0, <1>1, <1>3 DEF OpenSelection
<1>4. CASE OpenWorkflow(v)
  <2>1. page[v] \in Page
    BY <1>0, <1>4 DEF OpenWorkflow, Loading
  <2>2. page' = [page EXCEPT ![v] = IF asset.status = "NEEDS_REVIEW" THEN WithState(page[v]) ELSE None]
    BY <1>4 DEF OpenWorkflow
  <2>3. QED BY <1>0, <1>2, <2>1, <2>2
<1>5. CASE ReadHistory(v) \/ OpenReview(v)
  <2>1. page[v] \in Page
    BY <1>0, <1>5 DEF ReadHistory, OpenReview, CanDecide, Open
  <2>2. page' = [page EXCEPT ![v] = WithState(page[v])]
    BY <1>5 DEF ReadHistory, OpenReview
  <2>3. QED BY <1>0, <1>2, <2>1, <2>2
<1>6. ASSUME NEW action, Decide(v, action) PROVE page' \in [Users -> Page \union {None}]
  <2>1. page[v] \in [canvas: Rows, content: Rows, status: Status, revision: Nat]
    BY <1>0, <1>6 DEF Decide, CanDecide, Open, Page
  <2>2. page' = [page EXCEPT ![v] = [page[v] EXCEPT !.status = asset'.status, !.revision = asset'.revision]]
    BY <1>6 DEF Decide
  <2>3. [page[v] EXCEPT !.status = asset'.status, !.revision = asset'.revision]
          \in [canvas: Rows, content: Rows, status: Status, revision: Nat]
    BY <2>1
  <2>4. QED BY <1>0, <2>2, <2>3 DEF Page
<1>7. QED BY <1>3, <1>4, <1>5, <1>6 DEF ReviewerStep

LEMMA LastTyped ==
  ASSUME TypeOK, [Next]_vars
  PROVE  last' \in Status
<1>1. last \in Status
  BY DEF TypeOK
<1>2. ASSUME NEW action \in DOMAIN Transitions, Moved(action) PROVE last' \in Status
  BY <1>2, ActionsToGoverned DEF Moved, Status
<1>3. CASE Next
  BY <1>1, <1>2, <1>3, ServerChanges DEF Quiet, Written, Touched, Acted, Overruled
<1>4. CASE UNCHANGED vars
  BY <1>1, <1>4 DEF vars
<1>5. QED BY <1>3, <1>4

TabIInv == TypeOK /\ TabInv

LEMMA TabInit == Init => TabIInv
<1> SUFFICES ASSUME Init PROVE TabIInv
  OBVIOUS
<1>1. row \in Rows /\ UsedOK /\ used.edits = 0
  BY ReviewBoundsAssumption DEF Init, Rows, Row, UsedOK
<1>2. Opened \in Tab
  BY <1>1, OpenedTyped
<1>3. ASSUME NEW d \in Labelers PROVE TabGood(tab[d])
  <2>1. tab[d] = Opened
    BY DEF Init, Labelers
  <2>2. QED BY <1>1, <2>1, OpenedGood
<1>4. asset \in [status: Status, revision: Nat] /\ last \in Status /\ bulk \in Status \union {None}
  BY DEF Init, Status, Governed
<1>5. tab \in [Users -> Tab \union {None}]
  <2> HIDE DEF Opened
  <2>1. QED BY <1>2 DEF Init
<1>6. page \in [Users -> Page \union {None}] /\ stored = {}
  BY DEF Init
<1>7. TypeOK
  BY <1>1, <1>4, <1>5, <1>6 DEF TypeOK, UsedOK
<1>8. TabInv
  BY <1>3, <1>6 DEF TabInv, TabGood
<1>9. QED BY <1>7, <1>8 DEF TabIInv

LEMMA TabInvStep ==
  ASSUME TabIInv, ReviewInv', [Next]_vars
  PROVE  TabIInv'
<1>1. TypeOK /\ TabInv
  BY DEF TabIInv
<1>2. TabInv' /\ UsedOK' /\ row' \in Rows /\ tab' \in [Users -> Tab \union {None}]
  BY <1>1, TabStep
<1>3. asset' \in [status: Status, revision: Nat] /\ bulk' \in Status \union {None}
  BY DEF ReviewInv, AssetOK, BulkOK
<1>4. last' \in Status
  BY <1>1, LastTyped
<1>5. page' \in [Users -> Page \union {None}]
  <2>1. CASE UNCHANGED page
    BY <1>1, <2>1 DEF TypeOK
  <2>2. CASE \E v \in Reviewers : ReviewerStep(v)
    BY <1>1, <1>3, <2>2, PageTyped
  <2>3. QED BY <2>1, <2>2, PageUnread DEF vars
<1>6. stored' \subseteq 0 .. MaxEdits
  <2>1. stored' \subseteq 0 .. used'.edits /\ used'.edits \in 0 .. MaxEdits
    BY <1>2 DEF TabInv, UsedOK
  <2>2. QED BY <2>1, ReviewBoundsAssumption
<1>7. TypeOK'
  BY <1>2, <1>3, <1>4, <1>5, <1>6 DEF TypeOK, UsedOK
<1>8. QED BY <1>2, <1>7 DEF TabIInv

LEMMA TabInvariant == Spec => []TabIInv
<1>1. TabIInv /\ ReviewInv' /\ [Next]_vars => TabIInv'
  BY TabInvStep
<1>2. QED BY <1>1, TabInit, ReviewInvariant, PTL DEF Spec

(* Every variable keeps its type: with a browser's tasks, timers, requests  *)
(* in flight and barriers, for any number of users, annotations and edits.  *)
THEOREM ReviewTypesHold == Spec => []TypeOK
<1>1. TabIInv => TypeOK
  BY DEF TabIInv
<1>2. QED BY <1>1, TabInvariant, PTL

(* A barrier that lets the labeler go on to submit or leave has saved every *)
(* draft it sent, whatever was edited, refused, lost or repeated meanwhile. *)
THEOREM BarriersSave == Spec => []BarrierSaves
<1>1. TabIInv => BarrierSaves
  BY DEF TabIInv, TabInv, Awaited, BarrierSaves, Flushed
<1>2. QED BY <1>1, TabInvariant, PTL

-----------------------------------------------------------------------------
(* The step of a labeler, as the change of a tab and of what is beside it.  *)
Frame(edits, others) ==
  /\ used'.edits = used.edits + edits /\ used'.others = used.others + others
  /\ used'.ids = used.ids /\ used'.reborn = used.reborn /\ UNCHANGED <<row, stored>>

EditEffect(t, u) ==
  \E s \in Shapes, q \in Request :
    /\ Edits(t, u, s, q) /\ q.shape = s /\ q.kind \in {"geo", "lab"} /\ q.value = used.edits + 1
    /\ q.revision = t.shown[s].revision /\ q.base = t.known[s] /\ Frame(1, 0)

SendEffect(t, u) == \E S \in SUBSET Shapes : Sends(t, u, S) /\ Frame(0, 0)

CreateEffect(t, u) ==
  \E s \in Shapes, q \in Request :
    /\ Launches(t, u, <<s, "create">>, q) /\ q.shape = s /\ q.kind = "create" /\ q.value = used.edits + 1
    /\ q.revision = 0 /\ q.base = None
    /\ used'.edits = used.edits + 1 /\ used'.others = used.others /\ s \notin used.ids
    /\ used'.ids = used.ids \union {s} /\ used'.reborn = used.reborn /\ UNCHANGED <<row, stored>>

DeleteEffect(t, u) ==
  \E s \in Shapes, q \in Request :
    /\ Launches(t, u, <<s, "delete">>, q) /\ q.shape = s /\ q.kind = "delete" /\ q.value = 0
    /\ t.shown[s] # None /\ q.revision = t.shown[s].revision /\ q.base = t.known[s] /\ Frame(0, 1)

ServedEffect(t, u) ==
  \E k \in Flights, answer \in Answer \ {"none"} :
    /\ t.flight[k] # None /\ t.flight[k].answer = "none"
    /\ Serves(t.flight[k].request, answer) /\ Answers(t, u, k, answer, row'[k[1]])
    /\ used'.edits = used.edits /\ used'.others = used.others /\ used'.ids = used.ids

LoseEffect(t, u) ==
  \E k \in Flights, answer \in {"lost", "none"} :
    Answers(t, u, k, answer, t.flight[k].reply) /\ Frame(0, 1)

HearEffect(t, u) == \E k \in Flights : Hears(t, u, k) /\ Frame(0, 0)

ScreenEffect(t, u) ==
  Keys(t, u) /\ (Screen(t, u) \/ (u.shown = row /\ u.known = row)) /\ Frame(0, 0)

LabelerEffect(t, u) ==
  \/ EditEffect(t, u) \/ SendEffect(t, u) \/ CreateEffect(t, u) \/ DeleteEffect(t, u)
  \/ ServedEffect(t, u) \/ LoseEffect(t, u) \/ HearEffect(t, u) \/ ScreenEffect(t, u)
  \/ u = Opened /\ Frame(0, 0)

LEMMA LabelerEffects ==
  ASSUME TypeOK, TabInv, NEW c \in Labelers, NEW t, t = tab[c], NEW u, u = tab'[c], LabelerStep(c)
  PROVE  LabelerEffect(t, u)
<1> DEFINE Goal == LabelerEffect(t, u)
<1>1. t \in Tab /\ Keyed(t) /\ UsedOK /\ used.edits \in Nat /\ used.others \in Nat
  BY TabTyped, UsedNumbers DEF TabInv, TypeOK, UsedOK
<1>0. ASSUME UNCHANGED <<row, stored, used>> PROVE Frame(0, 0)
  BY <1>0, <1>1 DEF Frame
<1>2. ASSUME NEW s \in Shapes, NEW field \in {"geo", "lab"}, Edit(c, s, field) PROVE Goal
  <2>1. Frame(1, 0)
    BY <1>1, <1>2, SpendUsed DEF Edit, Frame
  <2>2. EditEffect(t, u)
    BY <1>2, <2>1, EditTab DEF EditEffect
  <2>3. QED BY <2>2 DEF LabelerEffect
<1>3. ASSUME NEW s \in Shapes, TimerFires(c, s) PROVE Goal
  <2>1. Frame(0, 0)
    BY <1>0, <1>3 DEF TimerFires
  <2>2. SendEffect(t, u)
    BY <1>1, <1>3, <2>1, TimerTab DEF SendEffect
  <2>3. QED BY <2>2 DEF LabelerEffect
<1>4. ASSUME NEW s \in Shapes, Draw(c, s) PROVE Goal
  <2>1. /\ used'.edits = used.edits + 1 /\ used'.others = used.others /\ s \notin used.ids
        /\ used'.ids = used.ids \union {s} /\ used'.reborn = used.reborn /\ UNCHANGED <<row, stored>>
    BY <1>1, <1>4, NewIdUsed DEF Draw
  <2>2. CreateEffect(t, u)
    BY <1>4, <2>1, DrawTab DEF CreateEffect
  <2>3. QED BY <2>2 DEF LabelerEffect
<1>5. ASSUME NEW s \in Shapes, Delete(c, s) PROVE Goal
  <2>1. Frame(0, 1)
    BY <1>1, <1>5, SpendUsed DEF Delete, Frame
  <2>2. t.shown[s] # None
    BY <1>5 DEF Delete
  <2>3. DeleteEffect(t, u)
    BY <1>5, <2>1, <2>2, DeleteTab DEF DeleteEffect
  <2>4. QED BY <2>3 DEF LabelerEffect
<1>6. ASSUME NEW k \in Flights, Serve(c, k) PROVE Goal
  <2> DEFINE q == t.flight[k].request
  <2>1. t.flight[k] # None /\ t.flight[k].answer = "none" /\ q \in Request
    BY <1>6, ServeEffect
  <2>2. PICK answer \in Answer \ {"none"} : Serves(q, answer) /\ Answers(t, u, k, answer, row'[q.shape])
    BY <1>6, ServeEffect
  <2>3. q.shape = k[1]
    BY <1>1, <2>1 DEF Keyed
  <2>4. used'.edits = used.edits /\ used'.others = used.others /\ used'.ids = used.ids
    BY <1>1, <2>1, <2>2, ServeUsed DEF Serves
  <2>5. ServedEffect(t, u)
    BY <2>1, <2>2, <2>3, <2>4 DEF ServedEffect
  <2>6. QED BY <2>5 DEF LabelerEffect
<1>7. ASSUME NEW k \in Flights, LoseAnswer(c, k) PROVE Goal
  <2>1. Frame(0, 1)
    BY <1>1, <1>7, SpendUsed DEF LoseAnswer, Frame
  <2>2. LoseEffect(t, u)
    BY <1>7, <2>1, LoseTab DEF LoseEffect
  <2>3. QED BY <2>2 DEF LabelerEffect
<1>8. ASSUME NEW k \in Flights, Receive(c, k) PROVE Goal
  <2>1. Frame(0, 0)
    BY <1>0, <1>8 DEF Receive
  <2>2. HearEffect(t, u)
    BY <1>1, <1>8, <2>1, ReceiveTab DEF HearEffect
  <2>3. QED BY <2>2 DEF LabelerEffect
<1>9. ASSUME NEW goal \in {"submit", "leave"}, Flush(c, goal) PROVE Goal
  <2>1. Frame(0, 0)
    BY <1>0, <1>9 DEF Flush
  <2>2. Sends(t, u, Idle(t)) /\ Idle(t) \in SUBSET Shapes
    BY <1>1, <1>9, FlushTab DEF Idle
  <2>3. SendEffect(t, u)
    BY <2>1, <2>2 DEF SendEffect
  <2>4. QED BY <2>3 DEF LabelerEffect
<1>10. ASSUME FlushFails(c) \/ FlushReads(c) \/ Submit(c) \/ Leave(c) \/ Refresh(c) PROVE Goal
  <2>1. UNCHANGED <<row, stored, used>>
    BY <1>10 DEF FlushFails, FlushReads, Submit, Leave, Refresh
  <2>2. Keys(t, u) /\ (Screen(t, u) \/ (u.shown = row /\ u.known = row))
    BY <1>10, BarrierTab, ScreenTab
  <2>3. ScreenEffect(t, u)
    BY <1>0, <2>1, <2>2 DEF ScreenEffect
  <2>4. QED BY <2>3 DEF LabelerEffect
<1>11. ASSUME Reload(c) PROVE Goal
  <2>1. UNCHANGED <<row, stored, used>> /\ u = Opened
    BY <1>11, ReloadTab DEF Reload
  <2>2. QED BY <1>0, <2>1 DEF LabelerEffect
<1> HIDE DEF Goal
<1>12. Goal
  <2>1. ASSUME NEW s \in Shapes, (\E field \in {"geo", "lab"} : Edit(c, s, field)) \/ TimerFires(c, s)
                                \/ Draw(c, s) \/ Delete(c, s)
        PROVE  Goal
    BY <1>2, <1>3, <1>4, <1>5, <2>1
  <2>2. ASSUME NEW k \in Shapes \X Slots, Serve(c, k) \/ LoseAnswer(c, k) \/ Receive(c, k)
        PROVE  Goal
    BY <1>6, <1>7, <1>8, <2>2 DEF Flights
  <2>3. ASSUME \E s \in Shapes : (\E field \in {"geo", "lab"} : Edit(c, s, field)) \/ TimerFires(c, s)
                                 \/ Draw(c, s) \/ Delete(c, s)
        PROVE  Goal
    BY <2>1, <2>3
  <2>4. ASSUME \E k \in Shapes \X Slots : Serve(c, k) \/ LoseAnswer(c, k) \/ Receive(c, k)
        PROVE  Goal
    BY <2>2, <2>4
  <2>5. ASSUME \E goal \in {"submit", "leave"} : Flush(c, goal)
        PROVE  Goal
    BY <1>9, <2>5
  <2>6. QED BY <1>10, <1>11, <2>3, <2>4, <2>5 DEF LabelerStep
<1>13. QED BY <1>12 DEF Goal

-----------------------------------------------------------------------------
(* What a tab asks for after its step it asked for before, or the number is *)
(* a new one.                                                               *)
LEMMA AsksBound ==
  ASSUME NEW t \in Tab, Numbered(t), used.edits \in Nat, NEW s \in Shapes, NEW v, Asks(t, s, v)
  PROVE  v \in Nat /\ v >= 1 /\ v <= used.edits
<1>1. CASE t.task[s] # None /\ t.task[s].value = v
  BY <1>1, TabNumbers DEF Numbered, Larger
<1>2. ASSUME NEW slot \in {"edit", "create"}, t.flight[<<s, slot>>] # None,
             t.flight[<<s, slot>>].request.value = v
      PROVE  v \in Nat /\ v >= 1 /\ v <= used.edits
  <2>1. <<s, slot>> \in Flights /\ <<s, slot>>[2] # "delete"
    BY DEF Flights, Slots
  <2>2. QED BY <1>2, <2>1, TabNumbers DEF Numbered
<1>3. QED BY <1>1, <1>2 DEF Asks

AsksOld(t, u) == \A s \in Shapes : \A v : Asks(u, s, v) => Asks(t, s, v)

AsksNew(t, u) ==
  /\ used'.edits = used.edits + 1
  /\ \E n \in Shapes : \A s \in Shapes : \A v : Asks(u, s, v) => Asks(t, s, v) \/ (v = used.edits + 1 /\ s = n)

LEMMA LabelerAsks ==
  ASSUME NEW t \in Tab, NEW u \in Tab, TabGood(t), Apart(t), used.edits \in Nat, LabelerEffect(t, u)
  PROVE  (AsksOld(t, u) \/ AsksNew(t, u)) /\ Apart(u)
<1> DEFINE Goal == (AsksOld(t, u) \/ AsksNew(t, u)) /\ Apart(u)
<1>0. \A s \in Shapes : \A slot \in Slots : <<s, slot>> \in Flights
  BY DEF Flights
<1>a. \A s \in Shapes :
        /\ t.task[s] # None => t.task[s].value <= used.edits /\ t.task[s].value \in Nat
        /\ \A slot \in {"edit", "create"} : t.flight[<<s, slot>>] # None =>
             t.flight[<<s, slot>>].request.value <= used.edits /\ t.flight[<<s, slot>>].request.value \in Nat
  <2>1. ASSUME NEW s \in Shapes, t.task[s] # None PROVE t.task[s].value <= used.edits /\ t.task[s].value \in Nat
    <3>1. Asks(t, s, t.task[s].value) BY <2>1 DEF Asks
    <3>2. QED BY <3>1, AsksBound DEF TabGood
  <2>2. ASSUME NEW s \in Shapes, NEW slot \in {"edit", "create"}, t.flight[<<s, slot>>] # None
        PROVE  t.flight[<<s, slot>>].request.value <= used.edits /\ t.flight[<<s, slot>>].request.value \in Nat
    <3>1. Asks(t, s, t.flight[<<s, slot>>].request.value) BY <2>2 DEF Asks
    <3>2. QED BY <3>1, AsksBound DEF TabGood
  <2>3. QED BY <2>1, <2>2
<1>1. ASSUME EditEffect(t, u) PROVE Goal
  <2>1. PICK s \in Shapes, q \in Request : Edits(t, u, s, q) /\ q.value = used.edits + 1 /\ Frame(1, 0)
    BY <1>1 DEF EditEffect
  <2>2. u.flight = t.flight /\ u.task[s] = q /\ \A r \in Shapes \ {s} : u.task[r] = t.task[r]
    BY <2>1 DEF Edits, Tab
  <2>3. AsksNew(t, u)
    <3>1. \A r \in Shapes : \A v : Asks(u, r, v) => Asks(t, r, v) \/ (v = used.edits + 1 /\ r = s)
      BY <2>1, <2>2 DEF Asks
    <3>2. QED BY <2>1, <3>1 DEF AsksNew, Frame
  <2>4. Apart(u)
    <3>1. ASSUME NEW r \in Shapes, u.flight[<<r, "create">>] # None, u.task[r] # None
          PROVE  u.task[r].value # u.flight[<<r, "create">>].request.value
      <4>0. t.flight[<<r, "create">>] # None /\ u.flight[<<r, "create">>] = t.flight[<<r, "create">>]
        BY <2>2, <3>1
      <4>1. CASE r = s
        <5>1. t.flight[<<r, "create">>].request.value <= used.edits /\ t.flight[<<r, "create">>].request.value \in Nat
          BY <1>a, <4>0
        <5>2. QED BY <2>1, <2>2, <4>0, <4>1, <5>1
      <4>2. CASE r # s BY <2>2, <3>1, <4>0, <4>2 DEF Apart
      <4>3. QED BY <4>1, <4>2
    <3>2. QED BY <2>2, <3>1 DEF Apart
  <2>5. QED BY <2>3, <2>4
<1>2. ASSUME SendEffect(t, u) PROVE Goal
  <2>1. PICK S \in SUBSET Shapes : Sends(t, u, S)
    BY <1>2 DEF SendEffect
  <2>2. /\ u.task = t.task
        /\ \A s \in Shapes :
             /\ u.flight[<<s, "create">>] = t.flight[<<s, "create">>]
             /\ s \notin S => u.flight[<<s, "edit">>] = t.flight[<<s, "edit">>]
             /\ s \in S => t.task[s] # None /\ u.flight[<<s, "edit">>].request = t.task[s]
    <3>1. \A k \in Flights : u.flight[k] = IF k[1] \in S /\ k[2] = "edit" THEN New(t.task[k[1]]) ELSE t.flight[k]
      BY <2>1 DEF Sends
    <3>2. \A q : New(q).request = q
      BY DEF New
    <3>3. ASSUME NEW s \in Shapes
          PROVE  /\ u.flight[<<s, "create">>] = t.flight[<<s, "create">>]
                 /\ s \notin S => u.flight[<<s, "edit">>] = t.flight[<<s, "edit">>]
                 /\ s \in S => u.flight[<<s, "edit">>].request = t.task[s]
      <4>1. <<s, "create">> \in Flights /\ <<s, "edit">> \in Flights
        BY <1>0 DEF Slots
      <4>2. QED BY <3>1, <3>2, <4>1
    <3>4. u.task = t.task /\ \A s \in S : t.task[s] # None
      BY <2>1 DEF Sends
    <3>5. QED BY <3>3, <3>4
  <2>3. AsksOld(t, u)
    <3>1. ASSUME NEW s \in Shapes, NEW v, Asks(u, s, v) PROVE Asks(t, s, v)
      BY <2>2, <3>1 DEF Asks
    <3>2. QED BY <3>1 DEF AsksOld
  <2>4. Apart(u)
    BY <2>2 DEF Apart
  <2>5. QED BY <2>3, <2>4
<1>3. ASSUME CreateEffect(t, u) PROVE Goal
  <2>1. PICK s \in Shapes, q \in Request : /\ Launches(t, u, <<s, "create">>, q) /\ q.value = used.edits + 1
                                           /\ used'.edits = used.edits + 1
    BY <1>3 DEF CreateEffect
  <2>2. /\ u.task = t.task /\ u.flight[<<s, "create">>].request = q
        /\ \A r \in Shapes : /\ u.flight[<<r, "edit">>] = t.flight[<<r, "edit">>]
                             /\ r # s => u.flight[<<r, "create">>] = t.flight[<<r, "create">>]
    BY <1>0, <2>1 DEF Launches, New, Slots, Tab, Flights
  <2>3. AsksNew(t, u)
    <3>1. ASSUME NEW r \in Shapes, NEW v, Asks(u, r, v)
          PROVE  Asks(t, r, v) \/ (v = used.edits + 1 /\ r = s)
      BY <2>1, <2>2, <3>1 DEF Asks
    <3>2. QED BY <2>1, <3>1 DEF AsksNew
  <2>4. Apart(u)
    <3>1. ASSUME NEW r \in Shapes, u.flight[<<r, "create">>] # None
          PROVE  /\ u.task[r] # None => u.task[r].value # u.flight[<<r, "create">>].request.value
                 /\ u.flight[<<r, "edit">>] # None =>
                      u.flight[<<r, "edit">>].request.value # u.flight[<<r, "create">>].request.value
      <4>1. CASE r = s BY <1>a, <2>1, <2>2, <4>1
      <4>2. CASE r # s BY <2>2, <3>1, <4>2 DEF Apart
      <4>3. QED BY <4>1, <4>2
    <3>2. QED BY <3>1 DEF Apart
  <2>5. QED BY <2>3, <2>4
<1>b. ASSUME u.task = t.task,
             \A s \in Shapes : \A slot \in {"edit", "create"} :
               u.flight[<<s, slot>>] # None => /\ t.flight[<<s, slot>>] # None
                                               /\ u.flight[<<s, slot>>].request = t.flight[<<s, slot>>].request
      PROVE  Goal
  <2>1. AsksOld(t, u)
    <3>1. ASSUME NEW s \in Shapes, NEW v, Asks(u, s, v) PROVE Asks(t, s, v)
      BY <1>b, <3>1 DEF Asks
    <3>2. QED BY <3>1 DEF AsksOld
  <2>2. Apart(u)
    BY <1>b DEF Apart
  <2>3. QED BY <2>1, <2>2
<1>4. ASSUME DeleteEffect(t, u) PROVE Goal
  <2>1. PICK s \in Shapes, q \in Request : Launches(t, u, <<s, "delete">>, q)
    BY <1>4 DEF DeleteEffect
  <2>2. u.task = t.task /\ \A r \in Shapes : \A slot \in {"edit", "create"} :
                             u.flight[<<r, slot>>] = t.flight[<<r, slot>>]
    BY <1>0, <2>1 DEF Launches, Slots, Tab, Flights
  <2>3. QED BY <1>b, <2>2
<1>c. ASSUME NEW k \in Flights, NEW answer, NEW reply, Answers(t, u, k, answer, reply) PROVE Goal
  <2>1. /\ u.task = t.task
        /\ \A j \in Flights : u.flight[j] # None =>
             t.flight[j] # None /\ u.flight[j].request = t.flight[j].request
    BY <1>c DEF Answers, Tab, Flights
  <2>2. QED BY <1>0, <1>b, <2>1 DEF Slots
<1>5. ASSUME ServedEffect(t, u) PROVE Goal
  BY <1>5, <1>c DEF ServedEffect
<1>6. ASSUME LoseEffect(t, u) PROVE Goal
  BY <1>6, <1>c DEF LoseEffect
<1>7. ASSUME HearEffect(t, u) PROVE Goal
  <2>1. PICK k \in Flights : Hears(t, u, k)
    BY <1>7 DEF HearEffect
  <2>2. \A j \in Flights : u.flight[j] # None => u.flight[j] = t.flight[j]
    BY <2>1 DEF Hears, Tab, Flights
  <2>3. \A r \in Shapes : u.task[r] # None => u.task[r] = t.task[r]
    BY <2>1 DEF Hears, Tab
  <2>4. \A r \in Shapes : \A slot \in {"edit", "create"} :
          u.flight[<<r, slot>>] # None => u.flight[<<r, slot>>] = t.flight[<<r, slot>>]
    BY <1>0, <2>2 DEF Slots
  <2>5. AsksOld(t, u)
    <3>1. ASSUME NEW s \in Shapes, NEW v, Asks(u, s, v) PROVE Asks(t, s, v)
      BY <2>3, <2>4, <3>1 DEF Asks
    <3>2. QED BY <3>1 DEF AsksOld
  <2>6. Apart(u)
    BY <2>3, <2>4 DEF Apart
  <2>7. QED BY <2>5, <2>6
<1>8. ASSUME ScreenEffect(t, u) PROVE Goal
  BY <1>8, <1>b DEF ScreenEffect, Keys
<1>9. ASSUME u = Opened PROVE Goal
  <2>1. \A s \in Shapes : u.task[s] = None /\ \A slot \in {"edit", "create"} : u.flight[<<s, slot>>] = None
    BY <1>9 DEF Opened, Slots
  <2>2. QED BY <2>1 DEF AsksOld, Asks, Apart
<1> HIDE DEF Goal
<1>10. Goal
  BY <1>1, <1>2, <1>3, <1>4, <1>5, <1>6, <1>7, <1>8, <1>9 DEF LabelerEffect
<1>11. QED BY <1>10 DEF Goal

-----------------------------------------------------------------------------
(* What is asked for is not stored, and what was refused is not asked for   *)
(* again, as long as no answer is lost.                                     *)
DraftsClosed(t) == \A r, s \in Shapes : t.draft[s] # 0 => ~ Asks(t, r, t.draft[s])
AsksApart(t) == \A r, s \in Shapes : \A v : Asks(t, r, v) /\ Asks(t, s, v) => r = s

LEMMA UnstoredSame ==
  ASSUME NEW t, Unstored(t), stored' = stored
  PROVE  Unstored(t)'
BY DEF Unstored, Unsent

(* The drafts are old ones, or one that was asked for and no longer is. *)
DraftsFrom(t, u) ==
  \A s \in Shapes : u.draft[s] \in {0, t.draft[s]}
                    \/ ((\E r \in Shapes : Asks(t, r, u.draft[s])) /\ \A r \in Shapes : ~ Asks(u, r, u.draft[s]))

LEMMA ServedUnstored ==
  ASSUME NEW t \in Tab, NEW u \in Tab, TabGood(t), Apart(t), AsksApart(t), DraftsClosed(t), Unstored(t),
         used.edits \in Nat, ServedEffect(t, u)
  PROVE  /\ Unstored(u)' /\ DraftsFrom(t, u)
         /\ \A v \in stored' \ stored : v = 0 \/ \E r \in Shapes : Asks(t, r, v)
<1>1. PICK k \in Flights, answer \in Answer \ {"none"} :
        /\ t.flight[k] # None /\ t.flight[k].answer = "none"
        /\ Serves(t.flight[k].request, answer) /\ Answers(t, u, k, answer, row'[k[1]])
  BY DEF ServedEffect
<1> DEFINE q == t.flight[k].request
           s == k[1]
<1>2. s \in Shapes /\ k[2] \in Slots /\ k = <<s, k[2]>>
  BY DEF Flights
<1>3. /\ u.task = t.task /\ u.draft = t.draft
      /\ \A j \in Flights : /\ u.flight[j] = None <=> t.flight[j] = None
                            /\ u.flight[j].request = t.flight[j].request
                            /\ j # k => u.flight[j].answer = t.flight[j].answer
      /\ u.flight[k].answer = answer
  BY <1>1 DEF Answers, Tab, Flights
<1>4. (stored' = stored /\ answer # "saved") \/ (stored' = stored \union {q.value} /\ answer = "saved")
  BY <1>1 DEF Serves
<1>5. k[2] = "delete" => q.value = 0
  BY <1>1 DEF TabGood, Numbered
<1>6. k[2] # "delete" => Asks(t, s, q.value) /\ q.value \notin stored
  BY <1>1, <1>2 DEF Asks, Slots, Unstored
<1>7. \A r \in Shapes : \A v : Asks(t, r, v) => v # 0
  BY AsksBound DEF TabGood
<1>8. DraftsFrom(t, u)
  BY <1>3 DEF DraftsFrom
<1>9. \A v \in stored' \ stored : v = 0 \/ \E r \in Shapes : Asks(t, r, v)
  BY <1>2, <1>4, <1>5, <1>6
<1>10. ASSUME NEW r \in Shapes, Unsent(u, r) PROVE u.task[r].value \notin stored'
  <2>1. Unsent(t, r)
    <3>1. <<r, "edit">> \in Flights BY DEF Flights, Slots
    <3>2. QED BY <1>3, <1>10, <3>1 DEF Unsent
  <2>2. u.task[r].value \notin stored /\ Asks(t, r, u.task[r].value) /\ t.task[r] # None /\ u.task[r] = t.task[r]
    BY <1>3, <2>1 DEF Unstored, Unsent, Asks
  <2>3. u.task[r].value # q.value
    <3>1. CASE k[2] = "delete" BY <1>5, <1>7, <2>2, <3>1
    <3>2. CASE k[2] # "delete" /\ r # s
      BY <1>2, <1>6, <2>2, <3>2 DEF AsksApart
    <3>3. CASE k = <<r, "edit">>
      BY <1>1, <2>1, <2>2, <3>3 DEF TabGood, Numbered, Unsent
    <3>4. CASE k = <<r, "create">>
      BY <1>1, <2>2, <3>4 DEF Apart
    <3>5. QED BY <1>2, <3>1, <3>2, <3>3, <3>4 DEF Slots
  <2>4. QED BY <1>4, <2>2, <2>3
<1>11. ASSUME NEW j \in Flights, u.flight[j] # None, j[2] # "delete", u.flight[j].answer # "saved"
       PROVE  u.flight[j].request.value \notin stored'
  <2>1. t.flight[j] # None /\ u.flight[j].request = t.flight[j].request /\ j[1] \in Shapes
        /\ j = <<j[1], j[2]>> /\ j[2] \in {"edit", "create"}
    BY <1>3, <1>11 DEF Flights, Slots
  <2>2. CASE j = k
    BY <1>1, <1>3, <1>4, <1>6, <1>11, <2>2
  <2>3. CASE j # k
    <3>1. t.flight[j].request.value \notin stored
      BY <1>3, <1>11, <2>1, <2>3 DEF Unstored
    <3>2. Asks(t, j[1], t.flight[j].request.value)
      BY <2>1 DEF Asks
    <3>3. t.flight[j].request.value # q.value
      <4>1. CASE k[2] = "delete" BY <1>5, <1>7, <2>1, <3>2, <4>1
      <4>2. CASE k[2] # "delete" /\ j[1] # s
        BY <1>2, <1>6, <2>1, <3>2, <4>2 DEF AsksApart
      <4>3. CASE k[2] # "delete" /\ j[1] = s
        <5>1. (j = <<s, "edit">> /\ k = <<s, "create">>) \/ (j = <<s, "create">> /\ k = <<s, "edit">>)
          BY <1>2, <2>1, <2>3, <4>3 DEF Slots
        <5>2. QED BY <1>1, <1>2, <2>1, <5>1 DEF Apart
      <4>4. QED BY <4>1, <4>2, <4>3
    <3>4. QED BY <1>4, <2>1, <3>1, <3>3
  <2>4. QED BY <2>2, <2>3
<1>12. ASSUME NEW r \in Shapes, u.draft[r] # 0 PROVE u.draft[r] \notin stored'
  <2>1. u.draft[r] \notin stored /\ \A x \in Shapes : ~ Asks(t, x, u.draft[r])
    BY <1>3, <1>12 DEF Unstored, DraftsClosed
  <2>2. QED BY <1>9, <1>12, <2>1
<1>13. Unstored(u)'
  BY <1>10, <1>11, <1>12 DEF Unstored, Unsent
<1>14. QED BY <1>8, <1>9, <1>13

LEMMA LabelerUnstored ==
  ASSUME NEW t \in Tab, NEW u \in Tab, TabGood(t), Apart(t), AsksApart(t), DraftsClosed(t), Unstored(t),
         used.edits \in Nat, used.others = 0, used'.others = 0, stored \subseteq 0 .. used.edits,
         LabelerEffect(t, u)
  PROVE  /\ Unstored(u)' /\ DraftsFrom(t, u)
         /\ \A v \in stored' \ stored : v = 0 \/ \E r \in Shapes : Asks(t, r, v)
<1> DEFINE Goal == /\ Unstored(u)' /\ DraftsFrom(t, u)
                   /\ \A v \in stored' \ stored : v = 0 \/ \E r \in Shapes : Asks(t, r, v)
           Kept == Unstored(u) /\ DraftsFrom(t, u)
<1>1. ASSUME Kept, stored' = stored PROVE Goal
  <2>1. Unstored(u)'
    BY <1>1, UnstoredSame
  <2>2. QED BY <1>1, <2>1
<1>2. \A s \in Shapes : \A slot \in Slots : <<s, slot>> \in Flights
  BY DEF Flights
<1>3. used.edits + 1 \notin stored
  OBVIOUS
<1>4. ASSUME EditEffect(t, u) PROVE Goal
  <2>1. PICK s \in Shapes, q \in Request : Edits(t, u, s, q) /\ q.value = used.edits + 1 /\ Frame(1, 0)
    BY <1>4 DEF EditEffect
  <2>2. /\ u.flight = t.flight /\ u.task[s] = q /\ \A r \in Shapes \ {s} : u.task[r] = t.task[r]
        /\ u.draft = t.draft
    BY <2>1 DEF Edits, Tab
  <2>3. ASSUME NEW r \in Shapes, Unsent(u, r) PROVE u.task[r].value \notin stored
    <3>1. CASE r = s BY <1>3, <2>1, <2>2, <3>1
    <3>2. CASE r # s BY <2>2, <2>3, <3>2 DEF Unstored, Unsent
    <3>3. QED BY <3>1, <3>2
  <2>4. Kept
    BY <2>2, <2>3 DEF Unstored, DraftsFrom
  <2>5. QED BY <1>1, <2>1, <2>4 DEF Frame
<1>5. ASSUME SendEffect(t, u) PROVE Goal
  <2>1. PICK S \in SUBSET Shapes : Sends(t, u, S) /\ Frame(0, 0)
    BY <1>5 DEF SendEffect
  <2>2. /\ u.task = t.task /\ u.draft = t.draft
        /\ \A s \in S : t.task[s] # None /\ t.flight[<<s, "edit">>] = None
        /\ \A k \in Flights : u.flight[k] = IF k[1] \in S /\ k[2] = "edit" THEN New(t.task[k[1]]) ELSE t.flight[k]
    BY <2>1 DEF Sends
  <2>3. \A s \in S : t.task[s].value \notin stored
    BY <2>2 DEF Unstored, Unsent
  <2>4. \A q : New(q).request = q
    BY DEF New
  <2>5. ASSUME NEW r \in Shapes, Unsent(u, r) PROVE u.task[r].value \notin stored
    <3>1. CASE r \in S BY <2>2, <2>3, <3>1
    <3>2. CASE r \notin S
      <4>1. u.flight[<<r, "edit">>] = t.flight[<<r, "edit">>]
        BY <1>2, <2>2, <3>2 DEF Slots
      <4>2. QED BY <2>2, <2>5, <4>1 DEF Unstored, Unsent
    <3>3. QED BY <3>1, <3>2
  <2>6. ASSUME NEW k \in Flights, u.flight[k] # None, k[2] # "delete", u.flight[k].answer # "saved"
        PROVE  u.flight[k].request.value \notin stored
    <3>1. CASE k[1] \in S /\ k[2] = "edit" BY <2>2, <2>3, <2>4, <3>1
    <3>2. CASE ~ (k[1] \in S /\ k[2] = "edit") BY <2>2, <2>6, <3>2 DEF Unstored
    <3>3. QED BY <3>1, <3>2
  <2>7. Kept
    BY <2>2, <2>5, <2>6 DEF Unstored, DraftsFrom
  <2>8. QED BY <1>1, <2>1, <2>7 DEF Frame
<1>6. ASSUME CreateEffect(t, u) PROVE Goal
  <2>1. PICK s \in Shapes, q \in Request : /\ Launches(t, u, <<s, "create">>, q) /\ q.value = used.edits + 1
                                           /\ stored' = stored
    BY <1>6 DEF CreateEffect
  <2>2. u.task = t.task /\ u.draft = t.draft /\ u.flight[<<s, "create">>] = New(q)
        /\ \A k \in Flights \ {<<s, "create">>} : u.flight[k] = t.flight[k]
    BY <1>2, <2>1 DEF Launches, Tab, Flights, Slots
  <2>3. ASSUME NEW r \in Shapes, Unsent(u, r) PROVE u.task[r].value \notin stored
    <3>1. u.flight[<<r, "edit">>] = t.flight[<<r, "edit">>]
      BY <1>2, <2>2 DEF Slots
    <3>2. QED BY <2>2, <2>3, <3>1 DEF Unstored, Unsent
  <2>4. ASSUME NEW k \in Flights, u.flight[k] # None, k[2] # "delete", u.flight[k].answer # "saved"
        PROVE  u.flight[k].request.value \notin stored
    <3>1. CASE k = <<s, "create">> BY <1>3, <2>1, <2>2, <3>1 DEF New
    <3>2. CASE k # <<s, "create">> BY <2>2, <2>4, <3>2 DEF Unstored
    <3>3. QED BY <3>1, <3>2
  <2>5. Kept
    BY <2>2, <2>3, <2>4 DEF Unstored, DraftsFrom
  <2>6. QED BY <1>1, <2>1, <2>5
<1>7. ASSUME ServedEffect(t, u) PROVE Goal
  BY <1>7, ServedUnstored
<1>8. ASSUME HearEffect(t, u) PROVE Goal
  <2>1. PICK k \in Flights : Hears(t, u, k) /\ Frame(0, 0)
    BY <1>8 DEF HearEffect
  <2> DEFINE f == t.flight[k]
             s == k[1]
             newest == k[2] = "edit" /\ t.task[s] = f.request
  <2>2. /\ f # None /\ u.task = IF newest THEN [t.task EXCEPT ![s] = None] ELSE t.task
        /\ \A r \in Shapes \ {s} : u.draft[r] = t.draft[r]
        /\ u.draft[s] = t.draft[s] \/ (f.answer = "conflict" /\ k[2] = "edit" /\ u.draft[s] = f.request.value)
    BY <2>1 DEF Hears
  <2>3. /\ \A j \in Flights : u.flight[j] # None => u.flight[j] = t.flight[j]
        /\ u.flight[k] = None /\ \A j \in Flights \ {k} : u.flight[j] = t.flight[j]
    BY <2>1 DEF Hears, Tab, Flights
  <2>4. /\ \A r \in Shapes : u.task[r] # None => u.task[r] = t.task[r]
        /\ newest => u.task[s] = None
    BY <2>2 DEF Tab, Flights
  <2>5. s \in Shapes /\ k[2] \in Slots /\ k = <<s, k[2]>>
    BY DEF Flights
  <2>6. ASSUME NEW r \in Shapes, Unsent(u, r) PROVE u.task[r].value \notin stored
    <3>1. t.task[r] # None /\ u.task[r] = t.task[r] /\ <<r, "edit">> \in Flights
      BY <1>2, <2>4, <2>6 DEF Unsent, Slots
    <3>2. Unsent(t, r)
      <4>1. CASE k = <<r, "edit">> BY <2>4, <2>6, <3>1, <4>1 DEF Unsent
      <4>2. CASE k # <<r, "edit">> BY <2>3, <2>6, <3>1, <4>2 DEF Unsent
      <4>3. QED BY <4>1, <4>2
    <3>3. QED BY <3>1, <3>2 DEF Unstored
  <2>7. ASSUME NEW j \in Flights, u.flight[j] # None, j[2] # "delete", u.flight[j].answer # "saved"
        PROVE  u.flight[j].request.value \notin stored
    BY <2>3, <2>7 DEF Unstored
  <2>8. u.draft[s] = t.draft[s] \/
        (/\ f.answer = "conflict" /\ k = <<s, "edit">> /\ u.draft[s] = f.request.value
         /\ u.draft[s] \notin stored /\ Asks(t, s, u.draft[s])
         /\ \A r \in Shapes : ~ Asks(u, r, u.draft[s]))
    <3>1. SUFFICES ASSUME f.answer = "conflict", k[2] = "edit", u.draft[s] = f.request.value
                   PROVE  /\ u.draft[s] \notin stored /\ Asks(t, s, u.draft[s])
                          /\ \A r \in Shapes : ~ Asks(u, r, u.draft[s])
      BY <2>2, <2>5
    <3>2. u.draft[s] \notin stored
      BY <2>2, <3>1 DEF Unstored
    <3>3. Asks(t, s, u.draft[s])
      BY <2>2, <2>5, <3>1 DEF Asks
    <3>4. ASSUME NEW r \in Shapes, Asks(u, r, u.draft[s]) PROVE FALSE
      <4>1. Asks(t, r, u.draft[s])
        <5>1. <<r, "edit">> \in Flights /\ <<r, "create">> \in Flights
          BY <1>2 DEF Slots
        <5>2. QED BY <2>3, <2>4, <3>4, <5>1 DEF Asks
      <4>2. r = s
        BY <2>5, <3>3, <4>1 DEF AsksApart
      <4>3. CASE u.task[s] # None /\ u.task[s].value = f.request.value
        <5>1. t.task[s] # None /\ t.task[s].value = f.request.value
          BY <2>4, <2>5, <4>3
        <5>2. f.request = t.task[s]
          BY <2>2, <2>5, <3>1, <5>1 DEF TabGood, Numbered
        <5>3. QED BY <2>4, <3>1, <4>3, <5>2
      <4>4. CASE u.flight[<<s, "edit">>] # None
        BY <2>3, <2>5, <3>1, <4>4
      <4>5. CASE u.flight[<<s, "create">>] # None /\ u.flight[<<s, "create">>].request.value = f.request.value
        <5>1. t.flight[<<s, "create">>] = u.flight[<<s, "create">>]
          BY <1>2, <2>3, <2>5, <4>5 DEF Slots
        <5>2. QED BY <2>2, <2>5, <3>1, <4>5, <5>1 DEF Apart
      <4>6. QED BY <3>1, <3>4, <4>2, <4>3, <4>4, <4>5 DEF Asks
    <3>5. QED BY <3>2, <3>3, <3>4
  <2>9. \A r \in Shapes : u.draft[r] # 0 => u.draft[r] \notin stored
    BY <2>2, <2>8 DEF Unstored
  <2>10. DraftsFrom(t, u)
    BY <2>2, <2>5, <2>8 DEF DraftsFrom
  <2>11. Kept
    BY <2>6, <2>7, <2>9, <2>10 DEF Unstored
  <2>12. QED BY <1>1, <2>1, <2>11 DEF Frame
<1>9. ASSUME ScreenEffect(t, u) PROVE Goal
  <2>1. Kept
    BY <1>9 DEF ScreenEffect, Keys, Unstored, Unsent, DraftsFrom
  <2>2. QED BY <1>1, <1>9, <2>1 DEF ScreenEffect, Frame
<1>10. ASSUME u = Opened, Frame(0, 0) PROVE Goal
  <2>1. /\ \A s \in Shapes : u.task[s] = None /\ u.draft[s] = 0
        /\ \A k \in Flights : u.flight[k] = None
    BY <1>10 DEF Opened, Flights
  <2>2. Unstored(u)'
    BY <2>1 DEF Unstored, Unsent
  <2>3. DraftsFrom(t, u)
    BY <2>1 DEF DraftsFrom
  <2>4. QED BY <1>10, <2>2, <2>3 DEF Frame
<1> HIDE DEF Goal
<1>11. DeleteEffect(t, u) \/ LoseEffect(t, u) => Goal
  BY DEF DeleteEffect, LoseEffect, Frame
<1>12. Goal
  BY <1>4, <1>5, <1>6, <1>7, <1>8, <1>9, <1>10, <1>11 DEF LabelerEffect
<1>13. QED BY <1>12 DEF Goal

AskInv == AskedOnce /\ NotYetStored

LEMMA OthersUnstored ==
  ASSUME NEW t \in Tab, NEW w \in Tab, Numbered(w), used.edits \in Nat, Unstored(w),
         \A v \in stored' \ stored : v = 0 \/ \E r \in Shapes : Asks(t, r, v),
         \A r, s \in Shapes : \A v : ~ (Asks(t, r, v) /\ Asks(w, s, v)),
         \A r, s \in Shapes : w.draft[s] # 0 => ~ Asks(t, r, w.draft[s])
  PROVE  Unstored(w)'
<1>1. ASSUME NEW s \in Shapes, NEW v, Asks(w, s, v), v \notin stored PROVE v \notin stored'
  BY <1>1, AsksBound
<1>2. ASSUME NEW s \in Shapes, Unsent(w, s) PROVE w.task[s].value \notin stored'
  <2>1. Asks(w, s, w.task[s].value) /\ w.task[s].value \notin stored
    BY <1>2 DEF Unsent, Asks, Unstored
  <2>2. QED BY <1>1, <2>1
<1>3. ASSUME NEW k \in Flights, w.flight[k] # None, k[2] # "delete", w.flight[k].answer # "saved"
      PROVE  w.flight[k].request.value \notin stored'
  <2>1. k[1] \in Shapes /\ k = <<k[1], k[2]>> /\ k[2] \in {"edit", "create"}
    BY <1>3 DEF Flights, Slots
  <2>2. Asks(w, k[1], w.flight[k].request.value) /\ w.flight[k].request.value \notin stored
    BY <1>3, <2>1 DEF Asks, Unstored
  <2>3. QED BY <1>1, <2>1, <2>2
<1>4. ASSUME NEW s \in Shapes, w.draft[s] # 0 PROVE w.draft[s] \notin stored'
  BY <1>4 DEF Unstored
<1>5. QED BY <1>2, <1>3, <1>4 DEF Unstored, Unsent

LEMMA EffectOthers ==
  ASSUME NEW t, NEW u, used.others \in Nat, LabelerEffect(t, u)
  PROVE  used'.others \in {used.others, used.others + 1}
<1>1. ASSUME NEW i \in {0, 1}, NEW o \in {0, 1}, Frame(i, o) PROVE used'.others \in {used.others, used.others + 1}
  BY <1>1 DEF Frame
<1>2. Frame(1, 0) \/ Frame(0, 0) \/ Frame(0, 1) \/ used'.others = used.others
  BY DEF LabelerEffect, EditEffect, SendEffect, CreateEffect, DeleteEffect, ServedEffect,
         LoseEffect, HearEffect, ScreenEffect
<1>3. QED BY <1>1, <1>2

LEMMA AskStep ==
  ASSUME TypeOK, TabInv, AskInv, [Next]_vars
  PROVE  AskInv'
<1>1. UsedOK /\ row \in Rows /\ stored \subseteq 0 .. used.edits /\ used.edits \in Nat /\ used.others \in Nat
      /\ used.edits <= MaxEdits
  BY UsedNumbers DEF TypeOK, UsedOK, TabInv
<1>2. ASSUME NEW d \in Labelers PROVE tab[d] \in Tab /\ TabGood(tab[d]) /\ Numbered(tab[d]) /\ Apart(tab[d])
  BY TabTyped DEF TabInv, TabGood, AskInv, AskedOnce
<1>3. ASSUME NEW d \in Labelers, NEW s \in Shapes, NEW v, Asks(tab[d], s, v)
      PROVE  v \in 1 .. MaxEdits /\ v <= used.edits
  BY <1>1, <1>2, <1>3, AsksBound, ReviewBoundsAssumption
<1>4. ASSUME NEW c \in Labelers, NEW d \in Labelers, NEW r \in Shapes, NEW s \in Shapes, NEW v,
             Asks(tab[c], r, v), Asks(tab[d], s, v)
      PROVE  c = d /\ r = s
  BY <1>3, <1>4 DEF AskInv, AskedOnce
<1>5. ASSUME NEW c \in Labelers, LabelerStep(c) PROVE AskInv'
  <2> DEFINE t == tab[c]
             u == tab'[c]
  <2>1. tab' = [tab EXCEPT ![c] = u] /\ u \in Tab /\ Beside
    BY <1>5, LabelerGood
  <2>2. /\ \A d \in Users : d # c => tab'[d] = tab[d]
        /\ Labelers' \subseteq Labelers
    BY <2>1, OneTab
  <2>3. LabelerEffect(t, u)
    BY <1>5, LabelerEffects
  <2>4. t \in Tab /\ TabGood(t) /\ Apart(t)
    BY <1>2
  <2> HIDE DEF t, u
  <2>5. (AsksOld(t, u) \/ AsksNew(t, u)) /\ Apart(u)
    BY <1>1, <2>1, <2>3, <2>4, LabelerAsks
  <2>6. PICK n \in Shapes \union {None} : \A s \in Shapes : \A v :
          Asks(u, s, v) => Asks(t, s, v) \/ (v = used.edits + 1 /\ s = n)
    BY <2>5 DEF AsksOld, AsksNew
  <2>7. ASSUME NEW d \in Labelers', NEW w, w = tab'[d]
        PROVE  /\ d \in Labelers /\ d \in Users
               /\ d = c => w = u
               /\ d # c => w = tab[d]
    BY <2>2, <2>7 DEF u, Labelers
  <2>8. ASSUME NEW d \in Labelers', NEW w, w = tab'[d], NEW s \in Shapes, NEW v, Asks(w, s, v)
        PROVE  /\ d \in Labelers
               /\ Asks(tab[d], s, v) \/ (d = c /\ v = used.edits + 1 /\ s = n)
    BY <2>6, <2>7, <2>8 DEF t
  <2>9. ASSUME NEW d \in Labelers', NEW w, w = tab'[d] PROVE Apart(w)
    BY <1>2, <2>5, <2>7, <2>9
  <2>10. AskedOnce'
    <3>1. ASSUME NEW d \in Labelers', NEW e \in Labelers', NEW r \in Shapes, NEW s \in Shapes, NEW v,
                 Asks(tab[d], r, v)', Asks(tab[e], s, v)'
          PROVE  d = e /\ r = s
      <4>1. PICK w, x : w = tab'[d] /\ x = tab'[e] OBVIOUS
      <4>2. Asks(w, r, v) /\ Asks(x, s, v)
        BY <3>1, <4>1 DEF Asks
      <4>3. /\ d \in Labelers /\ e \in Labelers
            /\ Asks(tab[d], r, v) \/ (d = c /\ v = used.edits + 1 /\ r = n)
            /\ Asks(tab[e], s, v) \/ (e = c /\ v = used.edits + 1 /\ s = n)
        BY <2>8, <4>1, <4>2
      <4>4. (Asks(tab[d], r, v) => v # used.edits + 1) /\ (Asks(tab[e], s, v) => v # used.edits + 1)
        BY <1>1, <1>3, <4>3
      <4>5. QED BY <1>4, <4>3, <4>4
    <3>2. ASSUME NEW d \in Labelers' PROVE Apart(tab[d])'
      <4>1. PICK w : w = tab'[d] OBVIOUS
      <4>2. Apart(w) BY <2>9, <4>1
      <4>3. QED BY <4>1, <4>2 DEF Apart
    <3>3. QED BY <3>1, <3>2 DEF AskedOnce
  <2>11. ASSUME used'.others = 0 PROVE Closed' /\ \A d \in Labelers' : Unstored(tab[d])'
    <3>1. used.others = 0
      BY <1>1, <2>3, <2>11, EffectOthers
    <3>2. Closed /\ \A d \in Labelers : Unstored(tab[d])
      BY <3>1 DEF AskInv, NotYetStored
    <3>3. AsksApart(t) /\ DraftsClosed(t) /\ Unstored(t)
      BY <1>4, <3>2 DEF AsksApart, DraftsClosed, Closed, t
    <3>4. /\ DraftsFrom(t, u)
          /\ \A v \in stored' \ stored : v = 0 \/ \E r \in Shapes : Asks(t, r, v)
      BY <1>1, <2>1, <2>3, <2>4, <2>11, <3>1, <3>3, LabelerUnstored
    <3>5. ASSUME NEW d \in Labelers', NEW w, w = tab'[d] PROVE Unstored(w)'
      <4>1. CASE d = c
        <5>1. w = u BY <2>7, <3>5, <4>1
        <5>2. ASSUME NEW x, x = u PROVE Unstored(x)'
          BY <1>1, <2>1, <2>3, <2>4, <2>11, <3>1, <3>3, <5>2, LabelerUnstored
        <5>3. QED BY <5>1, <5>2
      <4>2. CASE d # c
        <5>1. w = tab[d] /\ d \in Labelers
          BY <2>7, <3>5, <4>2
        <5>2. w \in Tab /\ Numbered(w) /\ Unstored(w)
          BY <1>2, <3>2, <5>1
        <5>3. \A r, s \in Shapes : \A v : ~ (Asks(t, r, v) /\ Asks(w, s, v))
          BY <1>4, <4>2, <5>1 DEF t
        <5>4. \A r, s \in Shapes : w.draft[s] # 0 => ~ Asks(t, r, w.draft[s])
          BY <3>2, <5>1 DEF Closed, t
        <5>5. QED BY <1>1, <2>4, <3>4, <5>2, <5>3, <5>4, OthersUnstored
      <4>3. QED BY <4>1, <4>2
    <3>6. ASSUME NEW d \in Labelers' PROVE Unstored(tab[d])'
      <4>1. PICK w : w = tab'[d] OBVIOUS
      <4>2. Unstored(w)' BY <3>5, <4>1
      <4>3. QED BY <4>1, <4>2 DEF Unstored, Unsent
    <3>7. ASSUME NEW d \in Labelers', NEW e \in Labelers', NEW r \in Shapes, NEW s \in Shapes,
                 NEW w, NEW x, w = tab'[d], x = tab'[e], w.draft[s] # 0, Asks(x, r, w.draft[s])
          PROVE  FALSE
      <4> DEFINE v == w.draft[s]
      <4>1. /\ d \in Labelers /\ e \in Labelers
            /\ Asks(tab[e], r, v) \/ (e = c /\ v = used.edits + 1 /\ r = n)
        BY <2>7, <2>8, <3>7
      <4>2. CASE v = tab[d].draft[s]
        <5>1. ~ Asks(tab[e], r, v)
          BY <3>2, <3>7, <4>1, <4>2 DEF Closed
        <5>2. v <= used.edits /\ v \in Nat
          BY <1>2, <4>1, <4>2, TabNumbers DEF Numbered
        <5>3. QED BY <1>1, <4>1, <5>1, <5>2
      <4>3. CASE v # tab[d].draft[s]
        <5>1. d = c /\ w = u
          BY <2>7, <3>7, <4>3
        <5>2. (\E q \in Shapes : Asks(t, q, v)) /\ \A q \in Shapes : ~ Asks(u, q, v)
          BY <3>4, <3>7, <4>3, <5>1 DEF DraftsFrom, t
        <5>3. e # c /\ x = tab[e] /\ Asks(tab[e], r, v)
          BY <2>7, <3>7, <5>2
        <5>4. QED BY <1>4, <4>1, <5>2, <5>3 DEF t
      <4>4. QED BY <4>2, <4>3
    <3>8. Closed'
      <4>1. ASSUME NEW d \in Labelers', NEW e \in Labelers', NEW r \in Shapes, NEW s \in Shapes,
                   tab'[d].draft[s] # 0, Asks(tab[e], r, tab[d].draft[s])'
            PROVE  FALSE
        <5>1. PICK w : w = tab'[d] OBVIOUS
        <5>2. PICK x : x = tab'[e] OBVIOUS
        <5>3. PICK v : v = w.draft[s] OBVIOUS
        <5>4. v # 0 /\ v = tab'[d].draft[s]
          BY <4>1, <5>1, <5>3
        <5>5. Asks(x, r, v)
          BY <4>1, <5>2, <5>4 DEF Asks
        <5>6. QED BY <3>7, <5>1, <5>2, <5>3, <5>4, <5>5
      <4>2. QED BY <4>1 DEF Closed
    <3>9. QED BY <3>6, <3>8
  <2>12. QED BY <2>10, <2>11 DEF AskInv, NotYetStored
<1>6. ASSUME tab' = tab, stored' = stored, used'.others = 0 => used.others = 0 PROVE AskInv'
  <2>1. Labelers' = Labelers
    BY <1>6 DEF Labelers
  <2>2. \A c \in Labelers : \A s \in Shapes : \A v : Asks(tab[c], s, v)' <=> Asks(tab[c], s, v)
    BY <1>6 DEF Asks
  <2>3. \A c \in Labelers : Apart(tab[c])' <=> Apart(tab[c])
    BY <1>6 DEF Apart
  <2>4. AskedOnce'
    BY <2>1, <2>2, <2>3 DEF AskInv, AskedOnce
  <2>5. \A c \in Labelers : Unstored(tab[c])' <=> Unstored(tab[c])
    BY <1>6 DEF Unstored, Unsent
  <2>6. Closed' <=> Closed
    BY <1>6, <2>1 DEF Closed, Asks
  <2>7. NotYetStored'
    BY <1>6, <2>1, <2>5, <2>6 DEF AskInv, NotYetStored
  <2>8. QED BY <2>4, <2>7 DEF AskInv
<1>7. CASE Elsewhere
  <2>1. tab' = tab /\ stored' = stored /\ used'.others \in {used.others, used.others + 1}
    BY <1>1, <1>7, ElsewhereEffect DEF UsedMoves
  <2>2. QED BY <1>1, <1>6, <2>1
<1>8. CASE UNCHANGED vars
  BY <1>6, <1>8 DEF vars
<1>9. QED BY <1>5, <1>7, <1>8 DEF Next, Elsewhere

LEMMA AskInit == Init => AskInv
<1> SUFFICES ASSUME Init PROVE AskInv
  OBVIOUS
<1>1. ASSUME NEW c \in Labelers
      PROVE  /\ \A s \in Shapes : tab[c].task[s] = None /\ tab[c].draft[s] = 0
             /\ \A k \in Flights : tab[c].flight[k] = None
  <2>1. tab[c] = Opened
    BY DEF Init, Labelers
  <2>2. QED BY <2>1 DEF Opened, Flights
<1>2. \A s \in Shapes : \A slot \in {"edit", "create"} : <<s, slot>> \in Flights
  BY DEF Flights, Slots
<1>3. \A c \in Labelers : \A s \in Shapes : \A v : ~ Asks(tab[c], s, v)
  BY <1>1, <1>2 DEF Asks
<1>4. AskedOnce
  BY <1>1, <1>2, <1>3 DEF AskedOnce, Apart
<1>5. NotYetStored
  BY <1>1 DEF NotYetStored, Closed, Unstored, Unsent
<1>6. QED BY <1>4, <1>5 DEF AskInv

LEMMA AskInvariant == Spec => [](TabIInv /\ AskInv)
<1>1. TabIInv /\ AskInv /\ [Next]_vars => AskInv'
  BY AskStep DEF TabIInv
<1>2. QED BY <1>1, AskInit, TabInvariant, PTL DEF Spec

(* What a key of the registry reports is so: "saved" is about the latest    *)
(* edit of the annotation, "conflict" keeps the edit that was refused, and  *)
(* while no answer is lost, that edit is not stored and stays so.           *)
THEOREM SaveStatesTrue == Spec => []SaveStatesAreTrue
<1>1. TabIInv /\ AskInv => SaveStatesAreTrue
  BY DEF TabIInv, TabInv, Truthful, AskInv, NotYetStored, Unstored, SaveStatesAreTrue
<1>2. QED BY <1>1, AskInvariant, PTL

-----------------------------------------------------------------------------
(* What a tab has received stays what the row was, while the row moves.     *)
Moves(r) ==
  \/ row'[r] = row[r]
  \/ row'[r] = None
  \/ row[r] # None /\ row'[r] # None /\ row'[r].revision = row[r].revision + 1

Born(r) == row[r] = None /\ row'[r] # None /\ row'[r].revision = 1

LEMMA WasKept ==
  ASSUME row \in Rows, row' \in Rows, used.reborn \subseteq used'.reborn, NEW s \in Shapes,
         NEW p \in Row \union {None}, Was(p, s),
         Moves(s) \/ s \in used'.reborn \/ p = None
  PROVE  Was(p, s)'
<1>1. CASE s \in used'.reborn \/ p = None \/ row'[s] = None
  BY <1>1 DEF Was
<1>2. CASE s \notin used'.reborn /\ p # None /\ row'[s] # None
  <2>1. p \in Row /\ p.revision \in Nat /\ s \notin used.reborn
    BY <1>2 DEF Row
  <2>2. CASE row'[s] = row[s]
    BY <1>2, <2>1, <2>2 DEF Was
  <2>3. CASE row[s] # None /\ row'[s].revision = row[s].revision + 1
    <3>1. row[s].revision \in Nat
      BY <2>3 DEF Rows, Row
    <3>2. p.revision <= row[s].revision
      BY <2>1, <1>2, <2>3 DEF Was
    <3>3. p.revision <= row'[s].revision /\ p.revision # row'[s].revision
      BY <2>1, <2>3, <3>1, <3>2
    <3>4. QED BY <3>3 DEF Was
  <2>4. QED BY <1>2, <2>2, <2>3 DEF Moves
<1>3. QED BY <1>1, <1>2

LEMMA ReceivedKept ==
  ASSUME row \in Rows, row' \in Rows, used.reborn \subseteq used'.reborn, NEW t \in Tab, Received(t),
         \A s \in Shapes : Moves(s) \/ s \in used'.reborn \/ Unheard(t, s)
  PROVE  Received(t)'
<1>1. ASSUME NEW s \in Shapes PROVE Was(t.known[s], s)'
  <2>1. t.known[s] \in Row \union {None} /\ Was(t.known[s], s)
    BY <1>1 DEF Tab, Rows, Received
  <2>2. Unheard(t, s) => t.known[s] = None
    BY DEF Unheard
  <2>3. QED BY <2>1, <2>2, WasKept
<1>2. ASSUME NEW s \in Shapes, t.task[s] # None PROVE Was(t.task[s].base, s)'
  <2>1. t.task[s].base \in Row \union {None}
    BY <1>2 DEF Tab, Request
  <2>2. Was(t.task[s].base, s)
    BY <1>2 DEF Received
  <2>3. Unheard(t, s) => t.task[s].base = None
    BY <1>2 DEF Unheard
  <2>4. QED BY <2>1, <2>2, <2>3, WasKept
<1>3. ASSUME NEW k \in Flights, t.flight[k] # None
      PROVE  Was(t.flight[k].request.base, k[1])' /\ Was(t.flight[k].reply, k[1])'
  <2>1. k[1] \in Shapes /\ k[2] \in Slots /\ k = <<k[1], k[2]>>
    BY DEF Flights
  <2>2. t.flight[k].request \in Request /\ t.flight[k].reply \in Row \union {None}
    BY <1>3 DEF Tab, Flights, Flight
  <2>3. t.flight[k].request.base \in Row \union {None}
    BY <2>2 DEF Request
  <2>4. Was(t.flight[k].request.base, k[1]) /\ Was(t.flight[k].reply, k[1])
    BY <1>3 DEF Received
  <2>5. Unheard(t, k[1]) => t.flight[k].reply = None /\ t.flight[k].request.base = None
    BY <1>3, <2>1 DEF Unheard
  <2>6. QED BY <2>1, <2>2, <2>3, <2>4, <2>5, WasKept
<1>4. QED BY <1>1, <1>2, <1>3 DEF Received, Based

(* The row a labeler's step writes: it moves on, or a creation of its own   *)
(* tab gives it birth, for the first time or again.                         *)
LEMMA LabelerRows ==
  ASSUME row \in Rows, UsedOK, NEW t \in Tab, NEW u \in Tab, Keyed(t), LabelerEffect(t, u)
  PROVE  /\ row' \in Rows /\ used.reborn \subseteq used'.reborn /\ stored \subseteq stored'
         /\ used.ids \subseteq used'.ids
         /\ \A r \in Shapes :
              \/ Moves(r)
              \/ /\ Born(r) /\ t.flight[<<r, "create">>] # None
                 /\ t.flight[<<r, "create">>].request.value \in stored'
                 /\ t.flight[<<r, "create">>].request.value \in stored => r \in used'.reborn
<1> DEFINE Grown(r) == /\ Born(r) /\ t.flight[<<r, "create">>] # None
                       /\ t.flight[<<r, "create">>].request.value \in stored'
                       /\ t.flight[<<r, "create">>].request.value \in stored => r \in used'.reborn
<1>1. CASE ServedEffect(t, u)
  <2>1. PICK k \in Flights, answer \in Answer \ {"none"} :
          /\ t.flight[k] # None /\ Serves(t.flight[k].request, answer) /\ used'.ids = used.ids
    BY <1>1 DEF ServedEffect
  <2> DEFINE q == t.flight[k].request
  <2>2. q \in Request /\ q.shape = k[1] /\ q.kind \in Kinds(k[2]) /\ k[1] \in Shapes /\ k[2] \in Slots
        /\ k = <<k[1], k[2]>>
    BY <2>1, FlightTyped DEF Keyed, Flights
  <2> HIDE DEF q
  <2>3. CASE Accepted(q) /\ row' = Applied(q) /\ stored' = stored \union {q.value}
             /\ used' = [used EXCEPT !.reborn = used.reborn \union Reborn(q)]
    <3>1. PICK rows : rows = Applied(q) OBVIOUS
    <3>2. row' = rows /\ rows \in Rows /\ \A r \in Shapes \ {q.shape} : rows[r] = row[r]
      BY <2>2, <2>3, <3>1, AppliedRows
    <3>3. Moves(q.shape) \/ (Born(q.shape) /\ q.kind = "create")
      <4>1. q.kind = "create" \/ q.kind \in {"geo", "lab"} \/ q.kind = "delete"
        BY <2>2 DEF Kinds, Slots
      <4>2. QED BY <2>2, <2>3, <3>1, <3>2, <4>1, AppliedRows DEF Moves, Born
    <3>4. \A r \in Shapes \ {q.shape} : Moves(r)
      BY <3>2 DEF Moves
    <3>5. used.reborn \subseteq used'.reborn /\ Reborn(q) \subseteq used'.reborn
      BY <2>3 DEF UsedOK
    <3>6. Born(q.shape) /\ q.kind = "create" => Grown(q.shape)
      <4>1. q.kind = "create" => k = <<q.shape, "create">>
        BY <2>2 DEF Kinds, Slots
      <4>2. Born(q.shape) /\ q.kind = "create" /\ q.value \in stored => q.shape \in used'.reborn
        BY <3>5 DEF Reborn, Born
      <4>3. QED BY <2>1, <2>3, <4>1, <4>2 DEF q
    <3>7. QED BY <2>1, <2>2, <2>3, <3>2, <3>3, <3>4, <3>5, <3>6
  <2>4. CASE UNCHANGED <<row, stored, used>>
    BY <2>4 DEF Moves
  <2>5. QED BY <2>1, <2>3, <2>4 DEF Serves, q
<1>2. CASE UNCHANGED <<row, stored>> /\ used'.reborn = used.reborn /\ used.ids \subseteq used'.ids
  BY <1>2 DEF Moves
<1>3. \A i, o : Frame(i, o) => UNCHANGED <<row, stored>> /\ used'.reborn = used.reborn /\ used.ids \subseteq used'.ids
  BY DEF Frame
<1> HIDE DEF Grown
<1>4. \/ ServedEffect(t, u)
      \/ UNCHANGED <<row, stored>> /\ used'.reborn = used.reborn /\ used.ids \subseteq used'.ids
  <2>1. (\E i, o : Frame(i, o)) \/ ServedEffect(t, u) \/ CreateEffect(t, u)
    BY DEF LabelerEffect, EditEffect, SendEffect, DeleteEffect, LoseEffect, HearEffect, ScreenEffect
  <2>2. QED BY <1>3, <2>1 DEF CreateEffect
<1>5. QED BY <1>1, <1>2, <1>4

(* Without a row of its own, an annotation stays one nobody has heard of.   *)
LEMMA LabelerUnheard ==
  ASSUME NEW t \in Tab, NEW u \in Tab, Keyed(t), LabelerEffect(t, u),
         NEW s \in Shapes, Unheard(t, s), row[s] = None, row'[s] = None
  PROVE  Unheard(u, s)
<1>1. \A slot \in Slots : <<s, slot>> \in Flights /\ <<s, slot>>[1] = s /\ <<s, slot>>[2] = slot
  BY DEF Flights
<1>2. \A x \in {t, u} : x.flight \in [Flights -> Flight \union {None}] /\ x.known \in Rows
                        /\ x.task \in [Shapes -> Request \union {None}]
  BY DEF Tab, Flights
<1>3. CASE EditEffect(t, u)
  <2>1. PICK r \in Shapes, q \in Request : Edits(t, u, r, q) /\ q.base = t.known[r]
    BY <1>3 DEF EditEffect
  <2>2. u.known = t.known /\ u.flight = t.flight /\ u.task[s] = IF s = r THEN q ELSE t.task[s]
    BY <1>2, <2>1 DEF Edits
  <2>3. QED BY <2>1, <2>2 DEF Unheard
<1>4. CASE SendEffect(t, u)
  <2>1. PICK S \in SUBSET Shapes : Sends(t, u, S)
    BY <1>4 DEF SendEffect
  <2>2. u.known = t.known /\ u.task = t.task
    BY <2>1 DEF Sends, Screen
  <2>3. ASSUME NEW slot \in Slots, u.flight[<<s, slot>>] # None
        PROVE  u.flight[<<s, slot>>].reply = None /\ u.flight[<<s, slot>>].request.base = None
    <3>1. CASE s \in S /\ slot = "edit"
      <4>1. u.flight[<<s, slot>>] = New(t.task[s]) /\ t.task[s] # None
        BY <1>1, <2>1, <3>1 DEF Sends
      <4>2. QED BY <4>1 DEF New, Unheard
    <3>2. CASE ~ (s \in S /\ slot = "edit")
      <4>1. u.flight[<<s, slot>>] = t.flight[<<s, slot>>]
        BY <1>1, <2>1, <3>2 DEF Sends
      <4>2. QED BY <2>3, <4>1 DEF Unheard
    <3>3. QED BY <3>1, <3>2
  <2>4. QED BY <2>2, <2>3 DEF Unheard
<1>5. CASE CreateEffect(t, u) \/ DeleteEffect(t, u)
  <2>1. PICK r \in Shapes, slot \in {"create", "delete"}, q \in Request :
          Launches(t, u, <<r, slot>>, q) /\ q.base \in {None, t.known[r]}
    BY <1>5 DEF CreateEffect, DeleteEffect
  <2>2. u.known = t.known /\ u.task = t.task
    BY <2>1 DEF Launches
  <2>3. ASSUME NEW o \in Slots, u.flight[<<s, o>>] # None
        PROVE  u.flight[<<s, o>>].reply = None /\ u.flight[<<s, o>>].request.base = None
    <3>1. u.flight[<<s, o>>] = IF <<s, o>> = <<r, slot>> THEN New(q) ELSE t.flight[<<s, o>>]
      BY <1>1, <1>2, <2>1 DEF Launches
    <3>2. <<s, o>> = <<r, slot>> => s = r
      OBVIOUS
    <3>3. QED BY <2>1, <2>3, <3>1, <3>2 DEF New, Unheard
  <2>4. QED BY <2>2, <2>3 DEF Unheard
<1>6. CASE ServedEffect(t, u) \/ LoseEffect(t, u)
  <2>0. PICK k \in Flights : \E answer, reply : /\ Answers(t, u, k, answer, reply)
                                                 /\ reply \in {t.flight[k].reply, row'[k[1]]}
    BY <1>6 DEF ServedEffect, LoseEffect
  <2>1. PICK answer, reply : Answers(t, u, k, answer, reply) /\ reply \in {t.flight[k].reply, row'[k[1]]}
    BY <2>0
  <2>2. u.known = t.known /\ u.task = t.task
    BY <2>1 DEF Answers, Screen
  <2>3. ASSUME NEW o \in Slots, u.flight[<<s, o>>] # None
        PROVE  u.flight[<<s, o>>].reply = None /\ u.flight[<<s, o>>].request.base = None
    <3>1. CASE <<s, o>> = k
      BY <1>1, <2>1, <3>1 DEF Answers, Unheard
    <3>2. CASE <<s, o>> # k
      <4>1. u.flight[<<s, o>>] = t.flight[<<s, o>>]
        BY <1>1, <1>2, <2>1, <3>2 DEF Answers
      <4>2. QED BY <2>3, <4>1 DEF Unheard
    <3>3. QED BY <3>1, <3>2
  <2>4. QED BY <2>2, <2>3 DEF Unheard
<1>7. CASE HearEffect(t, u)
  <2>1. PICK k \in Flights : Hears(t, u, k)
    BY <1>7 DEF HearEffect
  <2>2. k[1] \in Shapes /\ k[2] \in Slots /\ k = <<k[1], k[2]>>
    BY DEF Flights
  <2>3. u.known[s] = None
    BY <2>1, <2>2 DEF Hears, Unheard
  <2>4. u.task[s] # None => u.task[s].base = None
    BY <1>2, <2>1, <2>2 DEF Hears, Unheard
  <2>5. ASSUME NEW o \in Slots, u.flight[<<s, o>>] # None
        PROVE  u.flight[<<s, o>>].reply = None /\ u.flight[<<s, o>>].request.base = None
    <3>1. u.flight[<<s, o>>] = t.flight[<<s, o>>]
      BY <1>1, <1>2, <2>1, <2>5 DEF Hears
    <3>2. QED BY <2>5, <3>1 DEF Unheard
  <2>6. QED BY <2>3, <2>4, <2>5 DEF Unheard
<1>8. CASE ScreenEffect(t, u)
  BY <1>8 DEF ScreenEffect, Keys, Screen, Unheard
<1>9. CASE u = Opened
  BY <1>1, <1>9 DEF Opened, Unheard, Flights
<1>10. QED BY <1>3, <1>4, <1>5, <1>6, <1>7, <1>8, <1>9 DEF LabelerEffect

(* A creation in flight was there before, or is of a new annotation. *)
LEMMA LabelerCreates ==
  ASSUME NEW t \in Tab, NEW u \in Tab, Keyed(t), LabelerEffect(t, u),
         NEW s \in Shapes, NEW k, k = <<s, "create">>, u.flight[k] # None
  PROVE  \/ t.flight[k] # None /\ u.flight[k].request = t.flight[k].request
         \/ /\ s \notin used.ids /\ s \in used'.ids /\ row' = row /\ stored' = stored
            /\ u.flight[k].request.value = used.edits + 1
<1> DEFINE Goal == \/ t.flight[k] # None /\ u.flight[k].request = t.flight[k].request
                   \/ /\ s \notin used.ids /\ s \in used'.ids /\ row' = row /\ stored' = stored
                      /\ u.flight[k].request.value = used.edits + 1
<1>1. k \in Flights /\ k[2] = "create" /\ k[1] = s
  BY DEF Flights, Slots
<1>2. \A x \in {t, u} : x.flight \in [Flights -> Flight \union {None}]
  BY DEF Tab, Flights
<1>3. ASSUME u.flight[k] = t.flight[k] PROVE Goal
  BY <1>3
<1>4. ASSUME CreateEffect(t, u) PROVE Goal
  <2>1. PICK r \in Shapes, q \in Request :
          /\ Launches(t, u, <<r, "create">>, q) /\ q.value = used.edits + 1 /\ r \notin used.ids
          /\ used'.ids = used.ids \union {r} /\ UNCHANGED <<row, stored>>
    BY <1>4 DEF CreateEffect
  <2>2. CASE r = s
    <3>1. u.flight[k] = New(q)
      BY <1>1, <1>2, <2>1, <2>2 DEF Launches
    <3>2. QED BY <2>1, <2>2, <3>1 DEF New
  <2>3. CASE r # s
    <3>1. <<r, "create">> # k
      BY <2>3
    <3>2. u.flight[k] = t.flight[k]
      BY <1>1, <1>2, <2>1, <3>1 DEF Launches
    <3>3. QED BY <1>3, <3>2
  <2>4. QED BY <2>2, <2>3
<1>5. ASSUME ServedEffect(t, u) \/ LoseEffect(t, u) PROVE Goal
  <2>1. PICK j \in Flights : \E answer, reply : Answers(t, u, j, answer, reply)
    BY <1>5 DEF ServedEffect, LoseEffect
  <2>2. CASE j = k
    BY <2>1, <2>2 DEF Answers
  <2>3. CASE j # k
    <3>1. u.flight[k] = t.flight[k]
      BY <1>1, <1>2, <2>1, <2>3 DEF Answers
    <3>2. QED BY <1>3, <3>1
  <2>4. QED BY <2>2, <2>3
<1>6. ASSUME DeleteEffect(t, u) PROVE u.flight[k] = t.flight[k]
  <2>1. PICK r \in Shapes, q \in Request : Launches(t, u, <<r, "delete">>, q)
    BY <1>6 DEF DeleteEffect
  <2>2. QED BY <1>1, <1>2, <2>1 DEF Launches
<1>7. ASSUME SendEffect(t, u) PROVE u.flight[k] = t.flight[k]
  <2>1. PICK S \in SUBSET Shapes : Sends(t, u, S)
    BY <1>7 DEF SendEffect
  <2>2. QED BY <1>1, <2>1 DEF Sends
<1>8. ASSUME HearEffect(t, u) PROVE u.flight[k] = t.flight[k]
  <2>1. PICK j \in Flights : Hears(t, u, j)
    BY <1>8 DEF HearEffect
  <2>2. u.flight = [t.flight EXCEPT ![j] = None]
    BY <2>1 DEF Hears
  <2>3. QED BY <1>1, <1>2, <2>2
<1>9. ASSUME EditEffect(t, u) \/ ScreenEffect(t, u) PROVE u.flight[k] = t.flight[k]
  BY <1>9 DEF EditEffect, Edits, ScreenEffect, Keys
<1>10. u # Opened
  BY <1>1 DEF Opened, Flights
<1> HIDE DEF Goal
<1>11. Goal
  BY <1>3, <1>4, <1>5, <1>6, <1>7, <1>8, <1>9, <1>10 DEF LabelerEffect
<1>12. QED BY <1>11 DEF Goal

(* What a tab receives is what the row is, or was. *)
LEMMA LabelerReceived ==
  ASSUME row \in Rows, row' \in Rows, used.reborn \subseteq used'.reborn,
         NEW t \in Tab, NEW u \in Tab, Keyed(t), Received(t), Received(t)', LabelerEffect(t, u)
  PROVE  Received(u)'
<1>1. \A x \in {t, u} : x.flight \in [Flights -> Flight \union {None}] /\ x.known \in Rows /\ x.shown \in Rows
                        /\ x.task \in [Shapes -> Request \union {None}]
  BY DEF Tab, Flights
<1>2. \A s \in Shapes : \A slot \in Slots : <<s, slot>> \in Flights /\ <<s, slot>>[1] = s /\ <<s, slot>>[2] = slot
  BY DEF Flights
<1>3. \A s \in Shapes : \A p : p = row'[s] => Was(p, s)'
  <2>1. \A s \in Shapes : row'[s] # None => row'[s].revision \in Nat
    BY DEF Rows, Row
  <2>2. ASSUME NEW s \in Shapes, NEW p, p = row'[s], p # None PROVE p.revision <= row'[s].revision
    BY <2>1, <2>2
  <2>3. QED BY <2>2 DEF Was
<1>4. \A s \in Shapes : Was(None, s)'
  BY DEF Was
<1> DEFINE ScreenOK(s) ==
             /\ Was(u.known[s], s)'
             /\ u.shown[s] # None => \/ u.shown[s].revision = 0
                                     \/ u.known[s] # None /\ u.shown[s].revision = u.known[s].revision
           TaskOK(s) == u.task[s] # None => Based(u.task[s]) /\ Was(u.task[s].base, s)'
           FlightOK(k) == u.flight[k] # None =>
             /\ Based(u.flight[k].request) /\ Was(u.flight[k].request.base, k[1])'
             /\ Was(u.flight[k].reply, k[1])'
           Goal == Received(u)'
<1>5. ASSUME \A s \in Shapes : ScreenOK(s) /\ TaskOK(s), \A k \in Flights : FlightOK(k) PROVE Goal
  BY <1>5 DEF Received, Based
<1>6. ASSUME NEW s \in Shapes, u.shown[s] = t.shown[s], u.known[s] = t.known[s] PROVE ScreenOK(s)
  BY <1>6 DEF Received
<1>7. ASSUME NEW s \in Shapes, u.task[s] = t.task[s] PROVE TaskOK(s)
  BY <1>7 DEF Received, Based
<1>8. ASSUME NEW k \in Flights, u.flight[k] = t.flight[k] PROVE FlightOK(k)
  BY <1>8 DEF Received, Based
<1>9. ASSUME NEW s \in Shapes, u.shown[s] = row'[s], u.known[s] = row'[s] PROVE ScreenOK(s)
  <2>1. PICK p : p = row'[s] OBVIOUS
  <2>2. Was(p, s)' BY <1>3, <2>1
  <2>3. QED BY <1>9, <2>1, <2>2
<1> HIDE DEF Goal
<1>10. ASSUME EditEffect(t, u) PROVE Goal
  <2>1. PICK r \in Shapes, q \in Request :
          Edits(t, u, r, q) /\ q.revision = t.shown[r].revision /\ q.base = t.known[r]
    BY <1>10 DEF EditEffect
  <2>2. u.known = t.known /\ u.flight = t.flight /\ \A s \in Shapes : u.task[s] = IF s = r THEN q ELSE t.task[s]
    BY <1>1, <2>1 DEF Edits
  <2>3. t.shown[r] # None /\ u.shown[r].revision = t.shown[r].revision /\ Was(t.known[r], r)'
    BY <2>1 DEF Edits, Received
  <2>4. Based(q)
    BY <2>1, <2>3 DEF Based, Received
  <2>5. ASSUME NEW s \in Shapes PROVE ScreenOK(s) /\ TaskOK(s)
    <3>1. CASE s = r
      BY <2>1, <2>2, <2>3, <2>4, <3>1 DEF Received
    <3>2. CASE s # r
      BY <1>6, <1>7, <2>1, <2>2, <3>2 DEF Edits
    <3>3. QED BY <3>1, <3>2
  <2>6. \A k \in Flights : FlightOK(k)
    BY <1>8, <2>2
  <2>7. QED BY <1>5, <2>5, <2>6
<1>11. ASSUME SendEffect(t, u) PROVE Goal
  <2>1. PICK S \in SUBSET Shapes : Sends(t, u, S)
    BY <1>11 DEF SendEffect
  <2>2. \A s \in Shapes : ScreenOK(s) /\ TaskOK(s)
    BY <1>6, <1>7, <2>1 DEF Sends, Screen
  <2>3. ASSUME NEW k \in Flights PROVE FlightOK(k)
    <3>1. CASE k[1] \in S /\ k[2] = "edit"
      <4>1. u.flight[k] = New(t.task[k[1]]) /\ t.task[k[1]] # None /\ k[1] \in Shapes
        BY <2>1, <3>1 DEF Sends
      <4>2. Based(t.task[k[1]]) /\ Was(t.task[k[1]].base, k[1])'
        BY <4>1 DEF Received, Based
      <4>3. QED BY <1>4, <4>1, <4>2 DEF New
    <3>2. CASE ~ (k[1] \in S /\ k[2] = "edit")
      BY <1>8, <2>1, <3>2 DEF Sends
    <3>3. QED BY <3>1, <3>2
  <2>4. QED BY <1>5, <2>2, <2>3
<1>12. ASSUME NEW r \in Shapes, NEW slot \in Slots, NEW q \in Request, Launches(t, u, <<r, slot>>, q),
              Based(q), Was(q.base, r)'
       PROVE  Goal
  <2>1. ASSUME NEW s \in Shapes PROVE ScreenOK(s) /\ TaskOK(s)
    <3>1. u.task = t.task /\ u.known = t.known /\ Was(t.known[s], s)'
      BY <1>12 DEF Launches, Received
    <3>2. u.shown[s] = t.shown[s] \/ u.shown[s].revision = 0
      BY <1>12 DEF Launches
    <3>3. QED BY <1>6, <1>7, <3>1, <3>2
  <2>2. ASSUME NEW k \in Flights PROVE FlightOK(k)
    <3>1. u.flight[k] = IF k = <<r, slot>> THEN New(q) ELSE t.flight[k]
      BY <1>1, <1>2, <1>12 DEF Launches
    <3>2. CASE k = <<r, slot>>
      <4>1. k[1] = r
        BY <3>2
      <4>2. QED BY <1>4, <1>12, <3>1, <3>2, <4>1 DEF New
    <3>3. CASE k # <<r, slot>>
      BY <1>8, <3>1, <3>3
    <3>4. QED BY <3>2, <3>3
  <2>3. QED BY <1>5, <2>1, <2>2
<1>13. ASSUME CreateEffect(t, u) PROVE Goal
  <2>1. PICK r \in Shapes, q \in Request : Launches(t, u, <<r, "create">>, q) /\ q.kind = "create" /\ q.base = None
    BY <1>13 DEF CreateEffect
  <2>2. Based(q) /\ Was(q.base, r)'
    BY <1>4, <2>1 DEF Based
  <2>3. QED BY <1>12, <2>1, <2>2 DEF Slots
<1>14. ASSUME DeleteEffect(t, u) PROVE Goal
  <2>1. PICK r \in Shapes, q \in Request :
          /\ Launches(t, u, <<r, "delete">>, q) /\ t.shown[r] # None
          /\ q.revision = t.shown[r].revision /\ q.base = t.known[r]
    BY <1>14 DEF DeleteEffect
  <2>2. Based(q) /\ Was(q.base, r)'
    BY <2>1 DEF Based, Received
  <2>3. QED BY <1>12, <2>1, <2>2 DEF Slots
<1>15. ASSUME ServedEffect(t, u) \/ LoseEffect(t, u) PROVE Goal
  <2>1. PICK k \in Flights : \E answer, reply : /\ Answers(t, u, k, answer, reply)
                                                /\ reply \in {t.flight[k].reply, row'[k[1]]}
    BY <1>15 DEF ServedEffect, LoseEffect
  <2>2. PICK answer, reply : Answers(t, u, k, answer, reply) /\ reply \in {t.flight[k].reply, row'[k[1]]}
    BY <2>1
  <2>3. \A s \in Shapes : ScreenOK(s) /\ TaskOK(s)
    BY <1>6, <1>7, <2>2 DEF Answers, Screen
  <2>4. ASSUME NEW j \in Flights PROVE FlightOK(j)
    <3>1. CASE j = k
      <4>1. j[1] \in Shapes /\ t.flight[j] # None /\ u.flight[j].request = t.flight[j].request
            /\ u.flight[j].reply = reply
        BY <2>2, <3>1 DEF Answers, Flights
      <4>2. /\ Based(t.flight[j].request) /\ Was(t.flight[j].request.base, j[1])'
            /\ Was(t.flight[j].reply, j[1])'
        BY <4>1 DEF Received, Based
      <4>3. Was(reply, j[1])'
        BY <1>3, <2>2, <3>1, <4>1, <4>2
      <4>4. QED BY <4>1, <4>2, <4>3
    <3>2. CASE j # k
      <4>1. u.flight[j] = t.flight[j]
        BY <1>1, <2>2, <3>2 DEF Answers
      <4>2. QED BY <1>8, <4>1
    <3>3. QED BY <3>1, <3>2
  <2>5. QED BY <1>5, <2>3, <2>4
<1>16. ASSUME HearEffect(t, u) PROVE Goal
  <2>1. PICK k \in Flights : Hears(t, u, k)
    BY <1>16 DEF HearEffect
  <2>2. k[1] \in Shapes /\ t.flight[k] # None
    BY <2>1 DEF Flights, Hears
  <2>3. ASSUME NEW s \in Shapes PROVE ScreenOK(s)
    <3>1. CASE s # k[1]
      BY <1>6, <2>1, <3>1 DEF Hears
    <3>2. CASE s = k[1]
      <4>1. \/ u.shown[s] = t.shown[s] /\ u.known[s] = t.known[s]
            \/ u.shown[s] = None /\ u.known[s] = t.known[s]
            \/ u.shown[s] = t.flight[k].reply /\ u.known[s] = t.flight[k].reply
        BY <2>1, <3>2 DEF Hears
      <4>2. Was(t.known[s], s)' /\ Was(t.flight[k].reply, s)'
        BY <2>2, <3>2 DEF Received
      <4>3. QED BY <1>6, <4>1, <4>2
    <3>3. QED BY <3>1, <3>2
  <2>4. ASSUME NEW s \in Shapes PROVE TaskOK(s)
    <3>1. u.task[s] = None \/ u.task[s] = t.task[s]
      BY <1>1, <2>1 DEF Hears
    <3>2. QED BY <1>7, <3>1
  <2>5. ASSUME NEW j \in Flights PROVE FlightOK(j)
    <3>1. u.flight[j] = None \/ u.flight[j] = t.flight[j]
      BY <1>1, <2>1 DEF Hears
    <3>2. QED BY <1>8, <3>1
  <2>6. QED BY <1>5, <2>3, <2>4, <2>5
<1>17. ASSUME ScreenEffect(t, u) PROVE Goal
  <2>1. u.task = t.task /\ u.flight = t.flight /\ row' = row
        /\ (Screen(t, u) \/ (u.shown = row /\ u.known = row))
    BY <1>17 DEF ScreenEffect, Keys, Frame
  <2>2. \A s \in Shapes : ScreenOK(s)
    BY <1>6, <1>9, <2>1 DEF Screen
  <2>3. QED BY <1>5, <1>7, <1>8, <2>1, <2>2
<1>18. ASSUME u = Opened, Frame(0, 0) PROVE Goal
  <2>1. /\ u.shown = row' /\ u.known = row' /\ \A s \in Shapes : u.task[s] = None
        /\ \A k \in Flights : u.flight[k] = None
    BY <1>18 DEF Opened, Frame, Flights
  <2>2. QED BY <1>5, <1>9, <2>1
<1>19. Goal
  BY <1>10, <1>11, <1>13, <1>14, <1>15, <1>16, <1>17, <1>18 DEF LabelerEffect
<1>20. QED BY <1>19 DEF Goal

LEMMA OriginsStep ==
  ASSUME TypeOK, TabInv, Origins, [Next]_vars
  PROVE  Origins'
<1>1. UsedOK /\ row \in Rows
  BY DEF TypeOK, UsedOK
<1>2. ASSUME NEW d \in Labelers PROVE tab[d] \in Tab /\ Keyed(tab[d]) /\ Received(tab[d])
  BY TabTyped DEF TabInv, Origins
<1>3. ASSUME NEW s \in Shapes, row[s] # None PROVE row[s].revision \in Nat /\ row[s].revision >= 1
  BY <1>1, <1>3 DEF Rows, Row, Origins
<1>4. ASSUME NEW s \in Shapes \ used.ids PROVE Unborn(s) /\ \A d \in Labelers : ~ Creates(d, s)
  BY DEF Origins
<1>5. ASSUME NEW d \in Labelers, NEW s \in Shapes, Creates(d, s)
      PROVE  /\ tab[d].flight[<<s, "create">>].request.value \notin stored => Unborn(s)
             /\ \A e \in Labelers : Creates(e, s) => e = d
  BY <1>5 DEF Origins
<1>6. ASSUME NEW c \in Labelers, LabelerStep(c) PROVE Origins'
  <2> DEFINE t == tab[c]
             u == tab'[c]
             Grown(r) == /\ Born(r) /\ t.flight[<<r, "create">>] # None
                         /\ t.flight[<<r, "create">>].request.value \in stored'
                         /\ t.flight[<<r, "create">>].request.value \in stored => r \in used'.reborn
  <2>1. tab' = [tab EXCEPT ![c] = u] /\ u \in Tab
    BY <1>6, LabelerGood
  <2>2. /\ \A d \in Users : d # c => tab'[d] = tab[d]
        /\ Labelers' \subseteq Labelers
    BY <2>1, OneTab
  <2>3. LabelerEffect(t, u) /\ t \in Tab /\ Keyed(t) /\ Received(t)
    BY <1>2, <1>6, LabelerEffects
  <2> HIDE DEF t, u
  <2>4. /\ row' \in Rows /\ used.reborn \subseteq used'.reborn /\ stored \subseteq stored'
        /\ used.ids \subseteq used'.ids /\ \A r \in Shapes : Moves(r) \/ Grown(r)
    BY <1>1, <2>1, <2>3, LabelerRows
  <2>5. ASSUME NEW d \in Labelers', NEW w, w = tab'[d]
        PROVE  /\ d \in Labelers /\ d \in Users
               /\ d = c => w = u
               /\ d # c => w = tab[d]
    BY <2>2, <2>5 DEF u, Labelers
  <2>6. ASSUME NEW s \in Shapes, Grown(s) PROVE s \in used'.reborn \/ Unborn(s)
    <3>1. Creates(c, s) /\ (t.flight[<<s, "create">>].request.value \notin stored \/ s \in used'.reborn)
      BY <2>6 DEF Creates, t
    <3>2. QED BY <1>5, <3>1 DEF t
  <2>7. ASSUME NEW d \in Labelers, NEW x, x = tab[d] PROVE Received(x)'
    <3>1. \A s \in Shapes : Moves(s) \/ s \in used'.reborn \/ Unheard(x, s)
      BY <2>4, <2>6, <2>7 DEF Unborn
    <3>2. x \in Tab /\ Received(x)
      BY <1>2, <2>7
    <3>3. QED BY <1>1, <2>4, <3>1, <3>2, ReceivedKept
  <2>8. ASSUME NEW d \in Labelers' PROVE Received(tab[d])'
    <3>1. PICK w : w = tab'[d] OBVIOUS
    <3>2. CASE d = c
      <4>1. ASSUME NEW x, x = t PROVE Received(x)'
        BY <2>7, <4>1 DEF t
      <4>2. ASSUME NEW x, NEW z, x = t, z = u PROVE Received(z)'
        <5>1. Received(x)' BY <4>1, <4>2
        <5>2. QED BY <1>1, <2>1, <2>3, <2>4, <4>2, <5>1, LabelerReceived
      <4>3. PICK x : x = t OBVIOUS
      <4>4. w = u BY <2>5, <3>1, <3>2
      <4>5. Received(w)' BY <4>2, <4>3, <4>4
      <4>6. QED BY <3>1, <4>5 DEF Received, Based, Was
    <3>3. CASE d # c
      <4>1. Received(w)' BY <2>5, <2>7, <3>1, <3>3
      <4>2. QED BY <3>1, <4>1 DEF Received, Based, Was
    <3>4. QED BY <3>2, <3>3
  <2>9. ASSUME NEW s \in Shapes, Unborn(s), row'[s] = None PROVE Unborn(s)'
    <3>1. ASSUME NEW d \in Labelers', NEW w, w = tab'[d] PROVE Unheard(w, s)
      <4>1. Unheard(t, s) /\ row[s] = None
        BY <2>9 DEF Unborn, t
      <4>2. Unheard(u, s)
        BY <2>1, <2>3, <2>9, <4>1, LabelerUnheard
      <4>3. QED BY <2>5, <2>9, <3>1, <4>2 DEF Unborn
    <3>2. QED BY <2>9, <3>1 DEF Unborn, Unheard
  <2>10. ASSUME NEW d \in Labelers', NEW s \in Shapes, NEW w, w = tab'[d], w.flight[<<s, "create">>] # None
         PROVE  /\ d \in Labelers
                /\ \/ Creates(d, s) /\ w.flight[<<s, "create">>].request = tab[d].flight[<<s, "create">>].request
                   \/ d = c /\ s \notin used.ids /\ s \in used'.ids /\ row' = row
    <3>1. CASE d = c
      <4>1. w = u
        BY <2>5, <2>10, <3>1
      <4>2. PICK k : k = <<s, "create">> OBVIOUS
      <4>3. \/ t.flight[k] # None /\ u.flight[k].request = t.flight[k].request
            \/ s \notin used.ids /\ s \in used'.ids /\ row' = row
        BY <2>1, <2>3, <2>10, <4>1, <4>2, LabelerCreates
      <4>4. QED BY <3>1, <4>1, <4>2, <4>3 DEF Creates, t
    <3>2. CASE d # c
      BY <2>5, <2>10, <3>2 DEF Creates
    <3>3. QED BY <3>1, <3>2
  <2>11. ASSUME NEW s \in Shapes, row'[s] # None PROVE row'[s].revision >= 1
    <3>1. CASE row'[s] = row[s]
      BY <1>3, <2>11, <3>1
    <3>2. CASE row[s] # None /\ row'[s].revision = row[s].revision + 1
      <4>1. row[s].revision \in Nat /\ row[s].revision >= 1
        BY <1>3, <3>2
      <4>2. QED BY <3>2, <4>1
    <3>3. CASE Born(s)
      BY <3>3 DEF Born
    <3>4. QED BY <2>4, <2>11, <3>1, <3>2, <3>3 DEF Moves
  <2>12. ASSUME NEW s \in Shapes \ used'.ids PROVE Unborn(s)' /\ \A d \in Labelers' : ~ Creates(d, s)'
    <3>1. s \notin used.ids /\ Unborn(s) /\ ~ Creates(c, s)
      BY <1>4, <2>4
    <3>2. row'[s] = None
      BY <2>4, <3>1 DEF Unborn, Moves, Creates, t
    <3>3. ASSUME NEW d \in Labelers', NEW w, w = tab'[d] PROVE w.flight[<<s, "create">>] = None
      BY <1>4, <2>10, <3>1, <3>3
    <3>4. QED BY <2>9, <3>1, <3>2, <3>3 DEF Creates
  <2>13. ASSUME NEW d \in Labelers', NEW s \in Shapes, NEW w, w = tab'[d], w.flight[<<s, "create">>] # None,
                w.flight[<<s, "create">>].request.value \notin stored'
         PROVE  Unborn(s)'
    <3>1. CASE /\ Creates(d, s) /\ d \in Labelers
               /\ w.flight[<<s, "create">>].request = tab[d].flight[<<s, "create">>].request
      <4>1. Unborn(s)
        BY <1>5, <2>4, <2>13, <3>1
      <4>2. ~ Grown(s)
        <5>1. Creates(c, s) => d = c
          BY <1>5, <3>1
        <5>2. QED BY <2>13, <3>1, <5>1 DEF Creates, t
      <4>3. row'[s] = None
        BY <2>4, <4>1, <4>2 DEF Unborn, Moves
      <4>4. QED BY <2>9, <4>1, <4>3
    <3>2. CASE s \notin used.ids /\ row' = row
      <4>1. Unborn(s) BY <1>4, <3>2
      <4>2. QED BY <2>9, <3>2, <4>1 DEF Unborn
    <3>3. QED BY <2>10, <2>13, <3>1, <3>2
  <2>14. ASSUME NEW d \in Labelers', NEW e \in Labelers', NEW s \in Shapes, NEW w, NEW x, w = tab'[d], x = tab'[e],
                w.flight[<<s, "create">>] # None, x.flight[<<s, "create">>] # None
         PROVE  e = d
    <3>1. d \in Labelers /\ e \in Labelers /\ (Creates(d, s) \/ (d = c /\ s \notin used.ids))
          /\ (Creates(e, s) \/ (e = c /\ s \notin used.ids))
      BY <2>10, <2>14
    <3>2. QED BY <1>4, <1>5, <3>1
  <2>15. ASSUME NEW d \in Labelers', NEW s \in Shapes, Creates(d, s)'
         PROVE  /\ tab'[d].flight[<<s, "create">>].request.value \notin stored' => Unborn(s)'
                /\ \A e \in Labelers' : Creates(e, s)' => e = d
    <3>1. PICK w : w = tab'[d] OBVIOUS
    <3>2. w.flight[<<s, "create">>] # None
      BY <2>15, <3>1 DEF Creates
    <3>3. tab'[d].flight[<<s, "create">>].request.value \notin stored' => Unborn(s)'
      BY <2>13, <3>1, <3>2
    <3>4. ASSUME NEW e \in Labelers', Creates(e, s)' PROVE e = d
      <4>1. PICK x : x = tab'[e] OBVIOUS
      <4>2. QED BY <2>14, <3>1, <3>2, <3>4, <4>1 DEF Creates
    <3>5. QED BY <3>3, <3>4
  <2>16. QED BY <2>8, <2>11, <2>12, <2>15 DEF Origins
<1>7. ASSUME tab' = tab, stored' = stored, row' \in Rows, used'.reborn = used.reborn, used.ids \subseteq used'.ids,
             \A r \in Shapes : RowMoves(r)
      PROVE  Origins'
  <2>1. Labelers' = Labelers
    BY <1>7 DEF Labelers
  <2>2. ASSUME NEW s \in Shapes PROVE Moves(s) \/ (Unborn(s) /\ s \in used'.ids /\ Born(s))
    BY <1>4, <1>7 DEF RowMoves, Moves, Unborn, Born
  <2>3. ASSUME NEW d \in Labelers PROVE Received(tab[d])'
    <3>1. PICK x : x = tab[d] OBVIOUS
    <3>2. x \in Tab /\ Received(x)
      BY <1>2, <3>1
    <3>3. \A s \in Shapes : Moves(s) \/ s \in used'.reborn \/ Unheard(x, s)
      BY <2>2, <3>1 DEF Unborn
    <3>4. Received(x)'
      BY <1>1, <1>7, <3>2, <3>3, ReceivedKept
    <3>5. QED BY <1>7, <3>1, <3>4 DEF Received, Based, Was
  <2>4. ASSUME NEW s \in Shapes, Unborn(s), row'[s] = None PROVE Unborn(s)'
    BY <1>7, <2>1, <2>4 DEF Unborn, Unheard
  <2>5. ASSUME NEW s \in Shapes, row'[s] # None PROVE row'[s].revision >= 1
    BY <1>3, <2>2, <2>5 DEF Moves, Born
  <2>6. ASSUME NEW s \in Shapes \ used'.ids PROVE Unborn(s)' /\ \A d \in Labelers' : ~ Creates(d, s)'
    <3>1. s \notin used.ids /\ Unborn(s) /\ \A d \in Labelers : ~ Creates(d, s)
      BY <1>4, <1>7
    <3>2. row'[s] = None
      BY <2>2, <3>1 DEF Unborn, Moves
    <3>3. QED BY <1>7, <2>1, <2>4, <3>1, <3>2 DEF Creates
  <2>7. ASSUME NEW d \in Labelers', NEW s \in Shapes, Creates(d, s)'
        PROVE  /\ tab'[d].flight[<<s, "create">>].request.value \notin stored' => Unborn(s)'
               /\ \A e \in Labelers' : Creates(e, s)' => e = d
    <3>1. d \in Labelers /\ Creates(d, s) /\ \A e \in Labelers' : Creates(e, s)' => Creates(e, s)
      BY <1>7, <2>1, <2>7 DEF Creates
    <3>2. s \in used.ids
      BY <1>4, <3>1
    <3>3. row[s] = None => row'[s] = None
      BY <1>7, <3>2 DEF RowMoves
    <3>4. tab[d].flight[<<s, "create">>].request.value \notin stored => Unborn(s)'
      BY <1>5, <2>4, <3>1, <3>3 DEF Unborn
    <3>5. QED BY <1>5, <1>7, <2>1, <3>1, <3>4
  <2>8. QED BY <2>1, <2>3, <2>5, <2>6, <2>7 DEF Origins
<1>8. CASE Elsewhere
  BY <1>1, <1>7, <1>8, ElsewhereEffect DEF UsedMoves
<1>9. CASE UNCHANGED vars
  BY <1>1, <1>7, <1>9 DEF vars, RowMoves
<1>10. QED BY <1>6, <1>8, <1>9 DEF Next, Elsewhere

LEMMA OriginsInit == Init => Origins
<1> SUFFICES ASSUME Init PROVE Origins
  OBVIOUS
<1>1. ASSUME NEW c \in Labelers
      PROVE  /\ tab[c].shown = row /\ tab[c].known = row
             /\ \A s \in Shapes : tab[c].task[s] = None
             /\ \A k \in Flights : tab[c].flight[k] = None
  <2>1. tab[c] = Opened
    BY DEF Init, Labelers
  <2>2. QED BY <2>1 DEF Opened, Flights
<1>2. \A s \in Shapes : row[s] # None => row[s].revision = 1
  BY DEF Init
<1>3. \A s \in Shapes : \A slot \in Slots : <<s, slot>> \in Flights
  BY DEF Flights
<1>4. \A c \in Labelers : Received(tab[c])
  <2>1. \A s \in Shapes : Was(row[s], s)
    BY <1>2 DEF Was
  <2>2. QED BY <1>1, <2>1 DEF Received
<1>5. \A c \in Labelers : \A s \in Shapes : ~ Creates(c, s)
  BY <1>1, <1>3 DEF Creates, Slots
<1>6. ASSUME NEW s \in Shapes \ used.ids PROVE Unborn(s)
  <2>1. row[s] = None
    BY DEF Init
  <2>2. QED BY <1>1, <1>3, <2>1 DEF Unborn, Unheard
<1>7. QED BY <1>2, <1>4, <1>5, <1>6 DEF Origins

LEMMA OriginsInvariant == Spec => [](TabIInv /\ Origins)
<1>1. TabIInv /\ Origins /\ [Next]_vars => Origins'
  BY OriginsStep DEF TabIInv
<1>2. QED BY <1>1, OriginsInit, TabInvariant, PTL DEF Spec

LEMMA OverwritesStep ==
  ASSUME TypeOK, TabInv, Origins, NEW c \in Labelers, NEW k \in Flights, Serve(c, k),
         NEW q, q = tab[c].flight[k].request, q.kind # "create", k[1] \notin used.reborn,
         row'[k[1]] # row[k[1]]
  PROVE  row[k[1]] = q.base
<1> DEFINE s == k[1]
           t == tab[c]
<1>1. t \in Tab /\ t.flight[k] # None /\ q \in Request /\ \E answer : Serves(q, answer)
  BY TabTyped, ServeEffect
<1>2. Accepted(q)
  BY <1>1 DEF Serves
<1>3. s \in Shapes /\ q.shape = s
  BY <1>1 DEF Flights, TabInv, Keyed
<1>4. row[s] # None /\ row[s].revision = q.revision /\ row[s].revision \in Nat /\ row[s].revision >= 1
  BY <1>2, <1>3 DEF Accepted, Missing, Stale, TypeOK, Rows, Row, Origins
<1>5. Based(q) /\ Was(q.base, s)
  BY <1>1 DEF Origins, Received
<1>6. q.base # None /\ q.base.revision = row[s].revision
  BY <1>4, <1>5 DEF Based
<1>7. QED BY <1>4, <1>5, <1>6 DEF Was

(* A save or a deletion overwrites only the row its author had received,    *)
(* however many tabs, writers, late timers and lost answers there are: what *)
(* the author saw has the revision the row still has, and an annotation     *)
(* whose deletion was not undone has one content per revision.              *)
THEOREM SavesOverwriteWhatWasSeen == Spec => OverwritesWhatWasSeen
<1>1. ASSUME TabIInv, Origins, NEW c \in Labelers, NEW k \in Shapes \X Slots,
             Serve(c, k), tab[c].flight[k].request.kind # "create", k[1] \notin used.reborn,
             row'[k[1]] # row[k[1]]
      PROVE  row[k[1]] = tab[c].flight[k].request.base
  BY <1>1, OverwritesStep DEF TabIInv, Flights
<1>2. TabIInv /\ Origins =>
        \A c \in Labelers : \A k \in Shapes \X Slots :
          LET f == tab[c].flight[k]
          IN Serve(c, k) /\ f.request.kind # "create" /\ k[1] \notin used.reborn
             /\ row'[k[1]] # row[k[1]]
               => row[k[1]] = f.request.base
  BY <1>1
<1>3. QED BY <1>2, OriginsInvariant, PTL DEF OverwritesWhatWasSeen

-----------------------------------------------------------------------------
(* The refinement of ReviewedDocument.                                      *)

(* The document as a page has read it.                                      *)
SeenOf(p) == [status |-> p.status, revision |-> p.revision, content |-> p.content]

Seen == [u \in Users |-> IF Open(u) THEN SeenOf(page[u]) ELSE None]

NextDocument == Document!Next \/ UNCHANGED <<asset, row, last, Seen>>

LEMMA ActedMoves ==
  ASSUME asset.revision \in Nat, Acted
  PROVE  Document!Moves
<1>1. PICK action \in DOMAIN Transitions :
        asset.status \in Transitions[action].from /\ Moved(action) /\ UNCHANGED <<row, bulk>>
  BY DEF Acted
<1>2. /\ asset'.status = Transitions[action].to /\ asset'.revision = asset.revision + 1
      /\ last' = asset'.status
  BY <1>1 DEF Moved
<1>3. <<asset.status, Transitions[action].to>> \in Document!Workflow
  BY <1>1 DEF Transitions, Document!Workflow
<1>4. QED BY <1>1, <1>2, <1>3 DEF Document!Moves, Document!Revised

(* A step that leaves every page alone writes the document, or one of the   *)
(* parts of it, as the document allows.                                     *)
LEMMA DocumentWrites ==
  ASSUME TypeOK, row' \in Rows, BulkOK, Next, UNCHANGED page
  PROVE  NextDocument
<1>1. UNCHANGED Seen
  BY DEF Seen, SeenOf, Open
<1>2. asset = [status |-> asset.status, revision |-> asset.revision] /\ asset.revision \in Nat
  BY DEF TypeOK
<1>3. CASE Quiet
  BY <1>1, <1>3 DEF Quiet, NextDocument
<1>4. CASE Written
  <2>1. asset'.status = asset.status /\ asset'.revision = asset.revision + 1
    BY <1>2, <1>4 DEF Written, ContentClaimed
  <2>2. Document!Write
    BY <1>1, <1>4, <2>1
       DEF Document!Write, Document!Revised, Document!UnderReview, Written, Editable, Frozen, Seen, SeenOf
  <2>3. QED BY <2>2 DEF NextDocument, Document!Next
<1>5. CASE Touched
  <2>1. asset'.status = asset.status /\ asset'.revision = asset.revision + 1
    BY <1>2, <1>5 DEF Touched
  <2>2. Document!Annotate
    BY <1>1, <1>5, <2>1 DEF Document!Annotate, Document!Revised, Touched, Seen, SeenOf
  <2>3. QED BY <2>2 DEF NextDocument, Document!Next
<1>6. CASE Acted
  <2>1. Document!Moves /\ UNCHANGED row
    BY <1>2, <1>6, ActedMoves DEF Acted
  <2>2. Document!Act
    BY <1>1, <2>1 DEF Document!Act, Seen, SeenOf
  <2>3. QED BY <2>2 DEF NextDocument, Document!Next
<1>7. CASE Overruled
  <2>1. bulk \in Status \ Governed /\ asset'.status = bulk /\ asset'.revision = asset.revision
    BY <1>2, <1>7 DEF Overruled, BulkOK
  <2>2. Document!Override
    BY <1>1, <1>7, <2>1
       DEF Document!Override, Document!UnderReview, Overruled, Governed, Seen, SeenOf
  <2>3. QED BY <2>2 DEF NextDocument, Document!Next
<1>8. QED BY <1>3, <1>4, <1>5, <1>6, <1>7, ServerChanges

(* What a reviewer's page does is a reading of the document, the end of     *)
(* one, or a decision from a reading that is still right: the page's        *)
(* revision is the Asset's, so by PageAgrees its content is the content.    *)
LEMMA DocumentReads ==
  ASSUME TypeOK, PageInv, NEW v \in Reviewers, ReviewerStep(v)
  PROVE  NextDocument
<1> DEFINE SetSeen(q) == Seen' = [Seen EXCEPT ![v] = q]
<1>1. v \in Users /\ page \in [Users -> Page \union {None}] /\ asset.revision \in Nat
  BY DEF TypeOK, Reviewers
<1>2. ASSUME NEW p, page' = [page EXCEPT ![v] = p], p # None, "status" \in DOMAIN p
      PROVE  SetSeen(SeenOf(p))
  <2>1. page'[v] = p /\ \A u \in Users \ {v} : page'[u] = page[u]
    BY <1>1, <1>2
  <2>2. Open(v)' /\ \A u \in Users \ {v} : Open(u)' <=> Open(u)
    BY <1>2, <2>1 DEF Open
  <2>3. Seen'[v] = SeenOf(p) /\ \A u \in Users \ {v} : Seen'[u] = Seen[u]
    BY <1>1, <2>1, <2>2 DEF Seen, SeenOf
  <2>4. QED BY <1>1, <2>3 DEF Seen
<1>3. ASSUME NEW p, page' = [page EXCEPT ![v] = p], p = None \/ "status" \notin DOMAIN p
      PROVE  SetSeen(None)
  <2>1. page'[v] = p /\ \A u \in Users \ {v} : page'[u] = page[u]
    BY <1>1, <1>3
  <2>2. ~ Open(v)' /\ \A u \in Users \ {v} : Open(u)' <=> Open(u)
    BY <1>3, <2>1 DEF Open
  <2>3. Seen'[v] = None /\ \A u \in Users \ {v} : Seen'[u] = Seen[u]
    BY <1>1, <2>1, <2>2 DEF Seen, SeenOf
  <2>4. QED BY <1>1, <2>3 DEF Seen
<1>4. ASSUME UNCHANGED <<asset, row, last>>, SetSeen(None) PROVE NextDocument
  <2>1. Document!Close(v)
    BY <1>4 DEF Document!Close, Seen, SeenOf
  <2>2. QED BY <1>1, <2>1 DEF NextDocument, Document!Next
<1>5. ASSUME UNCHANGED <<asset, row, last>>, page' = [page EXCEPT ![v] = WithState(page[v])],
             page[v] \in Page
      PROVE  NextDocument
  <2>1. WithState(page[v]) \in Page /\ "status" \in DOMAIN WithState(page[v])
    BY <1>1, <1>5 DEF WithState, Page, TypeOK
  <2>2. SeenOf(WithState(page[v])) = Document!Current
    BY DEF SeenOf, WithState, Document!Current
  <2>3. SetSeen(Document!Current)
    BY <1>2, <1>5, <2>1, <2>2, NoneAssumption
  <2>4. Document!Read(v)
    BY <1>5, <2>3 DEF Document!Read, Seen, SeenOf
  <2>5. QED BY <1>1, <2>4 DEF NextDocument, Document!Next
<1>6. CASE OpenSelection(v)
  <2>1. page' = [page EXCEPT ![v] = [canvas |-> row]] /\ "status" \notin DOMAIN [canvas |-> row]
    BY <1>6 DEF OpenSelection
  <2>2. QED BY <1>3, <1>4, <1>6, <2>1 DEF OpenSelection
<1>7. CASE OpenWorkflow(v)
  <2>1. CASE asset.status = "NEEDS_REVIEW"
    BY <1>1, <1>5, <1>7, <2>1 DEF OpenWorkflow, Loading
  <2>2. CASE asset.status # "NEEDS_REVIEW"
    BY <1>3, <1>4, <1>7, <2>2 DEF OpenWorkflow
  <2>3. QED BY <2>1, <2>2
<1>8. CASE ReadHistory(v) \/ OpenReview(v)
  BY <1>1, <1>5, <1>8 DEF ReadHistory, OpenReview, CanDecide, Open
<1>9. ASSUME NEW action \in {"APPROVE", "REJECT"}, Decide(v, action) PROVE NextDocument
  <2> DEFINE p == page[v]
             q == [p EXCEPT !.status = asset'.status, !.revision = asset'.revision]
  <2>1. /\ Open(v) /\ p \in Page
        /\ p.status = "NEEDS_REVIEW" /\ p.revision = asset.revision
        /\ asset.status = "NEEDS_REVIEW" /\ Acted /\ UNCHANGED row
    <3>1. action \in DOMAIN Transitions /\ Transitions[action].from = {"NEEDS_REVIEW"}
      BY <1>9 DEF Transitions
    <3>2. QED BY <1>1, <1>9, <3>1 DEF Decide, CanDecide, Allowed, Acted, Open
  <2>2. p.content = row
    BY <1>1, <2>1 DEF PageInv, PageAgrees
  <2>3. Seen[v] = Document!Current
    BY <1>1, <2>1, <2>2 DEF Seen, SeenOf, Document!Current
  <2>4. page' = [page EXCEPT ![v] = q]
    BY <1>9 DEF Decide
  <2>5. /\ q.status = asset'.status /\ q.revision = asset'.revision /\ q.content = p.content
        /\ q # None /\ "status" \in DOMAIN q
    <3>1. p \in [canvas: Rows, content: Rows, status: Status, revision: Nat]
      BY <2>1 DEF Page, Open
    <3>2. asset'.status \in Status /\ asset'.revision \in Nat
      BY <1>1, <1>9, ActionsToGoverned DEF Decide, Moved, Transitions, Status, Governed
    <3>3. q \in [canvas: Rows, content: Rows, status: Status, revision: Nat]
      BY <3>1, <3>2
    <3>4. QED BY <3>1, <3>3, NoneAssumption DEF Page
  <2>6. SetSeen(SeenOf(q)) /\ SeenOf(q) = Document!Current'
    BY <1>2, <2>1, <2>2, <2>4, <2>5 DEF SeenOf, Document!Current
  <2>7. Document!Moves
    BY <1>1, <2>1, ActedMoves
  <2>8. Document!Decide(v)
    BY <2>1, <2>3, <2>6, <2>7 DEF Document!Decide, Seen, SeenOf
  <2>9. QED BY <1>1, <2>8 DEF NextDocument, Document!Next
<1>10. QED BY <1>6, <1>7, <1>8, <1>9 DEF ReviewerStep

LEMMA DocumentStep ==
  ASSUME TypeOK, TypeOK', BulkOK, PageInv, [Next]_vars
  PROVE  NextDocument
<1>1. CASE UNCHANGED page /\ Next
  BY <1>1, DocumentWrites DEF TypeOK
<1>2. ASSUME NEW v \in Reviewers, ReviewerStep(v) PROVE NextDocument
  BY <1>2, DocumentReads
<1>3. CASE UNCHANGED vars
  BY <1>3 DEF vars, NextDocument, Seen, SeenOf, Open
<1>4. QED BY <1>1, <1>2, <1>3, PageUnread

(* AnnotationReview implements ReviewedDocument, for any number of users    *)
(* and annotations: a decision, which compares only revisions, is taken     *)
(* from a reading that has the content of the document it decides on, and   *)
(* nothing writes that content while it is under review.                    *)
THEOREM DocumentIsImplemented == Spec => ImplementsDocument
<1>1. Init => Document!Init
  BY TabInit DEF Init, Document!Init, TabIInv, TypeOK, Open
<1>2. TypeOK /\ TypeOK' /\ BulkOK /\ PageInv /\ [Next]_vars =>
        [Document!Next]_<<asset.status, asset.revision, row, last,
                          [u \in Users |-> IF Open(u)
                             THEN [status |-> page[u].status, revision |-> page[u].revision,
                                   content |-> page[u].content]
                             ELSE None]>>
  BY DocumentStep DEF NextDocument, Seen, SeenOf
<1>3. ReviewInv => BulkOK
  BY DEF ReviewInv
<1>4. QED BY <1>1, <1>2, <1>3, ReviewTypesHold, ReviewInvariant, PageInvariant, PTL
          DEF Spec, ImplementsDocument, Document!Spec

=============================================================================
