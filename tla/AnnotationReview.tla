-------------------------- MODULE AnnotationReview --------------------------
(* One image Asset under annotation and review.                             *)
(*                                                                          *)
(* The server: the Asset's status and content revision, its Annotations,    *)
(* the annotation writer (annotation-service.ts), the other writers of the  *)
(* same content, the workflow actions (asset-workflow-service.ts) and the   *)
(* bulk status change (asset-bulk-service.ts).  The browsers: labelers with *)
(* the autosave registry of image-annotation-store.ts and the save barrier  *)
(* of workspace-engine-flush.ts, reviewers with a workspace page that reads *)
(* the annotations and the workflow state one after the other.              *)
(*                                                                          *)
(* An edit is a number: the value it gives to a geometry or to a label.     *)
EXTENDS Naturals, FiniteSets

CONSTANTS Users,                 \* people with the Asset on their screen
          Shapes,                \* Annotation ids
          None,                  \* no Annotation, task, request or barrier
          MaxEdits,              \* bound: edits, creations and predictions
          MaxStarts,             \* bound: starts of work and of rework, and so
                                 \* of the rounds of review that follow
          MaxOthers              \* bound: deletions, lost answers, descriptions,
                                 \* claims without a prediction, bulk changes

ASSUME ReviewBoundsAssumption ==
  {MaxEdits, MaxStarts, MaxOthers} \subseteq Nat

VARIABLES
  asset,    \* the Asset row: status and content revision
  row,      \* the Annotation rows of the Asset
  last,     \* toStatus of the last AssetWorkflowEvent that has one
  bulk,     \* the target of a bulk change that has counted, or None
  tab,      \* per user: a labeler's browser, or None for a reviewer
  page,     \* per user: a reviewer's workspace page, or None
  stored,   \* ghost: the edits the server has ever committed
  used      \* the ids taken, those a repeated creation brought back, and
            \* how much of each bound is spent

vars == <<asset, row, last, bulk, tab, page, stored, used>>

Governed == {"IN_PROGRESS", "NEEDS_REVIEW", "REVIEWED", "REJECTED"}
Frozen == {"NEEDS_REVIEW", "REVIEWED", "REJECTED"}

(* READY stands for NEW too: START leaves both; COMPLETED stands for the    *)
(* statuses no workflow action knows.                                       *)
Status == Governed \union {"READY", "COMPLETED"}

Row == [revision: Nat, geo: 0 .. MaxEdits, lab: 0 .. MaxEdits]
Rows == [Shapes -> Row \union {None}]

Kind == {"create", "geo", "lab", "delete"}

(* A change set as the workspace sends it: one create, update or delete.    *)
(* "base" is not sent: it is the row its author had last received.          *)
Request == [kind: Kind, shape: Shapes, revision: Nat,
            value: 0 .. MaxEdits, base: Row \union {None}]
Answer == {"none", "saved", "conflict", "failed", "lost"}

(* The registry keys: annotation:<id> and create-<id>; a deletion is sent   *)
(* without the registry.                                                    *)
Slots == {"edit", "create", "delete"}
SaveState == {"idle", "pending", "saving", "saved", "failed", "conflict"}
Barrier == [goal: {"submit", "leave"}, waits: SUBSET (Shapes \X {"edit", "create"}),
            ok: BOOLEAN, drafts: SUBSET Request, revision: Nat]

Flight == [request: Request, answer: Answer, reply: Row \union {None}]

Tab == [shown: Rows, known: Rows, creating: SUBSET Shapes,
        task: [Shapes -> Request \union {None}], timer: SUBSET Shapes,
        flight: [Shapes \X Slots -> Flight \union {None}],
        state: [Shapes -> SaveState], draft: [Shapes -> 0 .. MaxEdits],
        mine: [Shapes -> [geo: 0 .. MaxEdits, lab: 0 .. MaxEdits]],
        barrier: Barrier \union {None}]

Page == [canvas: Rows] \union [canvas: Rows, content: Rows, status: Status, revision: Nat]

ASSUME NoneAssumption ==
  None \notin Row \union Request \union Flight \union Barrier \union Tab \union Page

Opened ==
  [shown |-> row, known |-> row, creating |-> {},
   task |-> [s \in Shapes |-> None], timer |-> {},
   flight |-> [k \in Shapes \X Slots |-> None],
   state |-> [s \in Shapes |-> "idle"], draft |-> [s \in Shapes |-> 0],
   mine |-> [s \in Shapes |-> [geo |-> 0, lab |-> 0]], barrier |-> None]

Init ==
  /\ asset \in [status: {"READY", "IN_PROGRESS"}, revision: {1}]
  /\ row \in [Shapes -> {[revision |-> 1, geo |-> 0, lab |-> 0], None}]
  /\ last = asset.status
  /\ bulk = None
  /\ tab \in [Users -> {Opened, None}]
  /\ page = [u \in Users |-> None]
  /\ stored = {}
  /\ used = [edits |-> 0, starts |-> 0, others |-> 0,
             ids |-> {s \in Shapes : row[s] # None}, reborn |-> {}]

Labelers == {u \in Users : tab[u] # None}
Reviewers == Users \ Labelers

Spend(what, bound) ==
  /\ used[what] < bound
  /\ used' = [used EXCEPT ![what] = @ + 1]

(* An id nobody had before, for an annotation that is drawn or predicted.   *)
NewId(s) ==
  /\ s \notin used.ids /\ used.edits < MaxEdits
  /\ used' = [used EXCEPT !.edits = @ + 1, !.ids = @ \union {s}]

-----------------------------------------------------------------------------
(* The server.                                                              *)

Editable == asset.status \notin Frozen

(* Slip: the claim checks the status and leaves the revision. *)
ContentClaimedUnchanged == asset

(* claimEditableAssetContent: the parent revision moves with every change   *)
(* of the content.                                                          *)
ContentClaimed == [asset EXCEPT !.revision = @ + 1]

Missing(q) == q.kind # "create" /\ row[q.shape] = None

(* Slip: the update is by id alone. *)
StaleNever(q) == FALSE

Stale(q) == row[q.shape].revision # q.revision

(* A create whose id exists is a replay when it says the same.              *)
Replay(q) == row[q.shape].geo = q.value /\ row[q.shape].lab = 0

Accepted(q) ==
  /\ ~ Missing(q)
  /\ Editable
  /\ IF q.kind = "create" THEN row[q.shape] # None => Replay(q) ELSE ~ Stale(q)

Applied(q) ==
  CASE q.kind = "create" /\ row[q.shape] = None ->
         [row EXCEPT ![q.shape] = [revision |-> 1, geo |-> q.value, lab |-> 0]]
    [] q.kind = "create" /\ row[q.shape] # None -> row
    [] q.kind = "geo" -> [row EXCEPT ![q.shape].geo = q.value, ![q.shape].revision = @ + 1]
    [] q.kind = "lab" -> [row EXCEPT ![q.shape].lab = q.value, ![q.shape].revision = @ + 1]
    [] q.kind = "delete" -> [row EXCEPT ![q.shape] = None]

(* A create that is sent again after its annotation was deleted creates it  *)
(* again, and its revisions start over.                                     *)
Reborn(q) ==
  IF q.kind = "create" /\ row[q.shape] = None /\ q.value \in stored THEN {q.shape} ELSE {}

(* Only a revision conflict is told apart by the client: a locked Asset, a  *)
(* missing Annotation and a refused replay are all a failed save.           *)
Refusal(q) ==
  IF ~ Missing(q) /\ Editable /\ q.kind # "create" THEN "conflict" ELSE "failed"

Serve(c, k) ==
  LET q == tab[c].flight[k].request
      Answered(a, rows) == [tab EXCEPT ![c].flight[k].answer = a,
                                       ![c].flight[k].reply = rows[q.shape]]
  IN /\ tab[c].flight[k] # None /\ tab[c].flight[k].answer = "none"
     /\ \/ /\ Accepted(q)
           /\ row' = Applied(q)
           /\ asset' = ContentClaimed
           /\ stored' = stored \union {q.value}
           /\ used' = [used EXCEPT !.reborn = @ \union Reborn(q)]
           /\ tab' = Answered("saved", row')
        \/ /\ ~ Accepted(q)
           /\ tab' = Answered(Refusal(q), row)
           /\ UNCHANGED <<row, asset, stored, used>>
     /\ UNCHANGED <<last, bulk, page>>

(* Predictions of an AiTask are Annotations too: the writer claims the      *)
(* Asset and skips one that is under review.  A class without a label       *)
(* leaves only the claim.                                                   *)
Predict(s) ==
  /\ Editable
  /\ asset' = ContentClaimed
  /\ \/ /\ NewId(s)
        /\ row' = [row EXCEPT ![s] = [revision |-> 1, geo |-> used'.edits, lab |-> 0]]
     \/ /\ Spend("others", MaxOthers)
        /\ UNCHANGED row
  /\ UNCHANGED <<last, bulk, tab, page, stored>>

(* The same content through the older server actions (image-mutations.ts),  *)
(* by a colleague whose page is current: with an old revision the whole     *)
(* transaction is rolled back.                                              *)
ColleagueSaves(s) ==
  /\ Editable
  /\ row[s] # None
  /\ asset' = ContentClaimed
  /\ \/ /\ Spend("edits", MaxEdits)
        /\ \E field \in {"geo", "lab"} :
             row' = [row EXCEPT ![s][field] = used'.edits, ![s].revision = @ + 1]
     \/ /\ Spend("others", MaxOthers)
        /\ row' = [row EXCEPT ![s] = None]
  /\ UNCHANGED <<last, bulk, tab, page, stored>>

(* The description of an Asset has the Asset's revision, and no review lock.*)
Describe ==
  /\ Spend("others", MaxOthers)
  /\ asset' = [asset EXCEPT !.revision = @ + 1]
  /\ UNCHANGED <<row, last, bulk, tab, page, stored>>

Transitions ==
  [START        |-> [from |-> {"READY"},        to |-> "IN_PROGRESS"],
   SUBMIT       |-> [from |-> {"IN_PROGRESS"},  to |-> "NEEDS_REVIEW"],
   APPROVE      |-> [from |-> {"NEEDS_REVIEW"}, to |-> "REVIEWED"],
   REJECT       |-> [from |-> {"NEEDS_REVIEW"}, to |-> "REJECTED"],
   START_REWORK |-> [from |-> {"REJECTED"},     to |-> "IN_PROGRESS"]]

(* Slip: the update is by id and status. *)
AllowedAnyRevision(action, revision) == asset.status \in Transitions[action].from

(* RESUBMIT is SUBMIT under another name.                                   *)
Allowed(action, revision) ==
  /\ revision = asset.revision
  /\ asset.status \in Transitions[action].from

Moved(action) ==
  /\ asset' = [status |-> Transitions[action].to, revision |-> asset.revision + 1]
  /\ last' = Transitions[action].to

(* Starting work, rework, a submission or a decision by a colleague whose   *)
(* page is current: with an old revision the action is refused and changes  *)
(* nothing.                                                                 *)
ColleagueMoves(action) ==
  /\ Allowed(action, asset.revision)
  /\ IF action \in {"START", "START_REWORK"} THEN Spend("starts", MaxStarts)
                                            ELSE UNCHANGED used
  /\ Moved(action)
  /\ UNCHANGED <<row, bulk, tab, page, stored>>

(* Slip: only the status the Assets have is looked at. *)
UnprotectedNow(target) == asset.status \notin Governed

(* changeStatusBulk counts the protected Assets, then updates by id.        *)
Unprotected(target) == target \notin Governed /\ asset.status \notin Governed

BulkCount(target) ==
  /\ bulk = None
  /\ Unprotected(target)
  /\ Spend("others", MaxOthers)
  /\ bulk' = target
  /\ UNCHANGED <<asset, row, last, tab, page, stored>>

BulkWrite ==
  /\ bulk # None
  /\ asset' = [asset EXCEPT !.status = bulk]
  /\ bulk' = None
  /\ UNCHANGED <<row, last, tab, page, stored, used>>

-----------------------------------------------------------------------------
(* A labeler's tab: image-annotation-store.ts and the canvas.               *)

(* runAutosave: one request per key at a time.  A run that finds one in     *)
(* flight gets that one's promise, and its own task is not sent.            *)
Send(t, s) ==
  IF t.flight[<<s, "edit">>] # None THEN t
  ELSE [t EXCEPT !.flight[<<s, "edit">>] =
                    [request |-> t.task[s], answer |-> "none", reply |-> None],
                 !.state[s] = "saving"]

(* A drag, a resize or a label choice: the task it schedules carries the    *)
(* revision the annotation has on the screen and replaces the task of the   *)
(* key, and its timer starts over.                                          *)
Scheduled(t, q) ==
  [t EXCEPT !.shown[q.shape][q.kind] = q.value,
            !.task[q.shape] = q,
            !.timer = @ \union {q.shape},
            !.state[q.shape] = "pending",
            !.mine[q.shape][q.kind] = q.value]

Edit(c, s, field) ==
  LET t == tab[c]
  IN /\ t.shown[s] # None
     /\ field = "geo" => s \notin t.creating
     /\ Spend("edits", MaxEdits)
     /\ tab' = [tab EXCEPT ![c] = Scheduled(t,
                  [kind |-> field, shape |-> s, revision |-> t.shown[s].revision,
                   value |-> used'.edits, base |-> t.known[s]])]
     /\ UNCHANGED <<asset, row, last, bulk, page, stored>>

TimerFires(c, s) ==
  /\ s \in tab[c].timer
  /\ tab' = [tab EXCEPT ![c] = Send([tab[c] EXCEPT !.timer = @ \ {s}], s)]
  /\ UNCHANGED <<asset, row, last, bulk, page, stored, used>>

(* A new shape is on the screen at once, with revision 0, and is sent at    *)
(* once; ids are random, so no other tab has this one.                      *)
Draw(c, s) ==
  /\ NewId(s)
  /\ LET q == [kind |-> "create", shape |-> s, revision |-> 0,
               value |-> used'.edits, base |-> None]
     IN tab' = [tab EXCEPT ![c].shown[s] = [revision |-> 0, geo |-> q.value, lab |-> 0],
                           ![c].creating = @ \union {s},
                           ![c].flight[<<s, "create">>] =
                              [request |-> q, answer |-> "none", reply |-> None]]
  /\ UNCHANGED <<asset, row, last, bulk, page, stored>>

(* removeSelected, deleteShape: sent as it is, outside the registry.        *)
Delete(c, s) ==
  LET t == tab[c]
  IN /\ t.shown[s] # None
     /\ t.flight[<<s, "delete">>] = None
     /\ Spend("others", MaxOthers)
     /\ tab' = [tab EXCEPT ![c].flight[<<s, "delete">>] =
                  [request |-> [kind |-> "delete", shape |-> s, value |-> 0,
                                revision |-> t.shown[s].revision, base |-> t.known[s]],
                   answer |-> "none", reply |-> None]]
     /\ UNCHANGED <<asset, row, last, bulk, page, stored>>

(* An answer on its way back may get lost: fetch rejects, or the browser    *)
(* sends the request again.                                                 *)
LoseAnswer(c, k) ==
  /\ tab[c].flight[k] # None /\ tab[c].flight[k].answer \notin {"none", "lost"}
  /\ Spend("others", MaxOthers)
  /\ \E a \in {"lost", "none"} : tab' = [tab EXCEPT ![c].flight[k].answer = a]
  /\ UNCHANGED <<asset, row, last, bulk, page, stored>>

(* Slip: the barrier only waits. *)
HeardAnything(t, k, answer) ==
  IF t.barrier = None THEN t ELSE [t EXCEPT !.barrier.waits = @ \ {k}]

(* The barrier of flushAllAutosaves hears of every registry request.        *)
Heard(t, k, answer) ==
  IF t.barrier = None \/ k \notin t.barrier.waits THEN t
  ELSE [t EXCEPT !.barrier.waits = @ \ {k}, !.barrier.ok = @ /\ answer = "saved"]

(* Slip: every answer settles its key. *)
IsNewestAlways(t, q) == TRUE

(* The outcome belongs to the key only while the request is still the key's *)
(* newest task.                                                             *)
IsNewest(t, q) == t.task[q.shape] = q

(* Slip: a rejected fetch is not a failed save. *)
OutcomeAsIs(answer) == answer

Outcome(answer) == IF answer = "lost" THEN "failed" ELSE answer

Settled(t, q, answer) ==
  IF IsNewest(t, q)
  THEN [t EXCEPT !.task[q.shape] = None, !.state[q.shape] = Outcome(answer)]
  ELSE t

(* A conflict keeps the draft and says so (setConflictDraft).               *)
Drafted(t, f) ==
  [t EXCEPT !.draft[f.request.shape] = f.request.value,
            !.state[f.request.shape] = "conflict"]

(* The canvas takes the server's row for what it shows, whatever was edited *)
(* meanwhile.                                                               *)
Shown(t, f) ==
  LET q == f.request
      s == q.shape
  IN CASE f.answer = "saved" /\ q.kind # "delete" ->
            [t EXCEPT !.shown[s] = f.reply, !.known[s] = f.reply, !.creating = @ \ {s}]
       [] f.answer = "saved" /\ q.kind = "delete" -> [t EXCEPT !.shown[s] = None]
       [] f.answer = "conflict" /\ q.kind \in {"geo", "lab"} -> Drafted(t, f)
       [] f.answer = "failed" /\ q.kind = "create" ->
            [t EXCEPT !.shown[s] = None, !.creating = @ \ {s}]
       [] OTHER -> t

Receive(c, k) ==
  LET t == tab[c]
      f == t.flight[k]
      seen == [Shown(t, f) EXCEPT !.flight[k] = None]
  IN /\ f # None /\ f.answer # "none"
     /\ tab' = [tab EXCEPT ![c] =
                  IF k[2] = "edit" THEN Heard(Settled(seen, f.request, f.answer), k, f.answer)
                  ELSE Heard(seen, k, f.answer)]
     /\ UNCHANGED <<asset, row, last, bulk, page, stored, used>>

(* createEngineFlush, before a submission or on leaving the image: every    *)
(* key with a task or a request is flushed, a key in flight only waits.     *)
Flush(c, goal) ==
  LET t == tab[c]
      idle == {s \in Shapes : t.task[s] # None /\ t.flight[<<s, "edit">>] = None}
      waits == {k \in Shapes \X {"edit", "create"} : t.flight[k] # None}
                 \union (idle \X {"edit"})
      sent == [t EXCEPT !.timer = @ \ idle,
                        !.flight = [k \in DOMAIN @ |->
                           IF k \in idle \X {"edit"}
                           THEN [request |-> t.task[k[1]], answer |-> "none", reply |-> None]
                           ELSE @[k]],
                        !.state = [s \in Shapes |-> IF s \in idle THEN "saving" ELSE @[s]]]
  IN /\ t.barrier = None
     /\ tab' = [tab EXCEPT ![c] = [sent EXCEPT !.barrier =
                  [goal |-> goal, waits |-> waits, ok |-> TRUE, revision |-> 0,
                   drafts |-> {t.task[s] : s \in idle}]]]
     /\ UNCHANGED <<asset, row, last, bulk, page, stored, used>>

Flushed(c) == tab[c].barrier # None /\ tab[c].barrier.waits = {}

(* A failed or conflicting save, or a revision that cannot be read, stops   *)
(* the action.                                                              *)
FlushFails(c) ==
  /\ Flushed(c) /\ (~ tab[c].barrier.ok \/ tab[c].barrier.revision = 0)
  /\ tab' = [tab EXCEPT ![c].barrier = None]
  /\ UNCHANGED <<asset, row, last, bulk, page, stored, used>>

(* fetchCurrentAssetRevision.                                               *)
FlushReads(c) ==
  /\ Flushed(c) /\ tab[c].barrier.ok /\ tab[c].barrier.revision = 0
  /\ tab' = [tab EXCEPT ![c].barrier.revision = asset.revision]
  /\ UNCHANGED <<asset, row, last, bulk, page, stored, used>>

Submit(c) ==
  LET b == tab[c].barrier
  IN /\ b # None /\ b.goal = "submit" /\ b.revision # 0
     /\ IF Allowed("SUBMIT", b.revision) THEN Moved("SUBMIT") ELSE UNCHANGED <<asset, last>>
     /\ tab' = [tab EXCEPT ![c].barrier = None]
     /\ UNCHANGED <<row, bulk, page, stored, used>>

(* Another image, and back, because the barrier lets the labeler go on or   *)
(* because, when it does not, the labeler confirms discarding the draft.    *)
(* The canvas is a new one and takes the server's rows; the registry, a     *)
(* module's state, is still there, with the tasks that were to be discarded.*)
Leave(c) ==
  /\ Flushed(c) /\ tab[c].barrier.goal = "leave"
  /\ tab' = [tab EXCEPT ![c].shown = row, ![c].known = row,
                       ![c].creating = {}, ![c].barrier = None]
  /\ UNCHANGED <<asset, row, last, bulk, page, stored, used>>

(* router.refresh, after a workflow action or a realtime invalidation: the  *)
(* canvas takes the server's rows, and every task stays as it is.  Reading  *)
(* the rows and taking them is one step: a refresh that arrives after a     *)
(* save it was read before is left out.                                     *)
Refresh(c) ==
  /\ tab' = [tab EXCEPT ![c].shown = row, ![c].known = row]
  /\ UNCHANGED <<asset, row, last, bulk, page, stored, used>>

(* The conflict panel: reload the page, and with it everything in it.       *)
Reload(c) ==
  /\ \E s \in Shapes : tab[c].draft[s] # 0
  /\ \A k \in Shapes \X Slots : tab[c].flight[k] = None
  /\ tab' = [tab EXCEPT ![c] = Opened]
  /\ UNCHANGED <<asset, row, last, bulk, page, stored, used>>

-----------------------------------------------------------------------------
(* A reviewer's workspace page: the annotations are read with the           *)
(* selection, then the workflow state and what it permits.                  *)

OpenSelection(u) ==
  /\ page' = [page EXCEPT ![u] = [canvas |-> row]]
  /\ UNCHANGED <<asset, row, last, bulk, tab, stored, used>>

(* What a page knows of the Asset's state, and (a ghost) of its content.    *)
WithState(p) ==
  [canvas |-> p.canvas, content |-> row,
   status |-> asset.status, revision |-> asset.revision]

Loading(u) == page[u] # None /\ "status" \notin DOMAIN page[u]
Open(u) == page[u] # None /\ "status" \in DOMAIN page[u]

(* permittedActions comes with the page: one that was not under review then *)
(* permits no decision until it is read again, and counts as closed.        *)
OpenWorkflow(u) ==
  /\ Loading(u)
  /\ page' = [page EXCEPT ![u] =
       IF asset.status = "NEEDS_REVIEW" THEN WithState(@) ELSE None]
  /\ UNCHANGED <<asset, row, last, bulk, tab, stored, used>>

(* loadHistory: the History button and the "Reload" of a refused decision   *)
(* read the state again and leave the canvas as it is; only a refresh,      *)
(* which is OpenSelection again, brings the annotations.                    *)
ReadHistory(u) ==
  /\ Open(u)
  /\ page' = [page EXCEPT ![u] = WithState(@)]
  /\ UNCHANGED <<asset, row, last, bulk, tab, stored, used>>

CanDecide(u) == Open(u) /\ page[u].status = "NEEDS_REVIEW"

(* OPEN_REVIEW records an event, compares no revision and changes no status;*)
(* its answer tells the page the current revision.                          *)
OpenReview(u) ==
  /\ CanDecide(u)
  /\ asset.status = "NEEDS_REVIEW"
  /\ page' = [page EXCEPT ![u] = WithState(@)]
  /\ UNCHANGED <<asset, row, last, bulk, tab, stored, used>>

Decide(u, action) ==
  /\ CanDecide(u)
  /\ Allowed(action, page[u].revision)
  /\ Moved(action)
  /\ page' = [page EXCEPT ![u].status = asset'.status, ![u].revision = asset'.revision]
  /\ UNCHANGED <<row, bulk, tab, stored, used>>

-----------------------------------------------------------------------------
ServerStep == BulkWrite \/ Describe \/ (\E s \in Shapes : Predict(s) \/ ColleagueSaves(s))

LabelerStep(c) ==
  \/ \E s \in Shapes : \/ \E field \in {"geo", "lab"} : Edit(c, s, field)
                       \/ TimerFires(c, s) \/ Draw(c, s) \/ Delete(c, s)
  \/ \E k \in Shapes \X Slots : Serve(c, k) \/ LoseAnswer(c, k) \/ Receive(c, k)
  \/ \E goal \in {"submit", "leave"} : Flush(c, goal)
  \/ FlushFails(c) \/ FlushReads(c) \/ Submit(c) \/ Leave(c) \/ Refresh(c) \/ Reload(c)

ReviewerStep(u) ==
  \/ OpenSelection(u) \/ OpenWorkflow(u) \/ ReadHistory(u) \/ OpenReview(u)
  \/ Decide(u, "APPROVE") \/ Decide(u, "REJECT")

Next ==
  \/ ServerStep
  \/ \E action \in DOMAIN Transitions : ColleagueMoves(action)
  \/ \E target \in Status : BulkCount(target)
  \/ \E c \in Labelers : LabelerStep(c)
  \/ \E u \in Reviewers : ReviewerStep(u)

Spec == Init /\ [][Next]_vars

-----------------------------------------------------------------------------
(* Properties.                                                              *)

(* Every variable keeps its type.                                           *)
TypeOK ==
  /\ asset \in [status: Status, revision: Nat]
  /\ row \in Rows
  /\ last \in Status
  /\ bulk \in Status \union {None}
  /\ tab \in [Users -> Tab \union {None}]
  /\ page \in [Users -> Page \union {None}]
  /\ stored \subseteq 0 .. MaxEdits
  /\ used \in [edits: 0 .. MaxEdits, starts: 0 .. MaxStarts, others: 0 .. MaxOthers,
               ids: SUBSET Shapes, reborn: SUBSET Shapes]

(* A content revision names one content: no writer of annotations, of the   *)
(* five that run beside each other, changes a row and leaves the revision,  *)
(* so a stale decision can always be told from a current one                *)
(* (asset-workflow-service.ts:54-58).                                       *)
RevisionNamesContent ==
  [][asset'.revision >= asset.revision /\ (row' # row => asset'.revision > asset.revision)]_vars

(* The whole implements ReviewedDocument: comparing the revision is as good *)
(* as comparing the content, whatever the browsers send and in which order  *)
(* it arrives (specs/023 FR-004, FR-007, FR-009).                           *)
Document == INSTANCE ReviewedDocument
  WITH Readers <- Users, Contents <- Rows, Unread <- None,
       status <- asset.status, revision <- asset.revision, content <- row, history <- last,
       seen <- [u \in Users |->
                  IF Open(u) THEN [status |-> page[u].status, revision |-> page[u].revision,
                                   content |-> page[u].content]
                             ELSE None]

ImplementsDocument == Document!Spec

(* What is under review, approved or rejected stays as it was submitted,    *)
(* whatever saves, retries and predictions arrive late.                     *)
ReviewedContentIsFrozen ==
  [][asset.status \in Frozen => row' = row]_vars

(* A decision is about the content of the revision the reviewer's page      *)
(* named, however many edits, rejections and resubmissions came between.    *)
DecisionIsOfItsRevision ==
  [][\A u \in Reviewers :
       \A action \in {"APPROVE", "REJECT"} : Decide(u, action) => row = page[u].content]_vars

(* ... and about the content the reviewer's page showed                     *)
(* (specs/023 FR-009): "a Reviewer's Approve or Reject can never succeed    *)
(* against annotation data older than what the Reviewer actually reviewed". *)
DecisionIsOfWhatWasSeen ==
  [][\A u \in Reviewers : Decide(u, "APPROVE") => row = page[u].canvas]_vars

(* A governed status is one a workflow action gave and the history names.   *)
GovernedByTransition == asset.status \in Governed => asset.status = last

(* A save overwrites only the row its author had received, whichever of the *)
(* writers, late timers and repeated requests gets there first; except for  *)
(* an annotation whose deletion a repeated creation has undone, of which a  *)
(* revision may come back with another content.                             *)
OverwritesWhatWasSeen ==
  [][\A c \in Labelers : \A k \in Shapes \X Slots :
       LET f == tab[c].flight[k]
       IN Serve(c, k) /\ f.request.kind # "create" /\ k[1] \notin used.reborn
          /\ row'[k[1]] # row[k[1]]
            => row[k[1]] = f.request.base]_vars

(* What a key reports is so.  "saved" is about the latest edit of the       *)
(* annotation: the older answer of a request that was in flight when the    *)
(* edit was made does not claim it (image-annotation-store.ts:90-92).       *)
(* "conflict" keeps the edit that was refused, and that edit is not stored. *)
Larger(m) == IF m.geo > m.lab THEN m.geo ELSE m.lab

SaveStatesAreTrue ==
  \A c \in Labelers : \A s \in Shapes :
    /\ tab[c].state[s] = "saved" => Larger(tab[c].mine[s]) \in stored
    /\ tab[c].state[s] = "conflict" =>
         /\ tab[c].draft[s] # 0
         /\ used.others = 0 => tab[c].draft[s] \notin stored

(* "saved" is about every edit: none was dropped unsaved (specs/012 SC-001).   *)
SavedIsEverything ==
  \A c \in Labelers : \A s \in Shapes :
    tab[c].state[s] = "saved"
      => {tab[c].mine[s].geo, tab[c].mine[s].lab} \ {0} \subseteq stored

(* A barrier that lets the labeler go on to submit or leave has saved every *)
(* draft it sent, whatever was edited, refused or lost while it waited      *)
(* (workspace-engine-flush.ts:31-57, specs/012 FR-004).                     *)
BarrierSaves ==
  \A c \in Labelers :
    Flushed(c) /\ tab[c].barrier.ok => \A q \in tab[c].barrier.drafts : q.value \in stored
=============================================================================
