----------------------- MODULE AnnotationReviewProofs -----------------------
(* Theorems of AnnotationReview, for any number of users, annotations,      *)
(* edits, rounds of review and faults.                                      *)
(*                                                                          *)
(* Whatever a browser does, the server changes in one of four ways: an      *)
(* editable content is claimed and written, the revision moves alone, a     *)
(* workflow action moves the status, a bulk change sets it.  ServerChanges  *)
(* says so once, action by action; the theorems argue from the four ways.   *)
EXTENDS AnnotationReview, TLAPS

AssetOK == asset \in [status: Status, revision: Nat]

BulkOK == bulk \in (Status \ Governed) \union {None}

Quiet ==
  /\ UNCHANGED <<asset, row, last>>
  /\ bulk' = bulk \/ bulk' \in Status \ Governed

Written == Editable /\ asset' = ContentClaimed /\ UNCHANGED <<last, bulk, page>>

Touched ==
  /\ asset' = [asset EXCEPT !.revision = @ + 1]
  /\ UNCHANGED <<row, last, bulk, page>>

Acted ==
  \E action \in DOMAIN Transitions :
    asset.status \in Transitions[action].from /\ Moved(action) /\ UNCHANGED <<row, bulk>>

Overruled ==
  /\ bulk # None
  /\ asset' = [asset EXCEPT !.status = bulk]
  /\ bulk' = None
  /\ UNCHANGED <<row, last, page>>

LEMMA ActionsToGoverned ==
  ASSUME NEW action \in DOMAIN Transitions
  PROVE  Transitions[action].to \in Governed
BY DEF Transitions, Governed

(* Every step of the server and of a browser is one of the four, or leaves  *)
(* the Asset, its content and its history alone.                            *)
LEMMA ServerChanges ==
  ASSUME Next
  PROVE  Quiet \/ Written \/ Touched \/ Acted \/ Overruled
<1> USE DEF Quiet, Written, Touched, Acted, Overruled
<1>1. CASE ServerStep
  <2>1. CASE BulkWrite BY <2>1 DEF BulkWrite
  <2>2. CASE Describe BY <2>2 DEF Describe
  <2>3. ASSUME NEW s \in Shapes, Predict(s) PROVE Written BY <2>3 DEF Predict
  <2>4. ASSUME NEW s \in Shapes, ColleagueSaves(s) PROVE Written BY <2>4 DEF ColleagueSaves
  <2> QED BY <1>1, <2>1, <2>2, <2>3, <2>4 DEF ServerStep
<1>2. ASSUME NEW action \in DOMAIN Transitions, ColleagueMoves(action) PROVE Acted
  BY <1>2 DEF ColleagueMoves, Allowed
<1>3. ASSUME NEW target \in Status, BulkCount(target) PROVE Quiet
  BY <1>3 DEF BulkCount, Unprotected
<1>4. ASSUME NEW c \in Labelers, LabelerStep(c) PROVE Quiet \/ Written \/ Acted
  <2>1. ASSUME NEW k, Serve(c, k) PROVE Quiet \/ Written
    BY <2>1 DEF Serve, Accepted
  <2>2. CASE Submit(c)
    <3>1. "SUBMIT" \in DOMAIN Transitions BY DEF Transitions
    <3> QED BY <2>2, <3>1 DEF Submit, Allowed
  <2>3. ASSUME NEW s, NEW field, Edit(c, s, field) \/ TimerFires(c, s) \/ Draw(c, s) \/ Delete(c, s)
        PROVE Quiet
    BY <2>3 DEF Edit, TimerFires, Draw, Delete
  <2>4. ASSUME NEW k, LoseAnswer(c, k) \/ Receive(c, k) PROVE Quiet
    BY <2>4 DEF LoseAnswer, Receive
  <2>5. ASSUME NEW goal, Flush(c, goal) PROVE Quiet BY <2>5 DEF Flush
  <2>6. CASE FlushFails(c) \/ FlushReads(c) \/ Leave(c) \/ Refresh(c) \/ Reload(c)
    BY <2>6 DEF FlushFails, FlushReads, Leave, Refresh, Reload
  <2> QED BY <1>4, <2>1, <2>2, <2>3, <2>4, <2>5, <2>6 DEF LabelerStep
<1>5. ASSUME NEW u \in Reviewers, ReviewerStep(u) PROVE Quiet \/ Acted
  <2>1. CASE OpenSelection(u) \/ OpenWorkflow(u) \/ ReadHistory(u) \/ OpenReview(u)
    BY <2>1 DEF OpenSelection, OpenWorkflow, ReadHistory, OpenReview
  <2>2. ASSUME NEW action \in {"APPROVE", "REJECT"}, Decide(u, action) PROVE Acted
    <3>1. action \in DOMAIN Transitions BY DEF Transitions
    <3> QED BY <2>2, <3>1 DEF Decide, Allowed
  <2> QED BY <1>5, <2>1, <2>2 DEF ReviewerStep
<1> QED BY <1>1, <1>2, <1>3, <1>4, <1>5 DEF Next

-----------------------------------------------------------------------------
(* Status and history.                                                      *)

ReviewInv == AssetOK /\ BulkOK /\ GovernedByTransition

LEMMA ReviewInit == Init => ReviewInv
BY DEF Init, ReviewInv, AssetOK, BulkOK, GovernedByTransition, Status, Governed

(* A bulk change that has counted keeps a target no workflow action gives,  *)
(* however the Asset moves before it writes: that is what BulkOK is for.    *)
LEMMA ReviewStep ==
  ASSUME ReviewInv, [Next]_vars
  PROVE  ReviewInv'
<1> USE DEF ReviewInv
<1>1. CASE Next
  <2>1. CASE Quiet BY <2>1 DEF Quiet, AssetOK, BulkOK, GovernedByTransition
  <2>2. CASE Written
    BY <2>2 DEF Written, ContentClaimed, AssetOK, BulkOK, GovernedByTransition
  <2>3. CASE Touched BY <2>3 DEF Touched, AssetOK, BulkOK, GovernedByTransition
  <2>4. CASE Acted
    <3>1. PICK action \in DOMAIN Transitions : Moved(action) /\ bulk' = bulk BY <2>4 DEF Acted
    <3>2. Transitions[action].to \in Status BY ActionsToGoverned DEF Status
    <3> QED BY <3>1, <3>2 DEF Moved, AssetOK, BulkOK, GovernedByTransition
  <2>5. CASE Overruled
    <3>1. bulk \in Status \ Governed BY <2>5 DEF Overruled, BulkOK
    <3>2. asset' = [asset EXCEPT !.status = bulk] /\ bulk' = None BY <2>5 DEF Overruled
    <3> QED BY <3>1, <3>2 DEF AssetOK, BulkOK, GovernedByTransition
  <2> QED BY <1>1, <2>1, <2>2, <2>3, <2>4, <2>5, ServerChanges
<1>2. CASE UNCHANGED vars BY <1>2 DEF vars, AssetOK, BulkOK, GovernedByTransition
<1> QED BY <1>1, <1>2

LEMMA ReviewInvariant == Spec => []ReviewInv
BY ReviewInit, ReviewStep, PTL DEF Spec

(* A governed status is one that a workflow action gave and the history     *)
(* names, whatever bulk changes run beside the actions.                     *)
THEOREM GovernedStatuses == Spec => []GovernedByTransition
<1>1. ReviewInv => GovernedByTransition BY DEF ReviewInv
<1> QED BY <1>1, ReviewInvariant, PTL

-----------------------------------------------------------------------------
(* Content and revision.                                                    *)

(* A step that changes a row moves the revision on, and no step moves it    *)
(* back.                                                                    *)
LEMMA RevisionStep ==
  ASSUME AssetOK, [Next]_vars
  PROVE  asset'.revision >= asset.revision /\ (row' # row => asset'.revision > asset.revision)
<1>1. CASE Next
  <2>1. CASE Quiet BY <2>1 DEF Quiet, AssetOK
  <2>2. CASE Written BY <2>2 DEF Written, ContentClaimed, AssetOK
  <2>3. CASE Touched BY <2>3 DEF Touched, AssetOK
  <2>4. CASE Acted
    <3>1. asset'.revision = asset.revision + 1 /\ row' = row BY <2>4 DEF Acted, Moved
    <3> QED BY <3>1 DEF AssetOK
  <2>5. CASE Overruled BY <2>5 DEF Overruled, AssetOK
  <2> QED BY <1>1, <2>1, <2>2, <2>3, <2>4, <2>5, ServerChanges
<1>2. CASE UNCHANGED vars BY <1>2 DEF vars, AssetOK
<1> QED BY <1>1, <1>2

(* A content revision names one content, for every writer there is.         *)
THEOREM RevisionsNameContent == Spec => RevisionNamesContent
<1>1. ReviewInv /\ [Next]_vars =>
        [asset'.revision >= asset.revision /\ (row' # row => asset'.revision > asset.revision)]_vars
  BY RevisionStep DEF ReviewInv
<1> QED BY <1>1, ReviewInvariant, PTL DEF Spec, RevisionNamesContent

LEMMA FrozenStep ==
  ASSUME [Next]_vars, asset.status \in Frozen
  PROVE  row' = row
<1>1. CASE Next
  BY <1>1, ServerChanges DEF Quiet, Written, Touched, Acted, Overruled, Editable
<1>2. CASE UNCHANGED vars BY <1>2 DEF vars
<1> QED BY <1>1, <1>2

(* What is under review or decided stays as it was submitted.               *)
THEOREM ReviewedContentStays == Spec => ReviewedContentIsFrozen
<1>1. [Next]_vars => [asset.status \in Frozen => row' = row]_vars
  BY FrozenStep
<1> QED BY <1>1, PTL DEF Spec, ReviewedContentIsFrozen

-----------------------------------------------------------------------------
(* Decisions.                                                               *)

(* A page that is open has a canvas, a content, a status and a revision.    *)
WellFormed(p) ==
  /\ p = [canvas |-> p.canvas, content |-> p.content,
          status |-> p.status, revision |-> p.revision]
  /\ p.revision \in Nat

PageOK ==
  /\ page = [u \in Users |-> page[u]]
  /\ \A u \in Users : Open(u) => WellFormed(page[u])

(* ... and its revision is an old one, or the page is about the content     *)
(* there is: the strengthening that makes DecisionIsOfItsRevision hold.     *)
PageAgrees ==
  \A u \in Users : Open(u) =>
    /\ page[u].revision <= asset.revision
    /\ page[u].revision = asset.revision => page[u].content = row

PageInv == AssetOK /\ PageOK /\ PageAgrees

LEMMA PageInit == Init => PageInv
BY DEF Init, PageInv, AssetOK, PageOK, PageAgrees, Open, Status, Governed

(* A page that does not change keeps agreeing while Asset and rows move on. *)
LEMMA PageKept ==
  ASSUME PageInv, AssetOK', [Next]_vars, NEW u \in Users, page'[u] = page[u], Open(u)'
  PROVE  /\ page'[u].revision <= asset'.revision
         /\ page'[u].revision = asset'.revision => page'[u].content = row'
<1>1. Open(u) BY DEF Open
<1>2. page[u].revision \in Nat BY <1>1 DEF PageInv, PageOK, WellFormed
<1>3. page[u].revision <= asset.revision /\ (page[u].revision = asset.revision => page[u].content = row)
  BY <1>1 DEF PageInv, PageAgrees
<1>4. asset'.revision >= asset.revision /\ (row' # row => asset'.revision > asset.revision)
  BY RevisionStep DEF PageInv
<1>5. asset.revision \in Nat /\ asset'.revision \in Nat BY DEF PageInv, AssetOK
<1> QED BY <1>2, <1>3, <1>4, <1>5

(* What a step leaves on a page: what was there, nothing that is open, a    *)
(* fresh reading, or a decision's own result.                               *)
FreshPage(u) ==
  \E canvas : page'[u] = [canvas |-> canvas, content |-> row,
                          status |-> asset.status, revision |-> asset.revision]

DecidedPage(u) ==
  /\ Open(u) /\ page[u].revision = asset.revision
  /\ row' = row /\ asset'.revision = asset.revision + 1
  /\ page'[u] = [page[u] EXCEPT !.status = asset'.status, !.revision = asset'.revision]

PageMoved(w) ==
  \/ page'[w] = page[w]
  \/ ~ Open(w)'
  \/ FreshPage(w) /\ UNCHANGED <<asset, row>>
  \/ DecidedPage(w)

LEMMA ReviewersPage ==
  ASSUME PageOK, NEW u \in Reviewers, ReviewerStep(u)
  PROVE  page' = [v \in Users |-> page'[v]] /\ \A w \in Users : PageMoved(w)
<1> USE DEF PageOK, PageMoved
<1>0. u \in Users BY DEF Reviewers
<1>1. CASE OpenSelection(u)
  <2>1. page' = [page EXCEPT ![u] = [canvas |-> row]] BY <1>1 DEF OpenSelection
  <2>2. "status" \notin DOMAIN page'[u] BY <1>0, <2>1
  <2>3. ~ Open(u)' BY <2>2 DEF Open
  <2>4. \A w \in Users : w # u => page'[w] = page[w] BY <2>1
  <2> QED BY <2>1, <2>3, <2>4
<1>2. CASE OpenWorkflow(u)
  <2>1. /\ UNCHANGED <<asset, row>>
        /\ page' = [page EXCEPT ![u] =
             IF asset.status = "NEEDS_REVIEW" THEN WithState(page[u]) ELSE None]
    BY <1>2 DEF OpenWorkflow
  <2>2. page'[u] = None \/ page'[u] = WithState(page[u]) BY <1>0, <2>1
  <2>3. PageMoved(u) BY <2>1, <2>2 DEF Open, FreshPage, WithState
  <2>4. \A w \in Users : w # u => page'[w] = page[w] BY <2>1
  <2> QED BY <2>1, <2>3, <2>4
<1>3. CASE ReadHistory(u) \/ OpenReview(u)
  <2>1. UNCHANGED <<asset, row>> /\ page' = [page EXCEPT ![u] = WithState(page[u])]
    BY <1>3 DEF ReadHistory, OpenReview
  <2>2. page'[u] = WithState(page[u]) BY <1>0, <2>1
  <2>3. PageMoved(u) BY <2>1, <2>2 DEF FreshPage, WithState
  <2>4. \A w \in Users : w # u => page'[w] = page[w] BY <2>1
  <2> QED BY <2>1, <2>3, <2>4
<1>4. ASSUME NEW action, Decide(u, action)
      PROVE  page' = [v \in Users |-> page'[v]] /\ \A w \in Users : PageMoved(w)
  <2>1. page' = [page EXCEPT ![u] = [page[u] EXCEPT !.status = asset'.status,
                                                   !.revision = asset'.revision]]
    BY <1>4 DEF Decide
  <2>2. /\ Open(u) /\ page[u].revision = asset.revision
        /\ row' = row /\ asset'.revision = asset.revision + 1
    BY <1>4 DEF Decide, CanDecide, Allowed, Moved
  <2>3. DecidedPage(u) BY <1>0, <2>1, <2>2 DEF DecidedPage
  <2>4. \A w \in Users : w # u => page'[w] = page[w] BY <2>1
  <2> QED BY <2>1, <2>3, <2>4
<1> QED BY <1>1, <1>2, <1>3, <1>4 DEF ReviewerStep

LEMMA PageUnread ==
  ASSUME Next
  PROVE  UNCHANGED page \/ \E u \in Reviewers : ReviewerStep(u)
<1>1. CASE ServerStep BY <1>1 DEF ServerStep, BulkWrite, Describe, Predict, ColleagueSaves
<1>2. ASSUME NEW action, ColleagueMoves(action) PROVE UNCHANGED page
  BY <1>2 DEF ColleagueMoves
<1>3. ASSUME NEW target, BulkCount(target) PROVE UNCHANGED page BY <1>3 DEF BulkCount
<1>4. ASSUME NEW c, LabelerStep(c) PROVE UNCHANGED page
  <2>1. ASSUME NEW k, Serve(c, k) \/ LoseAnswer(c, k) \/ Receive(c, k) PROVE UNCHANGED page
    BY <2>1 DEF Serve, LoseAnswer, Receive
  <2>2. ASSUME NEW s, NEW field, Edit(c, s, field) \/ TimerFires(c, s) \/ Draw(c, s) \/ Delete(c, s)
        PROVE UNCHANGED page
    BY <2>2 DEF Edit, TimerFires, Draw, Delete
  <2>3. ASSUME NEW goal, Flush(c, goal) PROVE UNCHANGED page BY <2>3 DEF Flush
  <2>4. CASE FlushFails(c) \/ FlushReads(c) \/ Submit(c) \/ Leave(c) \/ Refresh(c) \/ Reload(c)
    BY <2>4 DEF FlushFails, FlushReads, Submit, Leave, Refresh, Reload
  <2> QED BY <1>4, <2>1, <2>2, <2>3, <2>4 DEF LabelerStep
<1> QED BY <1>1, <1>2, <1>3, <1>4 DEF Next

LEMMA PageChanges ==
  ASSUME PageOK, [Next]_vars
  PROVE  page' = [v \in Users |-> page'[v]] /\ \A w \in Users : PageMoved(w)
<1>1. CASE UNCHANGED page BY <1>1 DEF PageOK, PageMoved
<1>2. CASE Next BY <1>1, <1>2, PageUnread, ReviewersPage
<1>3. CASE UNCHANGED vars BY <1>1, <1>3 DEF vars
<1> QED BY <1>2, <1>3

LEMMA PageStep ==
  ASSUME PageInv, AssetOK', [Next]_vars
  PROVE  PageInv'
<1>1. page' = [v \in Users |-> page'[v]] /\ \A w \in Users : PageMoved(w)
  BY PageChanges DEF PageInv
<1>2. asset.revision \in Nat /\ asset'.revision \in Nat BY DEF PageInv, AssetOK
<1>3. ASSUME NEW w \in Users, Open(w)'
      PROVE  /\ WellFormed(page'[w])
             /\ page'[w].revision <= asset'.revision
             /\ page'[w].revision = asset'.revision => page'[w].content = row'
  <2>1. CASE page'[w] = page[w]
    <3>1. Open(w) BY <1>3, <2>1 DEF Open
    <3>2. WellFormed(page[w]) BY <3>1 DEF PageInv, PageOK
    <3> QED BY <1>3, <2>1, <3>2, PageKept
  <2>2. CASE FreshPage(w) /\ UNCHANGED <<asset, row>>
    <3>1. PICK canvas : page'[w] = [canvas |-> canvas, content |-> row,
                                    status |-> asset.status, revision |-> asset.revision]
      BY <2>2 DEF FreshPage
    <3> QED BY <1>2, <2>2, <3>1 DEF WellFormed
  <2>3. CASE DecidedPage(w)
    <3>1. WellFormed(page[w]) BY <2>3 DEF DecidedPage, PageInv, PageOK
    <3>2. page'[w] = [canvas |-> page[w].canvas, content |-> page[w].content,
                      status |-> asset'.status, revision |-> asset'.revision]
      BY <2>3, <3>1 DEF DecidedPage, WellFormed
    <3>3. page[w].content = row'
      BY <2>3 DEF DecidedPage, PageInv, PageAgrees
    <3> QED BY <1>2, <3>2, <3>3 DEF WellFormed
  <2> QED BY <1>1, <1>3, <2>1, <2>2, <2>3 DEF PageMoved
<1> QED BY <1>1, <1>3 DEF PageInv, PageOK, PageAgrees

LEMMA PageInvariant == Spec => []PageInv
<1>1. ReviewInv => AssetOK BY DEF ReviewInv
<1>2. PageInv /\ AssetOK' /\ [Next]_vars => PageInv' BY PageStep
<1> QED BY <1>1, <1>2, PageInit, ReviewInvariant, PTL DEF Spec

(* A decision is about the content of the revision its page named, for any  *)
(* number of reviewers, edits, rounds and bulk changes beside them.         *)
THEOREM DecisionsAreOfTheirRevision == Spec => DecisionIsOfItsRevision
<1>1. PageInv /\ [Next]_vars =>
        [\A u \in Reviewers : \A action \in {"APPROVE", "REJECT"} :
           Decide(u, action) => row = page[u].content]_vars
  BY DEF PageInv, PageAgrees, Decide, CanDecide, Allowed, Reviewers
<1> QED BY <1>1, PageInvariant, PTL DEF Spec, DecisionIsOfItsRevision
=============================================================================
