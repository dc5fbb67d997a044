-------------------------- MODULE ReviewedDocument --------------------------
(***************************************************************************)
(* What the review of an Asset promises, without browsers, requests, saves  *)
(* or Annotations (specs/023, FR-004, FR-007, FR-009): a document whose     *)
(* content is written while it is not under review, whose status moves      *)
(* along the workflow, and whose decisions are taken from a reading of it   *)
(* that is still right, content included.  The code compares a revision     *)
(* number and no content; that this is enough is what has to be shown.      *)
(***************************************************************************)
EXTENDS Naturals

CONSTANTS Readers, Contents,
          Unread     \* what a reader has who has no page open

VARIABLES status, revision, content,
          history,   \* the status the history names last
          seen       \* Reader -> the document as its page has read it

UnderReview == {"NEEDS_REVIEW", "REVIEWED", "REJECTED"}

Workflow == {<<"READY", "IN_PROGRESS">>, <<"IN_PROGRESS", "NEEDS_REVIEW">>,
             <<"NEEDS_REVIEW", "REVIEWED">>, <<"NEEDS_REVIEW", "REJECTED">>,
             <<"REJECTED", "IN_PROGRESS">>}

Current == [status |-> status, revision |-> revision, content |-> content]

Init == /\ status \in {"READY", "IN_PROGRESS"} /\ history = status
        /\ revision = 1 /\ content \in Contents
        /\ seen = [r \in Readers |-> Unread]

Revised == revision' = revision + 1

Write == /\ status \notin UnderReview
         /\ content' \in Contents /\ Revised
         /\ UNCHANGED <<status, history, seen>>

(* The description of the document, which review does not lock. *)
Annotate == Revised /\ UNCHANGED <<status, content, history, seen>>

Moves == /\ <<status, status'>> \in Workflow
         /\ history' = status' /\ Revised
         /\ UNCHANGED content

(* An action from a page that is none of the Readers'. *)
Act == Moves /\ UNCHANGED seen

(* A reader decides about what it has read, and then knows the outcome. *)
Decide(r) == /\ seen[r] = Current
             /\ status = "NEEDS_REVIEW" /\ Moves
             /\ seen' = [seen EXCEPT ![r] = Current']

Read(r) == /\ seen' = [seen EXCEPT ![r] = Current]
           /\ UNCHANGED <<status, revision, content, history>>

Close(r) == /\ seen' = [seen EXCEPT ![r] = Unread]
            /\ UNCHANGED <<status, revision, content, history>>

(* A bulk change looks at no status when it writes, and at no revision; the *)
(* statuses of the workflow are not among those it can give.                *)
Override == /\ status' \notin UnderReview \union {"IN_PROGRESS"}
            /\ UNCHANGED <<revision, content, history, seen>>

Next == \/ Write \/ Annotate \/ Act \/ Override
        \/ \E r \in Readers : Decide(r) \/ Read(r) \/ Close(r)

Spec == Init /\ [][Next]_<<status, revision, content, history, seen>>

=============================================================================
