----------------------------- MODULE QuestEdit -----------------------------
(***************************************************************************)
(* A Hirer asks the Workers of an assigned Quest to agree to another       *)
(* Condition.  The request ends by itself when it is too old or when the   *)
(* roster is no longer the one that was asked; whoever looks at it first   *)
(* writes that down.                                                       *)
(***************************************************************************)
EXTENDS QuestWork

CONSTANT EditWindow, MaxEditRequests   \* the latter bounds the requests

ASSUME EditAssumption == EditWindow \in Nat /\ MaxEditRequests \in Nat

VARIABLES
    edit,              \* the latest row of quest_v2_edit_request
    editCount          \* how many rows there are

editVars == <<edit, editCount>>

EditRows == [status: {"NONE", "PENDING", "APPLIED", "FAILED"}, proposed: Conditions,
             asked: SUBSET Workers, accepted: SUBSET Workers,
             declined: SUBSET Workers, expiresAt: Nat]

EditTypeOK ==
    /\ edit \in EditRows
    /\ editCount \in 0 .. MaxEditRequests

EditInit ==
    /\ edit = [status |-> "NONE", proposed |-> quest.condition, asked |-> {},
               accepted |-> {}, declined |-> {}, expiresAt |-> 0]
    /\ editCount = 0

EditPending == edit.status = "PENDING"

RespondersLeft == edit.asked # Active
EditExpired == edit.expiresAt <= now

\* materializePendingRequest: the row as a command or a read finds it.
Materialized ==
    IF EditPending /\ (RespondersLeft \/ EditExpired)
    THEN [edit EXCEPT !.status = "FAILED"] ELSE edit

\* A read, a late response or the sweep writes the end of the request down.
MaterializeEdit ==
    /\ Materialized # edit
    /\ edit' = Materialized
    /\ UNCHANGED <<stateVars, underfilled, workVars, editCount>>

\* createQuestV2EditRequest
CreateEditRequest(c) ==
    /\ editCount < MaxEditRequests
    /\ quest.status = "ASSIGNED"
    /\ Materialized.status # "PENDING"
    /\ c # quest.condition
    /\ Active # {}
    /\ edit' = [status |-> "PENDING", proposed |-> c, asked |-> Active,
                accepted |-> {}, declined |-> {}, expiresAt |-> now + EditWindow]
    /\ editCount' = editCount + 1
    /\ UNCHANGED <<stateVars, underfilled, workVars>>

\* Mutant: one acceptance applies the request.
ApplyOnFirstAcceptance(w, accept) ==
    /\ quest.status = "ASSIGNED"
    /\ Materialized.status = "PENDING"
    /\ w \in edit.asked \intersect Active
    /\ w \notin edit.accepted \union edit.declined
    /\ accept
    /\ edit' = [edit EXCEPT !.accepted = edit.accepted \union {w}, !.status = "APPLIED"]
    /\ quest' = [quest EXCEPT !.condition = edit.proposed]
    /\ UNCHANGED <<now, rosterVars, moneyVars, underfilled, workVars, editCount>>

\* respondToQuestV2EditRequest: the last acceptance replaces the Condition.
RespondToEdit(w, accept) ==
    /\ quest.status = "ASSIGNED"
    /\ Materialized.status = "PENDING"
    /\ w \in edit.asked \intersect Active
    /\ w \notin edit.accepted \union edit.declined
    /\ \/ /\ ~accept
          /\ edit' = [edit EXCEPT !.declined = edit.declined \union {w},
                                  !.status = "FAILED"]
          /\ UNCHANGED quest
       \/ /\ accept
          /\ edit.accepted \union {w} # edit.asked
          /\ edit' = [edit EXCEPT !.accepted = edit.accepted \union {w}]
          /\ UNCHANGED quest
       \/ /\ accept
          /\ edit.accepted \union {w} = edit.asked
          /\ edit' = [edit EXCEPT !.accepted = edit.asked, !.status = "APPLIED"]
          /\ quest' = [quest EXCEPT !.condition = edit.proposed]
    /\ UNCHANGED <<now, rosterVars, moneyVars, underfilled, workVars, editCount>>

EditStep ==
    \/ \E c \in Conditions : CreateEditRequest(c)
    \/ \E w \in Workers, accept \in BOOLEAN : RespondToEdit(w, accept)
    \/ MaterializeEdit
=============================================================================
