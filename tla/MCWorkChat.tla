----------------------------- MODULE MCWorkChat -----------------------------
(***************************************************************************)
(* The chat of a Quest from the first Inquiry to its end and after, and    *)
(* an Admin who reads it as evidence.  A scene of its own is a client who  *)
(* walks a list of the program, conversations and messages among them, by  *)
(* its page cursors.                                                       *)
(***************************************************************************)
EXTENDS ReportEvidence, PagedLists, TLC

CONSTANTS h, w1, w2

MCCaseMessage == <<w1, 1>>

VARIABLE scene

vars == <<chatVars, evidenceVars, pagingVars, scene>>

\* The part that is not in the scene stays in one of its initial states.
Init ==
    /\ scene \in {"CHAT", "LISTS"}
    /\ ChatInit /\ EvidenceInit /\ PagingInit
    /\ scene = "CHAT" =>
           list = Tags /\ limit = 1 /\ \A r \in Rows : row[r].state = "ABSENT"

Next ==
    \/ /\ scene = "CHAT" /\ UNCHANGED <<pagingVars, scene>>
       /\ EvidenceNext
    \/ /\ scene = "LISTS" /\ UNCHANGED <<chatVars, evidenceVars, scene>>
       /\ PagingNext

Spec == Init /\ [][Next]_vars
=============================================================================
