------------------------------ MODULE QuestV1 ------------------------------
(***************************************************************************)
(* A Quest of the v1 API, on the same rows as a v2 Quest: its states       *)
(* SUBMITTED, APPROVED and REWORK, the edit that pauses it until every     *)
(* Worker agreed, and its own review, completion, failure and cancellation.*)
(***************************************************************************)
EXTENDS QuestEnding

CONSTANTS
    Dues,              \* the due times an edit may choose
    ConfirmWindow,     \* until confirmed work nobody reviewed is accepted
    ReworkLimit        \* refusals a Candidate asked to be allowed

ASSUME DuesAssumption == DueAt \in Dues /\ Dues \subseteq Nat

VARIABLE legacy        \* what only the rows of a v1 Quest hold

\* What an edit may change, of what a later step depends on.
Terms == [proofRequired: BOOLEAN, dueAt: Dues]

\* submittedAt: when the Quest last became SUBMITTED without Proofs.  proposed,
\* resumes: of a pending edit request.
LegacyRows == [dueAt: Dues, confirmed: SUBSET Workers, refused: [Workers -> Nat],
               submittedAt: Times, proposed: Terms, resumes: ConsentStatuses]

LegacyTypeOK == legacy \in LegacyRows

CurrentTerms == [dueAt |-> legacy.dueAt, proofRequired |-> quest.kind.proofRequired]

LegacyInit ==
    legacy = [dueAt |-> DueAt, confirmed |-> {}, refused |-> Nothing, submittedAt |-> 0,
              proposed |-> [dueAt |-> DueAt, proofRequired |-> quest.kind.proofRequired],
              resumes |-> "ASSIGNED"]

\* The row once the Quest is in a state, with the terms t.
EnteredAt(row, to, t) ==
    [row EXCEPT !.submittedAt = IF to = "SUBMITTED" /\ ~t.proofRequired THEN now ELSE @]

-----------------------------------------------------------------------------
(* From the draft to the start of work *)

\* createQuest
CreateLegacyQuest(k, c) ==
    /\ quest.status = "NONE"
    /\ k.participation = "SINGLE" => k.headcount = 1
    /\ quest' = [quest EXCEPT !.status = "DRAFT", !.kind = k, !.condition = c]
    /\ UNCHANGED <<now, rosterVars, moneyVars, underfilled, workVars, legacy>>

\* getQuestEditEligibility: nobody takes part, not even an applicant.
EditableByHirer == quest.status \in {"DRAFT", "OPEN"} /\ Active = {}

\* editQuest: never the mode, the reward or the headcount.
EditLegacyQuest(t) ==
    /\ editCount < MaxEditRequests
    /\ EditableByHirer
    /\ t # CurrentTerms
    /\ quest' = [quest EXCEPT !.kind.proofRequired = t.proofRequired]
    /\ legacy' = [legacy EXCEPT !.dueAt = t.dueAt, !.proposed = t]
    /\ editCount' = editCount + 1
    /\ UNCHANGED <<now, rosterVars, moneyVars, underfilled, workVars, edit>>

\* publishQuest of v1
PublishLegacyQuest ==
    /\ PublishQuest
    /\ UNCHANGED <<workVars, legacy>>

\* joinNoCandidateQuest: also past the start, until the sweep comes.
JoinLegacyQuest(w) ==
    /\ quest.kind.mode = "FCFS"
    /\ assignment[w] = "NONE"
    /\ quest.status = "OPEN" /\ ~quest.hidden
    /\ Cardinality(Active) < quest.kind.headcount
    /\ assignment' = [assignment EXCEPT ![w] = "ACTIVE"]
    /\ rank' = [rank EXCEPT ![w] = Cardinality(Active) + 1]
    /\ IF Cardinality(Active) + 1 = quest.kind.headcount
          THEN EnterState("ASSIGNED", FALSE)
          ELSE UNCHANGED quest
    /\ UNCHANGED <<now, started, leader, moneyVars, underfilled, workVars, legacy>>

\* selectCandidate: one applicant, or a Team of exactly the headcount.
SelectLegacyCandidates(S, l) ==
    /\ quest.status = "OPEN"
    /\ quest.kind.mode = "CANDIDATE"
    /\ Cardinality(S) = quest.kind.headcount
    /\ IF GroupCandidate THEN l \in S ELSE l = NoWorker
    /\ \A w \in S : assignment[w] = "NONE"
    /\ assignment' = [w \in Workers |-> IF w \in S THEN "ACTIVE" ELSE assignment[w]]
    /\ rank' = [w \in Workers |-> IF w \in S THEN 1 ELSE rank[w]]
    /\ leader' = l
    /\ EnterState("ASSIGNED", FALSE)
    /\ UNCHANGED <<now, started, moneyVars, underfilled, workVars, legacy>>

StartLegacyWork(w) ==
    /\ StartWorkUntil(legacy.dueAt, w)
    /\ UNCHANGED <<workVars, legacy>>

\* cancelUnfilledQuest
CancelUnfilledLegacy ==
    /\ quest.status = "OPEN"
    /\ StartTime <= now
    /\ CancelQuest(Nothing, Nothing)
    /\ UNCHANGED <<now, rank, started, leader, underfilled, workVars, legacy>>

-----------------------------------------------------------------------------
(* Who owes a Proof or a confirmation *)

\* ownersForQuest: a Team, written as its Leader, or each Worker.
LegacyOwners ==
    IF GroupCandidate THEN {leader}
    ELSE IF quest.status = "FAILED" THEN AssignmentsWith("INCOMPLETE") ELSE Active

Accepted(o) == proof[o].status = "APPROVED"

\* allObligationsSubmitted, once proof and confirmed are p and c.
AllSubmitted(p, c) ==
    /\ LegacyOwners # {}
    /\ \A o \in LegacyOwners :
          IF quest.kind.proofRequired
          THEN p[o].status \in {"PENDING", "APPROVED"} ELSE o \in c

AllApproved(p) ==
    /\ quest.kind.proofRequired
    /\ LegacyOwners # {}
    /\ \A o \in LegacyOwners : p[o].status = "APPROVED"

Working == quest.status \in {"IN_PROGRESS", "REWORK"}

\* moveIfSubmitted
MoveIfSubmitted(row) ==
    IF AllSubmitted(proof', row.confirmed)
    THEN /\ EnterState("SUBMITTED", FALSE)
         /\ legacy' = EnteredAt(row, "SUBMITTED", CurrentTerms)
    ELSE UNCHANGED quest /\ legacy' = row

\* submitProof: again only after a refusal that asked for rework.
SubmitLegacyProof(o) ==
    /\ Working
    /\ now < legacy.dueAt
    /\ quest.kind.proofRequired
    /\ o \in LegacyOwners
    /\ (legacy.refused[o] > 0) <=> (quest.status = "REWORK")
    /\ proof[o].status \notin {"PENDING", "APPROVED"}
    /\ proof' = [proof EXCEPT ![o] = [status |-> "PENDING", sentAt |-> now]]
    /\ MoveIfSubmitted(legacy)
    /\ UNCHANGED <<now, rosterVars, moneyVars, underfilled, allocation, sweepNow>>

\* confirmProofFreeWork, whatever the time.
ConfirmProofFreeWork(o) ==
    /\ Working
    /\ ~quest.kind.proofRequired
    /\ o \in LegacyOwners
    /\ proof' = proof
    /\ MoveIfSubmitted([legacy EXCEPT !.confirmed = @ \union {o}])
    /\ UNCHANGED <<now, rosterVars, moneyVars, underfilled, allocation, sweepNow>>

-----------------------------------------------------------------------------
(* Settlements *)

\* Through APPROVED: everybody is paid from an Escrow nobody was paid from.
CompleteLegacy ==
    /\ quest.status \in AllowedPredecessors["APPROVED"]
    /\ Active # {}
    /\ escrow.remaining = PublishedEscrow
    /\ SettleEscrow(Rewards(Active), Fees(Active), FALSE)
    /\ escrow'.remaining = 0
    /\ EndAssignments(Active, "COMPLETED")
    /\ quest' = [quest EXCEPT !.status = "COMPLETED"]

\* The Assignments that the accepted Proofs of S stand for, and their price.
Covered(S) ==
    IF GroupCandidate /\ S # {} THEN Active \union AssignmentsWith("INCOMPLETE") ELSE S

PriceOf(S) == IF GroupCandidate /\ S # {} THEN LeaderReward ELSE Rewards(S)
FeeFor(S) == IF GroupCandidate /\ S # {} THEN LeaderFee ELSE Fees(S)

\* Both times are strict bounds in the code.  A tick of the clock is coarse: a
\* Proof sent in the tick in which its Quest fails was sent before it failed.
SentInTime(o) ==
    /\ proof[o].sentAt < legacy.dueAt
    /\ quest.status = "FAILED" => proof[o].sentAt <= quest.holdSince

\* settleApprovedLegacyQuestProofAfterFailureInTransaction for each of S.
SettleAfterFailure(S) ==
    /\ \A o \in S : SentInTime(o)
    /\ S # {} => SettleEscrow(PriceOf(S), FeeFor(S), FALSE)
    /\ S = {} => UNCHANGED moneyVars

\* Mutant: Workers whose Proof was accepted fail with the others.
FailEverybody(S) ==
    /\ assignment' = [w \in Workers |->
           IF w \in S \intersect Active THEN "INCOMPLETE" ELSE assignment[w]]
    /\ UNCHANGED <<moneyVars, legacy>>
    /\ EnterState("FAILED", FALSE)

\* failQuestInTransaction: accepted work is paid, whatever S is.
FailLegacyQuest(S) ==
    LET accepted == {o \in Workers : Accepted(o)}
    IN  /\ SettleAfterFailure(accepted)
        /\ assignment' = [w \in Workers |->
               IF w \in Covered(accepted) THEN "COMPLETED"
               ELSE IF w \in S \intersect Active THEN "INCOMPLETE" ELSE assignment[w]]
        /\ EnterState("FAILED", FALSE)
        /\ UNCHANGED legacy

-----------------------------------------------------------------------------
(* Review *)

\* isReviewLifecycle, of a Proof that was in time for it.
LegacyReviewable(o) ==
    /\ quest.status \in {"SUBMITTED", "REWORK", "FAILED"}
    /\ Pending(o)
    /\ o \in LegacyOwners
    /\ quest.status = "FAILED" => SentInTime(o)

\* reviewProof with PROOF_APPROVED
ApproveLegacyProof(o) ==
    /\ LegacyReviewable(o)
    /\ proof' = [proof EXCEPT ![o].status = "APPROVED"]
    /\ UNCHANGED legacy
    /\ \/ /\ quest.status = "FAILED"
          /\ SettleAfterFailure({o})
          /\ assignment' = [w \in Workers |->
                 IF w \in Covered({o}) THEN "COMPLETED" ELSE assignment[w]]
          /\ UNCHANGED quest
       \/ quest.status # "FAILED" /\ AllApproved(proof') /\ CompleteLegacy
       \/ /\ quest.status # "FAILED" /\ ~AllApproved(proof')
          /\ UNCHANGED <<quest, assignment, moneyVars>>
    /\ UNCHANGED <<now, rank, started, leader, underfilled, allocation, sweepNow>>

\* Without rework the first refusal ends the Quest for everybody.
EndsAt(refusals) == quest.kind.mode = "FCFS" \/ refusals > ReworkLimit

\* reviewProof with PROOF_NOT_APPROVED
RejectLegacyProof(o) ==
    /\ LegacyReviewable(o)
    /\ proof' = [proof EXCEPT ![o].status = "NOT_APPROVED"]
    /\ \/ /\ quest.status = "FAILED"
          /\ UNCHANGED <<quest, assignment, moneyVars, legacy>>
       \/ /\ quest.status # "FAILED"
          /\ EndsAt(legacy.refused[o] + 1)
          /\ FailLegacyQuest(Active)
       \/ /\ ~EndsAt(legacy.refused[o] + 1)
          /\ EnterState("REWORK", FALSE)
          /\ legacy' = [legacy EXCEPT !.refused[o] = @ + 1]
          /\ UNCHANGED <<assignment, moneyVars>>
    /\ UNCHANGED <<now, rank, started, leader, underfilled, allocation, sweepNow>>

\* autoApproveDueProofs, all of them in one transaction.
AutoApproveLegacyProof(o) ==
    /\ ReviewDue(o, now)
    /\ SentInTime(o)
    /\ ApproveLegacyProof(o)

ConfirmationsDue ==
    /\ ~quest.kind.proofRequired
    /\ quest.status = "SUBMITTED"
    /\ legacy.submittedAt + ConfirmWindow <= now
    /\ AllSubmitted(proof, legacy.confirmed)

\* autoApproveDueProofFreeQuests
AutoCompleteConfirmed ==
    /\ ConfirmationsDue
    /\ CompleteLegacy
    /\ UNCHANGED <<now, rank, started, leader, underfilled, workVars, legacy>>

\* The sweep is past the approvals of v1 Quests.
SweepPassesLegacyApprovals ==
    /\ MoneyHoldOpen
    /\ OthersStopApproval
          \/ \A o \in Workers : ~(ReviewDue(o, now) /\ LegacyReviewable(o))
    /\ sweepNow # now
    /\ sweepNow' = now
    /\ UNCHANGED <<stateVars, underfilled, proof, allocation, legacy>>

ObligationOpen(w) ==
    IF quest.kind.proofRequired
    THEN proof[w].status \notin {"PENDING", "APPROVED"} ELSE w \notin legacy.confirmed

\* dueStartFailureAssignmentIds, or everybody when somebody's part is missing.
LateLegacy ==
    CASE quest.status = "ASSIGNED" ->
            IF GroupCandidate
            THEN IF leader \in started THEN {} ELSE Active
            ELSE Active \ started
      [] quest.status \in {"IN_PROGRESS", "SUBMITTED", "REWORK"} ->
            IF \E o \in LegacyOwners : ObligationOpen(o) THEN Active ELSE {}
      [] OTHER -> {}

\* failLegacyQuest
FailLegacyAtDueAt ==
    /\ legacy.dueAt <= now
    /\ LateLegacy # {}
    /\ FailLegacyQuest(LateLegacy)
    /\ UNCHANGED <<now, rank, started, leader, underfilled, workVars>>

-----------------------------------------------------------------------------
(* Cancellation, by the Hirer or an Admin *)

CompensationPool == (RewardPool * CancelPercent) \div 100

\* cancelInTransaction
CancelLegacyQuest ==
    /\ \/ CancelOpen
       \/ /\ quest.status = "ASSIGNED"
          /\ CancelQuest([w \in Workers |->
                 IF GroupCandidate THEN IF w = leader THEN CompensationPool ELSE 0
                 ELSE IF w \in Active
                      THEN EvenShare(CompensationPool, Cardinality(Active), rank[w])
                 ELSE 0], Nothing)
       \/ /\ quest.status = "IN_PROGRESS"
          /\ IF GroupCandidate
                THEN CancelQuest(LeaderReward, LeaderFee)
                ELSE CancelQuest(Rewards(Active), Fees(Active))
    /\ UNCHANGED <<now, rank, started, leader, underfilled, workVars, legacy>>

\* The same of a draft, which has no Escrow.
CancelLegacyDraft ==
    /\ CancelDraft
    /\ UNCHANGED legacy

ReleaseLegacyHold ==
    /\ ReleaseMoneyHold
    /\ UNCHANGED legacy

-----------------------------------------------------------------------------
(* An edit that every Worker has to agree to *)

\* normalizeConsentChanges, a field at a time.
Changes(t) == {f \in DOMAIN t : t[f] # CurrentTerms[f]}

\* createQuestEditRequest
PauseForConsent(t) ==
    /\ editCount < MaxEditRequests
    /\ ~EditPending
    /\ quest.status \in ConsentStatuses
    /\ Cardinality(Changes(t)) = 1
    /\ Active # {}
    /\ edit' = [status |-> "PENDING", proposed |-> quest.condition, asked |-> Active,
                accepted |-> {}, declined |-> {}, expiresAt |-> now + EditWindow]
    /\ editCount' = editCount + 1
    /\ EnterState("AWAITING_CONSENT", FALSE)
    /\ legacy' = [legacy EXCEPT !.proposed = t, !.resumes = quest.status]

ConsentIsCurrent == quest.status = "AWAITING_CONSENT" /\ edit.asked = Active

\* No request is pending, and the Quest is where it was, with the terms t.
Resumed(t) ==
    EnteredAt([legacy EXCEPT !.dueAt = t.dueAt, !.proposed = t, !.resumes = "ASSIGNED"],
              legacy.resumes, t)

\* The Quest goes on as it was.
EndEdit(row) ==
    /\ edit' = [row EXCEPT !.status = "FAILED"]
    /\ EnterState(legacy.resumes, FALSE)
    /\ legacy' = Resumed(CurrentTerms)

\* resolveExpiredEditRequestInTransaction, and every response that is too late.
ExpireLegacyEdit ==
    /\ EditPending
    /\ EditExpired \/ ~ConsentIsCurrent
    /\ EndEdit(edit)
    /\ UNCHANGED editCount

\* applyConsentChanges
ApplyTerms(t) ==
    /\ quest.status \in AllowedPredecessors[legacy.resumes]
    /\ quest' = [quest EXCEPT !.status = legacy.resumes,
                              !.kind.proofRequired = t.proofRequired]
    /\ legacy' = Resumed(t)

\* Mutant: the first acceptance applies the change.
RespondOnce(w, accept) ==
    /\ EditPending /\ ~EditExpired /\ ConsentIsCurrent
    /\ w \in edit.asked \ edit.accepted
    /\ accept
    /\ edit' = [edit EXCEPT !.accepted = @ \union {w}, !.status = "APPLIED"]
    /\ ApplyTerms(legacy.proposed)
    /\ UNCHANGED editCount

\* respondToQuestEditRequest
RespondToLegacyEdit(w, accept) ==
    /\ EditPending /\ ~EditExpired /\ ConsentIsCurrent
    /\ w \in edit.asked \ edit.accepted
    /\ \/ ~accept /\ EndEdit([edit EXCEPT !.declined = @ \union {w}])
       \/ /\ accept
          /\ edit.accepted \union {w} # edit.asked
          /\ edit' = [edit EXCEPT !.accepted = @ \union {w}]
          /\ UNCHANGED <<quest, legacy>>
       \/ /\ accept
          /\ edit.accepted \union {w} = edit.asked
          /\ edit' = [edit EXCEPT !.accepted = edit.asked, !.status = "APPLIED"]
          /\ ApplyTerms(legacy.proposed)
    /\ UNCHANGED editCount

ConsentStep ==
    /\ \/ \E t \in Terms : PauseForConsent(t)
       \/ ExpireLegacyEdit
       \/ \E w \in Workers, accept \in BOOLEAN : RespondToLegacyEdit(w, accept)
    /\ UNCHANGED <<now, rosterVars, moneyVars, underfilled, workVars>>

LegacyStep ==
    \/ \E k \in Kinds, c \in Conditions : CreateLegacyQuest(k, c)
    \/ PublishLegacyQuest \/ CancelUnfilledLegacy
    \/ \E S \in SUBSET Workers, l \in Workers \union {NoWorker} : SelectLegacyCandidates(S, l)
    \/ \E w \in Workers :
          \/ JoinLegacyQuest(w) \/ StartLegacyWork(w)
          \/ SubmitLegacyProof(w) \/ ConfirmProofFreeWork(w)
          \/ ApproveLegacyProof(w) \/ RejectLegacyProof(w) \/ AutoApproveLegacyProof(w)
    \/ AutoCompleteConfirmed \/ SweepPassesLegacyApprovals \/ FailLegacyAtDueAt
    \/ CancelLegacyQuest \/ CancelLegacyDraft \/ ReleaseLegacyHold
=============================================================================
