----------------------------- MODULE QuestWork -----------------------------
(***************************************************************************)
(* From the start of work to its payment: Proof Submissions and their      *)
(* review, confirmations, the failure at the due time and the division of  *)
(* a Candidate Team's reward.                                              *)
(***************************************************************************)
EXTENDS QuestRoster

CONSTANTS
    ReviewWindow,        \* until a Proof nobody reviewed is approved
    AllocationWindow,    \* for the Leader to divide the reward
    OthersStopApproval   \* another Quest's Proof may end the approval loop

ASSUME WorkAssumption ==
    ReviewWindow \in Nat /\ AllocationWindow \in Nat /\ OthersStopApproval \in BOOLEAN

VARIABLES
    proof,               \* the sent Proof Submission of each owner
    allocation,          \* the row of quest_v2_team_reward_allocation
    sweepNow             \* the time of the last lifecycle sweep past its approvals

workVars == <<proof, allocation, sweepNow>>

ProofRows == [status: {"NONE", "PENDING", "APPROVED", "NOT_APPROVED"},
              sentAt: Times \union {Never}]

WorkTypeOK ==
    /\ proof \in [Workers -> ProofRows]
    /\ allocation \in [status: {"NONE", "PENDING", "SUBMITTED", "AUTO_EQUAL"},
                       deadline: Nat]
    /\ sweepNow \in Times

WorkInit ==
    /\ proof = [w \in Workers |-> [status |-> "NONE", sentAt |-> Never]]
    /\ allocation = [status |-> "NONE", deadline |-> 0]
    /\ sweepNow = 0

-----------------------------------------------------------------------------
(* Who owes a Proof or a confirmation, and what its decision covers *)

\* ownerFor: the Leader for a Candidate Team, each Worker for himself else.
Owners == IF GroupCandidate THEN Active \intersect {leader} ELSE Active

\* reviewSubjectFor: the Assignments a decision on w's Proof covers.
Subject(w) == IF GroupCandidate THEN Active ELSE Active \intersect {w}

Sent(w) == proof[w].status # "NONE"
Pending(w) == proof[w].status = "PENDING"
ReviewDue(w, t) == Pending(w) /\ proof[w].sentAt + ReviewWindow <= t

\* submitQuestV2ProofSubmission of the draft the owner prepared.
SubmitProof(w) ==
    /\ quest.kind.proofRequired
    /\ quest.status = "IN_PROGRESS"
    /\ now <= DueAt
    /\ w \in Owners
    /\ ~Sent(w)
    /\ proof' = [proof EXCEPT ![w] = [status |-> "PENDING", sentAt |-> now]]
    /\ UNCHANGED <<stateVars, underfilled, allocation, sweepNow>>

-----------------------------------------------------------------------------
(* Work is accepted *)

\* createPendingTeamRewardAllocation
OpenAllocation ==
    allocation' = [status |-> "PENDING", deadline |-> now + AllocationWindow]

\* A Quest ends only with exactly its unpaid slots in the Escrow.
MatchesUnpaidSlots(left, unpaid) == left = SlotsOf(unpaid)

\* Mutant: the published reward is paid whatever the roster agreed to share.
SettleAsPublished(w) ==
    /\ w \in Active
    /\ SettleEscrow([v \in Workers |-> IF v = w THEN Reward ELSE 0],
                    [v \in Workers |-> IF v = w THEN Fee ELSE 0], FALSE)
    /\ EndAssignments({w}, "COMPLETED")
    /\ UNCHANGED <<quest, allocation>>

\* settleApprovedQuestV2ProofInTransaction for one Worker of his own.
SettleWorker(w) ==
    LET paid == SumOf(Rewards({w})) + SumOf(Fees({w}))
        others == Active \ {w}
        unpaid == IF GroupFcfs THEN AssignmentsWith("INCOMPLETE") ELSE {}
    IN  /\ w \in Active
        /\ SettleEscrow(Rewards({w}), Fees({w}), FALSE)
        /\ EndAssignments({w}, "COMPLETED")
        /\ IF quest.status = "IN_PROGRESS" /\ others = {}
              THEN /\ MatchesUnpaidSlots(escrow.remaining - paid, unpaid)
                   /\ EnterState("COMPLETED", unpaid # {})
              ELSE UNCHANGED quest
        /\ UNCHANGED allocation

\* The same for a Candidate Team: its Leader divides the reward, or takes it
\* when the Quest had failed before.
SettleTeam ==
    /\ leader \in Active
    /\ escrow.status = "ACTIVE"
    /\ EndAssignments(Active, "COMPLETED")
    /\ \/ /\ quest.status = "IN_PROGRESS"
          /\ OpenAllocation
          /\ EnterState("COMPLETED", FALSE)
          /\ UNCHANGED moneyVars
       \/ /\ quest.status = "FAILED"
          /\ SettleEscrow(LeaderReward, LeaderFee, FALSE)
          /\ UNCHANGED <<quest, allocation>>

\* settleProofFreeQuestV2InTransaction
SettleConfirmed(w) ==
    IF GroupCandidate
    THEN escrow.remaining = PublishedEscrow /\ SettleTeam
    ELSE SettleWorker(w)

\* allCompletionObligationsConfirmed, once w has confirmed: a Leader confirms
\* for his Team, everybody else for himself.
AllConfirmed(w) == IF GroupCandidate THEN leader \in Active ELSE Active \subseteq {w}

\* confirmQuestV2Completion: the owner says the work is done.  The Workers of a
\* first come first served group are paid one by one, others together.
ConfirmCompletion(w) ==
    /\ ~quest.kind.proofRequired
    /\ quest.status = "IN_PROGRESS"
    /\ now <= DueAt
    /\ w \in Owners
    /\ GroupFcfs \/ AllConfirmed(w)
    /\ SettleConfirmed(w)
    /\ UNCHANGED <<now, rank, started, leader, underfilled, proof, sweepNow>>

Reviewable == quest.status \in {"IN_PROGRESS", "FAILED"}

\* reviewQuestV2ProofSubmission with PROOF_APPROVED, by Hirer or sweep.
ApproveProof(w) ==
    /\ Pending(w)
    /\ Reviewable
    /\ proof' = [proof EXCEPT ![w].status = "APPROVED"]
    /\ IF GroupCandidate THEN SettleTeam ELSE SettleWorker(w)
    /\ UNCHANGED <<now, rank, started, leader, underfilled, sweepNow>>

-----------------------------------------------------------------------------
(* Work is refused, or not done in time *)

\* failQuestV2InTransaction: the rest of the roster stays as it is.
FailQuest(S) ==
    /\ quest.status = "IN_PROGRESS" => S \intersect Active # {}
    /\ EndAssignments(S, "INCOMPLETE")
    /\ IF quest.status = "FAILED"
          THEN UNCHANGED quest
          ELSE EnterState("FAILED", FALSE)

\* Mutant: the last Worker ends the Quest without a hold.
EndWithoutHold(w) ==
    /\ w \in Active
    /\ EndAssignments({w}, "INCOMPLETE")
    /\ IF Active = {w} THEN EnterState("COMPLETED", FALSE) ELSE UNCHANGED quest

\* markAssignmentIncompleteV2InTransaction: the Workers of a first come first
\* served group fail one by one; the last of them ends the Quest.
FailOneWorker(w) ==
    /\ w \in Active
    /\ \/ /\ Active # {w}
          /\ EndAssignments({w}, "INCOMPLETE")
          /\ UNCHANGED quest
       \/ /\ Active = {w}
          /\ AssignmentsWith("COMPLETED") = {}
          /\ FailQuest({w})
       \/ /\ Active = {w}
          /\ AssignmentsWith("COMPLETED") # {}
          /\ escrow.status = "ACTIVE"
          /\ MatchesUnpaidSlots(escrow.remaining, AssignmentsWith("INCOMPLETE") \union {w})
          /\ EndAssignments({w}, "INCOMPLETE")
          /\ EnterState("COMPLETED", TRUE)

\* reviewQuestV2ProofSubmission with PROOF_NOT_APPROVED.
RejectProof(w) ==
    /\ Pending(w)
    /\ Reviewable
    /\ proof' = [proof EXCEPT ![w].status = "NOT_APPROVED"]
    /\ IF GroupFcfs /\ quest.status = "IN_PROGRESS"
          THEN FailOneWorker(w)
          ELSE FailQuest(Subject(w))
    /\ UNCHANGED <<now, rank, started, leader, moneyVars, underfilled, allocation, sweepNow>>

\* Mutant: who sent a Proof is not looked up.
EveryActiveIsLate == Active

\* dueQuestV2ProofFailureAssignmentIds: the Assignments whose Worker did not
\* start, did not send a Proof or did not confirm.
LateAssignments ==
    CASE quest.status = "ASSIGNED" ->
            IF GroupCandidate
            THEN IF leader \in started THEN {} ELSE Active
            ELSE Active \ started
      [] quest.status = "IN_PROGRESS" ->
            IF GroupCandidate
            THEN IF Sent(leader) THEN {} ELSE Active
            ELSE {w \in Active : ~Sent(w)}
      [] OTHER -> {}

\* failQuestV2AtDueAt of the sweep.
FailAtDueAt ==
    /\ quest.status \in {"ASSIGNED", "IN_PROGRESS"}
    /\ DueAt <= now
    /\ LateAssignments # {}
    /\ FailQuest(LateAssignments)
    /\ UNCHANGED <<now, rank, started, leader, moneyVars, underfilled, workVars>>

-----------------------------------------------------------------------------
(* The lifecycle sweep reaches its approvals *)

ApprovalDue(w) == ReviewDue(w, now) /\ Reviewable

\* Whether the settlement of w's approval would commit.
ApprovalSettles(w) ==
    /\ escrow.status = "ACTIVE"
    /\ Subject(w) # {}
    /\ escrow.remaining >= IF GroupCandidate
                           THEN IF quest.status = "FAILED" THEN PublishedEscrow ELSE 0
                           ELSE SlotsOf({w})

\* autoApproveDueQuestV2Proofs
AutoApprove(w) ==
    /\ ApprovalDue(w)
    /\ ApproveProof(w)

\* The sweep goes on when it approved what was due, or when a settlement
\* threw and ended the loop.  Only what it does to a hold depends on that.
SweepPassesApprovals ==
    /\ MoneyHoldOpen
    /\ \/ \A w \in Workers : ~ApprovalDue(w)
       \/ \E w \in Workers : ApprovalDue(w) /\ ~ApprovalSettles(w)
       \/ OthersStopApproval
    /\ sweepNow # now
    /\ sweepNow' = now
    /\ UNCHANGED <<stateVars, underfilled, proof, allocation>>

-----------------------------------------------------------------------------
(* A Candidate Team divides its reward *)

Members == AssignmentsWith("COMPLETED")

\* calculateTeamRewardAmounts with equal weights, the leftover to the Leader.
EqualSplit ==
    [w \in Workers |->
        IF w \notin Members THEN 0
        ELSE RewardPool \div Cardinality(Members)
             + (IF w = leader THEN RewardPool % Cardinality(Members) ELSE 0)]

AllTo(m) == [w \in Workers |-> IF w = m THEN RewardPool ELSE 0]

\* settleV2TeamRewardAllocationInTransaction
SettleAllocation(split, status) ==
    /\ quest.status = "COMPLETED"
    /\ allocation.status = "PENDING"
    /\ SettleEscrow(split, LeaderFee, FALSE)
    /\ escrow'.remaining = 0
    /\ allocation' = [allocation EXCEPT !.status = status]
    /\ UNCHANGED <<now, quest, rosterVars, underfilled, proof, sweepNow>>

SubmitAllocation(split) ==
    /\ now < allocation.deadline
    /\ SettleAllocation(split, "SUBMITTED")

\* settleDueQuestV2RewardAllocation of the sweep.
AutoAllocate ==
    /\ allocation.deadline <= now
    /\ SettleAllocation(EqualSplit, "AUTO_EQUAL")

WorkStep ==
    \/ \E w \in Workers :
          \/ SubmitProof(w) \/ ConfirmCompletion(w)
          \/ ApproveProof(w) \/ RejectProof(w) \/ AutoApprove(w)
          \/ SubmitAllocation(AllTo(w)) /\ w \in Members
    \/ SubmitAllocation(EqualSplit)
    \/ AutoAllocate \/ FailAtDueAt \/ SweepPassesApprovals
=============================================================================
