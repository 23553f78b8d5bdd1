---------------------------- MODULE QuestEnding ----------------------------
(***************************************************************************)
(* The other ends of a Quest: the Hirer's cancellation, the Admin's        *)
(* termination, Dispute Cases and the release of the money hold.           *)
(***************************************************************************)
EXTENDS QuestEdit

CONSTANTS
    Hirer,
    SelfFilingWindow, AdminFilingWindow, HoldWindow,
    Awards,            \* the amounts an Admin awards, within the Money Policy
    MaxCases           \* bound on the Dispute Cases of the Quest

\* The money is held seven days, a Proof waits one for its review.
ASSUME HoldAssumption ==
    /\ Awards \subseteq Nat
    /\ HoldWindow \in Nat \ {0} /\ ReviewWindow <= HoldWindow

VARIABLES
    dispute,           \* the Dispute Case of each filer
    hirerPaid          \* awards paid from the Hirer's Spending Balance

endingVars == <<dispute, hirerPaid>>

Filers == Workers \union {Hirer}
\* "ANSWERED": a pending case with the other Member's statement.
CaseStatuses == {"NONE", "PENDING", "ANSWERED", "DISMISSED", "RESOLVED"}
Undecided(f) == dispute[f] \in {"PENDING", "ANSWERED"}

EndingTypeOK ==
    /\ dispute \in [Filers -> CaseStatuses]
    /\ hirerPaid \in Int

EndingInit ==
    /\ dispute = [f \in Filers |-> "NONE"]
    /\ hirerPaid = 0

-----------------------------------------------------------------------------
(* Cancellation *)

CancelDraft ==
    /\ quest.status = "DRAFT"
    /\ EnterState("CANCELLED", FALSE)
    /\ UNCHANGED <<now, rosterVars, moneyVars, underfilled, workVars>>

\* scaledCancellationAllocations: a part of each allocation; the leftover of
\* the whole part goes to the first ones.
Scaled(allocated, S) ==
    LET part == [w \in Workers |-> (allocated[w] * CancelPercent) \div 100]
        missing == (RewardPool * CancelPercent) \div 100 - SumFunctionOnSet(part, S)
    IN  [w \in Workers |->
            IF w \in S THEN part[w] + (IF rank[w] <= missing THEN 1 ELSE 0) ELSE 0]

AllocationIsDecided == underfilled.state \in {"NONE", "COMPLETED"}

\* applyV2CancellationInTransaction of an ASSIGNED Quest: compensation without
\* a Platform Fee, from an Escrow nobody was paid from.
CancelAssigned ==
    /\ quest.status = "ASSIGNED"
    /\ ~EditPending
    /\ Active # {}
    /\ escrow.remaining = PublishedEscrow
    /\ GroupFcfs => AllocationIsDecided
    /\ IF GroupCandidate
          THEN leader \in Active /\ CancelQuest(Scaled(LeaderReward, {leader}), Nothing)
          ELSE /\ SumOf(Rewards(Active)) = RewardPool
               /\ CancelQuest(Scaled(Rewards(Active), Active), Nothing)

\* Mutant: a Worker who failed does not keep the Hirer from cancelling.
CancelInProgressAnyway ==
    /\ quest.status = "IN_PROGRESS"
    /\ Active # {}
    /\ CancelQuest(Rewards(Active), Fees(Active))

\* Of an IN_PROGRESS Quest: everybody still working is paid in full, and that
\* must be all the Escrow holds.
CancelInProgress ==
    /\ quest.status = "IN_PROGRESS"
    /\ Active # {}
    /\ AssignmentsWith("INCOMPLETE") = {}
    /\ GroupFcfs => AllocationIsDecided
    /\ IF GroupCandidate
          THEN /\ leader \in Active
               /\ escrow.remaining = PublishedEscrow
               /\ CancelQuest(LeaderReward, LeaderFee)
          ELSE /\ escrow.remaining = SlotsOf(Active)
               /\ CancelQuest(Rewards(Active), Fees(Active))

CancelOpen ==
    /\ quest.status = "OPEN"
    /\ CancelQuest(Nothing, Nothing)

\* cancelQuestV2
HirerCancels ==
    \/ CancelDraft
    \/ /\ CancelOpen \/ CancelAssigned \/ CancelInProgress
       /\ UNCHANGED <<now, rank, started, leader, underfilled, workVars>>

\* terminateQuest, by cancelInTransaction: the older rules, that know neither
\* the shares of an incomplete roster nor the Team of a v2 Quest, whose
\* cancellation throws past OPEN.
AdminTerminates ==
    \/ CancelDraft
    \/ /\ \/ CancelOpen
          \/ /\ quest.status = "ASSIGNED"
             /\ ~EditPending
             /\ ~GroupCandidate
             /\ CancelQuest([w \in Workers |-> IF w \in Active
                    THEN EvenShare((RewardPool * CancelPercent) \div 100,
                                   Cardinality(Active), rank[w])
                    ELSE 0], Nothing)
          \/ /\ quest.status = "IN_PROGRESS"
             /\ AssignmentsWith("INCOMPLETE") = {}
             /\ ~GroupCandidate
             /\ CancelQuest([w \in Workers |-> IF w \in Active THEN Reward ELSE 0],
                            [w \in Workers |-> IF w \in Active THEN Fee ELSE 0])
       /\ UNCHANGED <<now, rank, started, leader, underfilled, workVars>>

Terminal == quest.status \in {"COMPLETED", "CANCELLED", "FAILED"}

\* applyHide: a hidden Quest takes no Workers.
HideQuest ==
    /\ quest.status # "NONE" /\ ~Terminal
    /\ ~quest.hidden
    /\ quest' = [quest EXCEPT !.hidden = TRUE]
    /\ UNCHANGED <<now, rosterVars, moneyVars, underfilled, workVars>>

\* applyRestore: an OPEN Quest only while it can still start.
RestoreQuest ==
    /\ ~Terminal
    /\ quest.hidden
    /\ quest.status = "OPEN" => now < StartTime
    /\ quest' = [quest EXCEPT !.hidden = FALSE]
    /\ UNCHANGED <<now, rosterVars, moneyVars, underfilled, workVars>>

-----------------------------------------------------------------------------
(* Dispute Cases, while the money is held *)

WithinFilingWindow(window) == now <= quest.holdSince + window

\* createAdminDisputeCaseInTransaction, by the filer or by an Admin for a Worker.
FileDispute(f) ==
    /\ dispute[f] = "NONE"
    /\ Cardinality({g \in Filers : dispute[g] # "NONE"}) < MaxCases
    /\ MoneyHoldOpen
    /\ \/ WithinFilingWindow(SelfFilingWindow)
       \/ f # Hirer /\ WithinFilingWindow(AdminFilingWindow)
    /\ f \in {Hirer} \union {w \in Workers : assignment[w] # "NONE"}
    /\ dispute' = [dispute EXCEPT ![f] = "PENDING"]
    /\ UNCHANGED <<stateVars, underfilled, workVars, hirerPaid>>

\* submitDisputeCaseResponse: a Worker of the Quest answers its Hirer, and the
\* Hirer everybody else; the same answer again changes nothing.
RespondToDispute(f, respondent) ==
    /\ dispute[f] = "PENDING"
    /\ MoneyHoldOpen /\ WithinFilingWindow(HoldWindow)
    /\ IF f = Hirer THEN respondent \in {w \in Workers : assignment[w] # "NONE"}
                    ELSE respondent = Hirer
    /\ dispute' = [dispute EXCEPT ![f] = "ANSWERED"]
    /\ UNCHANGED <<stateVars, underfilled, workVars, hirerPaid>>

\* resolveAdminDisputeCase with DISPUTE_CASE_DISMISSED
DismissDispute(f) ==
    /\ Undecided(f)
    /\ MoneyHoldOpen
    /\ dispute' = [dispute EXCEPT ![f] = "DISMISSED"]
    /\ UNCHANGED <<stateVars, underfilled, workVars, hirerPaid>>

\* What was ever committed and not yet paid out.
Uncommitted ==
    PublishedEscrow - SumOf(ledger.paid) - ledger.fees - SumOf(ledger.disputed)

WithinEscrow(amount) == amount <= escrow.remaining

\* settleDisputeCase: from the Escrow while it is held, from the Hirer's
\* Spending Balance after the release; a settled Escrow has nothing left.
PayAward(w, amount) ==
    /\ \/ /\ escrow.status = "ACTIVE"
          /\ WithinEscrow(amount)
          /\ escrow' = [status    |-> IF escrow.remaining = amount THEN "SETTLED" ELSE "ACTIVE",
                        remaining |-> escrow.remaining - amount]
          /\ UNCHANGED hirerPaid
       \/ /\ escrow.status = "RELEASED"
          /\ amount <= Uncommitted
          /\ hirerPaid' = hirerPaid + amount
          /\ UNCHANGED escrow
    /\ ledger' = [ledger EXCEPT !.disputed[w] = @ + amount]

\* assertResolutionInput: an award is a positive amount.
ValidAward(amount) == amount > 0

\* resolveAdminDisputeCase with DISPUTE_CASE_RESOLVED, to any Worker of the Quest.
ResolveDispute(f, w, amount) ==
    /\ Undecided(f)
    /\ ValidAward(amount)
    /\ MoneyHoldOpen
    /\ assignment[w] # "NONE"
    /\ PayAward(w, amount)
    /\ dispute' = [dispute EXCEPT ![f] = "RESOLVED"]
    /\ UNCHANGED <<now, quest, rosterVars, underfilled, workVars>>

\* Mutant: the sweep does not look at the age of the hold.
ReleaseAtOnce ==
    /\ MoneyHoldOpen
    /\ escrow.status = "ACTIVE"
    /\ ReleaseEscrow
    /\ UNCHANGED <<now, quest, rosterVars, underfilled, workVars>>

\* releaseMoneyHold of a sweep that is past its approvals.
ReleaseMoneyHold ==
    /\ MoneyHoldOpen
    /\ quest.holdSince + HoldWindow <= sweepNow
    /\ escrow.status = "ACTIVE"
    /\ ReleaseEscrow
    /\ UNCHANGED <<now, quest, rosterVars, underfilled, workVars>>

AdminStep ==
    /\ AdminTerminates \/ HideQuest \/ RestoreQuest
    /\ UNCHANGED endingVars

DisputeStep ==
    \E f \in Filers :
        \/ FileDispute(f) \/ DismissDispute(f)
        \/ \E respondent \in Filers : RespondToDispute(f, respondent)
        \/ \E w \in Workers, amount \in Awards : ResolveDispute(f, w, amount)

EndingStep ==
    /\ HirerCancels \/ ReleaseMoneyHold
    /\ UNCHANGED endingVars
=============================================================================
