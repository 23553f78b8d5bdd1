--------------------------- MODULE QuestLifecycle ---------------------------
(***************************************************************************)
(* One Quest, of the v1 or the v2 API, with everybody who acts on it:      *)
(* Hirer, Workers, Admin and the sweeps of the lifecycle worker.           *)
(***************************************************************************)
EXTENDS QuestV1

CONSTANT Extras       \* bound: the sets of side activities one behaviour shows

VARIABLE extras       \* of "EDIT", "ADMIN" and "DISPUTE", those of this behaviour

vars == <<stateVars, underfilled, workVars, editVars, endingVars, legacy, extras>>

TypeOK ==
    /\ StateTypeOK /\ RosterTypeOK /\ WorkTypeOK /\ EditTypeOK /\ EndingTypeOK
    /\ LegacyTypeOK
    /\ extras \in Extras

Init ==
    /\ StateInit /\ RosterInit /\ WorkInit /\ EditInit /\ EndingInit /\ LegacyInit
    /\ extras \in Extras
    /\ quest.apiVersion = "v1" => extras = {"EDIT"}

Shows(activity) == activity \in extras

StepV2 ==
    /\ \/ RosterStep /\ UNCHANGED <<workVars, editVars, endingVars>>
       \/ WorkStep /\ UNCHANGED <<editVars, endingVars>>
       \/ Shows("EDIT") /\ EditStep /\ UNCHANGED endingVars
       \/ Shows("ADMIN") /\ AdminStep /\ UNCHANGED editVars
       \/ Shows("DISPUTE") /\ DisputeStep /\ UNCHANGED editVars
       \/ EndingStep /\ UNCHANGED editVars
    /\ UNCHANGED legacy

StepV1 ==
    /\ \/ LegacyStep /\ UNCHANGED editVars
       \/ ConsentStep
       \/ \E t \in Terms : EditLegacyQuest(t)
    /\ UNCHANGED endingVars

Next ==
    /\ \/ Tick /\ UNCHANGED <<underfilled, workVars, editVars, endingVars, legacy>>
       \/ quest.apiVersion = "v2" /\ StepV2
       \/ quest.apiVersion = "v1" /\ StepV1
    /\ UNCHANGED extras

Spec == Init /\ [][Next]_vars

-----------------------------------------------------------------------------
(* Properties *)

Published == quest.status \notin {"NONE", "DRAFT"} /\ escrow.status # "NONE"

\* No Dispute Case took from the Escrow, and the hold was not released.
Undisturbed == SumOf(ledger.disputed) = 0 /\ escrow.status # "RELEASED"

Unpaid == Active \union AssignmentsWith("INCOMPLETE")

\* What every Worker who is not paid yet would cost: of an OPEN Quest all of
\* it, and of a Team, whose reward goes to its Leader as one, all or nothing.
Owed ==
    IF quest.status = "CANCELLED" THEN 0
    ELSE IF quest.status = "OPEN" \/ allocation.status = "PENDING" THEN PublishedEscrow
    ELSE IF GroupCandidate THEN IF Unpaid = {} THEN 0 ELSE PublishedEscrow
    ELSE SlotsOf(Unpaid)

\* Until the Quest is decided the Escrow holds what every Worker who is not
\* paid yet would cost, to the satang: through edits, joins, an incomplete
\* roster, partial payments, failures and late approvals.
EscrowCoversSlots == Published /\ Undisturbed => escrow.remaining = Owed

\* A Quest that ended leaves no money behind that no later step would move:
\* either the Escrow is closed, or the money hold runs, or the Leader still
\* has the reward to divide.
EndedQuestStrandsNothing ==
    Terminal /\ escrow.status = "ACTIVE" =>
        MoneyHoldOpen \/ allocation.status = "PENDING"

\* Whoever's work was accepted gets what was agreed when work started, the
\* share of an incomplete roster included, and nobody gets it twice; an
\* incomplete roster starts only with the consent of everybody on it.  A v1
\* Quest that fails, by a refusal or at its due time, still pays the Workers
\* and the Team whose Proof was accepted before, or is accepted later.
PaidAsAgreed ==
    \A w \in Workers :
        /\ assignment[w] = "COMPLETED" /\ ~GroupCandidate => ledger.paid[w] = RewardOf(w)
        /\ assignment[w] \in {"NONE", "ACTIVE", "INCOMPLETE"} => ledger.paid[w] = 0
        /\ Shared /\ assignment[w] # "NONE" => w \in underfilled.accepted
        /\ quest.apiVersion = "v1" /\ Terminal /\ Accepted(w) =>
               /\ assignment[w] = "COMPLETED"
               /\ GroupCandidate => SumOf(ledger.paid) = RewardPool

\* A Proof that waits for its review can still be paid: neither the failure of
\* other Workers nor the release of the hold takes its money.  An Admin who
\* awards money of the Escrow while a Proof waits can (see the README).
WaitingProofIsCovered ==
    CASE quest.apiVersion = "v2" ->
            Reviewable /\ SumOf(ledger.disputed) = 0 =>
                \A w \in Workers : Pending(w) => ApprovalSettles(w)
      [] OTHER ->
            \A w \in Workers : LegacyReviewable(w) =>
                /\ escrow.status = "ACTIVE"
                /\ escrow.remaining >= SumOf(PriceOf({w})) + SumOf(FeeFor({w}))

\* The failure at the due time and a refusal of one Worker's Proof never fail
\* a Worker of a v2 Quest whose own Proof was sent and not refused.  A v1 Quest
\* fails as a whole, and its Proofs are reviewed afterwards.
SentProofIsReviewed ==
    quest.apiVersion = "v2" => \A w \in Workers :
        assignment[w] = "INCOMPLETE" => proof[w].status \in {"NONE", "NOT_APPROVED"}

\* A step changes the terms of the Quest under a roster only as an edit that
\* everybody on it accepted, in time.
TermsAgreed ==
    Active # {} /\ Active' = Active
    /\ <<quest.condition, CurrentTerms>>' # <<quest.condition, CurrentTerms>> =>
       /\ edit'.accepted = Active
       /\ quest'.condition = IF quest.apiVersion = "v2"
                             THEN edit'.proposed ELSE quest.condition
       /\ quest.apiVersion = "v1" => CurrentTerms' = legacy.proposed
       /\ now < edit'.expiresAt

\* The terms of a Quest with a roster change only when every Worker who is on
\* it at that moment accepted those very terms, in time: the Condition of a v2
\* Quest, the due time and the need of a Proof of a v1 Quest.
EditAppliedByAll == [][TermsAgreed]_vars
=============================================================================
