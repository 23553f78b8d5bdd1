----------------------------- MODULE QuestProofs -----------------------------
(***************************************************************************)
(* What holds of a Quest of either API for every roster, price, clock and  *)
(* kind.  The module goes from what is always true, to what a step may do, *)
(* to what follows:                                                        *)
(*                                                                         *)
(*  - the invariants, and the moves: the actions of the model seen by what *)
(*    they do to the money, the roster and the Proofs;                     *)
(*  - the types, the Proofs that were sent and the edits, which rest on    *)
(*    how a step moves the state of the Quest alone (Goes).  A refusal     *)
(*    fails a whole Candidate Team, so that a sent Proof never fails       *)
(*    unrefused rests on only the Leader of a Team ever sending one;       *)
(*  - what a set of Workers costs, and that every step is a move;          *)
(*  - that the moves keep the roster, the Escrow, what was paid, and the   *)
(*    money of the Proofs that wait.                                       *)
(***************************************************************************)
EXTENDS QuestLifecycle, Sums, TLAPS

-----------------------------------------------------------------------------
(* What is always true of a Quest *)

\* The states before the publication, and those in which a v2 Quest may have
\* Proofs.
Drafted == {"NONE", "DRAFT"}
Late == {"IN_PROGRESS", "COMPLETED", "CANCELLED", "FAILED"}

\* The types of the rows whose contents do not depend on sums of money.
Types ==
    /\ now \in Times
    /\ quest \in QuestRows
    /\ assignment \in [Workers -> AssignmentStatuses]
    /\ proof \in [Workers -> ProofRows]
    /\ edit \in EditRows
    /\ legacy \in LegacyRows

\* Nobody is on the roster of a draft.
NobodyYet == quest.status \in Drafted => \A w \in Workers : assignment[w] = "NONE"

\* Of a v2 Quest Proofs are sent in progress, and of a Team by its Leader.
SentLate ==
    quest.apiVersion = "v2" => \A w \in Workers :
        Sent(w) => quest.status \in Late /\ (GroupCandidate => w = leader)

\* Of this much, no sum of money is a part.
QuestInv == Types /\ NobodyYet /\ SentLate /\ SentProofIsReviewed

\* The rows of money.
Escrows == [status: {"NONE", "ACTIVE", "SETTLED", "RELEASED"}, remaining: Int]
Ledgers == [paid: [Workers -> Int], disputed: [Workers -> Nat], fees: Int, refunded: Int]
Allocations == [status: {"NONE", "PENDING", "SUBMITTED", "AUTO_EQUAL"}, deadline: Nat]

\* The types of the rows that money depends on.
MoneyTypes ==
    /\ rank \in [Workers -> Int]
    /\ leader \in Workers \union {NoWorker}
    /\ underfilled \in DecisionRows
    /\ underfilled.state = "COMPLETED" => underfilled.accepted # {}
    /\ escrow \in Escrows
    /\ ledger \in Ledgers
    /\ sweepNow \in Times
    /\ allocation \in Allocations

\* Whoever was ever taken, and the states of an open underfilled decision.
Roster == {w \in Workers : assignment[w] # "NONE"}
Asking == {"DECISION_PENDING", "CONSENT_PENDING"}

\* A Quest for a single Worker has one slot.
SoundKind(k) == k.participation = "SINGLE" => k.headcount = 1

\* The states in which the roster is complete.
Worked == quest.status \notin Drafted \union {"OPEN", "CANCELLED"}

\* Only an OPEN Quest of the first come first served has Workers; there is room
\* left, and they are numbered as they came.
OpenRoster ==
    quest.status = "OPEN" =>
        /\ Roster = Active
        /\ quest.kind.mode = "CANDIDATE" => Active = {}
        /\ Cardinality(Active) < quest.kind.headcount
        /\ \A w \in Active : rank[w] \in 1 .. Cardinality(Active)
        /\ \A v, w \in Active : rank[v] = rank[w] => v = w

\* What S costs is what was published.
Worth(S) == SumOf(Rewards(S)) = RewardPool /\ SumOf(Fees(S)) = FeePool

\* A complete roster costs the whole pool, in any case but that of a v2 Team,
\* whose Leader is paid for all of it.  A Team and the roster of a v1 Quest
\* that has not ended work as one.
WorkedRoster ==
    Worked =>
        /\ \A w \in Roster : assignment[w] # "CANCELLED"
        /\ ~GroupCandidate \/ quest.apiVersion = "v1" => Worth(Roster)
        /\ GroupCandidate => /\ leader \in Roster
                             /\ \A v, w \in Roster : assignment[v] = assignment[w]
        /\ (GroupCandidate \/ quest.apiVersion = "v1")
              /\ quest.status \notin {"COMPLETED", "FAILED"} => Active = Roster
        /\ GroupCandidate /\ quest.status \in {"COMPLETED", "FAILED"} => Active = {}
        /\ GroupCandidate /\ quest.status = "COMPLETED" => AssignmentsWith("INCOMPLETE") = {}

\* An underfilled decision asks the roster it found.
Underfilling ==
    /\ underfilled.state # "NONE" =>
         /\ quest.apiVersion = "v2" /\ GroupFcfs /\ StartTime <= now
         /\ quest.status \notin Drafted
    /\ quest.status = "OPEN" /\ underfilled.state # "NONE" =>
         /\ underfilled.state \in Asking
         /\ underfilled.asked = Active
    /\ underfilled.state = "COMPLETED" =>
         /\ quest.status # "OPEN"
         /\ Roster \subseteq underfilled.accepted

\* The roster, the price of its slots and the underfilled decision agree.
RosterInv ==
    /\ quest.status # "NONE" => SoundKind(quest.kind)
    /\ OpenRoster /\ WorkedRoster /\ Underfilling

\* Of a v1 Quest a Proof is the Team's, sent by its Leader, or that of a Worker
\* on the roster, and one is accepted only once work was submitted; an edit
\* request is pending exactly while the Quest waits for consent.
LegacyOwned ==
    quest.apiVersion = "v1" =>
        /\ EditPending => quest.status = "AWAITING_CONSENT"
        /\ GroupCandidate => \A w \in Workers : Sent(w) => w = leader
        /\ ~Terminal => \A w \in Workers : Sent(w) => w \in Active
        /\ \A w \in Workers : Accepted(w) =>
              \/ quest.status \in {"SUBMITTED", "REWORK", "COMPLETED", "FAILED"}
              \/ quest.status = "AWAITING_CONSENT" /\ legacy.resumes \in {"SUBMITTED", "REWORK"}
        /\ GroupCandidate /\ quest.status = "FAILED" /\ AssignmentsWith("COMPLETED") # {}
              => Accepted(leader)
        /\ quest.status \in Drafted \union {"OPEN"} => \A w \in Workers : ~Sent(w)

\* What every step may rest on.
Known == QuestInv /\ MoneyTypes /\ RosterInv /\ LegacyOwned

\* The Escrow is there from the publication to the end, and what remains of it
\* is not lost from sight.
EscrowStands ==
    /\ quest.status \in Drafted => escrow.status = "NONE"
    /\ quest.status \notin Drafted \union {"CANCELLED"} => escrow.status # "NONE"
    /\ quest.status = "CANCELLED" => escrow.status # "ACTIVE"
    /\ escrow.remaining >= 0
    /\ escrow.status # "ACTIVE" => escrow.remaining = 0
    /\ ~Terminal => quest.holdSince = Never /\ Undisturbed
    /\ allocation.status = "PENDING" => GroupCandidate /\ quest.status = "COMPLETED"
    /\ EndedQuestStrandsNothing

\* The Escrow covers what is owed.
EscrowInv == EscrowStands /\ EscrowCoversSlots

\* Whoever is on the roster and has not been paid, or is not on it.
Waiting == {"NONE", "ACTIVE", "INCOMPLETE"}

\* Each Worker was paid what was agreed, once, or nothing.
PaidEach ==
    \A w \in Workers :
        /\ assignment[w] = "COMPLETED" /\ ~GroupCandidate => ledger.paid[w] = RewardOf(w)
        /\ assignment[w] \in Waiting => ledger.paid[w] = 0

\* What was accepted of a v1 Quest that ended is paid.
LatePaid ==
    quest.apiVersion = "v1" /\ Terminal =>
        \A w \in Workers : Accepted(w) =>
            /\ assignment[w] = "COMPLETED"
            /\ GroupCandidate => SumOf(ledger.paid) = RewardPool

\* So that everybody was paid as agreed.
PaidInv == PaidEach /\ LatePaid

\* The release of the hold has not come to w's Proof.
Unswept(w) ==
    /\ escrow.status # "RELEASED"
    /\ sweepNow = 0 \/ sweepNow < proof[w].sentAt + ReviewWindow

\* No Quest is swept before it ends.  A Proof that waits is one a settlement
\* could still pay, and was there before the hold began.
WaitInv ==
    /\ ~Terminal => sweepNow = 0 /\ \A w \in Workers : Pending(w) => proof[w].sentAt <= now
    /\ quest.apiVersion = "v1" => SumOf(ledger.disputed) = 0
    /\ quest.apiVersion = "v2" /\ Reviewable => \A w \in Workers : Pending(w) =>
          /\ quest.kind.proofRequired
          /\ IF GroupCandidate THEN quest.status = "IN_PROGRESS" ELSE w \in Active
          /\ SumOf(ledger.disputed) = 0 /\ quest.status = "FAILED" =>
                Unswept(w) /\ proof[w].sentAt <= quest.holdSince
    /\ quest.apiVersion = "v1" /\ quest.status = "FAILED" =>
          \A w \in Workers : LegacyReviewable(w) => Unswept(w)

\* Whoever shares a reward is one of fewer than were asked for.
SharesFew == underfilled.state = "COMPLETED" => Shares <= quest.kind.headcount

-----------------------------------------------------------------------------
(* What a step does to the money, the roster and the Proofs *)

SameShape ==
    /\ quest'.apiVersion = quest.apiVersion
    /\ quest.apiVersion = "v2" => quest'.kind.proofRequired = quest.kind.proofRequired
    /\ quest'.kind.mode = quest.kind.mode
    /\ quest'.kind.participation = quest.kind.participation
    /\ quest'.kind.headcount = quest.kind.headcount

SameHold == quest'.holdSince = quest.holdSince
RosterKept == UNCHANGED <<assignment, rank, leader>>
MoneyKept == UNCHANGED <<escrow, ledger, underfilled, allocation>>

\* No edit request of a v1 Quest begins or ends, and no failed one moves its
\* due time.
EditKept ==
    quest.apiVersion = "v1" =>
        /\ edit'.status = edit.status /\ legacy'.resumes = legacy.resumes
        /\ quest.status = "FAILED" => legacy'.dueAt = legacy.dueAt

Quiet == UNCHANGED <<now, sweepNow, proof>> /\ EditKept

\* The Hirer drafts.
Drafts ==
    /\ quest.status \in Drafted /\ quest'.status \in {"DRAFT", "CANCELLED"}
    /\ quest'.apiVersion = quest.apiVersion /\ SameHold
    /\ SoundKind(quest'.kind) \/ (quest.status = "DRAFT" /\ SameShape)
    /\ RosterKept /\ MoneyKept /\ Quiet

\* The Escrow is reserved.
Publishes ==
    /\ quest.status = "DRAFT" /\ quest'.status = "OPEN" /\ SameShape /\ SameHold
    /\ escrow' = [status |-> "ACTIVE", remaining |-> PublishedEscrow]
    /\ RosterKept /\ UNCHANGED <<ledger, underfilled, allocation>> /\ Quiet

\* Another kind for an OPEN Quest, with the headcount that was funded.
Reshapes ==
    /\ quest.apiVersion = "v2" /\ quest'.apiVersion = "v2"
    /\ quest.status = "OPEN" /\ quest'.status = "OPEN" /\ SameHold
    /\ now < StartTime /\ \A w \in Workers : assignment[w] = "NONE"
    /\ SoundKind(quest'.kind) /\ quest'.kind.headcount = quest.kind.headcount
    /\ RosterKept /\ MoneyKept /\ Quiet

\* A Worker takes the next slot.
Joins(w) ==
    /\ quest.status = "OPEN" /\ quest.kind.mode = "FCFS" /\ SameShape /\ SameHold
    /\ assignment[w] = "NONE" /\ Cardinality(Active) < quest.kind.headcount
    /\ quest.apiVersion = "v2" => now < StartTime
    /\ assignment' = [assignment EXCEPT ![w] = "ACTIVE"]
    /\ rank' = [rank EXCEPT ![w] = Cardinality(Active) + 1] /\ leader' = leader
    /\ quest'.status = IF Cardinality(Active) + 1 = quest.kind.headcount
                       THEN "ASSIGNED" ELSE "OPEN"
    /\ MoneyKept /\ Quiet

\* The Hirer selects a Candidate or a Team.
Selects(S, l) ==
    /\ quest.status = "OPEN" /\ quest'.status = "ASSIGNED" /\ SameShape /\ SameHold
    /\ quest.kind.mode = "CANDIDATE"
    /\ GroupCandidate => l \in S
    /\ ~GroupCandidate /\ quest.apiVersion = "v2" => Cardinality(S) = 1
    /\ quest.apiVersion = "v1" => Cardinality(S) = quest.kind.headcount
    /\ assignment' = [w \in Workers |-> IF w \in S THEN "ACTIVE" ELSE assignment[w]]
    /\ leader' = l
    /\ MoneyKept /\ Quiet

\* The underfilled decision goes on.
Decides ==
    /\ quest.apiVersion = "v2" /\ quest.status = "OPEN" /\ quest' = quest
    /\ Decision.state \in Asking /\ underfilled'.state \in Asking
    /\ underfilled'.asked = Decision.asked
    /\ RosterKept /\ UNCHANGED <<escrow, ledger, allocation>> /\ Quiet

\* The last of the Workers that were asked accepts the shares.
Consents ==
    /\ quest.apiVersion = "v2" /\ quest.status = "OPEN" /\ quest'.status = "ASSIGNED"
    /\ SameShape /\ SameHold
    /\ underfilled.state \in Asking /\ underfilled'.state = "COMPLETED"
    /\ underfilled'.accepted = underfilled.asked
    /\ RosterKept /\ UNCHANGED <<escrow, ledger, allocation>> /\ Quiet

\* Every cancellation of a Quest that was published.
Cancels(pay, cut) ==
    /\ quest.status \in {"OPEN", "ASSIGNED", "IN_PROGRESS"}
    /\ quest'.status = "CANCELLED" /\ SameShape /\ SameHold
    /\ SettleEscrow(pay, cut, TRUE)
    /\ \A w \in Workers : pay[w] # 0 =>
          w \in Active \/ (GroupCandidate /\ w = leader /\ quest.status # "OPEN")
    /\ EndAssignments(Active, "CANCELLED") /\ UNCHANGED <<rank, leader, allocation>>
    /\ \/ underfilled' = underfilled
       \/ /\ quest.apiVersion = "v2" /\ quest.status = "OPEN"
          /\ Decision.state \in Asking /\ underfilled'.state = "CANCELLED"
    /\ Quiet

\* One Worker's work is accepted and paid.
PaysWorker(w) ==
    LET left == escrow.remaining - SumOf(Rewards({w})) - SumOf(Fees({w}))
        unpaid == IF GroupFcfs THEN AssignmentsWith("INCOMPLETE") ELSE {}
    IN  /\ quest.apiVersion = "v2" /\ ~GroupCandidate /\ w \in Active
        /\ quest.status \in {"IN_PROGRESS", "FAILED"} /\ SameShape
        /\ SettleEscrow(Rewards({w}), Fees({w}), FALSE)
        /\ EndAssignments({w}, "COMPLETED")
        /\ \/ /\ quest.status = "IN_PROGRESS" /\ Active = {w}
              /\ left = SlotsOf(unpaid)
              /\ quest'.status = "COMPLETED"
              /\ quest'.holdSince = IF unpaid = {} THEN quest.holdSince ELSE now
           \/ /\ quest.status # "IN_PROGRESS" \/ Active # {w}
              /\ quest'.status = quest.status /\ SameHold
        /\ UNCHANGED <<rank, leader, underfilled, allocation, now, sweepNow>> /\ EditKept
        /\ \/ proof' = proof /\ ~quest.kind.proofRequired
           \/ Pending(w) /\ proof' = [proof EXCEPT ![w].status = "APPROVED"]

\* A Team's work is accepted, and its Leader asked to divide the reward.
TeamDone ==
    /\ quest.apiVersion = "v2" /\ GroupCandidate /\ leader \in Active
    /\ escrow.status = "ACTIVE"
    /\ quest.status = "IN_PROGRESS" /\ quest'.status = "COMPLETED" /\ SameShape /\ SameHold
    /\ EndAssignments(Active, "COMPLETED")
    /\ allocation'.status = "PENDING"
    /\ UNCHANGED <<escrow, ledger, rank, leader, underfilled, now, sweepNow>> /\ EditKept

\* Workers of a v2 Quest fail, and with the last of them the Quest.
Fails(S) ==
    /\ quest.apiVersion = "v2" /\ SameShape
    /\ quest.status \in {"ASSIGNED", "IN_PROGRESS", "FAILED"}
    /\ EndAssignments(S, "INCOMPLETE")
    /\ GroupCandidate => Active \subseteq S
    /\ \/ /\ quest'.status = "FAILED"
          /\ quest'.holdSince = IF quest.status = "FAILED" THEN quest.holdSince ELSE now
       \/ /\ GroupFcfs /\ quest.status = "IN_PROGRESS" /\ quest'.status = "IN_PROGRESS"
          /\ SameHold
       \/ /\ GroupFcfs /\ quest.status = "IN_PROGRESS" /\ quest'.status = "COMPLETED"
          /\ Active \subseteq S
          /\ quest'.holdSince = now
    /\ \A v \in Workers : Pending(v)' => proof'[v] = proof[v] /\ v \notin S
    /\ MoneyKept /\ UNCHANGED <<rank, leader, now, sweepNow>> /\ EditKept

\* The reward of a Team is divided among its Members.
Allocates(split) ==
    /\ quest.apiVersion = "v2" /\ quest.status = "COMPLETED" /\ quest' = quest
    /\ allocation.status = "PENDING" /\ allocation'.status # "PENDING"
    /\ SettleEscrow(split, LeaderFee, FALSE) /\ escrow'.remaining = 0
    /\ \A w \in Workers : assignment[w] # "COMPLETED" => split[w] = 0
    /\ RosterKept /\ underfilled' = underfilled /\ Quiet

\* The money hold is over.
Releases ==
    /\ quest.holdSince # Never /\ quest.holdSince + HoldWindow <= sweepNow
    /\ quest' = quest
    /\ ReleaseEscrow
    /\ RosterKept /\ UNCHANGED <<underfilled, allocation>> /\ Quiet

\* An Admin awards money of a Quest whose hold runs.
Awarded(w) ==
    /\ quest.apiVersion = "v2" /\ quest.holdSince # Never /\ quest' = quest
    /\ \E amount \in Awards \ {0} : PayAward(w, amount)
    /\ RosterKept /\ UNCHANGED <<underfilled, allocation>> /\ Quiet

\* The states of a Quest somebody works on.
UnderWay == {"ASSIGNED", "IN_PROGRESS", "SUBMITTED", "APPROVED", "REWORK", "AWAITING_CONSENT"}

\* Time may pass, or work begin; nothing is sent, decided or released.
Passes ==
    /\ now' \in {now, now + 1}
    /\ \/ quest'.status = quest.status
       \/ quest.status = "ASSIGNED" /\ quest'.status = "IN_PROGRESS"
    /\ UNCHANGED <<sweepNow, proof>> /\ EditKept

\* The lifecycle worker is past its approvals.
Sweeps ==
    /\ quest' = quest /\ UNCHANGED <<now, edit, legacy>>
    /\ \/ quest.apiVersion = "v2" /\ SweepPassesApprovals
       \/ quest.apiVersion = "v1" /\ SweepPassesLegacyApprovals

\* A Worker sends the Proof of a v2 Quest.
Sends(w) ==
    /\ quest.apiVersion = "v2" /\ quest.status = "IN_PROGRESS" /\ quest' = quest
    /\ quest.kind.proofRequired /\ w \in Owners
    /\ proof' = [proof EXCEPT ![w] = [status |-> "PENDING", sentAt |-> now]]
    /\ UNCHANGED <<now, sweepNow>>

\* Work on a v1 Quest is sent, confirmed or reviewed, and nobody is paid.
WorksV1(o) ==
    /\ quest.apiVersion = "v1" /\ o \in LegacyOwners
    /\ \/ quest'.status = quest.status
       \/ /\ quest.status \in {"IN_PROGRESS", "SUBMITTED", "REWORK"}
          /\ quest'.status \in {"SUBMITTED", "REWORK"}
    /\ \/ proof' = proof /\ quest.status # "FAILED"
       \/ /\ Working /\ now < legacy.dueAt
          /\ proof' = [proof EXCEPT ![o] = [status |-> "PENDING", sentAt |-> now]]
       \/ /\ Pending(o) /\ quest.status \in {"SUBMITTED", "REWORK"}
          /\ proof' = [proof EXCEPT ![o].status = "APPROVED"]
       \/ /\ Pending(o) /\ quest.status \in {"SUBMITTED", "REWORK", "FAILED"}
          /\ proof' = [proof EXCEPT ![o].status = "NOT_APPROVED"]
    /\ UNCHANGED <<now, sweepNow>> /\ EditKept

\* A v1 Quest pauses for an edit, and goes on where it was.
Pauses ==
    /\ quest.apiVersion = "v1" /\ quest.status \in ConsentStatuses
    /\ quest'.status = "AWAITING_CONSENT" /\ legacy'.resumes = quest.status
    /\ UNCHANGED <<now, sweepNow, proof>>

Resumes ==
    /\ quest.apiVersion = "v1" /\ EditPending /\ ~EditPending'
    /\ quest'.status = legacy.resumes
    /\ UNCHANGED <<now, sweepNow, proof>>

\* A read finds the Quest moved on while the decision was pending.
Abandons ==
    /\ quest.status # "OPEN" /\ underfilled.state \in Asking
    /\ underfilled' = [underfilled EXCEPT !.state = "CANCELLED"]

\* Money and roster stay as they are.
Stays ==
    /\ SameShape /\ SameHold /\ RosterKept /\ UNCHANGED <<escrow, ledger, allocation>>
    /\ quest'.status = quest.status \/ {quest.status, quest'.status} \subseteq UnderWay
    /\ underfilled' = underfilled \/ Abandons
    /\ \/ Passes \/ Sweeps \/ Pauses \/ Resumes
       \/ \E w \in Workers : Sends(w) \/ WorksV1(w)

\* All the work of a v1 Quest is accepted.
CompletesV1 ==
    /\ quest.apiVersion = "v1" /\ quest.status \in {"SUBMITTED", "REWORK"}
    /\ quest'.status = "COMPLETED" /\ SameShape /\ SameHold
    /\ escrow.remaining = PublishedEscrow
    /\ SettleEscrow(Rewards(Active), Fees(Active), FALSE) /\ escrow'.remaining = 0
    /\ EndAssignments(Active, "COMPLETED")
    /\ UNCHANGED <<rank, leader, underfilled, allocation, now, sweepNow>> /\ EditKept
    /\ \A w \in Workers : Sent(w)' <=> Sent(w)

\* A v1 Quest fails; what was accepted before is paid.
FailsV1(S) ==
    LET accepted == {o \in Workers : Accepted(o)}
    IN  /\ quest.apiVersion = "v1"
        /\ quest.status \in {"ASSIGNED", "IN_PROGRESS", "SUBMITTED", "REWORK"}
        /\ quest'.status = "FAILED" /\ SameShape /\ quest'.holdSince = now
        /\ GroupCandidate => Active \subseteq S
        /\ SettleAfterFailure(accepted)
        /\ assignment' = [w \in Workers |->
               IF w \in Covered(accepted) THEN "COMPLETED"
               ELSE IF w \in S \intersect Active THEN "INCOMPLETE" ELSE assignment[w]]
        /\ UNCHANGED <<rank, leader, underfilled, allocation, now, sweepNow, edit, legacy>>
        /\ \/ proof' = proof
           \/ \E o \in Workers : /\ Pending(o) /\ Active \subseteq S
                                 /\ proof' = [proof EXCEPT ![o].status = "NOT_APPROVED"]

\* Work that was sent before the failure is accepted after it.
PaysLate(o) ==
    /\ quest.apiVersion = "v1" /\ quest.status = "FAILED" /\ quest' = quest
    /\ Pending(o) /\ o \in LegacyOwners
    /\ SettleEscrow(PriceOf({o}), FeeFor({o}), FALSE)
    /\ assignment' = [w \in Workers |->
           IF w \in Covered({o}) THEN "COMPLETED" ELSE assignment[w]]
    /\ proof' = [proof EXCEPT ![o].status = "APPROVED"]
    /\ UNCHANGED <<rank, leader, underfilled, allocation, now, sweepNow, edit, legacy>>

Amounts == [Workers -> Int]

Moves ==
    \/ Drafts \/ Publishes \/ Reshapes \/ Decides \/ Consents
    \/ \E w \in Workers : Joins(w) \/ PaysWorker(w) \/ Awarded(w) \/ PaysLate(w)
    \/ \E S \in SUBSET Workers, l \in Workers \union {NoWorker} : Selects(S, l)
    \/ \E pay \in Amounts, cut \in Amounts : Cancels(pay, cut)
    \/ \E split \in Amounts : Allocates(split)
    \/ \E S \in SUBSET Workers : Fails(S) \/ FailsV1(S)
    \/ TeamDone \/ Releases \/ Stays \/ CompletesV1

-----------------------------------------------------------------------------
(* How a step moves the state of the Quest *)

\* The row keeps its API version, its kind and its Condition, does not go
\* back to a draft, and as a v2 Quest does not leave the late states.
StateGoes ==
    /\ quest' \in QuestRows
    /\ quest'.apiVersion = quest.apiVersion
    /\ quest'.kind = quest.kind
    /\ quest'.condition = quest.condition
    /\ quest'.status \in Drafted => quest.status \in Drafted
    /\ quest.apiVersion = "v2" /\ quest.status \in Late => quest'.status \in Late

\* The states applyQuestStateTransition moves a v2 Quest to.
V2Targets == {"OPEN", "ASSIGNED", "IN_PROGRESS", "COMPLETED", "CANCELLED", "FAILED"}

\* A row that does not change goes nowhere.
LEMMA StateKept ==
    ASSUME Types, UNCHANGED quest
    PROVE  StateGoes
BY DEF Types, StateGoes

\* No transition leads to a draft, and none of v2 out of the late states.
LEMMA Predecessors ==
    ASSUME NEW to \in QuestStatuses, NEW s \in AllowedPredecessors[to]
    PROVE  /\ to \notin Drafted
           /\ s \in Late /\ to \in V2Targets => to \in Late
BY DEF AllowedPredecessors, QuestStatuses, ConsentStatuses, Drafted, Late, V2Targets

\* applyQuestStateTransition, of v2 or to any state of a v1 Quest.
LEMMA StateEntered ==
    ASSUME Types, NEW to \in QuestStatuses, NEW hold \in BOOLEAN, EnterState(to, hold),
           quest.apiVersion = "v1" \/ to \in V2Targets
    PROVE  StateGoes /\ quest'.status = to /\ quest.status \in AllowedPredecessors[to]
<1>1. quest.status \in AllowedPredecessors[to]
  BY DEF EnterState
<1>2. TerminalStamp(to, hold) \in Times \union {Never}
  BY DEF TerminalStamp, Types, QuestRows
<1>3. quest \in QuestRows
  BY DEF Types
<1> DEFINE stamp == TerminalStamp(to, hold)
<1>4. quest' = [quest EXCEPT !.status = to, !.holdSince = stamp]
  BY DEF EnterState
<1>5. stamp \in Times \union {Never}
  BY <1>2
<1> HIDE DEF stamp
<1>6. /\ quest' \in QuestRows
      /\ quest'.apiVersion = quest.apiVersion
      /\ quest'.kind = quest.kind
      /\ quest'.condition = quest.condition
      /\ quest'.status = to
  BY <1>3, <1>4, <1>5 DEF QuestRows
<1> QED
  BY <1>1, <1>6, Predecessors DEF StateGoes, V2Targets, Late

\* Ended Assignments were ACTIVE; the others stay.
LEMMA AssignmentsEnded ==
    ASSUME Types, NEW S, NEW s \in AssignmentStatuses, EndAssignments(S, s)
    PROVE  /\ assignment' \in [Workers -> AssignmentStatuses]
           /\ \A w \in Workers :
                 /\ assignment'[w] \in {assignment[w], s}
                 /\ assignment'[w] # assignment[w] => assignment[w] = "ACTIVE" /\ w \in S
                 /\ w \in S => assignment'[w] # "ACTIVE" \/ s = "ACTIVE"
BY DEF EndAssignments, Types

-----------------------------------------------------------------------------
(* How a step moves everything the invariant reads *)

\* The row of the Quest, also when its kind is written before work starts.
RowGoes ==
    /\ quest' \in QuestRows
    /\ quest'.apiVersion = quest.apiVersion
    /\ quest'.status \in Drafted =>
           (quest.status \in Drafted \/ \A w \in Workers : assignment[w] = "NONE")
           /\ assignment' = assignment
    /\ quest.apiVersion = "v2" =>
           /\ quest.status \in Late => quest'.status \in Late
           /\ quest'.kind # quest.kind \/ leader' # leader => quest.status \notin Late

\* A v2 Proof is sent in progress, of a Team by its Leader, and only who sent
\* none or was refused fails.
ProofsGo ==
    quest.apiVersion = "v2" => \A w \in Workers :
        /\ Sent(w)' => \/ Sent(w)
                       \/ quest.status = "IN_PROGRESS" /\ (GroupCandidate => w = leader)
        /\ assignment'[w] = "INCOMPLETE" => proof'[w].status \in {"NONE", "NOT_APPROVED"}

Goes == Types' /\ RowGoes /\ ProofsGo

\* Every such step keeps the invariant.
LEMMA GoesKeeps ==
    ASSUME QuestInv, Goes
    PROVE  QuestInv'
<1>1. NobodyYet'
  BY DEF QuestInv, Goes, RowGoes, NobodyYet
<1>2. SentLate'
  <2> SUFFICES ASSUME quest.apiVersion = "v2", NEW w \in Workers, Sent(w)'
               PROVE  quest'.status \in Late /\ (GroupCandidate' => w = leader')
    BY DEF SentLate, Goes, RowGoes
  <2>1. CASE Sent(w)
    BY <2>1 DEF QuestInv, SentLate, Goes, RowGoes, GroupCandidate
  <2>2. CASE ~Sent(w)
    BY <2>2 DEF Goes, RowGoes, ProofsGo, GroupCandidate, Late
  <2> QED
    BY <2>1, <2>2
<1>3. SentProofIsReviewed'
  BY DEF Goes, RowGoes, ProofsGo, SentProofIsReviewed
<1> QED
  BY <1>1, <1>2, <1>3 DEF QuestInv, Goes

\* Nothing is agreed where the terms stay.
LEMMA SameTerms ==
    ASSUME quest'.kind = quest.kind, quest'.condition = quest.condition,
           legacy'.dueAt = legacy.dueAt
    PROVE  TermsAgreed
BY DEF TermsAgreed, CurrentTerms

\* What a step must show that enters a state or none, and sends no Proof.
LEMMA SteadyStep ==
    ASSUME QuestInv, StateGoes, now' \in Times, edit' \in EditRows,
           legacy' \in LegacyRows, legacy'.dueAt = legacy.dueAt,
           assignment' \in [Workers -> AssignmentStatuses], proof' = proof,
           quest'.status \in Drafted => assignment' = assignment,
           leader' # leader => quest.status \notin Late,
           quest.apiVersion = "v2" => \A w \in Workers :
               assignment'[w] = "INCOMPLETE" =>
                   assignment[w] = "INCOMPLETE" \/ proof[w].status \in {"NONE", "NOT_APPROVED"}
    PROVE  QuestInv' /\ TermsAgreed
<1>1. Types'
  BY DEF QuestInv, Types, StateGoes
<1>2. RowGoes
  BY DEF StateGoes, RowGoes
<1>3. ProofsGo
  BY DEF ProofsGo, QuestInv, SentProofIsReviewed, Sent
<1>4. QuestInv'
  BY <1>1, <1>2, <1>3, GoesKeeps DEF Goes
<1>5. TermsAgreed
  BY SameTerms DEF StateGoes
<1> QED
  BY <1>4, <1>5

\* A step of a v2 Quest that sends no Proof and ends the work of nobody who
\* waits for a decision.
LEMMA CalmStep ==
    ASSUME QuestInv, StateGoes, UNCHANGED <<now, edit, legacy, proof, leader>>,
           UNCHANGED assignment \/
              (quest'.status \notin Drafted
                  /\ \E S \in SUBSET Workers, s \in {"COMPLETED", "CANCELLED"} :
                        EndAssignments(S, s))
    PROVE  QuestInv' /\ TermsAgreed
<1>1. Types
  BY DEF QuestInv
<1>2. CASE UNCHANGED assignment
  <2>1. now' \in Times /\ edit' \in EditRows /\ legacy' \in LegacyRows
        /\ assignment' \in [Workers -> AssignmentStatuses]
    BY <1>1, <1>2 DEF Types
  <2> QED
    BY <2>1, <1>2, SteadyStep
<1>3. CASE ~UNCHANGED assignment
  <2>1. PICK S \in SUBSET Workers, s \in {"COMPLETED", "CANCELLED"} :
                EndAssignments(S, s)
    BY <1>3
  <2>2. s \in AssignmentStatuses
    BY DEF AssignmentStatuses
  <2>3. /\ assignment' \in [Workers -> AssignmentStatuses]
        /\ \A w \in Workers : assignment'[w] \in {assignment[w], s}
    BY <1>1, <2>1, <2>2, AssignmentsEnded
  <2>4. now' \in Times /\ edit' \in EditRows /\ legacy' \in LegacyRows
    BY <1>1 DEF Types
  <2>5. \A w \in Workers : assignment'[w] = "INCOMPLETE" => assignment[w] = "INCOMPLETE"
    BY <2>3
  <2> QED
    BY <2>3, <2>4, <2>5, <1>3, SteadyStep
<1> QED
  BY <1>2, <1>3

-----------------------------------------------------------------------------
(* From the draft to the start of work *)

\* A draft, or an OPEN Quest nobody is on, gets another kind or Condition.
LEMMA Redrafted ==
    ASSUME QuestInv, quest' \in QuestRows, quest'.apiVersion = quest.apiVersion,
           quest.status \notin Late, quest'.status \notin Drafted \ {"DRAFT"},
           quest.status \in Drafted \/ \A w \in Workers : assignment[w] = "NONE",
           now' \in Times, edit' \in EditRows, legacy' \in LegacyRows,
           UNCHANGED <<assignment, leader, proof>>
    PROVE  QuestInv' /\ TermsAgreed
<1>1. \A w \in Workers : assignment[w] = "NONE"
  BY DEF QuestInv, NobodyYet
<1>2. Types'
  BY DEF QuestInv, Types
<1>3. RowGoes
  BY <1>1 DEF RowGoes
<1>4. ProofsGo
  BY DEF ProofsGo, QuestInv, SentProofIsReviewed, Sent
<1>5. Active = {}
  BY <1>1 DEF Active, AssignmentsWith
<1>6. QuestInv'
  BY <1>2, <1>3, <1>4, GoesKeeps DEF Goes
<1>7. TermsAgreed
  BY <1>5 DEF TermsAgreed
<1> QED
  BY <1>6, <1>7

\* createQuestV2 and createQuest, editQuestV2 and editQuest write such rows.
LEMMA KindWritten ==
    ASSUME Types, NEW k \in Kinds, NEW c \in Conditions,
           \/ quest' = [quest EXCEPT !.status = "DRAFT", !.kind = k, !.condition = c]
           \/ quest' = [quest EXCEPT !.kind = k, !.condition = c]
    PROVE  /\ quest' \in QuestRows /\ quest'.apiVersion = quest.apiVersion
           /\ quest'.status \in {"DRAFT", quest.status}
BY KindsAssumption DEF Types, QuestRows, QuestStatuses

\* Every cancellation.
LEMMA CancelKeeps ==
    ASSUME QuestInv, NEW pay, NEW cut, CancelQuest(pay, cut),
           UNCHANGED <<now, edit, legacy, proof, leader>>
    PROVE  QuestInv' /\ TermsAgreed
<1>1. StateGoes /\ quest'.status = "CANCELLED"
  BY StateEntered DEF CancelQuest, QuestInv, QuestStatuses, V2Targets
<1>2. EndAssignments(Active, "CANCELLED") /\ Active \in SUBSET Workers
  BY DEF CancelQuest, Active, AssignmentsWith
<1>3. \E S \in SUBSET Workers, s \in {"COMPLETED", "CANCELLED"} : EndAssignments(S, s)
  BY <1>2
<1> QED
  BY <1>1, <1>3, CalmStep DEF Drafted

\* cancelUnderfilledInTransaction
LEMMA CancelUnderfilledKeeps ==
    ASSUME QuestInv, CancelUnderfilled, UNCHANGED <<edit, legacy, proof>>
    PROVE  QuestInv' /\ TermsAgreed
<1>1. CASE quest.status = "OPEN"
  BY <1>1, CancelKeeps DEF CancelUnderfilled
<1>2. CASE quest.status # "OPEN"
  BY <1>2, CalmStep, StateKept DEF CancelUnderfilled, QuestInv
<1> QED
  BY <1>1, <1>2

\* The row of the underfilled decision alone.
LEMMA NothingMoves ==
    ASSUME QuestInv, UNCHANGED <<now, quest, assignment, leader, proof, edit, legacy>>
    PROVE  QuestInv' /\ TermsAgreed
BY CalmStep, StateKept DEF QuestInv

\* A transition alone.
LEMMA OnlyEnters ==
    ASSUME QuestInv, NEW to \in QuestStatuses, NEW hold \in BOOLEAN, EnterState(to, hold),
           quest.apiVersion = "v1" \/ to \in V2Targets,
           UNCHANGED <<now, assignment, leader, proof, edit, legacy>>
    PROVE  QuestInv' /\ TermsAgreed
BY CalmStep, StateEntered DEF QuestInv

\* joinQuestV2 and joinNoCandidateQuest: one more row on an OPEN Quest.
LEMMA JoinKeeps ==
    ASSUME QuestInv, NEW w \in Workers, quest.status = "OPEN",
           assignment' = [assignment EXCEPT ![w] = "ACTIVE"],
           EnterState("ASSIGNED", FALSE) \/ UNCHANGED quest,
           UNCHANGED <<now, leader, proof, edit, legacy>>
    PROVE  QuestInv' /\ TermsAgreed
<1>1. Types
  BY DEF QuestInv
<1>2. StateGoes /\ quest'.status \in {"OPEN", "ASSIGNED"}
  BY <1>1, StateEntered, StateKept DEF QuestStatuses, V2Targets
<1>3. /\ assignment' \in [Workers -> AssignmentStatuses]
      /\ \A v \in Workers : assignment'[v] = "INCOMPLETE" => assignment[v] = "INCOMPLETE"
  BY <1>1 DEF Types, AssignmentStatuses
<1>4. now' \in Times /\ edit' \in EditRows /\ legacy' \in LegacyRows
  BY <1>1 DEF Types
<1> QED
  BY <1>2, <1>3, <1>4, SteadyStep DEF Drafted

\* runQuestV2Selection and selectCandidate: the roster of an OPEN Quest at once.
LEMMA SelectKeeps ==
    ASSUME QuestInv, NEW S, quest.status = "OPEN",
           assignment' = [w \in Workers |-> IF w \in S THEN "ACTIVE" ELSE assignment[w]],
           EnterState("ASSIGNED", FALSE),
           UNCHANGED <<now, proof, edit, legacy>>
    PROVE  QuestInv' /\ TermsAgreed
<1>1. Types
  BY DEF QuestInv
<1>2. StateGoes /\ quest'.status = "ASSIGNED"
  BY <1>1, StateEntered DEF QuestStatuses, V2Targets
<1>3. /\ assignment' \in [Workers -> AssignmentStatuses]
      /\ \A v \in Workers : assignment'[v] = "INCOMPLETE" => assignment[v] = "INCOMPLETE"
  BY <1>1 DEF Types, AssignmentStatuses
<1>4. now' \in Times /\ edit' \in EditRows /\ legacy' \in LegacyRows
  BY <1>1 DEF Types
<1> QED
  BY <1>2, <1>3, <1>4, SteadyStep DEF Drafted, Late

\* startQuestWork
LEMMA StartKeeps ==
    ASSUME QuestInv, NEW dueAt, NEW w, StartWorkUntil(dueAt, w),
           UNCHANGED <<proof, edit, legacy>>
    PROVE  QuestInv' /\ TermsAgreed
<1>1. CASE UNCHANGED quest
  BY <1>1, NothingMoves DEF StartWorkUntil
<1>2. CASE ~UNCHANGED quest
  <2>1. EnterState("IN_PROGRESS", FALSE)
    BY <1>2 DEF StartWorkUntil
  <2> QED
    BY <2>1, OnlyEnters DEF StartWorkUntil, QuestStatuses, V2Targets
<1> QED
  BY <1>1, <1>2

\* Drafting, publishing, joining, selecting and the underfilled decision.
LEMMA RosterKeeps ==
    ASSUME QuestInv, RosterStep, UNCHANGED <<workVars, editVars, legacy>>
    PROVE  QuestInv' /\ TermsAgreed
<1>1. UNCHANGED <<proof, edit, legacy>>
  BY DEF workVars, editVars
<1>2. Types
  BY DEF QuestInv
<1>3. now \in Times /\ edit \in EditRows /\ legacy \in LegacyRows
  BY <1>2 DEF Types
<1>4. ASSUME NEW k \in Kinds, NEW c \in Conditions, CreateQuest(k, c) \/ EditQuest(k, c)
      PROVE  QuestInv' /\ TermsAgreed
  <2>1. CASE CreateQuest(k, c)
    <3>1. quest.status = "NONE" /\ quest' = [quest EXCEPT !.status = "DRAFT", !.kind = k, !.condition = c]
      BY <2>1 DEF CreateQuest
    <3>2. quest' \in QuestRows /\ quest'.apiVersion = quest.apiVersion /\ quest'.status = "DRAFT"
      BY <3>1, <1>2, KindWritten DEF Types, QuestRows
    <3> QED
      BY <2>1, <3>1, <3>2, <1>1, <1>3, Redrafted DEF CreateQuest, Drafted, Late, rosterVars
  <2>2. CASE EditQuest(k, c)
    <3>1. /\ quest.status \in {"DRAFT", "OPEN"}
          /\ quest.status = "OPEN" => \A w \in Workers : assignment[w] = "NONE"
          /\ quest' = [quest EXCEPT !.kind = k, !.condition = c]
      BY <2>2 DEF EditQuest, Editable
    <3>2. quest' \in QuestRows /\ quest'.apiVersion = quest.apiVersion /\ quest'.status = quest.status
      BY <3>1, <1>2, KindWritten DEF Types, QuestRows
    <3> QED
      BY <2>2, <3>1, <3>2, <1>1, <1>3, Redrafted DEF EditQuest, Drafted, Late, rosterVars
  <2> QED
    BY <1>4, <2>1, <2>2
<1>5. CASE PublishQuest
  BY <1>5, <1>1, OnlyEnters DEF PublishQuest, QuestStatuses, V2Targets, rosterVars
<1>6. ASSUME NEW S \in SUBSET Workers, NEW l, SelectCandidates(S, l)
      PROVE  QuestInv' /\ TermsAgreed
  BY <1>6, <1>1, SelectKeeps DEF SelectCandidates
<1>7. ASSUME NEW proceed \in BOOLEAN, DecideUnderfilled(proceed)
      PROVE  QuestInv' /\ TermsAgreed
  BY <1>7, <1>1, NothingMoves, CancelUnderfilledKeeps
     DEF DecideUnderfilled, stateVars, rosterVars
<1>8. ASSUME NEW w \in Workers, JoinQuest(w)
      PROVE  QuestInv' /\ TermsAgreed
  BY <1>8, <1>1, JoinKeeps DEF JoinQuest, OnBoard
<1>9. ASSUME NEW w \in Workers, StartWork(w)
      PROVE  QuestInv' /\ TermsAgreed
  BY <1>9, <1>1, StartKeeps DEF StartWork
<1>10. ASSUME NEW w \in Workers, NEW accept \in BOOLEAN, RespondToUnderfilled(w, accept)
       PROVE  QuestInv' /\ TermsAgreed
  <2>1. CASE CancelUnderfilled
    BY <2>1, <1>1, CancelUnderfilledKeeps
  <2>2. CASE EnterState("ASSIGNED", FALSE) /\ UNCHANGED <<now, rosterVars, moneyVars>>
    BY <2>2, <1>1, OnlyEnters DEF QuestStatuses, V2Targets, rosterVars
  <2>3. CASE UNCHANGED stateVars
    BY <2>3, <1>1, NothingMoves DEF stateVars, rosterVars
  <2> QED
    BY <1>10, <2>1, <2>2, <2>3 DEF RespondToUnderfilled
<1>11. CASE DetectUnderfilled
  BY <1>11, <1>1, NothingMoves DEF DetectUnderfilled, stateVars, rosterVars
<1>12. CASE ExpireUnderfilled \/ AbandonUnderfilled
  BY <1>12, <1>1, CancelUnderfilledKeeps DEF ExpireUnderfilled, AbandonUnderfilled
<1>13. CASE AutoCancelUnfilled
  BY <1>13, <1>1, CancelKeeps DEF AutoCancelUnfilled
<1> QED
  BY <1>4, <1>5, <1>6, <1>7, <1>8, <1>9, <1>10, <1>11, <1>12, <1>13 DEF RosterStep, HirerStep

-----------------------------------------------------------------------------
(* The work of a v2 Quest *)

\* The row of a Proof that is sent or decided.
LEMMA ProofWritten ==
    ASSUME Types, NEW w \in Workers, NEW s \in {"PENDING", "APPROVED", "NOT_APPROVED"},
           \/ proof' = [proof EXCEPT ![w].status = s]
           \/ proof' = [proof EXCEPT ![w] = [status |-> s, sentAt |-> now]]
    PROVE  /\ proof' \in [Workers -> ProofRows]
           /\ proof'[w].status = s
           /\ \A v \in Workers : v # w => proof'[v] = proof[v]
BY DEF Types, ProofRows

\* Before a Proof is sent nobody's work has failed for it, and of a Team its
\* Leader sends it.
LEMMA SubmitKeeps ==
    ASSUME QuestInv, NEW w \in Workers, SubmitProof(w), UNCHANGED <<edit, legacy>>
    PROVE  QuestInv' /\ TermsAgreed
<1>1. Types
  BY DEF QuestInv
<1>2. /\ proof' = [proof EXCEPT ![w] = [status |-> "PENDING", sentAt |-> now]]
      /\ UNCHANGED <<now, quest, assignment, leader>>
      /\ quest.status = "IN_PROGRESS"
      /\ w \in Owners
  BY DEF SubmitProof, stateVars, rosterVars
<1>3. /\ proof' \in [Workers -> ProofRows]
      /\ proof'[w].status = "PENDING"
      /\ \A v \in Workers : v # w => proof'[v] = proof[v]
  BY <1>1, <1>2, ProofWritten
<1>4. Types'
  BY <1>1, <1>2, <1>3 DEF Types
<1>5. assignment[w] = "ACTIVE" /\ (GroupCandidate => w = leader)
  BY <1>2 DEF Owners, Active, AssignmentsWith
<1>6. RowGoes
  BY <1>1, <1>2 DEF RowGoes, Types, Late, Drafted
<1>7. ProofsGo
  BY <1>2, <1>3, <1>5 DEF ProofsGo, QuestInv, SentProofIsReviewed, Sent, GroupCandidate
<1> QED
  BY <1>2, <1>4, <1>6, <1>7, GoesKeeps, SameTerms DEF Goes

\* What a settlement of accepted work does to the roster: w, or the Team whose
\* Leader w is, completed.
Settles(w) ==
    /\ StateGoes
    /\ \E S \in SUBSET Workers : w \in S /\ EndAssignments(S, "COMPLETED")
    /\ w \in Active

\* settleApprovedQuestV2ProofInTransaction
LEMMA WorkerSettled ==
    ASSUME Types, NEW w \in Workers, SettleWorker(w)
    PROVE  Settles(w)
<1>1. w \in Active /\ EndAssignments({w}, "COMPLETED") /\ {w} \in SUBSET Workers
  BY DEF SettleWorker
<1>2. UNCHANGED quest \/ \E hold \in BOOLEAN : EnterState("COMPLETED", hold)
  BY DEF SettleWorker
<1>3. StateGoes
  BY <1>2, StateKept, StateEntered DEF QuestStatuses, V2Targets
<1> QED
  BY <1>1, <1>3 DEF Settles

\* The same of a Team, seen from its Leader.
LEMMA TeamSettled ==
    ASSUME Types, SettleTeam, leader \in Workers
    PROVE  Settles(leader)
<1>1. leader \in Active /\ EndAssignments(Active, "COMPLETED") /\ Active \in SUBSET Workers
  BY DEF SettleTeam, Active, AssignmentsWith
<1>2. UNCHANGED quest \/ EnterState("COMPLETED", FALSE)
  BY DEF SettleTeam
<1>3. StateGoes
  BY <1>2, StateKept, StateEntered DEF QuestStatuses, V2Targets
<1> QED
  BY <1>1, <1>3 DEF Settles

\* Where somebody works the Quest is no draft, and stays none.
LEMMA NoDraftAgain ==
    ASSUME QuestInv, StateGoes, NEW w \in Workers, w \in Active
    PROVE  quest'.status \notin Drafted
BY DEF QuestInv, NobodyYet, StateGoes, Active, AssignmentsWith

\* A confirmation is accepted work without a Proof.
LEMMA ConfirmKeeps ==
    ASSUME QuestInv, NEW w \in Workers, ConfirmCompletion(w), UNCHANGED <<edit, legacy>>
    PROVE  QuestInv' /\ TermsAgreed
<1>1. Types
  BY DEF QuestInv
<1>2. PICK v \in Workers : Settles(v)
  <2>1. CASE GroupCandidate
    <3>1. SettleTeam /\ w \in Owners
      BY <2>1 DEF ConfirmCompletion, SettleConfirmed
    <3>2. leader \in Workers
      BY <2>1, <3>1 DEF Owners
    <3> QED
      BY <1>1, <3>1, <3>2, TeamSettled
  <2>2. CASE ~GroupCandidate
    BY <1>1, <2>2, WorkerSettled DEF ConfirmCompletion, SettleConfirmed
  <2> QED
    BY <2>1, <2>2
<1>3. StateGoes /\ quest'.status \notin Drafted
  BY <1>2, NoDraftAgain DEF Settles
<1>4. \E S \in SUBSET Workers, s \in {"COMPLETED", "CANCELLED"} : EndAssignments(S, s)
  BY <1>2 DEF Settles
<1>5. UNCHANGED <<now, edit, legacy, proof, leader>>
  BY DEF ConfirmCompletion
<1> QED
  BY <1>3, <1>4, <1>5, CalmStep

\* The accepted Worker completes, so that nobody's accepted work has failed.
LEMMA ApproveKeeps ==
    ASSUME QuestInv, quest.apiVersion = "v2", NEW w \in Workers, ApproveProof(w),
           UNCHANGED <<edit, legacy>>
    PROVE  QuestInv' /\ TermsAgreed
<1>1. Types
  BY DEF QuestInv
<1>2. Sent(w)
  BY DEF ApproveProof, Pending, Sent
<1>3. Settles(w)
  <2>1. CASE GroupCandidate
    <3>1. w = leader
      BY <2>1, <1>2 DEF QuestInv, SentLate
    <3> QED
      BY <2>1, <3>1, <1>1, TeamSettled DEF ApproveProof
  <2>2. CASE ~GroupCandidate
    BY <2>2, <1>1, WorkerSettled DEF ApproveProof
  <2> QED
    BY <2>1, <2>2
<1>4. PICK S \in SUBSET Workers : w \in S /\ EndAssignments(S, "COMPLETED")
  BY <1>3 DEF Settles
<1>5. /\ assignment' \in [Workers -> AssignmentStatuses]
      /\ \A v \in Workers : assignment'[v] \in {assignment[v], "COMPLETED"}
      /\ assignment'[w] # "ACTIVE"
  BY <1>1, <1>4, AssignmentsEnded DEF AssignmentStatuses
<1>6. assignment'[w] = "COMPLETED"
  BY <1>3, <1>5 DEF Settles, Active, AssignmentsWith
<1>7. proof' = [proof EXCEPT ![w].status = "APPROVED"] /\ UNCHANGED <<now, leader>>
  BY DEF ApproveProof
<1>8. /\ proof' \in [Workers -> ProofRows]
      /\ \A v \in Workers : v # w => proof'[v] = proof[v]
  BY <1>1, <1>7, ProofWritten
<1>9. StateGoes /\ quest'.status \notin Drafted
  BY <1>3, NoDraftAgain DEF Settles
<1>10. Types'
  BY <1>1, <1>5, <1>7, <1>8, <1>9 DEF Types, StateGoes
<1>11. RowGoes
  BY <1>7, <1>9 DEF RowGoes, StateGoes
<1>12. ProofsGo
  <2> SUFFICES ASSUME NEW v \in Workers
               PROVE  /\ Sent(v)' => Sent(v)
                      /\ assignment'[v] = "INCOMPLETE" =>
                             proof'[v].status \in {"NONE", "NOT_APPROVED"}
    BY DEF ProofsGo
  <2>1. CASE v = w
    BY <2>1, <1>2, <1>6
  <2>2. CASE v # w
    BY <2>2, <1>5, <1>8 DEF QuestInv, SentProofIsReviewed, Sent
  <2> QED
    BY <2>1, <2>2
<1>13. QuestInv'
  BY <1>10, <1>11, <1>12, GoesKeeps DEF Goes
<1>14. TermsAgreed
  BY <1>9, SameTerms DEF StateGoes
<1> QED
  BY <1>13, <1>14

\* failQuestV2InTransaction
LEMMA QuestFailed ==
    ASSUME Types, NEW S, FailQuest(S)
    PROVE  StateGoes /\ EndAssignments(S, "INCOMPLETE")
<1>1. UNCHANGED quest \/ EnterState("FAILED", FALSE)
  BY DEF FailQuest
<1>2. StateGoes
  BY <1>1, StateKept, StateEntered DEF QuestStatuses, V2Targets
<1> QED
  BY <1>2 DEF FailQuest

\* markAssignmentIncompleteV2InTransaction
LEMMA WorkerFailed ==
    ASSUME Types, NEW w \in Workers, FailOneWorker(w)
    PROVE  StateGoes /\ EndAssignments({w}, "INCOMPLETE")
<1>1. CASE FailQuest({w})
  BY <1>1, QuestFailed
<1>2. CASE EndAssignments({w}, "INCOMPLETE") /\ UNCHANGED quest
  BY <1>2, StateKept
<1>3. CASE EndAssignments({w}, "INCOMPLETE") /\ EnterState("COMPLETED", TRUE)
  BY <1>3, StateEntered DEF QuestStatuses, V2Targets
<1> QED
  BY <1>1, <1>2, <1>3 DEF FailOneWorker

\* A refusal fails its sender, or the Team whose other Workers sent nothing.
LEMMA RejectKeeps ==
    ASSUME QuestInv, quest.apiVersion = "v2", NEW w \in Workers, RejectProof(w),
           UNCHANGED <<edit, legacy>>
    PROVE  QuestInv' /\ TermsAgreed
<1>1. Types
  BY DEF QuestInv
<1>2. Sent(w) /\ quest.status \in {"IN_PROGRESS", "FAILED"}
  BY DEF RejectProof, Pending, Sent, Reviewable
<1>3. PICK S \in SUBSET Workers :
          /\ StateGoes /\ EndAssignments(S, "INCOMPLETE")
          /\ \A v \in S : GroupCandidate \/ v = w
  <2>1. CASE GroupFcfs /\ quest.status = "IN_PROGRESS"
    <3>1. StateGoes /\ EndAssignments({w}, "INCOMPLETE")
      BY <2>1, <1>1, WorkerFailed DEF RejectProof
    <3> QED
      BY <3>1
  <2>2. CASE ~(GroupFcfs /\ quest.status = "IN_PROGRESS")
    <3>1. StateGoes /\ EndAssignments(Subject(w), "INCOMPLETE")
      BY <2>2, <1>1, QuestFailed DEF RejectProof
    <3>2. Subject(w) \in SUBSET Workers /\ \A v \in Subject(w) : GroupCandidate \/ v = w
      BY DEF Subject, Active, AssignmentsWith
    <3> QED
      BY <3>1, <3>2
  <2> QED
    BY <2>1, <2>2
<1>4. /\ assignment' \in [Workers -> AssignmentStatuses]
      /\ \A v \in Workers : /\ assignment'[v] \in {assignment[v], "INCOMPLETE"}
                            /\ assignment'[v] # assignment[v] => v \in S
  BY <1>1, <1>3, AssignmentsEnded DEF AssignmentStatuses
<1>5. proof' = [proof EXCEPT ![w].status = "NOT_APPROVED"] /\ UNCHANGED <<now, leader>>
  BY DEF RejectProof
<1>6. /\ proof' \in [Workers -> ProofRows]
      /\ proof'[w].status = "NOT_APPROVED"
      /\ \A v \in Workers : v # w => proof'[v] = proof[v]
  BY <1>1, <1>5, ProofWritten
<1>7. quest'.status \notin Drafted
  BY <1>2, <1>3 DEF StateGoes, Drafted
<1>8. Types'
  BY <1>1, <1>3, <1>4, <1>5, <1>6 DEF Types, StateGoes
<1>9. RowGoes
  BY <1>3, <1>5, <1>7 DEF RowGoes, StateGoes
<1>10. ProofsGo
  <2> SUFFICES ASSUME NEW v \in Workers
               PROVE  /\ Sent(v)' => Sent(v)
                      /\ assignment'[v] = "INCOMPLETE" =>
                             proof'[v].status \in {"NONE", "NOT_APPROVED"}
    BY DEF ProofsGo
  <2>1. CASE v = w
    BY <2>1, <1>2, <1>6
  <2>2. CASE v # w /\ v \notin S
    BY <2>2, <1>4, <1>6 DEF QuestInv, SentProofIsReviewed, Sent
  <2>3. CASE v # w /\ v \in S
    <3>1. w = leader /\ GroupCandidate
      BY <2>3, <1>2, <1>3 DEF QuestInv, SentLate
    <3>2. ~Sent(v)
      BY <2>3, <3>1 DEF QuestInv, SentLate
    <3> QED
      BY <2>3, <3>2, <1>6 DEF Sent
  <2> QED
    BY <2>1, <2>2, <2>3
<1>11. QuestInv'
  BY <1>8, <1>9, <1>10, GoesKeeps DEF Goes
<1>12. TermsAgreed
  BY <1>3, <1>5, SameTerms DEF StateGoes
<1> QED
  BY <1>11, <1>12

\* Whoever the due time fails has sent nothing.
LEMMA LateSentNothing ==
    ASSUME QuestInv, quest.apiVersion = "v2", NEW w \in LateAssignments
    PROVE  w \in Workers /\ ~Sent(w)
<1>1. w \in Workers
  BY DEF LateAssignments, Active, AssignmentsWith
<1>2. CASE quest.status = "ASSIGNED"
  BY <1>1, <1>2 DEF QuestInv, SentLate, Late
<1>3. CASE quest.status = "IN_PROGRESS"
  <2>1. CASE GroupCandidate
    BY <1>1, <1>3, <2>1 DEF LateAssignments, QuestInv, SentLate
  <2>2. CASE ~GroupCandidate
    BY <1>1, <1>3, <2>2 DEF LateAssignments
  <2> QED
    BY <2>1, <2>2
<1> QED
  BY <1>1, <1>2, <1>3 DEF LateAssignments

\* failQuestV2AtDueAt
LEMMA FailAtDueAtKeeps ==
    ASSUME QuestInv, quest.apiVersion = "v2", FailAtDueAt, UNCHANGED <<edit, legacy>>
    PROVE  QuestInv' /\ TermsAgreed
<1>1. Types
  BY DEF QuestInv
<1>2. StateGoes /\ EndAssignments(LateAssignments, "INCOMPLETE")
  BY <1>1, QuestFailed DEF FailAtDueAt
<1>3. /\ assignment' \in [Workers -> AssignmentStatuses]
      /\ \A v \in Workers : /\ assignment'[v] \in {assignment[v], "INCOMPLETE"}
                            /\ assignment'[v] # assignment[v] => v \in LateAssignments
  BY <1>1, <1>2, AssignmentsEnded DEF AssignmentStatuses
<1>4. \A v \in Workers : assignment'[v] = "INCOMPLETE" =>
          assignment[v] = "INCOMPLETE" \/ proof[v].status \in {"NONE", "NOT_APPROVED"}
  BY <1>3, LateSentNothing DEF Sent
<1>5. UNCHANGED <<now, leader, proof>> /\ quest.status \notin Drafted
  BY DEF FailAtDueAt, workVars, Drafted
<1>6. now' \in Times /\ edit' \in EditRows /\ legacy' \in LegacyRows
  BY <1>1, <1>5 DEF Types
<1>7. quest'.status \notin Drafted
  BY <1>2, <1>5 DEF StateGoes
<1> QED
  BY <1>2, <1>3, <1>4, <1>5, <1>6, <1>7, SteadyStep

\* The work of a v2 Quest, its reviews and its settlement.
LEMMA WorkKeeps ==
    ASSUME QuestInv, quest.apiVersion = "v2", WorkStep, UNCHANGED <<editVars, legacy>>
    PROVE  QuestInv' /\ TermsAgreed
<1>1. UNCHANGED <<edit, legacy>>
  BY DEF editVars
<1>2. ASSUME NEW split, NEW status, SettleAllocation(split, status)
      PROVE  QuestInv' /\ TermsAgreed
  BY <1>2, <1>1, NothingMoves DEF SettleAllocation, rosterVars
<1>3. ASSUME NEW w \in Workers, SubmitProof(w) \/ ConfirmCompletion(w)
      PROVE  QuestInv' /\ TermsAgreed
  BY <1>3, <1>1, SubmitKeeps, ConfirmKeeps
<1>4. ASSUME NEW w \in Workers, ApproveProof(w) \/ RejectProof(w) \/ AutoApprove(w)
      PROVE  QuestInv' /\ TermsAgreed
  BY <1>4, <1>1, ApproveKeeps, RejectKeeps DEF AutoApprove
<1>5. CASE FailAtDueAt
  BY <1>5, <1>1, FailAtDueAtKeeps
<1>6. CASE SweepPassesApprovals
  BY <1>6, <1>1, NothingMoves DEF SweepPassesApprovals, stateVars, rosterVars
<1> QED
  BY <1>2, <1>3, <1>4, <1>5, <1>6 DEF WorkStep, SubmitAllocation, AutoAllocate

-----------------------------------------------------------------------------
(* The edit of a v2 Quest *)

\* A request, whoever looks at it, in the row it was written with.
LEMMA EditRowsTyped ==
    ASSUME Types
    PROVE  /\ \A c \in Conditions :
                  [status |-> "PENDING", proposed |-> c, asked |-> Active,
                   accepted |-> {}, declined |-> {}, expiresAt |-> now + EditWindow] \in EditRows
           /\ \A s \in {"PENDING", "APPLIED", "FAILED"}, a, d \in SUBSET Workers :
                  /\ [edit EXCEPT !.status = s] \in EditRows
                  /\ [edit EXCEPT !.accepted = a] \in EditRows
                  /\ [edit EXCEPT !.accepted = a, !.status = s] \in EditRows
                  /\ [edit EXCEPT !.declined = d, !.status = s] \in EditRows
<1>1. now + EditWindow \in Nat
  BY EditAssumption, ClockAssumption DEF Types, Times
<1>2. Active \subseteq Workers
  BY DEF Active, AssignmentsWith
<1> QED
  BY <1>1, <1>2 DEF Types, EditRows

\* A step that changes only the request.
LEMMA OnlyEdit ==
    ASSUME QuestInv, edit' \in EditRows,
           UNCHANGED <<now, quest, assignment, leader, proof, legacy>>
    PROVE  QuestInv' /\ TermsAgreed
<1>1. now' \in Times /\ legacy' \in LegacyRows /\ legacy'.dueAt = legacy.dueAt
      /\ assignment' \in [Workers -> AssignmentStatuses] /\ proof' = proof
  BY DEF QuestInv, Types
<1>2. StateGoes
  BY StateKept DEF QuestInv
<1> QED
  BY <1>1, <1>2, SteadyStep

\* createQuestV2EditRequest, respondToQuestV2EditRequest and the end of a
\* request: the Condition changes with the last acceptance, in time.
LEMMA EditKeeps ==
    ASSUME QuestInv, quest.apiVersion = "v2", EditStep,
           UNCHANGED legacy
    PROVE  QuestInv' /\ TermsAgreed
<1>1. Types
  BY DEF QuestInv
<1>2. ASSUME NEW c \in Conditions, CreateEditRequest(c)
      PROVE  QuestInv' /\ TermsAgreed
  BY <1>1, <1>2, EditRowsTyped, OnlyEdit DEF CreateEditRequest, stateVars, rosterVars, workVars
<1>3. CASE MaterializeEdit
  <2>1. edit' \in EditRows
    BY <1>1, <1>3, EditRowsTyped DEF MaterializeEdit, Materialized, Types
  <2> QED
    BY <1>3, <2>1, OnlyEdit DEF MaterializeEdit, stateVars, rosterVars, workVars
<1>4. ASSUME NEW w \in Workers, NEW accept \in BOOLEAN, RespondToEdit(w, accept)
      PROVE  QuestInv' /\ TermsAgreed
  <2>1. /\ quest.status = "ASSIGNED"
        /\ UNCHANGED <<now, assignment, leader, proof>>
        /\ edit.accepted \in SUBSET Workers /\ edit.declined \in SUBSET Workers
        /\ edit.asked \in SUBSET Workers /\ edit.proposed \in Conditions
        /\ edit.expiresAt \in Nat /\ now \in Nat
    BY <1>1, <1>4 DEF RespondToEdit, Types, EditRows, rosterVars, workVars, Times
  <2>2. edit.asked = Active /\ now < edit.expiresAt
    <3>1. Materialized.status = "PENDING"
      BY <1>4 DEF RespondToEdit
    <3>2. EditPending /\ ~RespondersLeft /\ ~EditExpired
      BY <1>1, <3>1 DEF Materialized, EditPending, Types, EditRows
    <3> QED
      BY <2>1, <3>2 DEF RespondersLeft, EditExpired
  <2>3. edit.accepted \union {w} \in SUBSET Workers /\ edit.declined \union {w} \in SUBSET Workers
    BY <2>1
  <2>4. edit' \in EditRows
    <3>1. \/ edit' = [edit EXCEPT !.declined = edit.declined \union {w}, !.status = "FAILED"]
          \/ edit' = [edit EXCEPT !.accepted = edit.accepted \union {w}]
          \/ edit' = [edit EXCEPT !.accepted = edit.asked, !.status = "APPLIED"]
      BY <1>4 DEF RespondToEdit
    <3> QED
      BY <1>1, <2>1, <2>3, <3>1, EditRowsTyped
  <2>5. CASE UNCHANGED quest
    BY <2>1, <2>4, <2>5, OnlyEdit
  <2>6. CASE ~UNCHANGED quest
    <3>1. /\ edit' = [edit EXCEPT !.accepted = edit.asked, !.status = "APPLIED"]
          /\ quest' = [quest EXCEPT !.condition = edit.proposed]
      BY <1>4, <2>6 DEF RespondToEdit
    <3>2. /\ quest' \in QuestRows
          /\ quest'.apiVersion = quest.apiVersion /\ quest'.kind = quest.kind
          /\ quest'.status = "ASSIGNED" /\ quest'.condition = edit.proposed
      BY <1>1, <2>1, <3>1 DEF Types, QuestRows
    <3>3. /\ edit'.accepted = Active /\ edit'.proposed = edit.proposed
          /\ edit'.expiresAt = edit.expiresAt
      BY <1>1, <2>2, <3>1 DEF Types, EditRows
    <3>4. Types'
      BY <1>1, <2>1, <2>4, <3>2 DEF Types
    <3>5. RowGoes
      BY <2>1, <3>2 DEF RowGoes, Late, Drafted
    <3>6. ProofsGo
      BY <2>1 DEF ProofsGo, Sent, QuestInv, SentProofIsReviewed
    <3>7. QuestInv'
      BY <3>4, <3>5, <3>6, GoesKeeps DEF Goes
    <3>8. TermsAgreed
      BY <2>2, <3>2, <3>3 DEF TermsAgreed
    <3> QED
      BY <3>7, <3>8
  <2> QED
    BY <2>5, <2>6
<1> QED
  BY <1>2, <1>3, <1>4 DEF EditStep

-----------------------------------------------------------------------------
(* The other ends of a v2 Quest *)

\* Cancellations, Admin actions, Dispute Cases and the release of the hold.
LEMMA EndingKeeps ==
    ASSUME QuestInv, AdminStep \/ DisputeStep \/ EndingStep, UNCHANGED <<editVars, legacy>>
    PROVE  QuestInv' /\ TermsAgreed
<1>1. UNCHANGED <<edit, legacy>> /\ Types
  BY DEF editVars, QuestInv
<1>2. CASE CancelDraft
  BY <1>2, <1>1, OnlyEnters DEF CancelDraft, rosterVars, workVars, QuestStatuses, V2Targets
<1>3. ASSUME NEW pay, NEW cut, CancelQuest(pay, cut),
             UNCHANGED <<now, rank, started, leader, underfilled, workVars>>
      PROVE  QuestInv' /\ TermsAgreed
  BY <1>3, <1>1, CancelKeeps DEF workVars
<1>4. CASE HirerCancels
  BY <1>4, <1>2, <1>3 DEF HirerCancels, CancelOpen, CancelAssigned, CancelInProgress
<1>5. CASE AdminTerminates
  BY <1>5, <1>2, <1>3 DEF AdminTerminates, CancelOpen
<1>6. CASE HideQuest \/ RestoreQuest
  <2>1. /\ quest' = [quest EXCEPT !.hidden = TRUE] \/ quest' = [quest EXCEPT !.hidden = FALSE]
        /\ UNCHANGED <<now, assignment, leader, proof>>
    BY <1>6 DEF HideQuest, RestoreQuest, rosterVars, workVars
  <2>2. StateGoes
    BY <2>1, <1>1 DEF StateGoes, Types, QuestRows
  <2> QED
    BY <2>1, <2>2, <1>1, CalmStep
<1>7. CASE DisputeStep
  <2>1. UNCHANGED <<now, quest, assignment, leader, proof>>
    BY <1>7 DEF DisputeStep, FileDispute, DismissDispute, RespondToDispute, ResolveDispute,
                stateVars, rosterVars, workVars
  <2> QED
    BY <2>1, <1>1, NothingMoves
<1>8. CASE ReleaseMoneyHold
  BY <1>8, <1>1, NothingMoves DEF ReleaseMoneyHold, rosterVars, workVars
<1> QED
  BY <1>4, <1>5, <1>6, <1>7, <1>8 DEF AdminStep, EndingStep

-----------------------------------------------------------------------------
(* A Quest of the v1 API *)

\* The row of a v1 Quest's own fields, once the Quest entered a state.
LEMMA EnteredAtTyped ==
    ASSUME Types, NEW row \in LegacyRows, NEW to, NEW t
    PROVE  EnteredAt(row, to, t) \in LegacyRows /\ EnteredAt(row, to, t).dueAt = row.dueAt
<1>1. now \in Times
  BY DEF Types
<1> DEFINE at == IF to = "SUBMITTED" /\ ~t.proofRequired THEN now ELSE row.submittedAt
<1>2. at \in Times
  BY <1>1 DEF LegacyRows
<1>3. EnteredAt(row, to, t) = [row EXCEPT !.submittedAt = at]
  BY DEF EnteredAt
<1> HIDE DEF at
<1> QED
  BY <1>2, <1>3 DEF LegacyRows

\* What a step of a v1 Quest must show that keeps its terms.
LEMMA LegacyMoves ==
    ASSUME QuestInv, quest.apiVersion = "v1", StateGoes, now' \in Times, edit' \in EditRows,
           legacy' \in LegacyRows, legacy'.dueAt = legacy.dueAt,
           assignment' \in [Workers -> AssignmentStatuses],
           proof' \in [Workers -> ProofRows],
           quest'.status \in Drafted => assignment' = assignment
    PROVE  QuestInv' /\ TermsAgreed
<1>1. Types'
  BY DEF Types, StateGoes
<1>2. RowGoes /\ ProofsGo
  BY DEF RowGoes, StateGoes, ProofsGo
<1>3. QuestInv'
  BY <1>1, <1>2, GoesKeeps DEF Goes
<1>4. TermsAgreed
  BY SameTerms DEF StateGoes
<1> QED
  BY <1>3, <1>4

\* moveIfSubmitted
LEMMA MovedIfSubmitted ==
    ASSUME Types, quest.apiVersion = "v1", quest.status \notin Drafted,
           NEW row \in LegacyRows, MoveIfSubmitted(row)
    PROVE  /\ StateGoes /\ quest'.status \notin Drafted
           /\ legacy' \in LegacyRows /\ legacy'.dueAt = row.dueAt
<1>1. CASE EnterState("SUBMITTED", FALSE) /\ legacy' = EnteredAt(row, "SUBMITTED", CurrentTerms)
  BY <1>1, StateEntered, EnteredAtTyped DEF QuestStatuses, Drafted
<1>2. CASE UNCHANGED quest /\ legacy' = row
  BY <1>2, StateKept
<1> QED
  BY <1>1, <1>2 DEF MoveIfSubmitted

\* submitProof and confirmProofFreeWork of v1
LEMMA LegacySendsKeep ==
    ASSUME QuestInv, quest.apiVersion = "v1", NEW w \in Workers,
           SubmitLegacyProof(w) \/ ConfirmProofFreeWork(w), UNCHANGED edit
    PROVE  QuestInv' /\ TermsAgreed
<1>1. Types
  BY DEF QuestInv
<1>2. /\ quest.status \notin Drafted
      /\ UNCHANGED <<now, assignment>>
  BY DEF SubmitLegacyProof, ConfirmProofFreeWork, Working, Drafted, rosterVars
<1>3. now' \in Times /\ edit' \in EditRows /\ assignment' \in [Workers -> AssignmentStatuses]
  BY <1>1, <1>2 DEF Types
<1>4. CASE SubmitLegacyProof(w)
  <2>1. proof' \in [Workers -> ProofRows]
    BY <1>1, <1>4, ProofWritten DEF SubmitLegacyProof
  <2>2. MoveIfSubmitted(legacy) /\ legacy \in LegacyRows
    BY <1>1, <1>4 DEF SubmitLegacyProof, Types
  <2> QED
    BY <1>1, <1>2, <1>3, <2>1, <2>2, MovedIfSubmitted, LegacyMoves
<1>5. CASE ConfirmProofFreeWork(w)
  <2>1. proof' \in [Workers -> ProofRows]
    BY <1>1, <1>5 DEF ConfirmProofFreeWork, Types
  <2>2. PICK row : row = [legacy EXCEPT !.confirmed = legacy.confirmed \union {w}]
    OBVIOUS
  <2>3. row \in LegacyRows /\ row.dueAt = legacy.dueAt
    BY <1>1, <2>2 DEF Types, LegacyRows
  <2>4. MoveIfSubmitted(row)
    BY <1>5, <2>2 DEF ConfirmProofFreeWork
  <2> QED
    BY <1>1, <1>2, <1>3, <2>1, <2>3, <2>4, MovedIfSubmitted, LegacyMoves
<1> QED
  BY <1>4, <1>5

\* The settlement of everybody, through APPROVED.
LEMMA LegacyCompleted ==
    ASSUME Types, quest.apiVersion = "v1", CompleteLegacy
    PROVE  /\ StateGoes /\ quest'.status \notin Drafted
           /\ assignment' \in [Workers -> AssignmentStatuses]
<1>1. quest' = [quest EXCEPT !.status = "COMPLETED"] /\ EndAssignments(Active, "COMPLETED")
  BY DEF CompleteLegacy
<1>2. StateGoes /\ quest'.status = "COMPLETED"
  BY <1>1 DEF Types, QuestRows, QuestStatuses, StateGoes, Drafted
<1>3. assignment' \in [Workers -> AssignmentStatuses]
  BY <1>1, AssignmentsEnded DEF AssignmentStatuses
<1> QED
  BY <1>2, <1>3 DEF Drafted

\* failQuestInTransaction
LEMMA LegacyFailed ==
    ASSUME Types, quest.apiVersion = "v1", NEW S, FailLegacyQuest(S)
    PROVE  /\ StateGoes /\ quest'.status \notin Drafted
           /\ assignment' \in [Workers -> AssignmentStatuses]
           /\ UNCHANGED legacy
<1>1. EnterState("FAILED", FALSE) /\ UNCHANGED legacy
  BY DEF FailLegacyQuest
<1>2. StateGoes /\ quest'.status = "FAILED"
  BY <1>1, StateEntered DEF QuestStatuses
<1> DEFINE accepted == {o \in Workers : Accepted(o)}
<1>3. assignment' = [w \in Workers |->
          IF w \in Covered(accepted) THEN "COMPLETED"
          ELSE IF w \in S \intersect Active THEN "INCOMPLETE" ELSE assignment[w]]
  BY DEF FailLegacyQuest
<1> HIDE DEF accepted
<1>4. assignment' \in [Workers -> AssignmentStatuses]
  BY <1>3 DEF Types, AssignmentStatuses
<1> QED
  BY <1>1, <1>2, <1>4 DEF Drafted

\* reviewProof with either decision
LEMMA LegacyReviewKeeps ==
    ASSUME QuestInv, quest.apiVersion = "v1", NEW w \in Workers,
           ApproveLegacyProof(w) \/ RejectLegacyProof(w), UNCHANGED edit
    PROVE  QuestInv' /\ TermsAgreed
<1>1. Types
  BY DEF QuestInv
<1>2. /\ quest.status \notin Drafted
      /\ UNCHANGED now
      /\ \/ proof' = [proof EXCEPT ![w].status = "APPROVED"]
         \/ proof' = [proof EXCEPT ![w].status = "NOT_APPROVED"]
  BY DEF ApproveLegacyProof, RejectLegacyProof, LegacyReviewable, Drafted
<1>3. proof' \in [Workers -> ProofRows]
  BY <1>1, <1>2, ProofWritten
<1>4. now' \in Times /\ edit' \in EditRows
  BY <1>1, <1>2 DEF Types
<1>5. /\ StateGoes /\ quest'.status \notin Drafted
      /\ assignment' \in [Workers -> AssignmentStatuses]
      /\ legacy' \in LegacyRows /\ legacy'.dueAt = legacy.dueAt
  <2>1. CASE ApproveLegacyProof(w)
    <3>1. legacy' = legacy /\ legacy \in LegacyRows
      BY <1>1, <2>1 DEF ApproveLegacyProof, Types
    <3>2. CASE CompleteLegacy
      BY <1>1, <3>1, <3>2, LegacyCompleted
    <3>3. CASE UNCHANGED <<quest, assignment>>
      BY <1>1, <1>2, <3>1, <3>3, StateKept DEF Types
    <3>4. ASSUME UNCHANGED quest, assignment' = [v \in Workers |->
                     IF v \in Covered({w}) THEN "COMPLETED" ELSE assignment[v]]
          PROVE  /\ StateGoes /\ quest'.status \notin Drafted
                 /\ assignment' \in [Workers -> AssignmentStatuses]
      BY <1>1, <1>2, <3>4, StateKept DEF Types, AssignmentStatuses
    <3> QED
      BY <2>1, <3>1, <3>2, <3>3, <3>4 DEF ApproveLegacyProof
  <2>2. CASE RejectLegacyProof(w)
    <3>1. legacy \in LegacyRows
      BY <1>1 DEF Types
    <3>2. CASE UNCHANGED <<quest, assignment, legacy>>
      BY <1>1, <1>2, <3>1, <3>2, StateKept DEF Types
    <3>3. CASE FailLegacyQuest(Active)
      BY <1>1, <3>1, <3>3, LegacyFailed
    <3>4. ASSUME EnterState("REWORK", FALSE), UNCHANGED assignment,
                 legacy' = [legacy EXCEPT !.refused[w] = @ + 1]
          PROVE  /\ StateGoes /\ quest'.status \notin Drafted
                 /\ assignment' \in [Workers -> AssignmentStatuses]
                 /\ legacy' \in LegacyRows /\ legacy'.dueAt = legacy.dueAt
      <4>1. StateGoes /\ quest'.status = "REWORK"
        BY <1>1, <3>4, StateEntered DEF QuestStatuses
      <4>2. legacy' \in LegacyRows /\ legacy'.dueAt = legacy.dueAt
        BY <3>1, <3>4 DEF LegacyRows
      <4>3. assignment' \in [Workers -> AssignmentStatuses]
        BY <1>1, <3>4 DEF Types
      <4> QED
        BY <4>1, <4>2, <4>3 DEF Drafted
    <3> QED
      BY <2>2, <3>2, <3>3, <3>4 DEF RejectLegacyProof
  <2> QED
    BY <2>1, <2>2
<1> QED
  BY <1>3, <1>4, <1>5, LegacyMoves

\* Everything a v1 Quest does but its edits.
LEMMA LegacyKeeps ==
    ASSUME QuestInv, quest.apiVersion = "v1", LegacyStep, UNCHANGED editVars
    PROVE  QuestInv' /\ TermsAgreed
<1>1. Types /\ UNCHANGED edit
  BY DEF QuestInv, editVars
<1>2. ASSUME NEW k \in Kinds, NEW c \in Conditions, CreateLegacyQuest(k, c)
      PROVE  QuestInv' /\ TermsAgreed
  <2>1. /\ quest.status = "NONE"
        /\ quest' = [quest EXCEPT !.status = "DRAFT", !.kind = k, !.condition = c]
        /\ UNCHANGED <<now, assignment, leader, proof, legacy>>
    BY <1>2 DEF CreateLegacyQuest, rosterVars, workVars
  <2>2. quest' \in QuestRows /\ quest'.apiVersion = quest.apiVersion /\ quest'.status = "DRAFT"
    BY <2>1, <1>1, KindWritten DEF Types, QuestRows
  <2>3. now' \in Times /\ edit' \in EditRows /\ legacy' \in LegacyRows
    BY <1>1, <2>1 DEF Types
  <2> QED
    BY <2>1, <2>2, <2>3, Redrafted DEF Drafted, Late
<1>3. CASE PublishLegacyQuest
  BY <1>3, <1>1, OnlyEnters DEF PublishLegacyQuest, PublishQuest, QuestStatuses, rosterVars, workVars
<1>4. CASE CancelUnfilledLegacy
  BY <1>4, <1>1, CancelKeeps DEF CancelUnfilledLegacy, workVars
<1>5. ASSUME NEW S \in SUBSET Workers, NEW l, SelectLegacyCandidates(S, l)
      PROVE  QuestInv' /\ TermsAgreed
  BY <1>5, <1>1, SelectKeeps DEF SelectLegacyCandidates, workVars
<1>6. ASSUME NEW w \in Workers, JoinLegacyQuest(w) \/ StartLegacyWork(w)
      PROVE  QuestInv' /\ TermsAgreed
  BY <1>6, <1>1, JoinKeeps, StartKeeps DEF JoinLegacyQuest, StartLegacyWork, workVars
<1>7. ASSUME NEW w \in Workers, SubmitLegacyProof(w) \/ ConfirmProofFreeWork(w)
      PROVE  QuestInv' /\ TermsAgreed
  BY <1>7, <1>1, LegacySendsKeep
<1>8. ASSUME NEW w \in Workers,
             ApproveLegacyProof(w) \/ RejectLegacyProof(w) \/ AutoApproveLegacyProof(w)
      PROVE  QuestInv' /\ TermsAgreed
  BY <1>8, <1>1, LegacyReviewKeeps DEF AutoApproveLegacyProof
<1>9. CASE AutoCompleteConfirmed
  <2>1. CompleteLegacy /\ UNCHANGED <<now, legacy, proof>>
    BY <1>9 DEF AutoCompleteConfirmed, workVars
  <2>2. now' \in Times /\ edit' \in EditRows /\ legacy' \in LegacyRows
        /\ proof' \in [Workers -> ProofRows]
    BY <1>1, <2>1 DEF Types
  <2> QED
    BY <1>1, <2>1, <2>2, LegacyCompleted, LegacyMoves
<1>10. CASE SweepPassesLegacyApprovals
  BY <1>10, <1>1, NothingMoves DEF SweepPassesLegacyApprovals, stateVars, rosterVars
<1>11. CASE FailLegacyAtDueAt
  <2>1. FailLegacyQuest(LateLegacy) /\ UNCHANGED <<now, proof>>
    BY <1>11 DEF FailLegacyAtDueAt, workVars
  <2>2. now' \in Times /\ edit' \in EditRows /\ legacy \in LegacyRows
        /\ proof' \in [Workers -> ProofRows]
    BY <1>1, <2>1 DEF Types
  <2> QED
    BY <1>1, <2>1, <2>2, LegacyFailed, LegacyMoves
<1>12. CASE CancelLegacyQuest
  <2>1. \E pay, cut : CancelQuest(pay, cut)
    BY <1>12 DEF CancelLegacyQuest, CancelOpen
  <2> QED
    BY <1>12, <2>1, <1>1, CancelKeeps DEF CancelLegacyQuest, workVars
<1>13. CASE CancelLegacyDraft
  BY <1>13, <1>1, OnlyEnters
     DEF CancelLegacyDraft, CancelDraft, rosterVars, workVars, QuestStatuses
<1>14. CASE ReleaseLegacyHold
  BY <1>14, <1>1, NothingMoves DEF ReleaseLegacyHold, ReleaseMoneyHold, rosterVars, workVars
<1> QED
  BY <1>2, <1>3, <1>4, <1>5, <1>6, <1>7, <1>8, <1>9, <1>10, <1>11, <1>12, <1>13, <1>14
     DEF LegacyStep

-----------------------------------------------------------------------------
(* The edits of a v1 Quest *)

\* The Hirer edits only while nobody is on the roster.
LEMMA HirerEditKeeps ==
    ASSUME QuestInv, quest.apiVersion = "v1", NEW t \in Terms, EditLegacyQuest(t)
    PROVE  QuestInv' /\ TermsAgreed
<1>1. Types
  BY DEF QuestInv
<1>2. /\ quest' = [quest EXCEPT !.kind.proofRequired = t.proofRequired]
      /\ legacy' = [legacy EXCEPT !.dueAt = t.dueAt, !.proposed = t]
      /\ UNCHANGED <<now, assignment, leader, proof, edit>>
      /\ Active = {}
  BY DEF EditLegacyQuest, EditableByHirer, rosterVars, workVars
<1>3. /\ quest' \in QuestRows /\ quest'.apiVersion = quest.apiVersion
      /\ quest'.status = quest.status
  BY <1>1, <1>2 DEF Types, QuestRows, KindRows, Terms
<1>4. legacy' \in LegacyRows
  BY <1>1, <1>2 DEF Types, LegacyRows, Terms
<1>5. Types'
  BY <1>1, <1>2, <1>3, <1>4 DEF Types
<1>6. RowGoes /\ ProofsGo
  BY <1>2, <1>3 DEF RowGoes, ProofsGo
<1>7. QuestInv'
  BY <1>5, <1>6, GoesKeeps DEF Goes
<1>8. TermsAgreed
  BY <1>2 DEF TermsAgreed
<1> QED
  BY <1>7, <1>8

\* The row of a v1 Quest that goes on after an edit.
LEMMA ResumedTyped ==
    ASSUME Types, NEW t \in Terms
    PROVE  Resumed(t) \in LegacyRows /\ Resumed(t).dueAt = t.dueAt
<1> DEFINE row == [legacy EXCEPT !.dueAt = t.dueAt, !.proposed = t, !.resumes = "ASSIGNED"]
<1>1. row \in LegacyRows /\ row.dueAt = t.dueAt
  BY DEF Types, LegacyRows, Terms, ConsentStatuses
<1>2. Resumed(t) = EnteredAt(row, legacy.resumes, t)
  BY DEF Resumed
<1> HIDE DEF row
<1> QED
  BY <1>1, <1>2, EnteredAtTyped

\* A request that is refused, late or of another roster changes no term.
LEMMA EndEditKeeps ==
    ASSUME QuestInv, quest.apiVersion = "v1", quest.status \notin Drafted,
           NEW row \in EditRows, EndEdit(row),
           UNCHANGED <<now, assignment, proof>>
    PROVE  QuestInv' /\ TermsAgreed
<1>1. Types
  BY DEF QuestInv
<1>2. edit' = [row EXCEPT !.status = "FAILED"] /\ EnterState(legacy.resumes, FALSE)
      /\ legacy' = Resumed(CurrentTerms)
  BY DEF EndEdit
<1>3. legacy.resumes \in QuestStatuses
  BY <1>1 DEF Types, LegacyRows, ConsentStatuses, QuestStatuses
<1>4. StateGoes
  BY <1>1, <1>2, <1>3, StateEntered
<1>5. CurrentTerms \in Terms /\ CurrentTerms.dueAt = legacy.dueAt
  BY <1>1 DEF Types, LegacyRows, QuestRows, KindRows, CurrentTerms, Terms
<1>6. legacy' \in LegacyRows /\ legacy'.dueAt = legacy.dueAt
  BY <1>1, <1>2, <1>5, ResumedTyped
<1>7. edit' \in EditRows
  BY <1>2 DEF EditRows
<1>8. now' \in Times /\ assignment' \in [Workers -> AssignmentStatuses]
      /\ proof' \in [Workers -> ProofRows] /\ quest'.status \notin Drafted
  BY <1>1, <1>4 DEF Types, StateGoes
<1> QED
  BY <1>4, <1>6, <1>7, <1>8, LegacyMoves

\* applyConsentChanges writes what everybody accepted.
LEMMA ApplyTermsKeeps ==
    ASSUME QuestInv, quest.apiVersion = "v1", ApplyTerms(legacy.proposed),
           EditPending, ~EditExpired, edit.asked = Active,
           edit' = [edit EXCEPT !.accepted = edit.asked, !.status = "APPLIED"],
           UNCHANGED <<now, assignment, proof>>
    PROVE  QuestInv' /\ TermsAgreed
<1> DEFINE t == legacy.proposed
<1>1. Types
  BY DEF QuestInv
<1>2. /\ quest.status \in AllowedPredecessors[legacy.resumes]
      /\ quest' = [quest EXCEPT !.status = legacy.resumes,
                                !.kind.proofRequired = t.proofRequired]
      /\ legacy' = Resumed(t)
  BY DEF ApplyTerms
<1>3. t \in Terms /\ legacy.resumes \in ConsentStatuses
  BY <1>1 DEF Types, LegacyRows
<1>4. legacy' \in LegacyRows /\ legacy'.dueAt = t.dueAt
  BY <1>1, <1>2, <1>3, ResumedTyped
<1>5. legacy.resumes \in QuestStatuses \ Drafted
  BY <1>3 DEF ConsentStatuses, QuestStatuses, Drafted
<1> HIDE DEF t
<1>6. /\ quest' \in QuestRows /\ quest'.apiVersion = quest.apiVersion
      /\ quest'.status \notin Drafted
      /\ quest'.condition = quest.condition
      /\ quest'.kind.proofRequired = t.proofRequired
  BY <1>1, <1>2, <1>3, <1>5 DEF Types, QuestRows, KindRows, Terms
<1>7. /\ edit' \in EditRows /\ edit'.accepted = Active /\ edit'.expiresAt = edit.expiresAt
      /\ now < edit.expiresAt
  <2>1. edit \in EditRows /\ now \in Int /\ edit.expiresAt \in Int
    BY <1>1, ClockAssumption DEF Types, EditRows, Times
  <2>2. now < edit.expiresAt
    BY <2>1 DEF EditExpired
  <2>3. /\ edit' \in EditRows
        /\ edit'.accepted = edit.asked /\ edit'.expiresAt = edit.expiresAt
    BY <2>1 DEF EditRows
  <2> QED
    BY <2>2, <2>3
<1>8. Types'
  BY <1>1, <1>4, <1>6, <1>7 DEF Types
<1>9. RowGoes /\ ProofsGo
  BY <1>6 DEF RowGoes, ProofsGo
<1>10. QuestInv'
  BY <1>8, <1>9, GoesKeeps DEF Goes
<1>11. CurrentTerms' = t
  BY <1>3, <1>4, <1>6 DEF CurrentTerms, Terms
<1>12. CurrentTerms' = legacy.proposed
  BY <1>11 DEF t
<1>13. TermsAgreed
  BY <1>6, <1>7, <1>12 DEF TermsAgreed
<1> QED
  BY <1>10, <1>13

\* createQuestEditRequest, respondToQuestEditRequest and the end of a request.
LEMMA ConsentKeeps ==
    ASSUME QuestInv, quest.apiVersion = "v1", ConsentStep
    PROVE  QuestInv' /\ TermsAgreed
<1>1. Types /\ UNCHANGED <<now, assignment, leader, proof>>
  BY DEF QuestInv, ConsentStep, rosterVars, workVars
<1>2. edit \in EditRows /\ legacy \in LegacyRows
  BY <1>1 DEF Types
<1>3. ASSUME NEW t \in Terms, PauseForConsent(t)
      PROVE  QuestInv' /\ TermsAgreed
  <2>1. /\ quest.status \in ConsentStatuses
        /\ EnterState("AWAITING_CONSENT", FALSE)
        /\ legacy' = [legacy EXCEPT !.proposed = t, !.resumes = quest.status]
    BY <1>3 DEF PauseForConsent
  <2>2. edit' \in EditRows
    <3>1. quest.condition \in Conditions
      BY <1>1 DEF Types, QuestRows
    <3> QED
      BY <3>1, <1>1, <1>3, EditRowsTyped DEF PauseForConsent
  <2>3. legacy' \in LegacyRows /\ legacy'.dueAt = legacy.dueAt
    BY <1>2, <2>1 DEF LegacyRows
  <2>4. StateGoes /\ quest'.status = "AWAITING_CONSENT"
    BY <1>1, <2>1, StateEntered DEF QuestStatuses
  <2>5. now' \in Times /\ assignment' \in [Workers -> AssignmentStatuses]
        /\ proof' \in [Workers -> ProofRows] /\ quest'.status \notin Drafted
    BY <1>1, <2>4 DEF Types, Drafted
  <2> QED
    BY <2>2, <2>3, <2>4, <2>5, LegacyMoves
<1>4. ASSUME NEW row \in EditRows, EndEdit(row)
      PROVE  QuestInv' /\ TermsAgreed
  <2>1. legacy.resumes \in QuestStatuses
    BY <1>2 DEF LegacyRows, ConsentStatuses, QuestStatuses
  <2>2. quest.status \in AllowedPredecessors[legacy.resumes]
    BY <1>4 DEF EndEdit, EnterState
  <2>3. quest.status \notin Drafted
    BY <1>2, <2>2 DEF LegacyRows, ConsentStatuses, AllowedPredecessors, QuestStatuses, Drafted
  <2> QED
    BY <1>1, <1>4, <2>3, EndEditKeeps
<1>5. CASE ExpireLegacyEdit
  BY <1>5, <1>2, <1>4 DEF ExpireLegacyEdit
<1>6. ASSUME NEW w \in Workers, NEW accept \in BOOLEAN, RespondToLegacyEdit(w, accept)
      PROVE  QuestInv' /\ TermsAgreed
  <2>1. /\ EditPending /\ ~EditExpired /\ edit.asked = Active
        /\ edit.accepted \union {w} \in SUBSET Workers /\ edit.declined \union {w} \in SUBSET Workers
    BY <1>2, <1>6 DEF RespondToLegacyEdit, ConsentIsCurrent, EditRows
  <2>2. CASE EndEdit([edit EXCEPT !.declined = @ \union {w}])
    <3>1. [edit EXCEPT !.declined = @ \union {w}] \in EditRows
      BY <1>2, <2>1 DEF EditRows
    <3> QED
      BY <2>2, <3>1, <1>4
  <2>3. CASE edit' = [edit EXCEPT !.accepted = @ \union {w}] /\ UNCHANGED <<quest, legacy>>
    <3>1. edit' \in EditRows
      BY <1>2, <2>1, <2>3 DEF EditRows
    <3> QED
      BY <1>1, <2>3, <3>1, OnlyEdit
  <2>4. CASE /\ edit' = [edit EXCEPT !.accepted = edit.asked, !.status = "APPLIED"]
             /\ ApplyTerms(legacy.proposed)
    BY <1>1, <2>1, <2>4, ApplyTermsKeeps
  <2> QED
    BY <1>6, <2>2, <2>3, <2>4 DEF RespondToLegacyEdit
<1> QED
  BY <1>3, <1>5, <1>6 DEF ConsentStep

-----------------------------------------------------------------------------
(* Types, sent Proofs and edits *)

\* A Quest that is not yet drafted.
LEMMA QuestStarts == Init => QuestInv
<1> SUFFICES ASSUME Init PROVE QuestInv
  OBVIOUS
<1>1. now \in Times /\ assignment \in [Workers -> AssignmentStatuses]
  BY ClockAssumption DEF Init, StateInit, Times, AssignmentStatuses
<1>2. quest \in QuestRows /\ quest.status = "NONE"
  BY KindsAssumption DEF Init, StateInit, QuestRows, QuestStatuses
<1>3. proof \in [Workers -> ProofRows] /\ \A w \in Workers : proof[w].status = "NONE"
  BY DEF Init, WorkInit, ProofRows
<1>4. edit \in EditRows
  BY <1>2 DEF Init, EditInit, EditRows, QuestRows
<1>5. legacy \in LegacyRows
  <2>1. quest.kind.proofRequired \in BOOLEAN /\ 0 \in Times
    BY <1>2, ClockAssumption DEF QuestRows, KindRows, Times
  <2>2. [dueAt |-> DueAt, proofRequired |-> quest.kind.proofRequired] \in Terms
    BY <2>1, DuesAssumption DEF Terms
  <2> QED
    BY <2>1, <2>2, DuesAssumption
       DEF Init, LegacyInit, LegacyRows, Nothing, ConsentStatuses
<1>6. \A w \in Workers : assignment[w] = "NONE"
  BY DEF Init, StateInit
<1> QED
  BY <1>1, <1>2, <1>3, <1>4, <1>5, <1>6
     DEF QuestInv, Types, NobodyYet, SentLate, Sent, SentProofIsReviewed

\* Every step keeps the invariant and changes terms only as agreed.
LEMMA QuestSteps ==
    ASSUME QuestInv, Next
    PROVE  QuestInv' /\ TermsAgreed
<1>1. CASE Tick /\ UNCHANGED <<underfilled, workVars, editVars, endingVars, legacy>>
  <2>1. now' \in Times
    BY <1>1, ClockAssumption DEF Tick, QuestInv, Types, Times
  <2>2. UNCHANGED <<quest, assignment, leader, proof, edit, legacy>>
    BY <1>1 DEF Tick, rosterVars, workVars, editVars
  <2>3. StateGoes
    BY <2>2, StateKept DEF QuestInv
  <2>4. edit' \in EditRows /\ legacy' \in LegacyRows /\ legacy'.dueAt = legacy.dueAt
        /\ assignment' \in [Workers -> AssignmentStatuses]
    BY <2>2 DEF QuestInv, Types
  <2> QED
    BY <2>1, <2>2, <2>3, <2>4, SteadyStep
<1>2. CASE quest.apiVersion = "v2" /\ StepV2
  BY <1>2, RosterKeeps, WorkKeeps, EditKeeps, EndingKeeps DEF StepV2
<1>3. CASE quest.apiVersion = "v1" /\ StepV1
  BY <1>3, LegacyKeeps, ConsentKeeps, HirerEditKeeps DEF StepV1
<1> QED
  BY <1>1, <1>2, <1>3 DEF Next

\* A step of nobody.
LEMMA QuestStutters == QuestInv /\ UNCHANGED vars => QuestInv'
BY DEF QuestInv, Types, NobodyYet, SentLate, Sent, SentProofIsReviewed, GroupCandidate,
       vars, stateVars, rosterVars, workVars, editVars

\* The invariant of every Quest.
LEMMA QuestKeeps == Spec => []QuestInv
<1>1. QuestInv /\ [Next]_vars => QuestInv'
  BY QuestSteps, QuestStutters
<1> QED
  BY <1>1, QuestStarts, PTL DEF Spec

\* The rows of a Quest, its Assignments, Proofs and edit request are of their
\* types, whatever the services and the sweeps do.
THEOREM QuestTypesSafe == Spec => []Types
<1>1. QuestInv => Types
  BY DEF QuestInv
<1> QED
  BY <1>1, QuestKeeps, PTL

\* No Worker of a v2 Quest fails at the due time or by another's refusal while
\* the Proof that was sent for the work is not refused.
THEOREM SentProofSafe == Spec => []SentProofIsReviewed
<1>1. QuestInv => SentProofIsReviewed
  BY DEF QuestInv
<1> QED
  BY <1>1, QuestKeeps, PTL

\* The terms of a Quest change under a roster only when everybody on it
\* accepted them in time.
THEOREM EditSafe == Spec => EditAppliedByAll
<1>1. QuestInv /\ [Next]_vars => [TermsAgreed]_vars
  BY QuestSteps
<1> QED
  BY <1>1, QuestKeeps, PTL DEF Spec, EditAppliedByAll

-----------------------------------------------------------------------------
(* Sums over the Workers *)

\* Division of naturals.
LEMMA DivMod ==
    \A a, b \in Nat : b # 0 =>
        /\ a \div b \in Nat /\ a % b \in 0 .. b - 1
        /\ a = (a \div b) * b + (a % b)
        /\ b <= a => a \div b >= 1
OBVIOUS

\* What a payment adds up to.
LEMMA PaysAdd ==
    /\ \A f : (\A w \in Workers : f[w] \in Int) => SumOf(f) \in Int
    /\ \A f : (\A w \in Workers : f[w] \in Nat) => SumOf(f) \in Nat
    /\ \A f : (\A w \in Workers : f[w] = 0) => SumOf(f) = 0
    /\ \A f, g : (\A w \in Workers : f[w] \in Int /\ f[w] = g[w]) => SumOf(f) = SumOf(g)
    /\ \A f, g, h : (\A w \in Workers : f[w] \in Int /\ g[w] \in Int /\ h[w] = f[w] + g[w])
          => SumOf(h) = SumOf(f) + SumOf(g)
BY PricesAssumption, SumType, SumNat, SumZero, SumSame, SumPlus DEF SumOf

\* The same amount for everybody of S.
LEMMA PaysEvenly ==
    ASSUME NEW S, S \subseteq Workers, NEW c \in Int, NEW f,
           \A w \in Workers : f[w] = IF w \in S THEN c ELSE 0
    PROVE  SumOf(f) = c * Cardinality(S)
<1>1. IsFiniteSet(Workers) /\ IsFiniteSet(S)
  BY PricesAssumption, FS_Subset
<1>2. /\ \A w \in Workers : f[w] \in Int
      /\ \A w \in Workers \ S : f[w] = 0
      /\ \A w \in S : f[w] = c
  OBVIOUS
<1>3. SumFunctionOnSet(f, Workers) = SumFunctionOnSet(f, S)
  BY <1>1, <1>2, SumSupport
<1>4. SumFunctionOnSet(f, S) = c * Cardinality(S)
  BY <1>1, <1>2, SumConstant
<1> QED
  BY <1>3, <1>4 DEF SumOf

\* One Worker alone.
LEMMA PaysOne ==
    ASSUME NEW v \in Workers, NEW c \in Int, NEW f,
           \A w \in Workers : f[w] = IF w = v THEN c ELSE 0
    PROVE  SumOf(f) = c
<1>1. \A w \in Workers : f[w] = IF w \in {v} THEN c ELSE 0
  OBVIOUS
<1>2. SumOf(f) = c * Cardinality({v})
  BY <1>1, PaysEvenly
<1>3. Cardinality({v}) = 1
  BY FS_Singleton
<1>4. c * 1 = c
  OBVIOUS
<1> QED
  BY <1>2, <1>3, <1>4

\* remainderSplitSatang divides the whole pool among those with the ranks
\* 1 to n, one share each.
LEMMA SharesAddUp ==
    ASSUME NEW S, S \subseteq Workers, NEW pool \in Nat, NEW pos,
           NEW n, n = Cardinality(S), n # 0,
           \A w \in S : pos[w] \in 1 .. n,
           \A v, w \in S : pos[v] = pos[w] => v = w,
           NEW f, \A w \in Workers : f[w] = IF w \in S THEN EvenShare(pool, n, pos[w]) ELSE 0
    PROVE  SumOf(f) = pool
<1> DEFINE q == pool \div n
           r == pool % n
           L == {w \in S : pos[w] <= r}
           g == [w \in Workers |-> IF w \in S THEN q ELSE 0]
           h == [w \in Workers |-> IF w \in L THEN 1 ELSE 0]
<1>1. IsFiniteSet(S) /\ IsFiniteSet(L) /\ n \in Nat
  BY PricesAssumption, FS_Subset, FS_CardinalityType
<1>2. q \in Nat /\ r \in 0 .. n - 1 /\ pool = q * n + r
  BY <1>1, DivMod
<1> HIDE DEF q, r
<1>3. \A w \in Workers : g[w] \in Int /\ h[w] \in Int /\ f[w] = g[w] + h[w]
  BY <1>2 DEF EvenShare, q, r
<1>4. SumOf(f) = SumOf(g) + SumOf(h)
  <2> HIDE DEF g, h
  <2> QED
    BY <1>3, PaysAdd
<1>5. SumOf(g) = q * n
  <2>1. \A w \in Workers : g[w] = IF w \in S THEN q ELSE 0
    OBVIOUS
  <2> HIDE DEF g
  <2> QED
    BY <1>2, <2>1, PaysEvenly
<1>6. SumOf(h) = Cardinality(L)
  <2>1. \A w \in Workers : h[w] = IF w \in L THEN 1 ELSE 0
    OBVIOUS
  <2>2. L \subseteq Workers /\ Cardinality(L) \in Nat
    BY <1>1, FS_CardinalityType
  <2> HIDE DEF h, L
  <2>3. SumOf(h) = 1 * Cardinality(L)
    BY <2>1, <2>2, PaysEvenly
  <2> QED
    BY <2>2, <2>3
<1>7. Cardinality(L) = r
  <2> DEFINE p == [w \in S |-> pos[w]]
  <2>1. p \in Injection(S, 1 .. n)
    BY DEF Injection, IsInjective
  <2>2. Cardinality(1 .. n) = n /\ IsFiniteSet(1 .. n)
    BY <1>1, FS_Interval
  <2>3. p \in Surjection(S, 1 .. n)
    <3> HIDE DEF p
    <3> QED
      BY <1>1, <2>1, <2>2, FS_Injection
  <2>4. \A k \in 1 .. n : \E w \in S : pos[w] = k
    BY <2>3 DEF Surjection
  <2> DEFINE b == [w \in L |-> pos[w]]
  <2>5. b \in Bijection(L, 1 .. r)
    <3>1. b \in Injection(L, 1 .. r)
      BY <1>1, <1>2 DEF Injection, IsInjective
    <3>2. \A k \in 1 .. r : \E w \in L : b[w] = k
      BY <1>1, <1>2, <2>4
    <3>3. b \in [L -> 1 .. r]
      BY <3>1 DEF Injection
    <3>4. b \in Surjection(L, 1 .. r)
      BY <3>2, <3>3 DEF Surjection
    <3> QED
      BY <3>1, <3>4 DEF Bijection
  <2>6. ExistsBijection(L, 1 .. r)
    BY <2>5 DEF ExistsBijection
  <2>7. Cardinality(1 .. r) = r
    BY <1>1, <1>2, FS_Interval
  <2> HIDE DEF L
  <2> QED
    BY <1>1, <2>6, <2>7, FS_Bijection
<1> QED
  <2> HIDE DEF g, h, L
  <2> QED
    BY <1>2, <1>4, <1>5, <1>6, <1>7

-----------------------------------------------------------------------------
(* What the Workers of a Quest cost *)

\* The pools and the shares of them are amounts.
LEMMA PriceTypes ==
    ASSUME Types, MoneyTypes
    PROVE  /\ quest.kind.headcount \in Nat \ {0}
           /\ RewardPool \in Nat \ {0} /\ FeePool \in Nat
           /\ PublishedEscrow = RewardPool + FeePool /\ PublishedEscrow \in Nat \ {0}
           /\ \A w \in Workers : RewardOf(w) \in Nat /\ FeeOf(w) \in Nat
           /\ Shared => Shares \in Nat \ {0}
<1>1. quest.kind.headcount \in Nat \ {0}
  BY DEF Types, QuestRows, KindRows
<1>2. \A a, b \in Nat \ {0} : a * b \in Nat \ {0}
  OBVIOUS
<1>3. \A a, b \in Nat : a * b \in Nat
  OBVIOUS
<1>4. RewardPool \in Nat \ {0} /\ FeePool \in Nat
  BY <1>1, <1>2, <1>3, PricesAssumption DEF RewardPool, FeePool
<1>5. PublishedEscrow = RewardPool + FeePool /\ PublishedEscrow \in Nat \ {0}
  BY <1>4 DEF PublishedEscrow
<1>6. Shared => Shares \in Nat \ {0}
  <2>1. underfilled.accepted \in SUBSET Workers
    BY DEF MoneyTypes, DecisionRows
  <2>2. IsFiniteSet(underfilled.accepted)
    BY <2>1, PricesAssumption, FS_Subset
  <2> QED
    BY <2>2, FS_CardinalityType, FS_EmptySet DEF Shared, Shares, MoneyTypes
<1>7. ASSUME NEW pool \in Nat, NEW w, Shared
      PROVE  EvenShare(pool, Shares, rank[w]) \in Nat
  <2>1. pool \div Shares \in Nat
    BY <1>6, <1>7, DivMod
  <2> QED
    BY <2>1 DEF EvenShare
<1>8. \A w \in Workers : RewardOf(w) \in Nat /\ FeeOf(w) \in Nat
  BY <1>4, <1>7, PricesAssumption DEF RewardOf, FeeOf
<1> QED
  BY <1>1, <1>4, <1>5, <1>6, <1>8

\* What a set of Workers costs is an amount, and two sets cost what each does.
LEMMA SlotsAdd ==
    ASSUME Types, MoneyTypes, NEW S, NEW T, S \intersect T = {}
    PROVE  /\ SumOf(Rewards(S)) \in Nat /\ SumOf(Fees(S)) \in Nat /\ SlotsOf(S) \in Nat
           /\ SumOf(Rewards(S \union T)) = SumOf(Rewards(S)) + SumOf(Rewards(T))
           /\ SumOf(Fees(S \union T)) = SumOf(Fees(S)) + SumOf(Fees(T))
           /\ SlotsOf(S \union T) = SlotsOf(S) + SlotsOf(T)
<1>1. \A w \in Workers : RewardOf(w) \in Nat /\ FeeOf(w) \in Nat
  BY PriceTypes
<1>2. ASSUME NEW R PROVE SumOf(Rewards(R)) \in Nat /\ SumOf(Fees(R)) \in Nat
  <2>1. \A w \in Workers : Rewards(R)[w] \in Nat /\ Fees(R)[w] \in Nat
    BY <1>1 DEF Rewards, Fees
  <2> QED
    BY <2>1, PaysAdd
<1>3. \A w \in Workers :
         /\ Rewards(S)[w] \in Int /\ Rewards(T)[w] \in Int
         /\ Rewards(S \union T)[w] = Rewards(S)[w] + Rewards(T)[w]
  BY <1>1 DEF Rewards
<1>4. \A w \in Workers :
         /\ Fees(S)[w] \in Int /\ Fees(T)[w] \in Int
         /\ Fees(S \union T)[w] = Fees(S)[w] + Fees(T)[w]
  BY <1>1 DEF Fees
<1>5. \A f, g, h : (\A w \in Workers : f[w] \in Int /\ g[w] \in Int /\ h[w] = f[w] + g[w])
          => SumOf(h) = SumOf(f) + SumOf(g)
  BY PaysAdd
<1>6. SumOf(Rewards(S \union T)) = SumOf(Rewards(S)) + SumOf(Rewards(T))
  BY <1>3, <1>5, Zenon
<1>7. SumOf(Fees(S \union T)) = SumOf(Fees(S)) + SumOf(Fees(T))
  BY <1>4, <1>5, Zenon
<1>8. SlotsOf(S \union T) = SlotsOf(S) + SlotsOf(T)
  BY <1>2, <1>6, <1>7 DEF SlotsOf
<1> QED
  BY <1>2, <1>6, <1>7, <1>8 DEF SlotsOf

\* Nobody costs nothing, and one Worker his own slot.
LEMMA SlotsOfFew ==
    ASSUME Types, MoneyTypes
    PROVE  /\ SumOf(Rewards({})) = 0 /\ SumOf(Fees({})) = 0 /\ SlotsOf({}) = 0
           /\ \A w \in Workers : /\ SumOf(Rewards({w})) = RewardOf(w)
                                 /\ SumOf(Fees({w})) = FeeOf(w)
                                 /\ SlotsOf({w}) = RewardOf(w) + FeeOf(w)
<1>1. \A w \in Workers : Rewards({})[w] = 0 /\ Fees({})[w] = 0
  BY DEF Rewards, Fees
<1>2. SumOf(Rewards({})) = 0 /\ SumOf(Fees({})) = 0
  BY <1>1, PaysAdd
<1>3. ASSUME NEW w \in Workers
      PROVE  SumOf(Rewards({w})) = RewardOf(w) /\ SumOf(Fees({w})) = FeeOf(w)
  <2>1. RewardOf(w) \in Int /\ FeeOf(w) \in Int
    BY PriceTypes
  <2>2. \A v \in Workers : Rewards({w})[v] = IF v = w THEN RewardOf(w) ELSE 0
    BY DEF Rewards
  <2>3. \A v \in Workers : Fees({w})[v] = IF v = w THEN FeeOf(w) ELSE 0
    BY DEF Fees
  <2>4. SumOf(Rewards({w})) = RewardOf(w)
    BY <2>1, <2>2, PaysOne
  <2>5. SumOf(Fees({w})) = FeeOf(w)
    BY <2>1, <2>3, PaysOne
  <2> QED
    BY <2>4, <2>5
<1> QED
  BY <1>2, <1>3 DEF SlotsOf

\* No slot changes its price.
PricesKept == \A w \in Workers : RewardOf(w)' = RewardOf(w) /\ FeeOf(w)' = FeeOf(w)

\* Where no price changes, no sum of prices does.
LEMMA SlotsKept ==
    ASSUME PricesKept, NEW S
    PROVE  /\ SumOf(Rewards(S))' = SumOf(Rewards(S)) /\ SumOf(Fees(S))' = SumOf(Fees(S))
           /\ SlotsOf(S)' = SlotsOf(S)
<1>1. Rewards(S)' = Rewards(S) /\ Fees(S)' = Fees(S)
  BY DEF PricesKept, Rewards, Fees
<1>2. SumOf(Rewards(S))' = SumOf(Rewards(S)') /\ SumOf(Fees(S))' = SumOf(Fees(S)')
  BY DEF SumOf
<1> QED
  BY <1>1, <1>2 DEF SlotsOf

\* What the Leader of a Team is paid for all of its slots.
LEMMA LeaderSums ==
    ASSUME Types, MoneyTypes, leader \in Workers
    PROVE  SumOf(LeaderReward) = RewardPool /\ SumOf(LeaderFee) = FeePool
<1>1. RewardPool \in Int /\ FeePool \in Int
  BY PriceTypes
<1>2. \A w \in Workers : /\ LeaderReward[w] = IF w = leader THEN RewardPool ELSE 0
                         /\ LeaderFee[w] = IF w = leader THEN FeePool ELSE 0
  BY DEF LeaderReward, LeaderFee
<1>3. SumOf(LeaderReward) = RewardPool
  BY <1>1, <1>2, PaysOne
<1>4. SumOf(LeaderFee) = FeePool
  BY <1>1, <1>2, PaysOne
<1> QED
  BY <1>3, <1>4

\* The roster a Quest is assigned with costs what was published: as many
\* Workers as slots at the published terms, or an even share each.
LEMMA FullRosterWorth ==
    ASSUME Types, MoneyTypes, NEW S, S \subseteq Workers,
           Cardinality(S) = quest.kind.headcount, ~Shared
    PROVE  SumOf(Rewards(S)) = RewardPool /\ SumOf(Fees(S)) = FeePool
<1>1. \A w \in Workers : /\ Rewards(S)[w] = IF w \in S THEN Reward ELSE 0
                         /\ Fees(S)[w] = IF w \in S THEN Fee ELSE 0
  BY DEF Rewards, Fees, RewardOf, FeeOf
<1>2. SumOf(Rewards(S)) = Reward * Cardinality(S)
  BY <1>1, PricesAssumption, PaysEvenly
<1>3. SumOf(Fees(S)) = Fee * Cardinality(S)
  BY <1>1, PricesAssumption, PaysEvenly
<1> QED
  BY <1>2, <1>3 DEF RewardPool, FeePool

\* The same of an incomplete roster that agreed to share.
LEMMA SharedRosterWorth ==
    ASSUME Types, MoneyTypes, Shared,
           \A w \in underfilled.accepted : rank[w] \in 1 .. Shares,
           \A v, w \in underfilled.accepted : rank[v] = rank[w] => v = w
    PROVE  /\ SumOf(Rewards(underfilled.accepted)) = RewardPool
           /\ SumOf(Fees(underfilled.accepted)) = FeePool
<1> DEFINE S == underfilled.accepted
<1>1. S \subseteq Workers /\ S # {} /\ Shares = Cardinality(S) /\ Shares # 0
  BY PriceTypes DEF MoneyTypes, DecisionRows, Shared, Shares
<1>2. RewardPool \in Nat /\ FeePool \in Nat
  BY PriceTypes
<1>3. \A w \in Workers :
         /\ Rewards(S)[w] = IF w \in S THEN EvenShare(RewardPool, Shares, rank[w]) ELSE 0
         /\ Fees(S)[w] = IF w \in S THEN EvenShare(FeePool, Shares, rank[w]) ELSE 0
  BY DEF Rewards, Fees, RewardOf, FeeOf
<1> HIDE DEF S
<1>4. /\ \A w \in S : rank[w] \in 1 .. Shares
      /\ \A v, w \in S : rank[v] = rank[w] => v = w
  BY DEF S
<1>5. SumOf(Rewards(S)) = RewardPool
  BY <1>1, <1>2, <1>3, <1>4, SharesAddUp
<1>6. SumOf(Fees(S)) = FeePool
  BY <1>1, <1>2, <1>3, <1>4, SharesAddUp
<1> QED
  BY <1>5, <1>6 DEF S

\* The rows beside the Escrow and what left it.
SideTypes ==
    /\ rank \in [Workers -> Int]
    /\ leader \in Workers \union {NoWorker}
    /\ underfilled \in DecisionRows
    /\ underfilled.state = "COMPLETED" => underfilled.accepted # {}
    /\ sweepNow \in Times
    /\ allocation \in Allocations

\* applyQuestStateTransition, seen from the money.
LEMMA Entered ==
    ASSUME Types, NEW to \in QuestStatuses, NEW hold, EnterState(to, hold)
    PROVE  /\ quest'.status = to /\ SameShape
           /\ quest'.holdSince = TerminalStamp(to, hold)
           /\ quest.status \in AllowedPredecessors[to]
<1> DEFINE stamp == TerminalStamp(to, hold)
<1>1. quest \in QuestRows
  BY DEF Types
<1>2. quest' = [quest EXCEPT !.status = to, !.holdSince = stamp]
      /\ quest.status \in AllowedPredecessors[to]
  BY DEF EnterState
<1> HIDE DEF stamp
<1>3. quest'.status = to /\ SameShape /\ quest'.holdSince = stamp
  BY <1>1, <1>2 DEF QuestRows, SameShape
<1> QED
  BY <1>2, <1>3 DEF stamp

\* Only a failure starts the hold of itself.
LEMMA Unstamped ==
    ASSUME NEW to \in QuestStatuses \ {"FAILED"}
    PROVE  TerminalStamp(to, FALSE) = quest.holdSince
BY DEF TerminalStamp

\* Where each state is entered from.
LEMMA Befores ==
    /\ AllowedPredecessors["OPEN"] = {"DRAFT"}
    /\ AllowedPredecessors["ASSIGNED"] = {"OPEN", "AWAITING_CONSENT"}
    /\ AllowedPredecessors["IN_PROGRESS"] = {"ASSIGNED", "AWAITING_CONSENT"}
    /\ AllowedPredecessors["AWAITING_CONSENT"] = ConsentStatuses
    /\ AllowedPredecessors["SUBMITTED"] = {"IN_PROGRESS", "REWORK", "AWAITING_CONSENT"}
    /\ AllowedPredecessors["REWORK"] = {"SUBMITTED", "REWORK", "AWAITING_CONSENT"}
    /\ AllowedPredecessors["COMPLETED"] = {"IN_PROGRESS", "APPROVED"}
    /\ AllowedPredecessors["CANCELLED"] = {"DRAFT", "OPEN", "ASSIGNED", "IN_PROGRESS"}
    /\ AllowedPredecessors["FAILED"] = ConsentStatuses
BY DEF AllowedPredecessors, QuestStatuses, ConsentStatuses

\* The row of the underfilled decision, as a command finds it.
LEMMA DecisionTyped ==
    ASSUME Types, MoneyTypes
    PROVE  /\ Decision \in DecisionRows
           /\ Decision.state = "COMPLETED" => Decision = underfilled
           /\ quest.status # "OPEN" => Decision = underfilled
BY ClockAssumption, UnderfilledAssumption
   DEF Decision, DueUnderfilled, DecisionRows, DecisionStates, MoneyTypes, Active, AssignmentsWith

\* Rows that stay keep their types.
LEMMA SideKept ==
    ASSUME MoneyTypes, UNCHANGED <<rank, leader, underfilled, sweepNow, allocation>>
    PROVE  SideTypes'
BY DEF MoneyTypes, SideTypes

\* Where the rows of the edit stay.
LEMMA EditUntouched ==
    ASSUME quest.apiVersion = "v2" \/ UNCHANGED <<edit, legacy>>
    PROVE  EditKept
BY DEF EditKept

-----------------------------------------------------------------------------
(* Every step is one of the moves *)

\* Every cancellation.
LEMMA CancelMoves ==
    ASSUME Known, NEW pay \in Amounts, NEW cut \in Amounts, CancelQuest(pay, cut),
           quest.status \in {"OPEN", "ASSIGNED", "IN_PROGRESS"},
           \A w \in Workers : pay[w] # 0 =>
               w \in Active \/ (GroupCandidate /\ w = leader /\ quest.status # "OPEN"),
           UNCHANGED <<rank, leader, allocation>>, Quiet,
           \/ underfilled' = underfilled
           \/ /\ quest.apiVersion = "v2" /\ quest.status = "OPEN"
              /\ Decision.state \in Asking /\ underfilled'.state = "CANCELLED"
    PROVE  Moves
<1>1. quest'.status = "CANCELLED" /\ SameShape /\ SameHold
  BY Entered, Unstamped DEF CancelQuest, Known, QuestInv, QuestStatuses, SameHold
<1>2. Cancels(pay, cut)
  BY <1>1 DEF Cancels, CancelQuest
<1> QED
  BY <1>2 DEF Moves

\* Nobody is paid.
LEMMA NothingPays == Nothing \in Amounts /\ \A w \in Workers : Nothing[w] = 0
BY DEF Nothing, Amounts

\* cancelUnderfilledInTransaction
LEMMA CancelUnderfilledMoves ==
    ASSUME Known, quest.apiVersion = "v2", CancelUnderfilled, DecisionPending,
           UNCHANGED <<allocation, proof, sweepNow>>
    PROVE  SideTypes' /\ Moves
<1>1. Types /\ MoneyTypes
  BY DEF Known, QuestInv
<1>2. /\ underfilled' = [Decision EXCEPT !.state = "CANCELLED"]
      /\ UNCHANGED <<now, rank, started, leader>>
      /\ IF quest.status = "OPEN" THEN CancelQuest(Nothing, Nothing)
         ELSE UNCHANGED <<quest, assignment, moneyVars>>
  BY DEF CancelUnderfilled
<1>3. underfilled' \in DecisionRows /\ underfilled'.state = "CANCELLED"
  BY <1>1, <1>2, DecisionTyped DEF DecisionRows, DecisionStates
<1>4. SideTypes'
  BY <1>1, <1>2, <1>3 DEF SideTypes, MoneyTypes
<1>5. Decision.state \in Asking /\ EditKept
  BY EditUntouched DEF DecisionPending, Asking
<1>6. CASE quest.status = "OPEN"
  BY <1>2, <1>3, <1>4, <1>5, <1>6, NothingPays, CancelMoves DEF Quiet
<1>7. CASE quest.status # "OPEN"
  <2>1. Abandons
    BY <1>1, <1>2, <1>5, <1>7, DecisionTyped DEF Abandons
  <2>2. UNCHANGED <<quest, assignment, escrow, ledger>>
    BY <1>2, <1>7 DEF moneyVars
  <2>3. Passes
    BY <1>2, <1>5, <2>2 DEF Passes
  <2>4. Stays
    BY <1>2, <2>1, <2>2, <2>3 DEF Stays, SameShape, SameHold, RosterKept
  <2> QED
    BY <1>4, <2>4 DEF Moves
<1> QED
  BY <1>6, <1>7

\* Steps that leave money and roster alone.
LEMMA StaysMoves ==
    ASSUME Known, SameShape, SameHold, UNCHANGED <<assignment, rank, leader, escrow, ledger,
                                                   allocation, underfilled>>,
           quest'.status = quest.status \/ {quest.status, quest'.status} \subseteq UnderWay,
           \/ Passes \/ Sweeps \/ Pauses \/ Resumes
           \/ \E w \in Workers : Sends(w) \/ WorksV1(w),
           sweepNow' \in Times
    PROVE  SideTypes' /\ Moves
<1>1. Stays
  BY DEF Stays, RosterKept
<1>2. SideTypes'
  BY DEF SideTypes, Known, MoneyTypes
<1> QED
  BY <1>1, <1>2 DEF Moves

\* A Worker joins, of either API.
LEMMA JoinMoves ==
    ASSUME Known, NEW w \in Workers, quest.status = "OPEN", quest.kind.mode = "FCFS",
           assignment[w] = "NONE", Cardinality(Active) < quest.kind.headcount,
           quest.apiVersion = "v2" => now < StartTime,
           assignment' = [assignment EXCEPT ![w] = "ACTIVE"],
           rank' = [rank EXCEPT ![w] = Cardinality(Active) + 1],
           IF Cardinality(Active) + 1 = quest.kind.headcount
              THEN EnterState("ASSIGNED", FALSE) ELSE UNCHANGED quest,
           UNCHANGED <<leader, escrow, ledger, underfilled, allocation>>, Quiet
    PROVE  SideTypes' /\ Moves
<1>1. Types /\ MoneyTypes
  BY DEF Known, QuestInv
<1>2. /\ quest'.status = IF Cardinality(Active) + 1 = quest.kind.headcount
                         THEN "ASSIGNED" ELSE "OPEN"
      /\ SameShape /\ SameHold
  BY <1>1, Entered, Unstamped DEF QuestStatuses, SameShape, SameHold
<1>3. Joins(w)
  BY <1>2 DEF Joins, MoneyKept
<1>4. Cardinality(Active) \in Nat
  BY PricesAssumption, FS_Subset, FS_CardinalityType DEF Active, AssignmentsWith
<1>5. Cardinality(Active) + 1 \in Int
  BY <1>4
<1>6. rank' \in [Workers -> Int] /\ sweepNow' = sweepNow
  BY <1>1, <1>5 DEF MoneyTypes, Quiet
<1>7. SideTypes'
  BY <1>1, <1>6 DEF SideTypes, MoneyTypes
<1> QED
  BY <1>3, <1>7 DEF Moves

\* The Hirer selects, of either API.
LEMMA SelectMoves ==
    ASSUME Known, NEW S \in SUBSET Workers, NEW l \in Workers \union {NoWorker},
           quest.status = "OPEN", quest.kind.mode = "CANDIDATE",
           GroupCandidate => l \in S,
           ~GroupCandidate /\ quest.apiVersion = "v2" => Cardinality(S) = 1,
           quest.apiVersion = "v1" => Cardinality(S) = quest.kind.headcount,
           assignment' = [w \in Workers |-> IF w \in S THEN "ACTIVE" ELSE assignment[w]],
           rank' = [w \in Workers |-> IF w \in S THEN 1 ELSE rank[w]],
           leader' = l, EnterState("ASSIGNED", FALSE),
           UNCHANGED <<escrow, ledger, underfilled, allocation>>, Quiet
    PROVE  SideTypes' /\ Moves
<1>1. Types /\ MoneyTypes
  BY DEF Known, QuestInv
<1>2. quest'.status = "ASSIGNED" /\ SameShape /\ SameHold
  BY <1>1, Entered, Unstamped DEF QuestStatuses, SameHold
<1>3. Selects(S, l)
  BY <1>2 DEF Selects, MoneyKept
<1>4. rank' \in [Workers -> Int] /\ sweepNow' = sweepNow
  BY <1>1 DEF MoneyTypes, Quiet
<1>5. SideTypes'
  BY <1>1, <1>4 DEF SideTypes, MoneyTypes
<1> QED
  BY <1>3, <1>5 DEF Moves

\* A new kind, of a draft or of an OPEN v2 Quest.
LEMMA KindMoves ==
    ASSUME Known, NEW k \in Kinds, NEW c \in Conditions, ValidKind(k) \/ quest.apiVersion = "v1",
           k.participation = "SINGLE" => k.headcount = 1,
           \/ quest.status \in Drafted
                /\ quest' = [quest EXCEPT !.status = "DRAFT", !.kind = k, !.condition = c]
           \/ quest.apiVersion = "v2" /\ EditQuest(k, c),
           UNCHANGED <<now, rank, assignment, leader, escrow, ledger, underfilled, allocation,
                       sweepNow, proof, edit, legacy>>
    PROVE  SideTypes' /\ Moves
<1>1. MoneyTypes /\ quest \in QuestRows
  BY DEF Known, QuestInv, Types
<1>2. SideTypes'
  BY <1>1, SideKept
<1>3. MoneyKept /\ RosterKept /\ Quiet
  BY EditUntouched DEF MoneyKept, RosterKept, Quiet
<1>4. CASE quest.status \in Drafted
             /\ quest' = [quest EXCEPT !.status = "DRAFT", !.kind = k, !.condition = c]
  <2>1. Drafts
    BY <1>1, <1>3, <1>4 DEF Drafts, SameHold, SoundKind, QuestRows
  <2> QED
    BY <1>2, <2>1 DEF Moves
<1>5. CASE quest.apiVersion = "v2" /\ EditQuest(k, c)
  <2>1. /\ quest.status \in {"DRAFT", "OPEN"}
        /\ quest.status = "OPEN" => /\ now < StartTime
                                    /\ \A w \in Workers : assignment[w] = "NONE"
                                    /\ k.headcount = quest.kind.headcount
        /\ quest' = [quest EXCEPT !.kind = k, !.condition = c]
    BY <1>5 DEF EditQuest, Editable
  <2>2. CASE quest.status = "DRAFT"
    <3>1. Drafts
      BY <1>1, <1>3, <2>1, <2>2 DEF Drafts, Drafted, SameHold, SoundKind, QuestRows
    <3> QED
      BY <1>2, <3>1 DEF Moves
  <2>3. CASE quest.status = "OPEN"
    <3>1. Reshapes
      BY <1>1, <1>3, <1>5, <2>1, <2>3 DEF Reshapes, SameHold, SoundKind, QuestRows
    <3> QED
      BY <1>2, <3>1 DEF Moves
  <2> QED
    BY <2>1, <2>2, <2>3
<1> QED
  BY <1>4, <1>5

\* publishQuestV2 and publishQuest
LEMMA PublishMoves ==
    ASSUME Known, PublishQuest, UNCHANGED <<allocation, sweepNow, proof, edit, legacy>>
    PROVE  SideTypes' /\ Moves
<1>1. Types /\ MoneyTypes
  BY DEF Known, QuestInv
<1>2. /\ quest.status = "DRAFT" /\ quest'.status = "OPEN" /\ SameShape /\ SameHold
      /\ UNCHANGED <<now, assignment, rank, leader, ledger, underfilled>>
      /\ escrow' = [status |-> "ACTIVE", remaining |-> PublishedEscrow]
  BY <1>1, Entered, Unstamped
     DEF PublishQuest, Publishable, ReserveEscrow, QuestStatuses, SameHold, rosterVars
<1>3. Publishes
  BY <1>2, EditUntouched DEF Publishes, RosterKept, Quiet
<1>4. SideTypes'
  BY <1>1, <1>2, SideKept
<1> QED
  BY <1>3, <1>4 DEF Moves

\* startQuestWork of either API.
LEMMA StartMoves ==
    ASSUME Known, NEW dueAt, NEW w, StartWorkUntil(dueAt, w),
           UNCHANGED <<allocation, sweepNow, proof, edit, legacy>>
    PROVE  SideTypes' /\ Moves
<1>1. Types /\ MoneyTypes
  BY DEF Known, QuestInv
<1>2. /\ quest.status = "ASSIGNED"
      /\ EnterState("IN_PROGRESS", FALSE) \/ UNCHANGED quest
      /\ UNCHANGED <<now, assignment, rank, leader, escrow, ledger, underfilled>>
  BY DEF StartWorkUntil, moneyVars
<1>3. SameShape /\ SameHold /\ quest'.status \in {quest.status, "IN_PROGRESS"}
  BY <1>1, <1>2, Entered, Unstamped DEF QuestStatuses, SameShape, SameHold
<1>4. Passes
  BY <1>2, <1>3, EditUntouched DEF Passes
<1>5. sweepNow' \in Times
  BY <1>1 DEF MoneyTypes
<1> QED
  BY <1>2, <1>3, <1>4, <1>5, StaysMoves DEF UnderWay

\* The underfilled decision of a v2 Quest, from its detection to its end.
LEMMA UnderfilledMoves ==
    ASSUME Known, quest.apiVersion = "v2", UNCHANGED <<allocation, sweepNow, proof>>,
           \/ DetectUnderfilled \/ ExpireUnderfilled \/ AbandonUnderfilled
           \/ \E proceed \in BOOLEAN : DecideUnderfilled(proceed)
           \/ \E w \in Workers, accept \in BOOLEAN : RespondToUnderfilled(w, accept)
    PROVE  SideTypes' /\ Moves
<1> DEFINE d == Decision
<1>1. Types /\ MoneyTypes
  BY DEF Known, QuestInv
<1>2. d \in DecisionRows
  BY <1>1, DecisionTyped
<1>3. EditKept /\ now \in Nat
  BY <1>1, EditUntouched, ClockAssumption DEF Types, Times
<1>4. ASSUME CancelUnderfilled, d.state \in Asking PROVE SideTypes' /\ Moves
  BY <1>4, CancelUnderfilledMoves DEF DecisionPending, Asking
<1>5. ASSUME quest.status = "OPEN", d.state \in Asking, underfilled'.state \in Asking,
             underfilled'.asked = d.asked, underfilled' \in DecisionRows, UNCHANGED stateVars
      PROVE  SideTypes' /\ Moves
  <2>1. UNCHANGED <<now, quest, assignment, rank, leader, escrow, ledger>>
    BY <1>5 DEF stateVars, rosterVars, moneyVars
  <2>2. Decides
    BY <1>3, <1>5, <2>1 DEF Decides, RosterKept, Quiet
  <2>3. SideTypes'
    BY <1>1, <1>5, <2>1 DEF SideTypes, MoneyTypes, Asking
  <2> QED
    BY <2>2, <2>3 DEF Moves
<1>6. CASE DetectUnderfilled
  <2>1. d.state \in Asking /\ underfilled' = d /\ quest.status = "OPEN" /\ UNCHANGED stateVars
    BY <1>6 DEF DetectUnderfilled, Decision, DueUnderfilled, Asking
  <2> QED
    BY <1>2, <1>5, <2>1
<1>7. CASE ExpireUnderfilled \/ AbandonUnderfilled
  BY <1>4, <1>7 DEF ExpireUnderfilled, AbandonUnderfilled, DecisionExpired, DecisionPending, Asking
<1>8. ASSUME NEW proceed \in BOOLEAN, DecideUnderfilled(proceed) PROVE SideTypes' /\ Moves
  <2>1. quest.status = "OPEN" /\ d.state = "DECISION_PENDING"
    BY <1>8 DEF DecideUnderfilled
  <2>2. CASE proceed
    <3>1. /\ underfilled' = [d EXCEPT !.state = "CONSENT_PENDING",
                                     !.expiresAt = now + UnderfilledWindow]
          /\ UNCHANGED stateVars
      BY <1>8, <2>2 DEF DecideUnderfilled
    <3>2. now + UnderfilledWindow \in Nat
      BY <1>3, UnderfilledAssumption
    <3> HIDE DEF d
    <3>3. /\ underfilled' \in DecisionRows /\ underfilled'.state = "CONSENT_PENDING"
          /\ underfilled'.asked = d.asked
      BY <1>2, <3>1, <3>2 DEF DecisionRows, DecisionStates
    <3> QED
      BY <1>5, <2>1, <3>1, <3>3 DEF Asking
  <2>3. CASE ~proceed
    BY <1>4, <1>8, <2>1, <2>3 DEF DecideUnderfilled, Asking
  <2> QED
    BY <2>2, <2>3
<1>9. ASSUME NEW w \in Workers, NEW accept \in BOOLEAN, RespondToUnderfilled(w, accept)
      PROVE  SideTypes' /\ Moves
  <2>1. quest.status = "OPEN" /\ d.state = "CONSENT_PENDING" /\ w \in d.asked
    BY <1>9 DEF RespondToUnderfilled
  <2>2. CASE CancelUnderfilled
    BY <1>4, <2>1, <2>2 DEF Asking
  <2>3. CASE /\ underfilled' = [d EXCEPT !.accepted = d.asked, !.state = "COMPLETED"]
             /\ EnterState("ASSIGNED", FALSE)
             /\ UNCHANGED <<now, rosterVars, moneyVars>>
    <3>1. quest'.status = "ASSIGNED" /\ SameShape /\ SameHold
      BY <1>1, <2>3, Entered, Unstamped DEF QuestStatuses, SameHold
    <3>2. UNCHANGED <<now, assignment, rank, leader, escrow, ledger>>
      BY <2>3 DEF rosterVars, moneyVars
    <3>3. d.state = underfilled.state \/ underfilled.state = "NONE"
      BY DEF Decision
    <3>4. underfilled.state = "NONE" => d.state = "DECISION_PENDING" \/ d = underfilled
      BY DEF Decision
    <3>5. d = underfilled
      BY <2>1, <3>3, <3>4 DEF Decision
    <3> HIDE DEF d
    <3>6. /\ underfilled' \in DecisionRows /\ underfilled'.state = "COMPLETED"
          /\ underfilled'.accepted = d.asked
      BY <1>2, <2>3 DEF DecisionRows, DecisionStates
    <3>7. Consents
      BY <1>3, <2>1, <3>1, <3>2, <3>5, <3>6 DEF Consents, RosterKept, Quiet, Asking
    <3>8. SideTypes'
      BY <1>1, <2>1, <3>2, <3>6 DEF SideTypes, MoneyTypes
    <3> QED
      BY <3>7, <3>8 DEF Moves
  <2>4. CASE /\ underfilled' = [d EXCEPT !.accepted = d.accepted \union {w}]
             /\ UNCHANGED stateVars
    <3> HIDE DEF d
    <3>1. /\ underfilled' \in DecisionRows /\ underfilled'.state = "CONSENT_PENDING"
          /\ underfilled'.asked = d.asked
      BY <1>2, <2>1, <2>4 DEF DecisionRows
    <3> QED
      BY <1>5, <2>1, <2>4, <3>1 DEF Asking
  <2> QED
    BY <1>9, <2>2, <2>3, <2>4 DEF RespondToUnderfilled
<1> QED
  BY <1>6, <1>7, <1>8, <1>9

\* Drafting, publishing, joining, selecting and the underfilled decision of v2.
LEMMA RosterMoves ==
    ASSUME Known, quest.apiVersion = "v2", RosterStep, UNCHANGED <<workVars, editVars, legacy>>
    PROVE  SideTypes' /\ Moves
<1>1. UNCHANGED <<proof, allocation, sweepNow, edit, legacy>>
  BY DEF workVars, editVars
<1>2. Types /\ MoneyTypes
  BY DEF Known, QuestInv
<1>3. EditKept
  BY <1>1, EditUntouched
<1>4. ASSUME NEW k \in Kinds, NEW c \in Conditions, CreateQuest(k, c) \/ EditQuest(k, c)
      PROVE  SideTypes' /\ Moves
  <2>1. CASE CreateQuest(k, c)
    BY <1>1, <2>1, KindMoves DEF CreateQuest, ValidKind, Drafted, rosterVars, moneyVars
  <2>2. CASE EditQuest(k, c)
    BY <1>1, <2>2, KindMoves DEF EditQuest, Editable, ValidKind, rosterVars, moneyVars
  <2> QED
    BY <1>4, <2>1, <2>2
<1>5. CASE PublishQuest
  BY <1>1, <1>5, PublishMoves
<1>6. ASSUME NEW S \in SUBSET Workers, NEW l \in Workers \union {NoWorker}, SelectCandidates(S, l)
      PROVE  SideTypes' /\ Moves
  <2>1. /\ GroupCandidate => l \in S
        /\ ~GroupCandidate => Cardinality(S) = 1
    BY <1>2, <1>6 DEF SelectCandidates, GroupCandidate, FitsQuest, Types, QuestRows, KindRows
  <2>2. Quiet
    BY <1>1, <1>3, <1>6 DEF SelectCandidates, Quiet
  <2> QED
    BY <1>1, <1>6, <2>1, <2>2, SelectMoves DEF SelectCandidates, moneyVars
<1>7. ASSUME NEW w \in Workers, JoinQuest(w) PROVE SideTypes' /\ Moves
  <2>1. Quiet
    BY <1>1, <1>3, <1>7 DEF JoinQuest, Quiet
  <2> QED
    BY <1>1, <1>7, <2>1, JoinMoves DEF JoinQuest, OnBoard, moneyVars
<1>8. ASSUME NEW w \in Workers, StartWork(w) PROVE SideTypes' /\ Moves
  BY <1>1, <1>8, StartMoves DEF StartWork
<1>9. CASE \/ DetectUnderfilled \/ ExpireUnderfilled \/ AbandonUnderfilled
           \/ \E proceed \in BOOLEAN : DecideUnderfilled(proceed)
           \/ \E w \in Workers, accept \in BOOLEAN : RespondToUnderfilled(w, accept)
  BY <1>1, <1>9, UnderfilledMoves
<1>10. CASE AutoCancelUnfilled
  <2>1. Quiet
    BY <1>1, <1>3, <1>10 DEF AutoCancelUnfilled, Quiet
  <2>2. SideTypes'
    BY <1>1, <1>2, <1>10, SideKept DEF AutoCancelUnfilled
  <2> QED
    BY <1>1, <1>10, <2>1, <2>2, NothingPays, CancelMoves DEF AutoCancelUnfilled
<1> QED
  BY <1>4, <1>5, <1>6, <1>7, <1>8, <1>9, <1>10 DEF RosterStep, HirerStep

-----------------------------------------------------------------------------
(* Every step is a move: the work of a v2 Quest *)

\* What Workers cost is an amount.
LEMMA OneCosts ==
    ASSUME Types, MoneyTypes, NEW S
    PROVE  SumOf(Rewards(S)) \in Nat /\ SumOf(Fees(S)) \in Nat /\ SlotsOf(S) \in Nat
<1>1. S \intersect {} = {}
  OBVIOUS
<1> QED
  BY <1>1, SlotsAdd

\* settleApprovedQuestV2ProofInTransaction for one Worker of his own.
LEMMA SettleWorkerMoves ==
    ASSUME Known, quest.apiVersion = "v2", ~GroupCandidate, NEW w \in Workers, SettleWorker(w),
           Reviewable, UNCHANGED <<now, rank, leader, underfilled, sweepNow>>,
           \/ proof' = proof /\ ~quest.kind.proofRequired
           \/ Pending(w) /\ proof' = [proof EXCEPT ![w].status = "APPROVED"]
    PROVE  SideTypes' /\ Moves
<1> DEFINE left == escrow.remaining - SumOf(Rewards({w})) - SumOf(Fees({w}))
           paid == SumOf(Rewards({w})) + SumOf(Fees({w}))
           unpaid == IF GroupFcfs THEN AssignmentsWith("INCOMPLETE") ELSE {}
<1>1. Types /\ MoneyTypes
  BY DEF Known, QuestInv
<1>2. /\ w \in Active /\ SettleEscrow(Rewards({w}), Fees({w}), FALSE)
      /\ EndAssignments({w}, "COMPLETED") /\ UNCHANGED allocation
      /\ IF quest.status = "IN_PROGRESS" /\ Active \ {w} = {}
         THEN escrow.remaining - paid = SlotsOf(unpaid) /\ EnterState("COMPLETED", unpaid # {})
         ELSE UNCHANGED quest
  BY DEF SettleWorker, MatchesUnpaidSlots
<1>3. escrow.remaining - paid = left
  <2>1. escrow.remaining \in Int
    BY <1>1 DEF MoneyTypes, Escrows
  <2>2. SumOf(Rewards({w})) \in Int /\ SumOf(Fees({w})) \in Int
    BY <1>1, OneCosts
  <2> QED
    BY <2>1, <2>2
<1>4. (Active \ {w} = {}) <=> (Active = {w})
  BY <1>2
<1> HIDE DEF left, paid, unpaid
<1>5. \/ /\ quest.status = "IN_PROGRESS" /\ Active = {w} /\ left = SlotsOf(unpaid)
         /\ quest'.status = "COMPLETED" /\ SameShape
         /\ quest'.holdSince = IF unpaid = {} THEN quest.holdSince ELSE now
      \/ /\ quest.status # "IN_PROGRESS" \/ Active # {w}
         /\ quest' = quest
  <2>1. CASE quest.status = "IN_PROGRESS" /\ Active = {w}
    <3>1. left = SlotsOf(unpaid) /\ EnterState("COMPLETED", unpaid # {})
      BY <1>2, <1>3, <1>4, <2>1
    <3>2. quest'.status = "COMPLETED" /\ SameShape
          /\ quest'.holdSince = TerminalStamp("COMPLETED", unpaid # {})
      BY <1>1, <3>1, Entered DEF QuestStatuses
    <3> QED
      BY <2>1, <3>1, <3>2 DEF TerminalStamp
  <2>2. CASE ~(quest.status = "IN_PROGRESS" /\ Active = {w})
    BY <1>2, <1>4, <2>2
  <2> QED
    BY <2>1, <2>2
<1>6. PaysWorker(w)
  BY <1>2, <1>5, EditUntouched DEF PaysWorker, left, unpaid, Reviewable, SameShape, SameHold
<1>7. SideTypes'
  BY <1>1, <1>2, SideKept
<1> QED
  BY <1>6, <1>7 DEF Moves

\* The same for a Team, which fails as a whole.
LEMMA SettleTeamMoves ==
    ASSUME Known, quest.apiVersion = "v2", GroupCandidate, SettleTeam, Reviewable,
           UNCHANGED <<now, rank, leader, underfilled, sweepNow>>
    PROVE  SideTypes' /\ Moves
<1>1. Types /\ MoneyTypes
  BY DEF Known, QuestInv
<1>2. leader \in Active
  BY DEF SettleTeam
<1>3. quest.status # "FAILED"
  BY <1>2 DEF Known, RosterInv, WorkedRoster, Worked, Drafted
<1>4. /\ escrow.status = "ACTIVE" /\ EndAssignments(Active, "COMPLETED")
      /\ quest.status = "IN_PROGRESS"
      /\ allocation' = [status |-> "PENDING", deadline |-> now + AllocationWindow]
      /\ EnterState("COMPLETED", FALSE) /\ UNCHANGED <<escrow, ledger>>
  BY <1>3 DEF SettleTeam, OpenAllocation, moneyVars
<1>5. quest'.status = "COMPLETED" /\ SameShape /\ SameHold
  BY <1>1, <1>4, Entered, Unstamped DEF QuestStatuses, SameHold
<1>6. TeamDone
  BY <1>2, <1>4, <1>5, EditUntouched DEF TeamDone
<1>7. now + AllocationWindow \in Nat
  BY <1>1, ClockAssumption, WorkAssumption DEF Types, Times
<1>8. allocation' \in Allocations
  BY <1>4, <1>7 DEF Allocations
<1>9. SideTypes'
  BY <1>1, <1>8 DEF SideTypes, MoneyTypes
<1> QED
  BY <1>6, <1>9 DEF Moves

\* Who has sent a Proof that is pending now.
LEMMA PendingNow ==
    ASSUME Types, NEW w \in Workers, proof' = [proof EXCEPT ![w].status = "NOT_APPROVED"]
    PROVE  \A v \in Workers : Pending(v)' => v # w /\ proof'[v] = proof[v] /\ Pending(v)
BY DEF Types, ProofRows, Pending

\* failQuestV2InTransaction
LEMMA FailMoves ==
    ASSUME Known, quest.apiVersion = "v2", NEW S \in SUBSET Workers, FailQuest(S),
           quest.status \in {"ASSIGNED", "IN_PROGRESS", "FAILED"},
           GroupCandidate => Active \subseteq S,
           \A v \in Workers : Pending(v)' => proof'[v] = proof[v] /\ v \notin S,
           UNCHANGED <<now, rank, leader, escrow, ledger, underfilled, allocation, sweepNow>>
    PROVE  SideTypes' /\ Moves
<1>1. Types /\ MoneyTypes
  BY DEF Known, QuestInv
<1>2. EndAssignments(S, "INCOMPLETE")
      /\ IF quest.status = "FAILED" THEN UNCHANGED quest ELSE EnterState("FAILED", FALSE)
  BY DEF FailQuest
<1>3. quest.status # "FAILED" =>
          quest'.status = "FAILED" /\ SameShape /\ quest'.holdSince = now
  BY <1>1, <1>2, Entered DEF QuestStatuses, TerminalStamp
<1>4. /\ SameShape /\ quest'.status = "FAILED"
      /\ quest'.holdSince = IF quest.status = "FAILED" THEN quest.holdSince ELSE now
  BY <1>2, <1>3 DEF SameShape
<1>5. Fails(S)
  BY <1>2, <1>4, EditUntouched DEF Fails, MoneyKept
<1>6. SideTypes'
  BY <1>1, SideKept
<1> QED
  BY <1>5, <1>6 DEF Moves

\* reviewQuestV2ProofSubmission with PROOF_NOT_APPROVED
LEMMA RejectMoves ==
    ASSUME Known, quest.apiVersion = "v2", NEW w \in Workers, RejectProof(w)
    PROVE  SideTypes' /\ Moves
<1>1. Types /\ MoneyTypes /\ SentLate
  BY DEF Known, QuestInv
<1>2. /\ Pending(w) /\ quest.status \in {"IN_PROGRESS", "FAILED"}
      /\ proof' = [proof EXCEPT ![w].status = "NOT_APPROVED"]
      /\ UNCHANGED <<now, rank, leader, escrow, ledger, underfilled, allocation, sweepNow>>
  BY DEF RejectProof, Reviewable, moneyVars
<1>3. \A v \in Workers : Pending(v)' => v # w /\ proof'[v] = proof[v] /\ Pending(v)
  BY <1>1, <1>2, PendingNow
<1>4. CASE GroupFcfs /\ quest.status = "IN_PROGRESS"
  <2>1. FailOneWorker(w) /\ ~GroupCandidate
    BY <1>4 DEF RejectProof, GroupFcfs, GroupCandidate
  <2>2. CASE Active # {w} /\ EndAssignments({w}, "INCOMPLETE") /\ UNCHANGED quest
    <3>1. Fails({w})
      BY <1>2, <1>3, <1>4, <2>1, <2>2, EditUntouched DEF Fails, SameShape, SameHold, MoneyKept
    <3>2. SideTypes'
      BY <1>1, <1>2, SideKept
    <3> QED
      BY <3>1, <3>2 DEF Moves
  <2>3. CASE FailQuest({w})
    BY <1>2, <1>3, <2>1, <2>3, FailMoves
  <2>4. CASE Active = {w} /\ EndAssignments({w}, "INCOMPLETE") /\ EnterState("COMPLETED", TRUE)
    <3>1. quest'.status = "COMPLETED" /\ SameShape /\ quest'.holdSince = now
      BY <1>1, <2>4, Entered DEF QuestStatuses, TerminalStamp
    <3>2. Fails({w})
      BY <1>2, <1>3, <1>4, <2>1, <2>4, <3>1, EditUntouched DEF Fails, MoneyKept
    <3>3. SideTypes'
      BY <1>1, <1>2, SideKept
    <3> QED
      BY <3>2, <3>3 DEF Moves
  <2> QED
    BY <2>1, <2>2, <2>3, <2>4 DEF FailOneWorker
<1>5. CASE ~(GroupFcfs /\ quest.status = "IN_PROGRESS")
  <2>1. FailQuest(Subject(w)) /\ Subject(w) \in SUBSET Workers
    BY <1>5 DEF RejectProof, Subject, Active, AssignmentsWith
  <2>2. GroupCandidate => Active \subseteq Subject(w)
    BY DEF Subject
  <2>3. \A v \in Workers : Pending(v)' => v \notin Subject(w)
    <3>1. \A v \in Workers : Pending(v) => (GroupCandidate => v = leader)
      BY <1>1 DEF SentLate, Sent, Pending
    <3> QED
      BY <1>2, <1>3, <3>1 DEF Subject
  <2> QED
    BY <1>2, <1>3, <2>1, <2>2, <2>3, FailMoves
<1> QED
  BY <1>4, <1>5

\* The division of a Team's reward is in amounts, to its Members.
LEMMA SplitTyped ==
    ASSUME Types, MoneyTypes
    PROVE  /\ EqualSplit \in Amounts
           /\ \A w \in Workers : assignment[w] # "COMPLETED" => EqualSplit[w] = 0
           /\ \A m \in Members : /\ AllTo(m) \in Amounts
                                 /\ \A w \in Workers :
                                       assignment[w] # "COMPLETED" => AllTo(m)[w] = 0
<1>1. RewardPool \in Nat
  BY PriceTypes
<1>2. ASSUME NEW w \in Members
      PROVE  /\ RewardPool \div Cardinality(Members) \in Nat
             /\ RewardPool % Cardinality(Members) \in Nat
  <2>1. IsFiniteSet(Members) /\ Members # {}
    BY <1>2, PricesAssumption, FS_Subset DEF Members, AssignmentsWith
  <2>2. Cardinality(Members) \in Nat \ {0}
    BY <2>1, FS_CardinalityType, FS_EmptySet
  <2> DEFINE n == Cardinality(Members)
  <2>3. n \in Nat /\ n # 0
    BY <2>2
  <2> HIDE DEF n
  <2>4. RewardPool \div n \in Nat /\ RewardPool % n \in 0 .. n - 1
    BY <1>1, <2>3, DivMod
  <2> QED
    BY <2>3, <2>4 DEF n
<1>3. EqualSplit \in Amounts
  BY <1>2 DEF EqualSplit, Amounts
<1>4. \A w \in Workers : assignment[w] # "COMPLETED" => EqualSplit[w] = 0
  BY DEF EqualSplit, Members, AssignmentsWith
<1>5. \A m \in Members : AllTo(m) \in Amounts
  BY <1>1 DEF AllTo, Amounts
<1>6. \A m \in Members, w \in Workers : assignment[w] # "COMPLETED" => AllTo(m)[w] = 0
  BY DEF AllTo, Members, AssignmentsWith
<1> QED
  BY <1>3, <1>4, <1>5, <1>6

\* settleV2TeamRewardAllocationInTransaction
LEMMA AllocationMoves ==
    ASSUME Known, quest.apiVersion = "v2", NEW split \in Amounts,
           \A w \in Workers : assignment[w] # "COMPLETED" => split[w] = 0,
           NEW status \in {"SUBMITTED", "AUTO_EQUAL"}, SettleAllocation(split, status)
    PROVE  SideTypes' /\ Moves
<1>1. Types /\ MoneyTypes
  BY DEF Known, QuestInv
<1>2. /\ quest.status = "COMPLETED" /\ allocation.status = "PENDING"
      /\ SettleEscrow(split, LeaderFee, FALSE) /\ escrow'.remaining = 0
      /\ allocation' = [allocation EXCEPT !.status = status]
      /\ UNCHANGED <<now, quest, assignment, rank, leader, underfilled, proof, sweepNow>>
  BY DEF SettleAllocation, rosterVars
<1>3. allocation' \in Allocations /\ allocation'.status = status
  BY <1>1, <1>2 DEF MoneyTypes, Allocations
<1>4. Allocates(split)
  BY <1>2, <1>3, EditUntouched DEF Allocates, RosterKept, Quiet
<1>5. SideTypes'
  BY <1>1, <1>2, <1>3 DEF SideTypes, MoneyTypes
<1> QED
  BY <1>4, <1>5 DEF Moves

\* The sweep is past its approvals.
LEMMA SweepMoves ==
    ASSUME Known,
           \/ quest.apiVersion = "v2" /\ SweepPassesApprovals /\ UNCHANGED <<edit, legacy>>
           \/ quest.apiVersion = "v1" /\ SweepPassesLegacyApprovals /\ UNCHANGED <<edit, legacy>>
    PROVE  SideTypes' /\ Moves
<1>1. Types
  BY DEF Known, QuestInv
<1>2. /\ UNCHANGED <<now, quest, assignment, rank, leader, escrow, ledger, underfilled, allocation>>
      /\ sweepNow' = now
  BY DEF SweepPassesApprovals, SweepPassesLegacyApprovals, stateVars, rosterVars, moneyVars
<1>3. Sweeps /\ SameShape /\ SameHold
  BY <1>2 DEF Sweeps, SameShape, SameHold
<1>4. sweepNow' \in Times
  BY <1>1, <1>2 DEF Types
<1> QED
  BY <1>2, <1>3, <1>4, StaysMoves

\* Proofs, confirmations, reviews, failures and the division of a reward.
LEMMA WorkMoves ==
    ASSUME Known, quest.apiVersion = "v2", WorkStep, UNCHANGED <<editVars, legacy>>
    PROVE  SideTypes' /\ Moves
<1>1. Types /\ MoneyTypes
  BY DEF Known, QuestInv
<1>2. ASSUME NEW w \in Workers, SubmitProof(w) PROVE SideTypes' /\ Moves
  <2>1. /\ UNCHANGED <<now, quest, assignment, rank, leader, escrow, ledger, underfilled,
                       allocation, sweepNow>>
        /\ Sends(w)
    BY <1>2 DEF SubmitProof, Sends, stateVars, rosterVars, moneyVars
  <2>2. SameShape /\ SameHold /\ sweepNow' \in Times
    BY <1>1, <2>1 DEF SameShape, SameHold, MoneyTypes
  <2> QED
    BY <2>1, <2>2, StaysMoves
<1>3. ASSUME NEW w \in Workers, ConfirmCompletion(w) PROVE SideTypes' /\ Moves
  <2>1. /\ UNCHANGED <<now, rank, leader, underfilled, proof, sweepNow>>
        /\ Reviewable /\ SettleConfirmed(w) /\ ~quest.kind.proofRequired
    BY <1>3 DEF ConfirmCompletion, Reviewable
  <2> QED
    BY <2>1, SettleTeamMoves, SettleWorkerMoves DEF SettleConfirmed
<1>4. ASSUME NEW w \in Workers, ApproveProof(w) PROVE SideTypes' /\ Moves
  <2>1. /\ UNCHANGED <<now, rank, leader, underfilled, sweepNow>>
        /\ Reviewable /\ Pending(w) /\ proof' = [proof EXCEPT ![w].status = "APPROVED"]
        /\ IF GroupCandidate THEN SettleTeam ELSE SettleWorker(w)
    BY <1>4 DEF ApproveProof
  <2> QED
    BY <2>1, SettleTeamMoves, SettleWorkerMoves
<1>5. ASSUME NEW w \in Workers, RejectProof(w) PROVE SideTypes' /\ Moves
  BY <1>5, RejectMoves
<1>6. ASSUME NEW w \in Members, SubmitAllocation(AllTo(w)) PROVE SideTypes' /\ Moves
  BY <1>1, <1>6, SplitTyped, AllocationMoves DEF SubmitAllocation
<1>7. ASSUME SubmitAllocation(EqualSplit) \/ AutoAllocate PROVE SideTypes' /\ Moves
  BY <1>1, <1>7, SplitTyped, AllocationMoves DEF SubmitAllocation, AutoAllocate
<1>8. ASSUME FailAtDueAt PROVE SideTypes' /\ Moves
  <2>1. /\ FailQuest(LateAssignments) /\ quest.status \in {"ASSIGNED", "IN_PROGRESS"}
        /\ UNCHANGED <<now, rank, leader, escrow, ledger, underfilled, allocation, sweepNow, proof>>
    BY <1>8 DEF FailAtDueAt, moneyVars, workVars
  <2>2. GroupCandidate => Active \subseteq LateAssignments
    BY <1>8 DEF FailAtDueAt, LateAssignments
  <2>3. \A v \in LateAssignments : v \in Workers /\ ~Sent(v)
    BY LateSentNothing DEF Known
  <2>4. \A v \in Workers : Pending(v)' => proof'[v] = proof[v] /\ v \notin LateAssignments
    BY <2>1, <2>3 DEF Pending, Sent
  <2>5. LateAssignments \in SUBSET Workers
    BY <2>3
  <2> HIDE DEF LateAssignments
  <2> QED
    BY <2>1, <2>2, <2>4, <2>5, FailMoves
<1>9. ASSUME SweepPassesApprovals PROVE SideTypes' /\ Moves
  BY <1>9, SweepMoves DEF editVars
<1> QED
  BY <1>2, <1>3, <1>4, <1>5, <1>6, <1>7, <1>8, <1>9 DEF WorkStep, AutoApprove

\* Steps that touch neither roster nor money nor Proofs nor the state.
LEMMA PassesMoves ==
    ASSUME Known, quest.apiVersion = "v2", SameShape, SameHold, quest'.status = quest.status,
           UNCHANGED <<now, assignment, rank, leader, escrow, ledger, underfilled,
                       proof, allocation, sweepNow>>
    PROVE  SideTypes' /\ Moves
<1>1. Passes
  BY EditUntouched, ClockAssumption DEF Passes, Known, QuestInv, Types, Times
<1>2. sweepNow' \in Times
  BY DEF Known, MoneyTypes
<1> QED
  BY <1>1, <1>2, StaysMoves

\* The edit request of a v2 Quest.
LEMMA EditMoves ==
    ASSUME Known, quest.apiVersion = "v2", EditStep
    PROVE  SideTypes' /\ Moves
<1>1. UNCHANGED <<now, assignment, rank, leader, escrow, ledger, underfilled,
                  proof, allocation, sweepNow>>
  BY DEF EditStep, CreateEditRequest, RespondToEdit, MaterializeEdit,
         stateVars, rosterVars, moneyVars, workVars
<1>2. quest' = quest \/ quest' = [quest EXCEPT !.condition = edit.proposed]
  BY DEF EditStep, CreateEditRequest, RespondToEdit, MaterializeEdit, stateVars
<1>3. SameShape /\ SameHold /\ quest'.status = quest.status
  BY <1>2 DEF SameShape, SameHold, Known, QuestInv, Types, QuestRows
<1> QED
  BY <1>1, <1>3, PassesMoves

-----------------------------------------------------------------------------
(* Every step is a move: the ends of a Quest *)

\* What a cancellation pays are amounts, to whom the roster is.
LEMMA CancelPays ==
    ASSUME Types, MoneyTypes
    PROVE  /\ Rewards(Active) \in Amounts /\ Fees(Active) \in Amounts
           /\ LeaderReward \in Amounts /\ LeaderFee \in Amounts
           /\ Scaled(LeaderReward, {leader}) \in Amounts
           /\ Scaled(Rewards(Active), Active) \in Amounts
           /\ \A w \in Workers :
                 /\ w \notin Active => Rewards(Active)[w] = 0
                 /\ w # leader => LeaderReward[w] = 0
                 /\ w # leader => Scaled(LeaderReward, {leader})[w] = 0
                 /\ w \notin Active => Scaled(Rewards(Active), Active)[w] = 0
<1>1. /\ RewardPool \in Nat /\ FeePool \in Nat
      /\ \A w \in Workers : RewardOf(w) \in Nat /\ FeeOf(w) \in Nat
  BY PriceTypes
<1>2. /\ Rewards(Active) \in [Workers -> Nat] /\ Fees(Active) \in [Workers -> Nat]
      /\ LeaderReward \in [Workers -> Nat] /\ LeaderFee \in [Workers -> Nat]
  BY <1>1 DEF Rewards, Fees, LeaderReward, LeaderFee
<1>3. ASSUME NEW f \in [Workers -> Nat], NEW S PROVE Scaled(f, S) \in Amounts
  <2>1. ASSUME NEW w \in Workers PROVE (f[w] * CancelPercent) \div 100 \in Nat
    <3>1. f[w] * CancelPercent \in Nat
      BY <1>3, PricesAssumption
    <3> QED
      BY <3>1, DivMod
  <2> QED
    BY <2>1 DEF Scaled, Amounts
<1>4. Scaled(LeaderReward, {leader}) \in Amounts /\ Scaled(Rewards(Active), Active) \in Amounts
  BY <1>2, <1>3
<1>5. \A w \in Workers :
         /\ w \notin Active => Rewards(Active)[w] = 0
         /\ w # leader => LeaderReward[w] = 0
         /\ w # leader => Scaled(LeaderReward, {leader})[w] = 0
         /\ w \notin Active => Scaled(Rewards(Active), Active)[w] = 0
  BY DEF Rewards, LeaderReward, Scaled
<1>6. /\ Rewards(Active) \in Amounts /\ Fees(Active) \in Amounts
      /\ LeaderReward \in Amounts /\ LeaderFee \in Amounts
  BY <1>2 DEF Amounts
<1> QED
  BY <1>4, <1>5, <1>6, Zenon

\* The compensations of the older rules.
LEMMA OldPays ==
    ASSUME Types, MoneyTypes
    PROVE  /\ CompensationPool \in Nat
           /\ \A w \in Active : EvenShare(CompensationPool, Cardinality(Active), rank[w]) \in Int
<1>1. CompensationPool \in Nat
  <2>1. RewardPool \in Nat
    BY PriceTypes
  <2>2. RewardPool * CancelPercent \in Nat
    BY <2>1, PricesAssumption
  <2> QED
    BY <2>2, DivMod DEF CompensationPool
<1>2. ASSUME NEW w \in Active
      PROVE  EvenShare(CompensationPool, Cardinality(Active), rank[w]) \in Int
  <2>1. IsFiniteSet(Active) /\ Active # {}
    BY <1>2, PricesAssumption, FS_Subset DEF Active, AssignmentsWith
  <2>2. Cardinality(Active) \in Nat /\ Cardinality(Active) # 0
    BY <2>1, FS_CardinalityType, FS_EmptySet
  <2>3. CompensationPool \div Cardinality(Active) \in Nat
    BY <1>1, <2>2, DivMod
  <2> QED
    BY <2>3 DEF EvenShare
<1> QED
  BY <1>1, <1>2

\* A draft is cancelled.
LEMMA CancelDraftMoves ==
    ASSUME Known, CancelDraft, UNCHANGED <<edit, legacy>>
    PROVE  SideTypes' /\ Moves
<1>1. Types /\ MoneyTypes
  BY DEF Known, QuestInv
<1>2. /\ quest.status = "DRAFT" /\ EnterState("CANCELLED", FALSE)
      /\ UNCHANGED <<now, assignment, rank, leader, escrow, ledger, underfilled,
                     proof, allocation, sweepNow>>
  BY DEF CancelDraft, rosterVars, moneyVars, workVars
<1>3. quest'.status = "CANCELLED" /\ SameShape /\ SameHold
  BY <1>1, <1>2, Entered, Unstamped DEF QuestStatuses, SameHold
<1>4. Drafts
  BY <1>2, <1>3, EditUntouched
     DEF Drafts, Drafted, SameShape, RosterKept, MoneyKept, Quiet
<1>5. SideTypes'
  BY <1>1, <1>2, SideKept
<1> QED
  BY <1>4, <1>5 DEF Moves

\* releaseMoneyHold
LEMMA ReleaseMoves ==
    ASSUME Known, ReleaseMoneyHold, UNCHANGED <<edit, legacy>>
    PROVE  SideTypes' /\ Moves
<1>1. /\ quest.holdSince # Never /\ quest.holdSince + HoldWindow <= sweepNow
      /\ quest' = quest /\ ReleaseEscrow
      /\ UNCHANGED <<now, assignment, rank, leader, underfilled, proof, allocation, sweepNow>>
  BY DEF ReleaseMoneyHold, MoneyHoldOpen, rosterVars, workVars
<1>2. Releases
  BY <1>1, EditUntouched DEF Releases, RosterKept, Quiet
<1>3. SideTypes'
  BY <1>1, SideKept DEF Known
<1> QED
  BY <1>2, <1>3 DEF Moves

\* The Hirer cancels a v2 Quest, an Admin terminates it, and its hold ends.
LEMMA EndingMoves ==
    ASSUME Known, quest.apiVersion = "v2", AdminStep \/ DisputeStep \/ EndingStep,
           UNCHANGED <<editVars, legacy>>
    PROVE  SideTypes' /\ Moves
<1>1. Types /\ MoneyTypes /\ UNCHANGED <<edit, legacy>>
  BY DEF Known, QuestInv, editVars
<1>2. ASSUME NEW pay \in Amounts, NEW cut \in Amounts, CancelQuest(pay, cut),
             quest.status \in {"OPEN", "ASSIGNED", "IN_PROGRESS"},
             \A w \in Workers : pay[w] # 0 =>
               w \in Active \/ (GroupCandidate /\ w = leader /\ quest.status # "OPEN"),
             UNCHANGED <<now, rank, started, leader, underfilled, workVars>>
      PROVE  SideTypes' /\ Moves
  <2>1. UNCHANGED <<now, rank, leader, underfilled, proof, allocation, sweepNow>>
    BY <1>2 DEF workVars
  <2>2. Quiet
    BY <1>1, <2>1, EditUntouched DEF Quiet
  <2>3. SideTypes'
    BY <1>1, <2>1, SideKept
  <2> QED
    BY <1>2, <2>1, <2>2, <2>3, CancelMoves
<1>3. CASE CancelDraft
  BY <1>1, <1>3, CancelDraftMoves
<1>4. ASSUME CancelOpen, UNCHANGED <<now, rank, started, leader, underfilled, workVars>>
      PROVE  SideTypes' /\ Moves
  BY <1>2, <1>4, NothingPays DEF CancelOpen
<1>5. ASSUME CancelAssigned, UNCHANGED <<now, rank, started, leader, underfilled, workVars>>
      PROVE  SideTypes' /\ Moves
  BY <1>1, <1>2, <1>5, NothingPays, CancelPays DEF CancelAssigned
<1>6. ASSUME CancelInProgress, UNCHANGED <<now, rank, started, leader, underfilled, workVars>>
      PROVE  SideTypes' /\ Moves
  BY <1>1, <1>2, <1>6, CancelPays DEF CancelInProgress
<1>7. CASE AdminTerminates
  <2>1. ASSUME NEW pay, NEW cut \in Amounts, CancelQuest(pay, cut),
               quest.status \in {"OPEN", "ASSIGNED", "IN_PROGRESS"},
               pay \in Amounts, \A w \in Workers : w \notin Active => pay[w] = 0,
               UNCHANGED <<now, rank, started, leader, underfilled, workVars>>
        PROVE  SideTypes' /\ Moves
    BY <1>2, <2>1
  <2>2. [w \in Workers |-> IF w \in Active
             THEN EvenShare(CompensationPool, Cardinality(Active), rank[w]) ELSE 0] \in Amounts
    BY <1>1, OldPays DEF Amounts
  <2>3. /\ [w \in Workers |-> IF w \in Active THEN Reward ELSE 0] \in Amounts
        /\ [w \in Workers |-> IF w \in Active THEN Fee ELSE 0] \in Amounts
    BY PricesAssumption DEF Amounts
  <2> QED
    BY <1>3, <1>4, <1>7, <2>1, <2>2, <2>3, NothingPays DEF AdminTerminates, CompensationPool
<1>8. CASE HideQuest \/ RestoreQuest
  <2>1. /\ UNCHANGED <<now, assignment, rank, leader, escrow, ledger, underfilled,
                       proof, allocation, sweepNow>>
        /\ \E h \in BOOLEAN : quest' = [quest EXCEPT !.hidden = h]
    BY <1>8 DEF HideQuest, RestoreQuest, rosterVars, moneyVars, workVars
  <2>2. SameShape /\ SameHold /\ quest'.status = quest.status
    BY <1>1, <2>1 DEF SameShape, SameHold, Types, QuestRows
  <2> QED
    BY <2>1, <2>2, PassesMoves
<1>9. CASE DisputeStep
  <2>1. PICK f \in Filers :
            \/ FileDispute(f) \/ DismissDispute(f)
            \/ \E respondent \in Filers : RespondToDispute(f, respondent)
            \/ \E w \in Workers, amount \in Awards : ResolveDispute(f, w, amount)
    BY <1>9 DEF DisputeStep
  <2>2. CASE \/ FileDispute(f) \/ DismissDispute(f)
             \/ \E respondent \in Filers : RespondToDispute(f, respondent)
    <3>1. UNCHANGED <<now, quest, assignment, rank, leader, escrow, ledger, underfilled,
                      proof, allocation, sweepNow>>
      BY <2>2 DEF FileDispute, DismissDispute, RespondToDispute,
                  stateVars, rosterVars, moneyVars, workVars
    <3> QED
      BY <3>1, PassesMoves DEF SameShape, SameHold
  <2>3. ASSUME NEW w \in Workers, NEW amount \in Awards, ResolveDispute(f, w, amount)
        PROVE  SideTypes' /\ Moves
    <3>1. /\ quest.holdSince # Never /\ quest' = quest /\ PayAward(w, amount) /\ amount > 0
          /\ UNCHANGED <<now, assignment, rank, leader, underfilled, proof, allocation, sweepNow>>
      BY <2>3 DEF ResolveDispute, ValidAward, MoneyHoldOpen, rosterVars, workVars
    <3>2. amount \in Awards \ {0}
      BY <3>1, HoldAssumption
    <3>3. Awarded(w)
      BY <1>1, <3>1, <3>2, EditUntouched DEF Awarded, RosterKept, Quiet
    <3>4. SideTypes'
      BY <1>1, <3>1, SideKept
    <3> QED
      BY <3>3, <3>4 DEF Moves
  <2> QED
    BY <2>1, <2>2, <2>3
<1>10. CASE ReleaseMoneyHold
  BY <1>1, <1>10, ReleaseMoves
<1> QED
  BY <1>3, <1>4, <1>5, <1>6, <1>7, <1>8, <1>9, <1>10 DEF AdminStep, EndingStep, HirerCancels

-----------------------------------------------------------------------------
(* Every step is a move: a v1 Quest *)

\* Work on a v1 Quest that pays nobody.
LEMMA WorksMoves ==
    ASSUME Known, NEW w \in Workers, WorksV1(w), SameShape, SameHold,
           UNCHANGED <<assignment, rank, leader, escrow, ledger, allocation, underfilled, sweepNow>>
    PROVE  SideTypes' /\ Moves
<1>1. quest'.status = quest.status \/ {quest.status, quest'.status} \subseteq UnderWay
  BY DEF WorksV1, UnderWay
<1>2. sweepNow' \in Times
  BY DEF Known, MoneyTypes
<1> QED
  BY <1>1, <1>2, StaysMoves

\* submitProof and confirmProofFreeWork of v1
LEMMA LegacySendMoves ==
    ASSUME Known, quest.apiVersion = "v1", NEW w \in Workers,
           SubmitLegacyProof(w) \/ ConfirmProofFreeWork(w), UNCHANGED edit
    PROVE  SideTypes' /\ Moves
<1>1. Types /\ legacy \in LegacyRows
  BY DEF Known, QuestInv, Types
<1>2. /\ Working /\ w \in LegacyOwners
      /\ UNCHANGED <<now, assignment, rank, leader, escrow, ledger, underfilled,
                     allocation, sweepNow>>
      /\ \/ proof' = proof
         \/ /\ now < legacy.dueAt
            /\ proof' = [proof EXCEPT ![w] = [status |-> "PENDING", sentAt |-> now]]
  BY DEF SubmitLegacyProof, ConfirmProofFreeWork, rosterVars, moneyVars
<1>3. ASSUME NEW row, row.resumes = legacy.resumes, row \in LegacyRows, MoveIfSubmitted(row)
      PROVE  /\ legacy'.resumes = legacy.resumes /\ SameShape /\ SameHold
             /\ quest'.status \in {quest.status, "SUBMITTED"}
  <2>1. EnteredAt(row, "SUBMITTED", CurrentTerms).resumes = row.resumes
    BY <1>3 DEF EnteredAt, LegacyRows
  <2>2. \/ EnterState("SUBMITTED", FALSE)
              /\ legacy' = EnteredAt(row, "SUBMITTED", CurrentTerms)
        \/ UNCHANGED quest /\ legacy' = row
    BY <1>3 DEF MoveIfSubmitted
  <2> HIDE DEF EnteredAt
  <2>3. ASSUME EnterState("SUBMITTED", FALSE)
        PROVE  SameShape /\ SameHold /\ quest'.status = "SUBMITTED"
    BY <1>1, <2>3, Entered, Unstamped DEF QuestStatuses, SameHold
  <2> QED
    BY <1>3, <2>1, <2>2, <2>3 DEF SameShape, SameHold
<1>4. /\ legacy'.resumes = legacy.resumes /\ SameShape /\ SameHold
      /\ quest'.status \in {quest.status, "SUBMITTED"}
  <2>1. CASE SubmitLegacyProof(w)
    BY <1>1, <1>3, <2>1 DEF SubmitLegacyProof
  <2>2. CASE ConfirmProofFreeWork(w)
    <3> DEFINE row == [legacy EXCEPT !.confirmed = @ \union {w}]
    <3>1. row \in LegacyRows /\ row.resumes = legacy.resumes
      BY <1>1 DEF LegacyRows
    <3>2. MoveIfSubmitted(row)
      BY <2>2 DEF ConfirmProofFreeWork
    <3> HIDE DEF row
    <3> QED
      BY <1>3, <3>1, <3>2
  <2> QED
    BY <2>1, <2>2
<1>5. EditKept
  BY <1>2, <1>4 DEF EditKept, Working
<1>6. WorksV1(w)
  BY <1>2, <1>4, <1>5 DEF WorksV1, Working
<1> QED
  BY <1>2, <1>4, <1>6, WorksMoves

\* settleApprovedLegacyQuest: all the work is accepted.
LEMMA CompleteMoves ==
    ASSUME Known, quest.apiVersion = "v1", CompleteLegacy,
           quest.status \in {"SUBMITTED", "REWORK"},
           UNCHANGED <<now, rank, leader, underfilled, allocation, sweepNow, edit, legacy>>,
           \A w \in Workers : Sent(w)' <=> Sent(w)
    PROVE  SideTypes' /\ Moves
<1>1. Types /\ MoneyTypes
  BY DEF Known, QuestInv
<1>2. quest'.status = "COMPLETED" /\ SameShape /\ SameHold
  BY <1>1 DEF CompleteLegacy, SameShape, SameHold, Types, QuestRows
<1>3. CompletesV1
  BY <1>2, EditUntouched DEF CompletesV1, CompleteLegacy
<1>4. SideTypes'
  BY <1>1, SideKept
<1> QED
  BY <1>3, <1>4 DEF Moves

\* failQuestInTransaction
LEMMA LegacyFailMoves ==
    ASSUME Known, quest.apiVersion = "v1", NEW S \in SUBSET Workers, FailLegacyQuest(S),
           quest.status \in {"ASSIGNED", "IN_PROGRESS", "SUBMITTED", "REWORK"},
           GroupCandidate => Active \subseteq S,
           UNCHANGED <<now, rank, leader, underfilled, allocation, sweepNow, edit>>,
           \/ proof' = proof
           \/ \E o \in Workers : /\ Pending(o) /\ Active \subseteq S
                                 /\ proof' = [proof EXCEPT ![o].status = "NOT_APPROVED"]
    PROVE  SideTypes' /\ Moves
<1>1. Types /\ MoneyTypes
  BY DEF Known, QuestInv
<1>2. EnterState("FAILED", FALSE) /\ UNCHANGED legacy
  BY DEF FailLegacyQuest
<1>3. quest'.status = "FAILED" /\ SameShape /\ quest'.holdSince = now
  BY <1>1, <1>2, Entered DEF QuestStatuses, TerminalStamp
<1>4. FailsV1(S)
  BY <1>2, <1>3 DEF FailsV1, FailLegacyQuest
<1>5. SideTypes'
  BY <1>1, SideKept
<1> QED
  BY <1>4, <1>5 DEF Moves

\* reviewProof of v1, by Hirer or sweep.
LEMMA LegacyReviewMoves ==
    ASSUME Known, quest.apiVersion = "v1", NEW w \in Workers,
           ApproveLegacyProof(w) \/ RejectLegacyProof(w), UNCHANGED edit
    PROVE  SideTypes' /\ Moves
<1>1. Types /\ MoneyTypes /\ legacy \in LegacyRows /\ proof \in [Workers -> ProofRows]
  BY DEF Known, QuestInv, Types
<1>2. /\ quest.status \in {"SUBMITTED", "REWORK", "FAILED"} /\ Pending(w) /\ w \in LegacyOwners
      /\ UNCHANGED <<now, rank, leader, underfilled, allocation, sweepNow>>
  BY DEF ApproveLegacyProof, RejectLegacyProof, LegacyReviewable
<1>3. CASE ApproveLegacyProof(w)
  <2>1. proof' = [proof EXCEPT ![w].status = "APPROVED"] /\ UNCHANGED legacy
    BY <1>3 DEF ApproveLegacyProof
  <2>2. CASE /\ quest.status = "FAILED" /\ SettleAfterFailure({w})
             /\ assignment' = [v \in Workers |->
                    IF v \in Covered({w}) THEN "COMPLETED" ELSE assignment[v]]
             /\ UNCHANGED quest
    <3>1. SettleEscrow(PriceOf({w}), FeeFor({w}), FALSE)
      BY <2>2 DEF SettleAfterFailure
    <3>2. PaysLate(w)
      BY <1>2, <2>1, <2>2, <3>1 DEF PaysLate
    <3>3. SideTypes'
      BY <1>1, <1>2, SideKept
    <3> QED
      BY <3>2, <3>3 DEF Moves
  <2>3. CASE quest.status # "FAILED" /\ CompleteLegacy
    <3>1. \A v \in Workers : Sent(v)' <=> Sent(v)
      BY <1>1, <1>2, <2>1 DEF Sent, Pending, ProofRows
    <3> QED
      BY <1>2, <2>1, <2>3, <3>1, CompleteMoves
  <2>4. CASE quest.status # "FAILED" /\ UNCHANGED <<quest, assignment, moneyVars>>
    <3>1. UNCHANGED <<quest, assignment, escrow, ledger>> /\ SameShape /\ SameHold
      BY <2>4 DEF moneyVars, SameShape, SameHold
    <3>2. WorksV1(w)
      BY <1>2, <2>1, <2>4, <3>1, EditUntouched DEF WorksV1
    <3> QED
      BY <1>2, <3>1, <3>2, WorksMoves
  <2> QED
    BY <1>3, <2>2, <2>3, <2>4 DEF ApproveLegacyProof
<1>4. CASE RejectLegacyProof(w)
  <2>1. proof' = [proof EXCEPT ![w].status = "NOT_APPROVED"]
    BY <1>4 DEF RejectLegacyProof
  <2>2. CASE quest.status = "FAILED" /\ UNCHANGED <<quest, assignment, moneyVars, legacy>>
    <3>1. UNCHANGED <<quest, assignment, escrow, ledger>> /\ SameShape /\ SameHold
      BY <2>2 DEF moneyVars, SameShape, SameHold
    <3>2. WorksV1(w)
      BY <1>2, <2>1, <2>2, <3>1, EditUntouched DEF WorksV1
    <3> QED
      BY <1>2, <3>1, <3>2, WorksMoves
  <2>3. CASE quest.status # "FAILED" /\ FailLegacyQuest(Active)
    <3>1. Active \in SUBSET Workers
      BY DEF Active, AssignmentsWith
    <3> QED
      BY <1>2, <2>1, <2>3, <3>1, LegacyFailMoves
  <2>4. CASE /\ EnterState("REWORK", FALSE)
             /\ legacy' = [legacy EXCEPT !.refused[w] = @ + 1]
             /\ UNCHANGED <<assignment, moneyVars>>
    <3>1. quest'.status = "REWORK" /\ SameShape /\ SameHold
          /\ quest.status \in AllowedPredecessors["REWORK"]
      BY <1>1, <2>4, Entered, Unstamped DEF QuestStatuses, SameHold
    <3>2. quest.status \in {"SUBMITTED", "REWORK"}
      BY <1>2, <3>1, Befores
    <3>3. EditKept
      BY <1>1, <2>4, <3>2 DEF EditKept, LegacyRows
    <3>4. WorksV1(w)
      BY <1>2, <2>1, <3>1, <3>2, <3>3 DEF WorksV1
    <3>5. UNCHANGED <<escrow, ledger>>
      BY <2>4 DEF moneyVars
    <3> QED
      BY <1>2, <2>4, <3>1, <3>4, <3>5, WorksMoves
  <2> QED
    BY <1>4, <2>2, <2>3, <2>4 DEF RejectLegacyProof
<1> QED
  BY <1>3, <1>4

\* Every command and sweep of v1 but the edit.
LEMMA LegacyStepMoves ==
    ASSUME Known, quest.apiVersion = "v1", LegacyStep, UNCHANGED editVars
    PROVE  SideTypes' /\ Moves
<1>1. Types /\ MoneyTypes /\ UNCHANGED edit
  BY DEF Known, QuestInv, editVars
<1>2. ASSUME NEW k \in Kinds, NEW c \in Conditions, CreateLegacyQuest(k, c)
      PROVE  SideTypes' /\ Moves
  <2>1. /\ quest.status \in Drafted
        /\ k.participation = "SINGLE" => k.headcount = 1
        /\ quest' = [quest EXCEPT !.status = "DRAFT", !.kind = k, !.condition = c]
        /\ UNCHANGED <<now, rank, assignment, leader, escrow, ledger, underfilled, allocation,
                       sweepNow, proof, legacy>>
    BY <1>2 DEF CreateLegacyQuest, Drafted, rosterVars, moneyVars, workVars
  <2> QED
    BY <1>1, <2>1, KindMoves
<1>3. CASE PublishLegacyQuest
  BY <1>1, <1>3, PublishMoves DEF PublishLegacyQuest, workVars
<1>4. ASSUME NEW pay \in Amounts, NEW cut \in Amounts, CancelQuest(pay, cut),
             quest.status \in {"OPEN", "ASSIGNED", "IN_PROGRESS"},
             \A w \in Workers : pay[w] # 0 =>
               w \in Active \/ (GroupCandidate /\ w = leader /\ quest.status # "OPEN"),
             UNCHANGED <<now, rank, started, leader, underfilled, workVars, legacy>>
      PROVE  SideTypes' /\ Moves
  <2>1. UNCHANGED <<now, rank, leader, underfilled, proof, allocation, sweepNow, legacy>>
    BY <1>4 DEF workVars
  <2>2. Quiet
    BY <1>1, <2>1, EditUntouched DEF Quiet
  <2>3. SideTypes'
    BY <1>1, <2>1, SideKept
  <2> QED
    BY <1>4, <2>1, <2>2, <2>3, CancelMoves
<1>5. CASE CancelUnfilledLegacy
  BY <1>4, <1>5, NothingPays DEF CancelUnfilledLegacy
<1>6. CASE CancelLegacyQuest
  <2> DEFINE some == [w \in Workers |->
                 IF GroupCandidate THEN IF w = leader THEN CompensationPool ELSE 0
                 ELSE IF w \in Active
                      THEN EvenShare(CompensationPool, Cardinality(Active), rank[w])
                 ELSE 0]
  <2>1. UNCHANGED <<now, rank, started, leader, underfilled, workVars, legacy>>
    BY <1>6 DEF CancelLegacyQuest
  <2>2. CASE CancelOpen
    BY <1>4, <2>1, <2>2, NothingPays DEF CancelOpen
  <2>3. CASE quest.status = "ASSIGNED" /\ CancelQuest(some, Nothing)
    <3>1. some \in Amounts
      <4>1. ASSUME NEW w \in Workers PROVE some[w] \in Int
        <5>1. CASE GroupCandidate
          BY <1>1, <5>1, OldPays
        <5>2. CASE ~GroupCandidate /\ w \in Active
          BY <1>1, <5>2, OldPays
        <5>3. CASE ~GroupCandidate /\ w \notin Active
          BY <5>3
        <5> QED
          BY <5>1, <5>2, <5>3
      <4> QED
        BY <4>1 DEF Amounts
    <3>2. \A w \in Workers : some[w] # 0 => w \in Active \/ (GroupCandidate /\ w = leader)
      <4>1. ASSUME NEW w \in Workers, w \notin Active, ~(GroupCandidate /\ w = leader)
            PROVE  some[w] = 0
        BY <4>1
      <4> QED
        BY <4>1
    <3> HIDE DEF some
    <3> QED
      BY <1>4, <2>1, <2>3, <3>1, <3>2, NothingPays
  <2>4. CASE quest.status = "IN_PROGRESS" /\ GroupCandidate /\ CancelQuest(LeaderReward, LeaderFee)
    BY <1>1, <1>4, <2>1, <2>4, CancelPays
  <2>5. CASE quest.status = "IN_PROGRESS" /\ CancelQuest(Rewards(Active), Fees(Active))
    BY <1>1, <1>4, <2>1, <2>5, CancelPays
  <2> QED
    BY <1>6, <2>2, <2>3, <2>4, <2>5 DEF CancelLegacyQuest
<1>7. CASE CancelLegacyDraft
  BY <1>1, <1>7, CancelDraftMoves DEF CancelLegacyDraft
<1>8. CASE ReleaseLegacyHold
  BY <1>1, <1>8, ReleaseMoves DEF ReleaseLegacyHold
<1>9. ASSUME NEW S \in SUBSET Workers, NEW l \in Workers \union {NoWorker},
             SelectLegacyCandidates(S, l)
      PROVE  SideTypes' /\ Moves
  <2>1. Quiet /\ UNCHANGED <<escrow, ledger, underfilled, allocation>>
    BY <1>1, <1>9, EditUntouched DEF SelectLegacyCandidates, Quiet, moneyVars, workVars
  <2> QED
    BY <1>9, <2>1, SelectMoves DEF SelectLegacyCandidates
<1>10. ASSUME NEW w \in Workers, JoinLegacyQuest(w) PROVE SideTypes' /\ Moves
  <2>1. Quiet /\ UNCHANGED <<leader, escrow, ledger, underfilled, allocation>>
    BY <1>1, <1>10, EditUntouched DEF JoinLegacyQuest, Quiet, moneyVars, workVars
  <2> QED
    BY <1>10, <2>1, JoinMoves DEF JoinLegacyQuest
<1>11. ASSUME NEW w \in Workers, StartLegacyWork(w) PROVE SideTypes' /\ Moves
  BY <1>1, <1>11, StartMoves DEF StartLegacyWork, workVars
<1>12. ASSUME NEW w \in Workers, SubmitLegacyProof(w) \/ ConfirmProofFreeWork(w)
       PROVE  SideTypes' /\ Moves
  BY <1>1, <1>12, LegacySendMoves
<1>13. ASSUME NEW w \in Workers, ApproveLegacyProof(w) \/ RejectLegacyProof(w)
       PROVE  SideTypes' /\ Moves
  BY <1>1, <1>13, LegacyReviewMoves
<1>14. CASE AutoCompleteConfirmed
  <2>1. /\ quest.status = "SUBMITTED" /\ CompleteLegacy
        /\ UNCHANGED <<now, rank, leader, underfilled, proof, allocation, sweepNow, legacy>>
    BY <1>14 DEF AutoCompleteConfirmed, ConfirmationsDue, workVars
  <2>2. \A w \in Workers : Sent(w)' <=> Sent(w)
    BY <2>1 DEF Sent
  <2> QED
    BY <1>1, <2>1, <2>2, CompleteMoves
<1>15. CASE SweepPassesLegacyApprovals
  BY <1>1, <1>15, SweepMoves DEF SweepPassesLegacyApprovals
<1>16. CASE FailLegacyAtDueAt
  <2>1. /\ FailLegacyQuest(LateLegacy) /\ LateLegacy # {}
        /\ UNCHANGED <<now, rank, leader, underfilled, proof, allocation, sweepNow>>
    BY <1>16 DEF FailLegacyAtDueAt, workVars
  <2>2. /\ quest.status \in {"ASSIGNED", "IN_PROGRESS", "SUBMITTED", "REWORK"}
        /\ LateLegacy \in SUBSET Workers
        /\ GroupCandidate => Active \subseteq LateLegacy
    BY <2>1 DEF LateLegacy, Active, AssignmentsWith
  <2> HIDE DEF LateLegacy
  <2> QED
    BY <1>1, <2>1, <2>2, LegacyFailMoves
<1> QED
  BY <1>2, <1>3, <1>5, <1>6, <1>7, <1>8, <1>9, <1>10, <1>11, <1>12, <1>13, <1>14, <1>15, <1>16
     DEF LegacyStep, AutoApproveLegacyProof

\* editQuest of v1, before anybody takes part.
LEMMA HirerEditMoves ==
    ASSUME Known, quest.apiVersion = "v1", NEW t \in Terms, EditLegacyQuest(t)
    PROVE  SideTypes' /\ Moves
<1>1. Types /\ MoneyTypes /\ quest \in QuestRows /\ legacy \in LegacyRows /\ now \in Nat
  BY ClockAssumption DEF Known, QuestInv, Types, Times
<1>2. /\ quest.status \in {"DRAFT", "OPEN"}
      /\ quest' = [quest EXCEPT !.kind.proofRequired = t.proofRequired]
      /\ legacy' = [legacy EXCEPT !.dueAt = t.dueAt, !.proposed = t]
      /\ UNCHANGED <<now, assignment, rank, leader, escrow, ledger, underfilled,
                     proof, allocation, sweepNow, edit>>
  BY DEF EditLegacyQuest, EditableByHirer, rosterVars, moneyVars, workVars
<1>3. SameShape /\ SameHold /\ quest'.status = quest.status
  BY <1>1, <1>2 DEF SameShape, SameHold, QuestRows, KindRows
<1>4. EditKept
  BY <1>1, <1>2 DEF EditKept, LegacyRows
<1>5. CASE quest.status = "DRAFT"
  <2>1. Drafts
    BY <1>2, <1>3, <1>4, <1>5 DEF Drafts, Drafted, SameShape, RosterKept, MoneyKept, Quiet
  <2>2. SideTypes'
    BY <1>1, <1>2, SideKept
  <2> QED
    BY <2>1, <2>2 DEF Moves
<1>6. CASE quest.status = "OPEN"
  <2>1. Passes /\ sweepNow' \in Times
    BY <1>1, <1>2, <1>3, <1>4 DEF Passes, MoneyTypes
  <2> QED
    BY <1>2, <1>3, <2>1, StaysMoves
<1> QED
  BY <1>2, <1>5, <1>6

\* The edit that pauses a v1 Quest.
LEMMA ConsentMoves ==
    ASSUME Known, quest.apiVersion = "v1", ConsentStep
    PROVE  SideTypes' /\ Moves
<1>1. /\ Types /\ legacy \in LegacyRows /\ edit \in EditRows /\ now \in Nat
      /\ EditPending => quest.status = "AWAITING_CONSENT"
  BY ClockAssumption DEF Known, QuestInv, Types, LegacyOwned, Times
<1>2. UNCHANGED <<now, assignment, rank, leader, escrow, ledger, underfilled,
                  proof, allocation, sweepNow>>
  BY DEF ConsentStep, rosterVars, moneyVars, workVars
<1>3. sweepNow' \in Times
  BY <1>2 DEF Known, MoneyTypes
<1>4. legacy.resumes \in ConsentStatuses /\ legacy.resumes \in QuestStatuses \ {"FAILED"}
  BY <1>1 DEF LegacyRows, ConsentStatuses, QuestStatuses
<1>5. ASSUME NEW t \in Terms, PauseForConsent(t) PROVE SideTypes' /\ Moves
  <2>1. quest'.status = "AWAITING_CONSENT" /\ SameShape /\ SameHold
    BY <1>1, <1>5, Entered, Unstamped DEF PauseForConsent, QuestStatuses, SameHold
  <2>2. quest.status \in ConsentStatuses /\ legacy'.resumes = quest.status
    BY <1>1, <1>5 DEF PauseForConsent, LegacyRows
  <2>3. Pauses
    BY <1>2, <2>1, <2>2 DEF Pauses
  <2> QED
    BY <1>2, <1>3, <2>1, <2>2, <2>3, StaysMoves DEF UnderWay, ConsentStatuses
<1>6. ASSUME EditPending, ~EditPending', quest'.status = legacy.resumes, SameShape, SameHold
      PROVE  SideTypes' /\ Moves
  <2>1. Resumes
    BY <1>2, <1>6 DEF Resumes
  <2>2. {quest.status, quest'.status} \subseteq UnderWay
    BY <1>1, <1>4, <1>6 DEF UnderWay, ConsentStatuses
  <2> QED
    BY <1>2, <1>3, <1>6, <2>1, <2>2, StaysMoves
<1>7. ASSUME NEW row \in EditRows, EditPending, EndEdit(row) PROVE SideTypes' /\ Moves
  <2>1. edit'.status = "FAILED"
    BY <1>7 DEF EndEdit, EditRows
  <2>2. quest'.status = legacy.resumes /\ SameShape /\ SameHold
    BY <1>1, <1>4, <1>7, Entered, Unstamped DEF EndEdit, SameHold
  <2> QED
    BY <1>6, <1>7, <2>1, <2>2 DEF EditPending
<1>8. CASE ExpireLegacyEdit
  BY <1>1, <1>7, <1>8 DEF ExpireLegacyEdit
<1>9. ASSUME NEW w \in Workers, NEW accept \in BOOLEAN, RespondToLegacyEdit(w, accept)
      PROVE  SideTypes' /\ Moves
  <2>1. EditPending /\ w \in edit.asked
    BY <1>9 DEF RespondToLegacyEdit
  <2>2. CASE EndEdit([edit EXCEPT !.declined = @ \union {w}])
    <3>1. [edit EXCEPT !.declined = @ \union {w}] \in EditRows
      BY <1>1 DEF EditRows
    <3> QED
      BY <1>7, <2>1, <2>2, <3>1
  <2>3. CASE /\ edit' = [edit EXCEPT !.accepted = @ \union {w}]
             /\ UNCHANGED <<quest, legacy>>
    <3>1. edit'.status = edit.status
      BY <1>1, <2>3 DEF EditRows
    <3>2. Passes /\ SameShape /\ SameHold
      BY <1>1, <1>2, <2>3, <3>1 DEF Passes, EditKept, SameShape, SameHold
    <3> QED
      BY <1>2, <1>3, <2>3, <3>2, StaysMoves
  <2>4. CASE /\ edit' = [edit EXCEPT !.accepted = edit.asked, !.status = "APPLIED"]
             /\ ApplyTerms(legacy.proposed)
    <3>1. edit'.status = "APPLIED"
      BY <1>1, <2>4 DEF EditRows
    <3>2. quest'.status = legacy.resumes /\ SameShape /\ SameHold
      BY <1>1, <2>4 DEF ApplyTerms, Types, QuestRows, KindRows, SameShape, SameHold
    <3> QED
      BY <1>6, <2>1, <3>1, <3>2 DEF EditPending
  <2> QED
    BY <1>9, <2>2, <2>3, <2>4 DEF RespondToLegacyEdit
<1> QED
  BY <1>5, <1>8, <1>9 DEF ConsentStep

\* Every step is one of the moves.
LEMMA StepMoves ==
    ASSUME Known, Next
    PROVE  SideTypes' /\ Moves
<1>1. CASE Tick /\ UNCHANGED <<underfilled, workVars, editVars, endingVars, legacy>>
  <2>1. /\ UNCHANGED <<quest, assignment, rank, leader, escrow, ledger, underfilled,
                       proof, allocation, sweepNow, edit, legacy>>
        /\ now' = now + 1
    BY <1>1 DEF Tick, rosterVars, moneyVars, workVars, editVars
  <2>2. Passes /\ SameShape /\ SameHold /\ sweepNow' \in Times
    BY <2>1, EditUntouched DEF Passes, SameShape, SameHold, Known, MoneyTypes
  <2> QED
    BY <2>1, <2>2, StaysMoves
<1>2. CASE quest.apiVersion = "v2" /\ StepV2
  BY <1>2, RosterMoves, WorkMoves, EditMoves, EndingMoves DEF StepV2
<1>3. CASE quest.apiVersion = "v1" /\ StepV1
  BY <1>3, LegacyStepMoves, ConsentMoves, HirerEditMoves DEF StepV1
<1> QED
  BY <1>1, <1>2, <1>3 DEF Next

-----------------------------------------------------------------------------
(* What a settlement does to the Escrow and the ledger *)

Left(pay, cut) == escrow.remaining - SumOf(pay) - SumOf(cut)

\* settleFundingReservation, from an Escrow that holds enough.
LEMMA Settled ==
    ASSUME MoneyTypes, NEW pay \in Amounts, NEW cut \in Amounts, NEW released \in BOOLEAN,
           SettleEscrow(pay, cut, released)
    PROVE  /\ escrow.status = "ACTIVE" /\ Left(pay, cut) \in Int /\ Left(pay, cut) >= 0
           /\ SumOf(pay) \in Int /\ SumOf(cut) \in Int
           /\ escrow'.status = IF Left(pay, cut) = 0 THEN "SETTLED"
                               ELSE IF released THEN "RELEASED" ELSE "ACTIVE"
           /\ escrow'.remaining = IF released THEN 0 ELSE Left(pay, cut)
           /\ \A w \in Workers : ledger'.paid[w] = ledger.paid[w] + pay[w]
           /\ ledger'.disputed = ledger.disputed
           /\ escrow' \in Escrows /\ ledger' \in Ledgers
<1> DEFINE left == escrow.remaining - SumOf(pay) - SumOf(cut)
           row == [w \in Workers |-> ledger.paid[w] + pay[w]]
           fees == ledger.fees + SumOf(cut)
           back == ledger.refunded + (IF released THEN left ELSE 0)
<1>1. SumOf(pay) \in Int /\ SumOf(cut) \in Int
  BY PaysAdd DEF Amounts
<1>2. escrow \in Escrows /\ ledger \in Ledgers
  BY DEF MoneyTypes
<1>3. left \in Int
  BY <1>1, <1>2 DEF Escrows
<1>4. row \in [Workers -> Int] /\ fees \in Int /\ back \in Int
  BY <1>1, <1>2, <1>3 DEF Ledgers, Amounts
<1>5. /\ escrow.status = "ACTIVE" /\ left >= 0
      /\ escrow' = [status    |-> IF left = 0 THEN "SETTLED"
                                  ELSE IF released THEN "RELEASED" ELSE "ACTIVE",
                    remaining |-> IF released THEN 0 ELSE left]
      /\ ledger' = [ledger EXCEPT !.paid = row, !.fees = fees, !.refunded = back]
  BY DEF SettleEscrow
<1>6. \A w \in Workers : row[w] = ledger.paid[w] + pay[w]
  OBVIOUS
<1> HIDE DEF row, fees, back, left
<1>7. ledger' \in Ledgers /\ ledger'.paid = row /\ ledger'.disputed = ledger.disputed
  BY <1>2, <1>4, <1>5 DEF Ledgers
<1>8. escrow' \in Escrows
  BY <1>3, <1>5 DEF Escrows
<1>9. left = Left(pay, cut)
  BY DEF left, Left
<1> QED
  BY <1>1, <1>3, <1>5, <1>6, <1>7, <1>8, <1>9

\* What Workers are paid and what they cost are amounts.
LEMMA PricesTyped ==
    ASSUME Types, MoneyTypes
    PROVE  /\ \A S : Rewards(S) \in Amounts /\ Fees(S) \in Amounts
           /\ \A S : PriceOf(S) \in Amounts /\ FeeFor(S) \in Amounts
           /\ LeaderReward \in Amounts /\ LeaderFee \in Amounts /\ Nothing \in Amounts
<1>1. /\ RewardPool \in Int /\ FeePool \in Int
      /\ \A w \in Workers : RewardOf(w) \in Int /\ FeeOf(w) \in Int
  BY PriceTypes
<1>2. \A S : Rewards(S) \in Amounts /\ Fees(S) \in Amounts
  BY <1>1 DEF Rewards, Fees, Amounts
<1>3. LeaderReward \in Amounts /\ LeaderFee \in Amounts
  BY <1>1 DEF LeaderReward, LeaderFee, Amounts
<1> QED
  BY <1>2, <1>3, NothingPays DEF PriceOf, FeeFor

\* An award moves money to one Worker of a Dispute Case.
LEMMA AwardTyped ==
    ASSUME MoneyTypes, NEW w \in Workers, NEW amount \in Awards \ {0}, PayAward(w, amount)
    PROVE  /\ escrow' \in Escrows /\ ledger' \in Ledgers
           /\ ledger'.paid = ledger.paid
           /\ ledger'.disputed = [ledger.disputed EXCEPT ![w] = @ + amount]
           /\ \/ /\ escrow.status = "ACTIVE" /\ escrow'.status \in {"ACTIVE", "SETTLED"}
                 /\ escrow'.remaining = escrow.remaining - amount
                 /\ amount <= escrow.remaining
                 /\ escrow'.status = "SETTLED" <=> escrow'.remaining = 0
              \/ escrow.status = "RELEASED" /\ escrow' = escrow
<1>1. amount \in Nat \ {0}
  BY HoldAssumption
<1>2. escrow \in Escrows /\ ledger \in Ledgers
  BY DEF MoneyTypes
<1>3. ledger' = [ledger EXCEPT !.disputed = [ledger.disputed EXCEPT ![w] = @ + amount]]
  BY DEF PayAward
<1> DEFINE row == [ledger.disputed EXCEPT ![w] = @ + amount]
<1>4. row \in [Workers -> Nat]
  BY <1>1, <1>2 DEF Ledgers
<1>5. ledger' = [ledger EXCEPT !.disputed = row]
  BY <1>3
<1> HIDE DEF row
<1>6. ledger' \in Ledgers /\ ledger'.paid = ledger.paid /\ ledger'.disputed = row
  BY <1>2, <1>4, <1>5 DEF Ledgers
<1>7. /\ escrow' \in Escrows
      /\ \/ /\ escrow.status = "ACTIVE" /\ escrow'.status \in {"ACTIVE", "SETTLED"}
            /\ escrow'.remaining = escrow.remaining - amount
            /\ amount <= escrow.remaining
            /\ escrow'.status = "SETTLED" <=> escrow'.remaining = 0
         \/ escrow.status = "RELEASED" /\ escrow' = escrow
  BY <1>1, <1>2 DEF PayAward, WithinEscrow, Escrows
<1> QED
  BY <1>6, <1>7 DEF row

\* Every move keeps the types.
LEMMA MoneyTyped ==
    ASSUME Known, SideTypes', Moves
    PROVE  MoneyTypes'
<1>1. Types /\ MoneyTypes
  BY DEF Known, QuestInv
<1>2. escrow \in Escrows /\ ledger \in Ledgers
  BY <1>1 DEF MoneyTypes
<1>3. SUFFICES escrow' \in Escrows /\ ledger' \in Ledgers
  BY DEF SideTypes, MoneyTypes, Escrows, Ledgers, Allocations
<1>4. CASE UNCHANGED <<escrow, ledger>>
  BY <1>2, <1>4
<1>5. ASSUME NEW pay \in Amounts, NEW cut \in Amounts, NEW released \in BOOLEAN,
             SettleEscrow(pay, cut, released)
      PROVE  escrow' \in Escrows /\ ledger' \in Ledgers
  BY <1>1, <1>5, Settled
<1>6. CASE Publishes
  <2>1. PublishedEscrow \in Int
    BY <1>1, PriceTypes
  <2> QED
    BY <1>2, <1>6, <2>1 DEF Publishes, Escrows
<1>7. CASE \E w \in Workers : PaysWorker(w)
  BY <1>1, <1>5, <1>7, PricesTyped DEF PaysWorker
<1>8. CASE \E w \in Workers : Awarded(w)
  BY <1>1, <1>8, AwardTyped DEF Awarded
<1>9. CASE \E w \in Workers : PaysLate(w)
  BY <1>1, <1>5, <1>9, PricesTyped DEF PaysLate
<1>10. CASE \E pay \in Amounts, cut \in Amounts : Cancels(pay, cut)
  BY <1>5, <1>10 DEF Cancels
<1>11. CASE \E split \in Amounts : Allocates(split)
  BY <1>1, <1>5, <1>11, PricesTyped DEF Allocates
<1>12. CASE \E S \in SUBSET Workers : FailsV1(S)
  BY <1>1, <1>2, <1>5, <1>12, PricesTyped DEF FailsV1, SettleAfterFailure, moneyVars
<1>13. CASE Releases
  BY <1>1, <1>5, <1>13, PricesTyped DEF Releases, ReleaseEscrow
<1>14. CASE CompletesV1
  BY <1>1, <1>5, <1>14, PricesTyped DEF CompletesV1
<1>15. CASE \/ Drafts \/ Reshapes \/ Decides \/ Consents \/ TeamDone \/ Stays
            \/ \E w \in Workers : Joins(w)
            \/ \E S \in SUBSET Workers, l \in Workers \union {NoWorker} : Selects(S, l)
            \/ \E S \in SUBSET Workers : Fails(S)
  BY <1>4, <1>15 DEF Drafts, Reshapes, Decides, Consents, TeamDone, Stays, Joins, Selects,
                     Fails, MoneyKept
<1> QED
  BY <1>6, <1>7, <1>8, <1>9, <1>10, <1>11, <1>12, <1>13, <1>14, <1>15 DEF Moves

-----------------------------------------------------------------------------
(* Every move keeps the roster in order *)

\* The shape of a Quest is all its prices and its rules depend on.
LEMMA ShapeKept ==
    ASSUME SameShape
    PROVE  /\ GroupFcfs' <=> GroupFcfs
           /\ GroupCandidate' <=> GroupCandidate
           /\ (SoundKind(quest.kind))' <=> SoundKind(quest.kind)
           /\ RewardPool' = RewardPool /\ FeePool' = FeePool /\ PublishedEscrow' = PublishedEscrow
BY DEF SameShape, GroupFcfs, GroupCandidate, SoundKind, RewardPool, FeePool, PublishedEscrow

\* Prices move only with the shape, the ranks and the agreed shares.
LEMMA PricesStay ==
    ASSUME SameShape, rank' = rank,
           \/ underfilled' = underfilled
           \/ underfilled.state # "COMPLETED" /\ underfilled'.state # "COMPLETED"
    PROVE  PricesKept
<1>1. RewardPool' = RewardPool /\ FeePool' = FeePool /\ (GroupFcfs' <=> GroupFcfs)
  BY ShapeKept
<1>2. CASE underfilled' = underfilled
  BY <1>1, <1>2 DEF PricesKept, RewardOf, FeeOf, Shared, Shares, EvenShare
<1>3. CASE underfilled.state # "COMPLETED" /\ underfilled'.state # "COMPLETED"
  BY <1>3 DEF PricesKept, RewardOf, FeeOf, Shared
<1> QED
  BY <1>2, <1>3

\* A roster that stays keeps its worth.
LEMMA WorthKept ==
    ASSUME PricesKept, SameShape
    PROVE  \A S : Worth(S)' <=> Worth(S)
<1>1. RewardPool' = RewardPool /\ FeePool' = FeePool
  BY ShapeKept
<1>2. ASSUME NEW S PROVE SumOf(Rewards(S))' = SumOf(Rewards(S)) /\ SumOf(Fees(S))' = SumOf(Fees(S))
  BY SlotsKept
<1> QED
  BY <1>1, <1>2 DEF Worth

\* An assigned Quest whose roster only changes in what became of each Worker.
LEMMA WorkedKeeps ==
    ASSUME Known, Moves, SameShape, rank' = rank, leader' = leader, Roster' = Roster,
           now' \in {now, now + 1}, underfilled' = underfilled \/ Abandons,
           Worked, quest'.status \notin Drafted \union {"OPEN", "CANCELLED"},
           \A w \in Roster : assignment'[w] # "CANCELLED",
           GroupCandidate => \A v, w \in Roster : assignment'[v] = assignment'[w],
           (GroupCandidate \/ quest.apiVersion = "v1")
              /\ quest'.status \notin {"COMPLETED", "FAILED"} => Active' = Roster,
           GroupCandidate /\ quest'.status \in {"COMPLETED", "FAILED"} => Active' = {},
           GroupCandidate /\ quest'.status = "COMPLETED" => (AssignmentsWith("INCOMPLETE"))' = {}
    PROVE  RosterInv'
<1>1. /\ GroupFcfs' <=> GroupFcfs
      /\ GroupCandidate' <=> GroupCandidate
      /\ (SoundKind(quest.kind))' <=> SoundKind(quest.kind)
      /\ quest'.apiVersion = quest.apiVersion
  BY ShapeKept DEF SameShape
<1>2. RosterInv /\ now \in Nat
  BY DEF Known, QuestInv, Types, Times
<1>3. (quest.status # "NONE" => SoundKind(quest.kind))'
  BY <1>1, <1>2 DEF RosterInv, Worked, Drafted
<1>4. OpenRoster'
  BY DEF OpenRoster
<1>5. WorkedRoster'
  <2>1. PricesKept
    BY PricesStay DEF Abandons, Asking, Known, MoneyTypes, DecisionRows
  <2>2. Worth(Roster)' <=> Worth(Roster)
    BY <2>1, WorthKept DEF Worth
  <2> QED
    BY <1>1, <1>2, <2>2 DEF RosterInv, WorkedRoster
<1>6. Underfilling'
  <2>1. Underfilling /\ underfilled \in DecisionRows
    BY <1>2 DEF RosterInv, Known, MoneyTypes
  <2>2. StartTime \in Nat /\ (StartTime <= now => StartTime <= now')
    BY <1>2, ClockAssumption
  <2>3. CASE underfilled' = underfilled
    BY <1>1, <2>1, <2>2, <2>3 DEF Underfilling
  <2>4. CASE Abandons
    BY <1>1, <2>1, <2>2, <2>4 DEF Underfilling, Abandons, Asking, DecisionRows
  <2> QED
    BY <2>3, <2>4
<1> QED
  BY <1>3, <1>4, <1>5, <1>6 DEF RosterInv

\* A step that leaves the roster as it is, and the Quest in its state or under
\* way.
LEMMA RosterStays ==
    ASSUME Known, Moves, SameShape, RosterKept,
           now' \in {now, now + 1}, underfilled' = underfilled \/ Abandons,
           quest'.status = quest.status \/ {quest.status, quest'.status} \subseteq UnderWay
    PROVE  RosterInv'
<1>1. /\ GroupFcfs' <=> GroupFcfs
      /\ GroupCandidate' <=> GroupCandidate
      /\ (SoundKind(quest.kind))' <=> SoundKind(quest.kind)
      /\ quest'.apiVersion = quest.apiVersion
  BY ShapeKept DEF SameShape
<1>2. RosterInv
  BY DEF Known
<1>3. /\ assignment' = assignment /\ rank' = rank /\ leader' = leader
      /\ Roster' = Roster /\ Active' = Active
      /\ (AssignmentsWith("INCOMPLETE"))' = AssignmentsWith("INCOMPLETE")
  BY DEF RosterKept, Roster, Active, AssignmentsWith
<1>4. CASE Worked
  <2>1. quest'.status \notin Drafted \union {"OPEN", "CANCELLED"}
    BY <1>4 DEF Worked, UnderWay, Drafted
  <2>2. WorkedRoster
    BY <1>2 DEF RosterInv
  <2>3. /\ \A w \in Roster : assignment[w] # "CANCELLED"
        /\ GroupCandidate => \A v, w \in Roster : assignment[v] = assignment[w]
        /\ (GroupCandidate \/ quest.apiVersion = "v1")
              /\ quest.status \notin {"COMPLETED", "FAILED"} => Active = Roster
        /\ GroupCandidate /\ quest.status \in {"COMPLETED", "FAILED"} => Active = {}
        /\ GroupCandidate /\ quest.status = "COMPLETED" => AssignmentsWith("INCOMPLETE") = {}
    BY <1>4, <2>2 DEF WorkedRoster
  <2>4. quest'.status = quest.status
        \/ {quest.status, quest'.status} \intersect {"COMPLETED", "FAILED"} = {}
    BY DEF UnderWay
  <2>5. (GroupCandidate \/ quest.apiVersion = "v1")
              /\ quest'.status \notin {"COMPLETED", "FAILED"} => Active = Roster
    BY <2>3, <2>4
  <2>6. GroupCandidate /\ quest'.status \in {"COMPLETED", "FAILED"} => Active = {}
    BY <2>3, <2>4
  <2>7. GroupCandidate /\ quest'.status = "COMPLETED" => AssignmentsWith("INCOMPLETE") = {}
    BY <2>3, <2>4
  <2> QED
    BY <1>3, <1>4, <2>1, <2>3, <2>5, <2>6, <2>7, WorkedKeeps
<1>5. CASE ~Worked
  <2>1. quest'.status = quest.status /\ ~Worked'
    BY <1>5 DEF Worked, UnderWay, Drafted
  <2>2. OpenRoster'
    BY <1>1, <1>2, <1>3, <2>1 DEF RosterInv, OpenRoster, SameShape
  <2>3. Underfilling'
    <3>1. Underfilling /\ underfilled \in DecisionRows /\ now \in Nat
      BY <1>2 DEF RosterInv, Known, MoneyTypes, QuestInv, Types, Times
    <3>2. StartTime \in Nat /\ (StartTime <= now => StartTime <= now')
      BY <3>1, ClockAssumption
    <3>3. CASE underfilled' = underfilled
      BY <1>1, <1>3, <2>1, <3>1, <3>2, <3>3 DEF Underfilling
    <3>4. CASE Abandons
      BY <1>1, <1>3, <2>1, <3>1, <3>2, <3>4 DEF Underfilling, Abandons, Asking, DecisionRows
    <3> QED
      BY <3>3, <3>4
  <2> QED
    BY <1>1, <1>2, <2>1, <2>2, <2>3 DEF RosterInv, WorkedRoster
<1> QED
  BY <1>4, <1>5

\* The Hirer prepares the Quest, and publishes it.
LEMMA DraftsKeepRoster ==
    ASSUME Known, Drafts \/ Publishes \/ Reshapes
    PROVE  RosterInv'
<1>1. /\ RosterInv /\ NobodyYet /\ quest.kind.headcount \in Nat \ {0}
      /\ underfilled \in DecisionRows
  BY PriceTypes DEF Known, QuestInv, MoneyTypes
<1>2. /\ \A w \in Workers : assignment[w] = "NONE"
      /\ quest.status # "NONE" => SoundKind(quest.kind)
      /\ quest.status \in Drafted \union {"OPEN"}
  BY <1>1 DEF NobodyYet, Drafts, Publishes, Reshapes, RosterInv, Drafted
<1>3. assignment' = assignment /\ underfilled' = underfilled
  BY DEF Drafts, Publishes, Reshapes, RosterKept, MoneyKept
<1>4. Active' = {} /\ Roster' = {}
  BY <1>2, <1>3 DEF Active, Roster, AssignmentsWith
<1>5. quest'.status # "NONE" /\ ~Worked' /\ (SoundKind(quest.kind))'
  BY <1>2, ShapeKept DEF Drafts, Publishes, Reshapes, Worked, Drafted, SoundKind
<1>6. underfilled.state = "NONE"
  <2>1. StartTime \in Nat /\ now \in Nat
    BY ClockAssumption DEF Known, QuestInv, Types, Times
  <2> QED
    BY <1>1, <2>1 DEF RosterInv, Underfilling, Drafts, Publishes, Reshapes, Drafted
<1>7. Cardinality({}) = 0
  BY FS_EmptySet
<1>8. quest'.status = "OPEN" => quest'.kind.headcount = quest.kind.headcount
  BY DEF Drafts, Publishes, Reshapes, SameShape
<1>9. OpenRoster'
  BY <1>1, <1>4, <1>7, <1>8 DEF OpenRoster
<1>10. Underfilling'
  BY <1>3, <1>6 DEF Underfilling
<1> QED
  BY <1>5, <1>9, <1>10 DEF RosterInv, WorkedRoster

\* A complete roster costs the whole pool, before and after a step.
LEMMA FullWorth ==
    Types /\ MoneyTypes =>
        \A S \in SUBSET Workers :
            Cardinality(S) = quest.kind.headcount /\ ~Shared => Worth(S)
BY FullRosterWorth DEF Worth

\* So does an incomplete one that agreed to share.
LEMMA SharedWorth ==
    (  /\ Types /\ MoneyTypes /\ Shared
       /\ \A w \in underfilled.accepted : rank[w] \in 1 .. Shares
       /\ \A v, w \in underfilled.accepted : rank[v] = rank[w] => v = w )
    => Worth(underfilled.accepted)
BY SharedRosterWorth DEF Worth

\* The types hold after a step too.
LEMMA FullWorthNext ==
    ASSUME Types', MoneyTypes',
           Cardinality(Roster') = quest'.kind.headcount, ~Shared'
    PROVE  Worth(Roster)'
<1>1. (Types /\ MoneyTypes =>
          \A S \in SUBSET Workers :
              Cardinality(S) = quest.kind.headcount /\ ~Shared => Worth(S))'
  BY FullWorth, PTL
<1>2. PICK S \in SUBSET Workers : S = Roster'
  BY DEF Roster
<1>3. Worth(S)'
  BY <1>1, <1>2
<1> QED
  BY <1>2, <1>3 DEF Worth, Rewards, Fees, SumOf

\* joinQuestV2 and joinNoCandidateQuest: the last slot is the last share.
LEMMA JoinsKeepsRoster ==
    ASSUME Known, Types', MoneyTypes', NEW w \in Workers, Joins(w)
    PROVE  RosterInv'
<1>1. /\ GroupFcfs' <=> GroupFcfs
      /\ GroupCandidate' <=> GroupCandidate
      /\ (SoundKind(quest.kind))' <=> SoundKind(quest.kind)
      /\ quest'.kind.headcount = quest.kind.headcount
      /\ quest'.kind.mode = quest.kind.mode
  BY ShapeKept DEF Joins, SameShape
<1>2. RosterInv /\ Types /\ MoneyTypes /\ quest.status = "OPEN"
  BY DEF Known, QuestInv, Joins
<1>3. /\ Roster = Active /\ Cardinality(Active) < quest.kind.headcount
      /\ \A v \in Active : rank[v] \in 1 .. Cardinality(Active)
      /\ \A u, v \in Active : rank[u] = rank[v] => u = v
  BY <1>2 DEF RosterInv, OpenRoster
<1>4. assignment' = [assignment EXCEPT ![w] = "ACTIVE"] /\ assignment[w] = "NONE"
      /\ rank' = [rank EXCEPT ![w] = Cardinality(Active) + 1]
      /\ ~GroupCandidate /\ underfilled' = underfilled
  BY DEF Joins, GroupCandidate, MoneyKept
<1>5. /\ Active' = Active \union {w} /\ w \notin Active /\ Roster' = Roster \union {w}
      /\ \A v \in Roster' : assignment'[v] # "CANCELLED"
  BY <1>2, <1>3, <1>4 DEF Types, Active, Roster, AssignmentsWith
<1>6. Cardinality(Active) \in Nat /\ Cardinality(Active') = Cardinality(Active) + 1
      /\ quest.kind.headcount \in Nat
  <2>1. IsFiniteSet(Active)
    BY PricesAssumption, FS_Subset DEF Active, AssignmentsWith
  <2> QED
    BY <1>2, <1>5, <2>1, FS_CardinalityType, FS_AddElement, PriceTypes
<1>7. underfilled.state = "NONE" /\ ~Shared'
  <2>1. StartTime \in Nat /\ now \in Nat
    BY <1>2, ClockAssumption DEF Types, Times
  <2> QED
    BY <1>2, <1>4, <2>1 DEF RosterInv, Underfilling, Joins, Shared
<1>8. /\ \A v \in Active' : rank'[v] \in 1 .. Cardinality(Active')
      /\ \A u, v \in Active' : rank'[u] = rank'[v] => u = v
  <2> DEFINE n == Cardinality(Active)
  <2>1. rank'[w] = n + 1 /\ \A v \in Active : rank'[v] = rank[v]
    BY <1>2, <1>4, <1>5 DEF MoneyTypes, Active, AssignmentsWith
  <2>2. n \in Nat /\ Cardinality(Active') = n + 1
        /\ (\A v \in Active : rank[v] \in 1 .. n)
    BY <1>3, <1>6
  <2> HIDE DEF n
  <2> QED
    BY <1>3, <1>5, <2>1, <2>2
<1>9. Underfilling'
  BY <1>4, <1>7 DEF Underfilling
<1>10. (quest.status # "NONE" => SoundKind(quest.kind))'
  BY <1>1, <1>2 DEF RosterInv
<1>11. CASE Cardinality(Active) + 1 = quest.kind.headcount
  <2>1. quest'.status = "ASSIGNED"
    BY <1>11 DEF Joins
  <2>2. Cardinality(Roster') = quest'.kind.headcount
    BY <1>1, <1>3, <1>5, <1>6, <1>11
  <2>4. Worth(Roster)'
    BY <1>7, <2>2, FullWorthNext
  <2>5. WorkedRoster'
    BY <1>1, <1>3, <1>4, <1>5, <2>1, <2>4 DEF WorkedRoster
  <2>6. OpenRoster'
    BY <2>1 DEF OpenRoster
  <2> QED
    BY <1>9, <1>10, <2>5, <2>6 DEF RosterInv
<1>12. CASE Cardinality(Active) + 1 # quest.kind.headcount
  <2>1. quest'.status = "OPEN"
    BY <1>12 DEF Joins
  <2>2. OpenRoster'
    <3>1. Roster' = Active' /\ ~(quest'.kind.mode = "CANDIDATE")
      BY <1>1, <1>3, <1>5 DEF Joins
    <3>2. Cardinality(Active') < quest'.kind.headcount
      BY <1>1, <1>3, <1>6, <1>12
    <3> QED
      BY <1>8, <3>1, <3>2 DEF OpenRoster
  <2>3. WorkedRoster'
    BY <2>1 DEF WorkedRoster, Worked
  <2> QED
    BY <1>9, <1>10, <2>2, <2>3 DEF RosterInv
<1> QED
  BY <1>11, <1>12

\* runQuestV2Selection and selectCandidate.
LEMMA SelectsKeepsRoster ==
    ASSUME Known, Types', MoneyTypes',
           NEW S \in SUBSET Workers, NEW l \in Workers \union {NoWorker}, Selects(S, l)
    PROVE  RosterInv'
<1>1. /\ GroupFcfs' <=> GroupFcfs
      /\ GroupCandidate' <=> GroupCandidate
      /\ (SoundKind(quest.kind))' <=> SoundKind(quest.kind)
      /\ quest'.kind = quest.kind \/ quest'.kind.headcount = quest.kind.headcount
      /\ quest'.apiVersion = quest.apiVersion
  BY ShapeKept DEF Selects, SameShape
<1>2. RosterInv /\ Types /\ MoneyTypes /\ quest.status = "OPEN"
  BY DEF Known, QuestInv, Selects
<1>3. Roster = {} /\ ~GroupFcfs /\ SoundKind(quest.kind)
  BY <1>2 DEF RosterInv, OpenRoster, Selects, GroupFcfs
<1>4. /\ assignment' = [w \in Workers |-> IF w \in S THEN "ACTIVE" ELSE assignment[w]]
      /\ leader' = l /\ underfilled' = underfilled /\ quest'.status = "ASSIGNED"
  BY DEF Selects, MoneyKept
<1>5. \A w \in Workers : assignment'[w] = IF w \in S THEN "ACTIVE" ELSE "NONE"
  BY <1>3, <1>4 DEF Roster
<1>6. /\ Active' = S /\ Roster' = S
      /\ \A w \in S : assignment'[w] = "ACTIVE"
  BY <1>5 DEF Active, Roster, AssignmentsWith
<1>7. underfilled.state = "NONE" /\ ~Shared'
  BY <1>1, <1>2, <1>3 DEF RosterInv, Underfilling, Shared
<1>8. ~GroupCandidate \/ quest.apiVersion = "v1" => Worth(Roster)'
  <2>1. SUFFICES ASSUME ~GroupCandidate \/ quest.apiVersion = "v1" PROVE Worth(Roster)'
    OBVIOUS
  <2>2. quest.apiVersion \in {"v1", "v2"} /\ quest.kind.participation \in {"SINGLE", "GROUP"}
    BY <1>2 DEF Types, QuestRows, KindRows
  <2>3. Cardinality(S) = quest.kind.headcount
    BY <1>3, <2>1, <2>2 DEF Selects, SoundKind, GroupCandidate
  <2> QED
    BY <1>1, <1>6, <1>7, <2>3, FullWorthNext
<1>9. WorkedRoster'
  <2>1. GroupCandidate => l \in S
    BY DEF Selects
  <2> QED
    BY <1>1, <1>4, <1>6, <1>8, <2>1 DEF WorkedRoster
<1>10. Underfilling' /\ OpenRoster' /\ (quest.status # "NONE" => SoundKind(quest.kind))'
  BY <1>1, <1>3, <1>4, <1>7 DEF Underfilling, OpenRoster
<1> QED
  BY <1>9, <1>10 DEF RosterInv

\* An incomplete roster is asked, and begins once all of it agreed.
LEMMA UnderfilledKeepsRoster ==
    ASSUME Known, Types', MoneyTypes', Decides \/ Consents
    PROVE  RosterInv'
<1>1. /\ GroupFcfs' <=> GroupFcfs
      /\ GroupCandidate' <=> GroupCandidate
      /\ (SoundKind(quest.kind))' <=> SoundKind(quest.kind)
      /\ quest'.kind.headcount = quest.kind.headcount
      /\ quest'.kind.mode = quest.kind.mode
      /\ quest'.apiVersion = quest.apiVersion
  BY ShapeKept DEF Decides, Consents, SameShape
<1>2. /\ RosterInv /\ Types /\ MoneyTypes /\ underfilled \in DecisionRows
      /\ quest.status = "OPEN" /\ quest.apiVersion = "v2"
  BY DEF Known, QuestInv, MoneyTypes, Decides, Consents
<1>3. /\ assignment' = assignment /\ rank' = rank /\ leader' = leader /\ now' = now
      /\ Active' = Active /\ Roster' = Roster
  BY DEF Decides, Consents, RosterKept, Quiet, Active, AssignmentsWith, Roster
<1>4. (quest.status # "NONE" => SoundKind(quest.kind))'
  BY <1>1, <1>2 DEF RosterInv
<1>5. /\ OpenRoster /\ Roster = Active
      /\ \A w \in Active : rank[w] \in 1 .. Cardinality(Active)
      /\ \A v, w \in Active : rank[v] = rank[w] => v = w
  BY <1>2 DEF RosterInv, OpenRoster
<1>6. CASE Decides
  <2>1. quest' = quest /\ Decision.state \in Asking /\ underfilled'.state \in Asking
        /\ underfilled'.asked = Decision.asked
    BY <1>6 DEF Decides
  <2>2. GroupFcfs /\ StartTime <= now /\ Decision.asked = Active
    BY <1>2, <2>1 DEF Decision, DueUnderfilled, RosterInv, Underfilling, Asking, DecisionRows
  <2>3. Underfilling'
    BY <1>1, <1>2, <1>3, <2>1, <2>2 DEF Underfilling, Asking, Drafted
  <2>4. OpenRoster' /\ WorkedRoster'
    BY <1>2, <1>3, <1>5, <2>1 DEF OpenRoster, WorkedRoster, Worked
  <2> QED
    BY <1>4, <2>3, <2>4 DEF RosterInv
<1>7. CASE Consents
  <2>1. /\ quest'.status = "ASSIGNED" /\ underfilled'.state = "COMPLETED"
        /\ underfilled'.accepted = underfilled.asked /\ underfilled.state \in Asking
    BY <1>7 DEF Consents
  <2>2. GroupFcfs /\ StartTime <= now /\ underfilled.asked = Active
    BY <1>2, <2>1 DEF RosterInv, Underfilling, Asking
  <2>3. Underfilling'
    BY <1>1, <1>2, <1>3, <1>5, <2>1, <2>2 DEF Underfilling, Drafted
  <2>4. Shared' /\ underfilled'.accepted = Active /\ Shares' = Cardinality(Active)
    BY <1>1, <2>1, <2>2 DEF Shared, Shares
  <2>5. ((  /\ Types /\ MoneyTypes /\ Shared
            /\ \A w \in underfilled.accepted : rank[w] \in 1 .. Shares
            /\ \A v, w \in underfilled.accepted : rank[v] = rank[w] => v = w )
         => Worth(underfilled.accepted))'
    BY SharedWorth, PTL
  <2>6. Worth(underfilled.accepted)'
    BY <1>3, <1>5, <2>4, <2>5
  <2>7. Worth(Roster)'
    <3>1. (underfilled.accepted)' = Roster'
      BY <1>3, <1>5, <2>4
    <3> QED
      BY <2>6, <3>1 DEF Worth, Rewards, Fees, SumOf
  <2>8. \A w \in Roster : assignment[w] # "CANCELLED"
    BY <1>5 DEF Active, AssignmentsWith
  <2>9. ~GroupCandidate
    BY <2>2 DEF GroupFcfs, GroupCandidate
  <2>10. WorkedRoster'
    BY <1>1, <1>2, <1>3, <2>7, <2>8, <2>9 DEF WorkedRoster
  <2>11. OpenRoster'
    BY <2>1 DEF OpenRoster
  <2> QED
    BY <1>4, <2>3, <2>10, <2>11 DEF RosterInv
<1> QED
  BY <1>6, <1>7

\* Every cancellation keeps the roster it found.
LEMMA CancelsKeepsRoster ==
    ASSUME Known, Types', MoneyTypes',
           NEW pay \in Amounts, NEW cut \in Amounts, Cancels(pay, cut)
    PROVE  RosterInv'
<1>1. /\ GroupFcfs' <=> GroupFcfs
      /\ GroupCandidate' <=> GroupCandidate
      /\ (SoundKind(quest.kind))' <=> SoundKind(quest.kind)
      /\ quest'.apiVersion = quest.apiVersion
  BY ShapeKept DEF Cancels, SameShape
<1>2. /\ RosterInv /\ Types /\ MoneyTypes /\ underfilled \in DecisionRows
      /\ quest.status \in {"OPEN", "ASSIGNED", "IN_PROGRESS"} /\ quest'.status = "CANCELLED"
  BY DEF Known, QuestInv, MoneyTypes, Cancels
<1>3. Roster' = Roster /\ now' = now
  BY <1>2 DEF Cancels, EndAssignments, Roster, Types, Active, AssignmentsWith, Quiet
<1>4. Underfilling'
  <2>1. CASE underfilled' = underfilled
    BY <1>1, <1>2, <1>3, <2>1 DEF RosterInv, Underfilling, Drafted
  <2>2. CASE /\ quest.apiVersion = "v2" /\ quest.status = "OPEN"
             /\ Decision.state \in Asking /\ underfilled'.state = "CANCELLED"
    <3>1. GroupFcfs /\ StartTime <= now
      BY <1>2, <2>2 DEF Decision, DueUnderfilled, RosterInv, Underfilling, Asking
    <3> QED
      BY <1>1, <1>2, <1>3, <2>2, <3>1 DEF Underfilling, Drafted
  <2> QED
    BY <2>1, <2>2 DEF Cancels
<1>5. (quest.status # "NONE" => SoundKind(quest.kind))'
  BY <1>1, <1>2 DEF RosterInv
<1>6. OpenRoster' /\ WorkedRoster'
  BY <1>2 DEF OpenRoster, WorkedRoster, Worked
<1> QED
  BY <1>4, <1>5, <1>6 DEF RosterInv

\* Work is accepted, refused or given up.
LEMMA WorkKeepsRoster ==
    ASSUME Known, Moves,
           \/ TeamDone \/ CompletesV1
           \/ \E w \in Workers : PaysWorker(w)
           \/ \E S \in SUBSET Workers : Fails(S)
    PROVE  RosterInv'
<1>1. RosterInv /\ Types /\ Roster \subseteq Workers
  BY DEF Known, QuestInv, Roster
<1>2. /\ SameShape /\ rank' = rank /\ leader' = leader /\ underfilled' = underfilled
      /\ now' = now
  BY DEF PaysWorker, TeamDone, Fails, CompletesV1, MoneyKept
<1>3. /\ quest.status \in {"ASSIGNED", "IN_PROGRESS", "SUBMITTED", "REWORK", "FAILED"}
      /\ quest'.status \in {"IN_PROGRESS", "COMPLETED", "FAILED"}
  BY DEF PaysWorker, TeamDone, Fails, CompletesV1
<1>4. Worked /\ WorkedRoster /\ quest'.status \notin Drafted \union {"OPEN", "CANCELLED"}
  BY <1>1, <1>3 DEF Worked, Drafted, RosterInv
<1>5. /\ \A v \in Roster : assignment[v] # "CANCELLED"
      /\ (GroupCandidate \/ quest.apiVersion = "v1")
            /\ quest.status \notin {"COMPLETED", "FAILED"} => Active = Roster
      /\ GroupCandidate /\ quest.status \in {"COMPLETED", "FAILED"} => Active = {}
      /\ GroupCandidate => \A u, v \in Roster : assignment[u] = assignment[v]
  BY <1>4 DEF WorkedRoster
<1>6. ASSUME NEW T \in SUBSET Workers, NEW s \in {"COMPLETED", "INCOMPLETE"}, EndAssignments(T, s)
      PROVE  /\ Roster' = Roster
             /\ \A v \in Roster : assignment'[v] # "CANCELLED"
             /\ \A v \in Workers : assignment'[v] =
                   IF v \in T /\ v \in Active THEN s ELSE assignment[v]
  BY <1>1, <1>5, <1>6 DEF EndAssignments, Roster, Types, Active, AssignmentsWith
<1>7. ASSUME NEW w \in Workers, PaysWorker(w) PROVE RosterInv'
  <2>1. /\ EndAssignments({w}, "COMPLETED") /\ ~GroupCandidate /\ quest.apiVersion = "v2"
    BY <1>7 DEF PaysWorker
  <2>2. Roster' = Roster /\ \A v \in Roster : assignment'[v] # "CANCELLED"
    BY <1>6, <2>1
  <2> QED
    BY <1>2, <1>4, <2>1, <2>2, WorkedKeeps
<1>8. CASE TeamDone \/ CompletesV1
  <2>1. /\ EndAssignments(Active, "COMPLETED") /\ Active = Roster /\ Active \in SUBSET Workers
        /\ quest'.status = "COMPLETED"
    BY <1>5, <1>8 DEF TeamDone, CompletesV1, Active, AssignmentsWith
  <2>2. Roster' = Roster /\ \A v \in Roster : assignment'[v] # "CANCELLED"
    BY <1>6, <2>1
  <2>3. \A v \in Roster : assignment'[v] = "COMPLETED"
    BY <1>1, <1>6, <2>1
  <2>4. Active' = {} /\ (AssignmentsWith("INCOMPLETE"))' = {}
    BY <2>2, <2>3 DEF Active, AssignmentsWith, Roster
  <2> QED
    BY <1>2, <1>4, <2>1, <2>2, <2>3, <2>4, WorkedKeeps
<1>9. ASSUME NEW S \in SUBSET Workers, Fails(S) PROVE RosterInv'
  <2>1. EndAssignments(S, "INCOMPLETE") /\ quest.apiVersion = "v2"
        /\ (GroupCandidate => Active \subseteq S /\ quest'.status = "FAILED")
    BY <1>9 DEF Fails, GroupCandidate, GroupFcfs
  <2>2. Roster' = Roster /\ \A v \in Roster : assignment'[v] # "CANCELLED"
    BY <1>6, <2>1
  <2>3. \A v \in Workers : assignment'[v] =
           IF v \in S /\ v \in Active THEN "INCOMPLETE" ELSE assignment[v]
    BY <1>6, <2>1
  <2>4. GroupCandidate => Active' = {}
    BY <2>1, <2>3 DEF Active, AssignmentsWith
  <2>5. GroupCandidate => \A u, v \in Roster : assignment'[u] = assignment'[v]
    <3>1. Active = Roster \/ quest.status \in {"COMPLETED", "FAILED"} \/ ~GroupCandidate
      BY <1>5
    <3> QED
      BY <1>1, <1>5, <2>1, <2>3, <3>1
  <2> QED
    BY <1>2, <1>4, <2>1, <2>2, <2>4, <2>5, WorkedKeeps
<1> QED
  BY <1>7, <1>8, <1>9

\* The roster of a v1 Quest, when the work of some of it ends.
LEMMA LegacyEndKeepsRoster ==
    ASSUME Known, Moves,
           \/ \E w \in Workers : PaysLate(w)
           \/ \E S \in SUBSET Workers : FailsV1(S)
    PROVE  RosterInv'
<1>1. RosterInv /\ Types /\ Roster \subseteq Workers /\ quest.apiVersion = "v1" /\ LegacyOwned
  BY DEF Known, QuestInv, Roster, FailsV1, PaysLate
<1>2. /\ SameShape /\ rank' = rank /\ leader' = leader /\ underfilled' = underfilled
      /\ now' = now
  BY DEF FailsV1, PaysLate, SameShape
<1>3. /\ quest.status \in {"ASSIGNED", "IN_PROGRESS", "SUBMITTED", "REWORK", "FAILED"}
      /\ quest'.status = "FAILED"
  BY DEF FailsV1, PaysLate
<1>4. Worked /\ WorkedRoster /\ quest'.status \notin Drafted \union {"OPEN", "CANCELLED"}
  BY <1>1, <1>3 DEF Worked, Drafted, RosterInv
<1>5. /\ \A v \in Roster : assignment[v] # "CANCELLED"
      /\ quest.status # "FAILED" => Active = Roster
      /\ GroupCandidate /\ quest.status = "FAILED" => Active = {}
      /\ GroupCandidate => \A u, v \in Roster : assignment[u] = assignment[v]
  BY <1>1, <1>3, <1>4 DEF WorkedRoster
<1>6. ASSUME NEW S \in SUBSET Workers, FailsV1(S) PROVE RosterInv'
  <2> DEFINE accepted == {o \in Workers : Accepted(o)}
             C == Covered(accepted)
  <2>1. /\ \A v \in Workers : assignment'[v] =
              IF v \in C THEN "COMPLETED"
              ELSE IF v \in S \intersect Active THEN "INCOMPLETE" ELSE assignment[v]
        /\ quest.status # "FAILED" /\ (GroupCandidate => Active \subseteq S)
    BY <1>6 DEF FailsV1
  <2>2. Active = Roster /\ C \subseteq Roster
    <3>1. accepted \subseteq Active
      BY <1>1, <1>3, <2>1 DEF LegacyOwned, Terminal, Accepted, Sent
    <3> QED
      BY <1>5, <2>1, <3>1 DEF Covered, AssignmentsWith, Roster
  <2>3. GroupCandidate => C = {} \/ C = Roster
    BY <2>2 DEF Covered, AssignmentsWith, Roster
  <2> HIDE DEF C
  <2>4. Roster' = Roster /\ \A v \in Roster : assignment'[v] # "CANCELLED"
    BY <1>5, <2>1, <2>2 DEF Roster
  <2>5. GroupCandidate => \A v \in Roster : assignment'[v] =
                              IF C = Roster THEN "COMPLETED" ELSE "INCOMPLETE"
    BY <1>1, <2>1, <2>2, <2>3
  <2>6. GroupCandidate => Active' = {}
    BY <2>4, <2>5 DEF Active, AssignmentsWith, Roster
  <2> QED
    BY <1>2, <1>3, <1>4, <2>4, <2>5, <2>6, WorkedKeeps
<1>7. ASSUME NEW w \in Workers, PaysLate(w) PROVE RosterInv'
  <2> DEFINE C == Covered({w})
  <2>1. /\ \A v \in Workers : assignment'[v] = IF v \in C THEN "COMPLETED" ELSE assignment[v]
        /\ quest.status = "FAILED" /\ w \in LegacyOwners
    BY <1>7 DEF PaysLate
  <2>2. C \subseteq Roster
    BY <1>5, <2>1 DEF Covered, AssignmentsWith, Roster, LegacyOwners, Active
  <2>3. GroupCandidate => C = {} \/ C = Roster
    BY <1>1, <1>5, <2>1 DEF Covered, AssignmentsWith, Roster, Active
  <2> HIDE DEF C
  <2>4. Roster' = Roster /\ \A v \in Roster : assignment'[v] # "CANCELLED"
    BY <1>5, <2>1, <2>2 DEF Roster
  <2>5. GroupCandidate => \A u, v \in Roster : assignment'[u] = assignment'[v]
    BY <1>1, <1>5, <2>1, <2>3
  <2>6. Active' \subseteq Active
    BY <2>1 DEF Active, AssignmentsWith
  <2> QED
    BY <1>2, <1>3, <1>4, <1>5, <2>1, <2>4, <2>5, <2>6, WorkedKeeps
<1> QED
  BY <1>6, <1>7

\* Every step keeps the roster in order.
LEMMA RosterKeeping ==
    ASSUME Known, Types', MoneyTypes', Moves
    PROVE  RosterInv'
<1>1. CASE Drafts \/ Publishes \/ Reshapes
  BY <1>1, DraftsKeepRoster
<1>2. CASE Decides \/ Consents
  BY <1>2, UnderfilledKeepsRoster
<1>3. CASE \E w \in Workers : Joins(w)
  BY <1>3, JoinsKeepsRoster
<1>4. CASE \E S \in SUBSET Workers, l \in Workers \union {NoWorker} : Selects(S, l)
  BY <1>4, SelectsKeepsRoster
<1>5. CASE \E pay \in Amounts, cut \in Amounts : Cancels(pay, cut)
  BY <1>5, CancelsKeepsRoster
<1>6. CASE \/ \E w \in Workers : PaysWorker(w)
           \/ \E S \in SUBSET Workers : Fails(S)
  BY <1>6, WorkKeepsRoster
<1>7. CASE \/ \E w \in Workers : PaysLate(w)
           \/ \E S \in SUBSET Workers : FailsV1(S)
  BY <1>7, LegacyEndKeepsRoster
<1>8. CASE TeamDone \/ CompletesV1
  BY <1>8, WorkKeepsRoster
<1>9. CASE \/ Releases \/ Stays
           \/ \E w \in Workers : Awarded(w)
           \/ \E split \in Amounts : Allocates(split)
  <2>1. /\ SameShape /\ RosterKept
        /\ underfilled' = underfilled \/ Abandons
        /\ quest'.status = quest.status \/ {quest.status, quest'.status} \subseteq UnderWay
        /\ now' \in {now, now + 1}
    BY <1>9 DEF Releases, Stays, Awarded, Allocates, SameShape, Quiet, Passes, Sweeps,
                Pauses, Resumes, Sends, WorksV1
  <2> QED
    BY <2>1, RosterStays
<1> QED
  BY <1>1, <1>2, <1>3, <1>4, <1>5, <1>6, <1>7, <1>8, <1>9 DEF Moves

-----------------------------------------------------------------------------
(* Every move keeps the Proofs of a v1 Quest with their owners *)

\* Up to the selection nobody sent anything.
LEMMA OwnedBeforeWork ==
    ASSUME Known, quest.status \in Drafted \union {"OPEN"}, quest'.status # "FAILED",
           quest'.apiVersion = quest.apiVersion, proof' = proof, EditKept
    PROVE  LegacyOwned'
<1>1. SUFFICES ASSUME quest.apiVersion = "v1" PROVE LegacyOwned'
  BY DEF LegacyOwned
<1>2. (\A w \in Workers : ~Sent(w)) /\ ~EditPending
  BY <1>1 DEF Known, LegacyOwned, Drafted
<1>3. (\A w \in Workers : ~Sent(w)' /\ ~Accepted(w)') /\ ~EditPending'
  BY <1>1, <1>2 DEF EditKept, EditPending, Sent, Accepted
<1> QED
  BY <1>3 DEF LegacyOwned

\* The work of a v1 Quest is sent, confirmed or reviewed.
LEMMA OwnedWhileWorking ==
    ASSUME Known, Types', SameShape, RosterKept, NEW o \in Workers, WorksV1(o)
    PROVE  LegacyOwned'
<1>1. /\ Types /\ RosterInv /\ LegacyOwned /\ quest.apiVersion = "v1" /\ o \in LegacyOwners
      /\ (GroupCandidate' <=> GroupCandidate) /\ EditKept
      /\ assignment' = assignment /\ leader' = leader
  BY ShapeKept DEF Known, QuestInv, WorksV1, RosterKept
<1>2. /\ Active' = Active /\ (AssignmentsWith("COMPLETED"))' = AssignmentsWith("COMPLETED")
  BY <1>1 DEF Active, AssignmentsWith
<1>3. proof \in [Workers -> ProofRows]
  BY <1>1 DEF Types
<1>4. \A w \in Workers : Sent(w)' => Sent(w) \/ (w = o /\ Working)
  BY <1>3 DEF WorksV1, Sent, Pending, Working, ProofRows
<1>5. \A w \in Workers : Accepted(w)' => Accepted(w) \/ quest.status \in {"SUBMITTED", "REWORK"}
  BY <1>3 DEF WorksV1, Accepted, Pending, ProofRows
<1>6. GroupCandidate => o = leader
  BY <1>1 DEF LegacyOwners
<1>7. (EditPending => quest.status = "AWAITING_CONSENT")'
  BY <1>1 DEF LegacyOwned, EditKept, EditPending, WorksV1
<1>8. (GroupCandidate => \A w \in Workers : Sent(w) => w = leader)'
  BY <1>1, <1>4, <1>6 DEF LegacyOwned
<1>9. (~Terminal => \A w \in Workers : Sent(w) => w \in Active)'
  <2>1. Terminal => Terminal'
    BY DEF WorksV1, Terminal
  <2>2. Working => o \in Active
    <3>1. Working => quest.status # "FAILED" /\ quest.status \notin {"COMPLETED", "FAILED"} /\ Worked
      BY DEF Working, Worked, Drafted
    <3>2. Working /\ GroupCandidate => leader \in Active
      BY <1>1, <3>1 DEF RosterInv, WorkedRoster
    <3> QED
      BY <1>1, <3>1, <3>2 DEF LegacyOwners
  <2> QED
    BY <1>1, <1>2, <1>4, <2>1, <2>2 DEF LegacyOwned
<1>10. (\A w \in Workers : Accepted(w) =>
           \/ quest.status \in {"SUBMITTED", "REWORK", "COMPLETED", "FAILED"}
           \/ quest.status = "AWAITING_CONSENT" /\ legacy.resumes \in {"SUBMITTED", "REWORK"})'
  <2>1. quest'.status = quest.status \/ quest'.status \in {"SUBMITTED", "REWORK"}
    BY DEF WorksV1
  <2>2. legacy'.resumes = legacy.resumes
    BY <1>1 DEF EditKept
  <2> QED
    BY <1>1, <1>5, <2>1, <2>2 DEF LegacyOwned
<1>11. (GroupCandidate /\ quest.status = "FAILED" /\ AssignmentsWith("COMPLETED") # {}
           => Accepted(leader))'
  <2>1. quest'.status = "FAILED" => quest.status = "FAILED"
    BY DEF WorksV1
  <2>2. quest.status = "FAILED" /\ GroupCandidate /\ Accepted(leader) /\ leader = o
           => Accepted(leader)'
    BY <1>1, <1>3 DEF WorksV1, Accepted, Pending, Working, ProofRows
  <2> QED
    BY <1>1, <1>2, <1>6, <2>1, <2>2 DEF LegacyOwned
<1>12. (quest.status \in Drafted \union {"OPEN"} => \A w \in Workers : ~Sent(w))'
  <2>1. quest'.status \in Drafted \union {"OPEN"} => quest'.status = quest.status /\ ~Working
    BY DEF WorksV1, Drafted, Working
  <2> QED
    BY <1>1, <1>4, <2>1 DEF LegacyOwned
<1> QED
  BY <1>7, <1>8, <1>9, <1>10, <1>11, <1>12 DEF LegacyOwned

\* Time passes, the Quest starts, pauses or goes on; nothing is sent.
LEMMA OwnedWhileWaiting ==
    ASSUME Known, Types', SameShape, RosterKept, proof' = proof,
           \/ quest'.status = quest.status /\ EditKept
           \/ quest.status = "ASSIGNED" /\ quest'.status = "IN_PROGRESS" /\ EditKept
           \/ Pauses \/ Resumes
    PROVE  LegacyOwned'
<1>1. SUFFICES ASSUME quest.apiVersion = "v1" PROVE LegacyOwned'
  BY DEF LegacyOwned, SameShape
<1>2. /\ Types /\ LegacyOwned /\ (GroupCandidate' <=> GroupCandidate) /\ leader' = leader
      /\ Active' = Active /\ (AssignmentsWith("COMPLETED"))' = AssignmentsWith("COMPLETED")
  BY ShapeKept DEF Known, QuestInv, RosterKept, Active, AssignmentsWith
<1>3. \A w \in Workers : (Sent(w)' <=> Sent(w)) /\ (Accepted(w)' <=> Accepted(w))
                         /\ (Accepted(w) => Sent(w))
  BY DEF Sent, Accepted
<1>4. Accepted(leader)' <=> Accepted(leader)
  BY <1>2 DEF Accepted
<1>5. legacy.resumes \in ConsentStatuses
  BY <1>2 DEF Types, LegacyRows
<1>6. CASE quest'.status = quest.status /\ EditKept
  <2>1. (EditPending' <=> EditPending) /\ legacy'.resumes = legacy.resumes
    BY <1>1, <1>6 DEF EditKept, EditPending
  <2>2. Terminal' <=> Terminal
    BY <1>6 DEF Terminal
  <2> QED
    BY <1>1, <1>2, <1>3, <1>4, <1>6, <2>1, <2>2 DEF LegacyOwned
<1>7. CASE quest.status = "ASSIGNED" /\ quest'.status = "IN_PROGRESS" /\ EditKept
  <2>1. ~EditPending' /\ ~Terminal /\ ~Terminal'
    BY <1>1, <1>2, <1>7 DEF EditKept, EditPending, LegacyOwned, Terminal
  <2>2. \A w \in Workers : ~Accepted(w)
    BY <1>1, <1>2, <1>7 DEF LegacyOwned
  <2> QED
    BY <1>1, <1>2, <1>3, <1>7, <2>1, <2>2 DEF LegacyOwned, Drafted
<1>8. CASE Pauses
  <2>1. /\ quest.status \in ConsentStatuses /\ quest'.status = "AWAITING_CONSENT"
        /\ legacy'.resumes = quest.status /\ ~Terminal /\ ~Terminal'
    BY <1>8 DEF Pauses, Terminal, ConsentStatuses
  <2> QED
    BY <1>1, <1>2, <1>3, <2>1 DEF LegacyOwned, Drafted, ConsentStatuses
<1>9. CASE Resumes
  <2>1. /\ quest.status = "AWAITING_CONSENT" /\ ~EditPending'
        /\ quest'.status = legacy.resumes /\ ~Terminal /\ ~Terminal'
    BY <1>1, <1>2, <1>5, <1>9 DEF Resumes, LegacyOwned, Terminal, ConsentStatuses
  <2> QED
    BY <1>1, <1>2, <1>3, <1>5, <2>1 DEF LegacyOwned, Drafted, ConsentStatuses
<1> QED
  BY <1>6, <1>7, <1>8, <1>9

\* A v1 Quest ends, and what was sent stays sent.
LEMMA OwnedAtTheEnd ==
    ASSUME Known, Types', SameShape, leader' = leader, quest'.status \in {"CANCELLED", "COMPLETED", "FAILED"},
           quest.status # "AWAITING_CONSENT", quest.apiVersion = "v1" => EditKept,
           \A w \in Workers : Sent(w)' <=> Sent(w),
           quest'.status = "CANCELLED" => \A w \in Workers : ~Accepted(w)',
           GroupCandidate /\ quest'.status = "FAILED" /\ (AssignmentsWith("COMPLETED") # {})'
               => Accepted(leader)'
    PROVE  LegacyOwned'
<1>1. SUFFICES ASSUME quest.apiVersion = "v1" PROVE LegacyOwned'
  BY DEF LegacyOwned, SameShape
<1>2. LegacyOwned /\ (GroupCandidate' <=> GroupCandidate) /\ Terminal' /\ ~EditPending'
  BY <1>1, ShapeKept DEF Known, Terminal, LegacyOwned, EditKept, EditPending
<1> QED
  BY <1>1, <1>2 DEF LegacyOwned, Drafted

\* What is accepted of a failed v1 Team is its Leader's Proof.
LEMMA OwnedAfterFailure ==
    ASSUME Known, Types',
           \/ \E S \in SUBSET Workers : FailsV1(S)
           \/ \E w \in Workers : PaysLate(w)
    PROVE  LegacyOwned'
<1>1. /\ Types /\ LegacyOwned /\ quest.apiVersion = "v1" /\ RosterInv
      /\ proof \in [Workers -> ProofRows]
  BY DEF Known, QuestInv, Types, FailsV1, PaysLate
<1>2. ASSUME NEW S \in SUBSET Workers, FailsV1(S) PROVE LegacyOwned'
  <2>1. /\ SameShape /\ leader' = leader /\ quest'.status = "FAILED" /\ EditKept
        /\ quest.status \in {"ASSIGNED", "IN_PROGRESS", "SUBMITTED", "REWORK"}
    BY <1>2 DEF FailsV1, EditKept
  <2>2. \A w \in Workers : (Sent(w)' <=> Sent(w))
    BY <1>1, <1>2 DEF FailsV1, Sent, Pending, ProofRows
  <2>3. ASSUME GroupCandidate, (AssignmentsWith("COMPLETED"))' # {} PROVE Accepted(leader)'
    <3> DEFINE accepted == {o \in Workers : Accepted(o)}
               C == Covered(accepted)
    <3>1. Active = Roster
      BY <1>1, <2>1, <2>3 DEF RosterInv, WorkedRoster, Worked, Drafted
    <3>2. \A w \in Workers : assignment'[w] = IF w \in C THEN "COMPLETED"
              ELSE IF w \in S \intersect Active THEN "INCOMPLETE" ELSE assignment[w]
      BY <1>2 DEF FailsV1
    <3>3. \A w \in Workers : assignment[w] # "COMPLETED"
      BY <3>1 DEF Active, AssignmentsWith, Roster
    <3>4. C # {}
      <4> HIDE DEF C
      <4> QED
        BY <2>3, <3>2, <3>3 DEF AssignmentsWith
    <3>5. accepted # {}
      BY <3>4 DEF Covered
    <3>6. PICK o \in Workers : Accepted(o)
      BY <3>5
    <3>7. o = leader
      BY <1>1, <2>3, <3>6 DEF LegacyOwned, Accepted, Sent
    <3>8. \A v \in Workers : Pending(v) => v = leader /\ ~Accepted(v)
      BY <1>1, <2>3 DEF LegacyOwned, Accepted, Sent, Pending
    <3>9. proof' = proof
      BY <1>2, <3>6, <3>7, <3>8 DEF FailsV1
    <3> QED
      BY <2>1, <3>6, <3>7, <3>9 DEF Accepted
  <2> QED
    BY <2>1, <2>2, <2>3, OwnedAtTheEnd
<1>3. ASSUME NEW w \in Workers, PaysLate(w) PROVE LegacyOwned'
  <2>1. /\ SameShape /\ leader' = leader /\ quest'.status = "FAILED" /\ EditKept
        /\ quest.status = "FAILED" /\ w \in LegacyOwners
        /\ proof' = [proof EXCEPT ![w].status = "APPROVED"]
    BY <1>3 DEF PaysLate, EditKept, SameShape
  <2>2. \A v \in Workers : (Sent(v)' <=> Sent(v))
    BY <1>1, <1>3 DEF PaysLate, Sent, Pending, ProofRows
  <2>3. GroupCandidate => Accepted(leader)'
    BY <1>1, <2>1 DEF LegacyOwners, Accepted, ProofRows
  <2> QED
    BY <2>1, <2>2, <2>3, OwnedAtTheEnd
<1> QED
  BY <1>2, <1>3

\* Every step keeps the Proofs of a v1 Quest with their owners.
LEMMA OwnedKeeping ==
    ASSUME Known, Types', Moves
    PROVE  LegacyOwned'
<1>1. Types /\ LegacyOwned /\ proof \in [Workers -> ProofRows]
  BY DEF Known, QuestInv, Types
<1>2. CASE \/ Drafts \/ Publishes
           \/ \E w \in Workers : Joins(w)
           \/ \E S \in SUBSET Workers, l \in Workers \union {NoWorker} : Selects(S, l)
  <2>1. /\ quest.status \in Drafted \union {"OPEN"} /\ quest'.status # "FAILED"
        /\ quest'.apiVersion = quest.apiVersion /\ proof' = proof /\ EditKept
    BY <1>2 DEF Drafts, Publishes, Joins, Selects, Quiet, SameShape, Drafted
  <2> QED
    BY <2>1, OwnedBeforeWork
<1>3. CASE \/ Reshapes \/ Decides \/ Consents \/ TeamDone
           \/ \E w \in Workers : PaysWorker(w) \/ Awarded(w)
           \/ \E split \in Amounts : Allocates(split)
           \/ \E S \in SUBSET Workers : Fails(S)
  <2>1. quest'.apiVersion = "v2"
    BY <1>3 DEF Reshapes, Decides, Consents, TeamDone, PaysWorker, Awarded, Allocates, Fails,
                SameShape
  <2> QED
    BY <2>1 DEF LegacyOwned
<1>4. ASSUME NEW pay \in Amounts, NEW cut \in Amounts, Cancels(pay, cut) PROVE LegacyOwned'
  <2>1. /\ SameShape /\ leader' = leader /\ quest'.status = "CANCELLED" /\ EditKept
        /\ quest.status \in {"OPEN", "ASSIGNED", "IN_PROGRESS"} /\ proof' = proof
    BY <1>4 DEF Cancels, Quiet
  <2>2. quest.apiVersion = "v1" => \A w \in Workers : ~Accepted(w)
    BY <1>1, <2>1 DEF LegacyOwned
  <2>3. CASE quest.apiVersion = "v1"
    <3>1. \A w \in Workers : (Sent(w)' <=> Sent(w)) /\ ~Accepted(w)'
      BY <2>1, <2>2, <2>3 DEF Sent, Accepted
    <3> QED
      BY <2>1, <3>1, OwnedAtTheEnd
  <2>4. CASE quest.apiVersion # "v1"
    BY <2>1, <2>4 DEF LegacyOwned, SameShape
  <2> QED
    BY <2>3, <2>4
<1>5. CASE \/ \E S \in SUBSET Workers : FailsV1(S)
           \/ \E w \in Workers : PaysLate(w)
  BY <1>5, OwnedAfterFailure
<1>6. CASE CompletesV1
  <2>1. /\ SameShape /\ leader' = leader /\ quest'.status = "COMPLETED" /\ EditKept
        /\ quest.status # "AWAITING_CONSENT"
        /\ \A w \in Workers : Sent(w)' <=> Sent(w)
    BY <1>6 DEF CompletesV1
  <2> QED
    BY <2>1, OwnedAtTheEnd
<1>7. CASE Releases
  <2>1. SameShape /\ RosterKept /\ proof' = proof /\ quest'.status = quest.status /\ EditKept
    BY <1>7 DEF Releases, SameShape, Quiet
  <2> QED
    BY <2>1, OwnedWhileWaiting
<1>8. CASE Stays
  <2>1. SameShape /\ RosterKept
    BY <1>8 DEF Stays
  <2>2. CASE Passes \/ Pauses \/ Resumes
    <3>1. proof' = proof
      BY <2>2 DEF Passes, Pauses, Resumes
    <3> QED
      BY <2>1, <2>2, <3>1, OwnedWhileWaiting DEF Passes
  <2>3. CASE Sweeps
    <3>1. proof' = proof /\ quest' = quest /\ EditKept
      BY <2>3 DEF Sweeps, SweepPassesApprovals, SweepPassesLegacyApprovals, EditKept
    <3> QED
      BY <2>1, <3>1, OwnedWhileWaiting
  <2>4. CASE \E w \in Workers : Sends(w)
    BY <2>1, <2>4 DEF Sends, SameShape, LegacyOwned
  <2>5. CASE \E w \in Workers : WorksV1(w)
    BY <2>1, <2>5, OwnedWhileWorking
  <2> QED
    BY <1>8, <2>2, <2>3, <2>4, <2>5 DEF Stays
<1> QED
  BY <1>2, <1>3, <1>4, <1>5, <1>6, <1>7, <1>8 DEF Moves

-----------------------------------------------------------------------------
(* What every state of the Quest satisfies *)

\* A new Quest.
LEMMA KnownStarts == Init => Known
<1> SUFFICES ASSUME Init PROVE Known
  OBVIOUS
<1>1. QuestInv
  BY QuestStarts
<1>2. /\ quest.status = "NONE" /\ underfilled.state = "NONE"
      /\ assignment = [w \in Workers |-> "NONE"] /\ edit.status = "NONE"
      /\ proof = [w \in Workers |-> [status |-> "NONE", sentAt |-> Never]]
  BY DEF Init, StateInit, RosterInit, WorkInit, EditInit
<1>3. MoneyTypes
  <2>1. 0 \in Times /\ 0 \in Int /\ 0 \in Nat
    BY ClockAssumption DEF Times
  <2>2. underfilled \in DecisionRows
    BY <2>1 DEF Init, RosterInit, DecisionRows, DecisionStates
  <2> QED
    BY <1>2, <2>1, <2>2 DEF Init, StateInit, WorkInit, MoneyTypes, Escrows, Ledgers, Allocations
<1>4. RosterInv
  BY <1>2 DEF RosterInv, OpenRoster, WorkedRoster, Worked, Underfilling, Drafted
<1>5. LegacyOwned
  BY <1>2 DEF LegacyOwned, EditPending, Sent, Accepted, Drafted
<1> QED
  BY <1>1, <1>3, <1>4, <1>5 DEF Known

\* A step of nobody moves none of the rows money depends on.
LEMMA KnownStutters == Known /\ UNCHANGED vars => Known'
<1> SUFFICES ASSUME Known, UNCHANGED vars PROVE Known'
  OBVIOUS
<1>1. /\ UNCHANGED <<now, quest, assignment, rank, leader, escrow, ledger, underfilled>>
      /\ UNCHANGED <<proof, allocation, sweepNow, edit, legacy>>
  BY DEF vars, stateVars, rosterVars, moneyVars, workVars, editVars
<1>2. QuestInv'
  BY QuestStutters DEF Known
<1>3. MoneyTypes'
  BY <1>1 DEF Known, MoneyTypes
<1>4. /\ Active' = Active /\ Roster' = Roster
      /\ (AssignmentsWith("INCOMPLETE"))' = AssignmentsWith("INCOMPLETE")
      /\ (AssignmentsWith("COMPLETED"))' = AssignmentsWith("COMPLETED")
      /\ GroupFcfs' = GroupFcfs /\ GroupCandidate' = GroupCandidate
  BY <1>1 DEF Active, AssignmentsWith, Roster, GroupFcfs, GroupCandidate
<1>5. Worth(Roster)' <=> Worth(Roster)
  <2>1. SameShape /\ rank' = rank /\ underfilled' = underfilled
    BY <1>1 DEF SameShape
  <2>2. PricesKept
    BY <2>1, PricesStay
  <2>3. Worth(Roster)' <=> Worth(Roster)
    BY <1>4, <2>1, <2>2, WorthKept DEF Worth
  <2> QED
    BY <2>3
<1>6. RosterInv'
  BY <1>1, <1>4, <1>5 DEF Known, RosterInv, OpenRoster, WorkedRoster, Worked, Underfilling
<1>7. LegacyOwned'
  BY <1>1, <1>4 DEF Known, LegacyOwned, EditPending, Sent, Accepted, Terminal
<1> QED
  BY <1>2, <1>3, <1>6, <1>7 DEF Known

\* Every step keeps it, and is one of the moves.
LEMMA KnownSteps ==
    ASSUME Known, Next
    PROVE  Known' /\ Moves
<1>1. SideTypes' /\ Moves
  BY StepMoves
<1>2. QuestInv' /\ Types'
  BY QuestSteps DEF Known, QuestInv
<1>3. MoneyTypes'
  BY <1>1, MoneyTyped
<1>4. RosterInv' /\ LegacyOwned'
  BY <1>1, <1>2, <1>3, RosterKeeping, OwnedKeeping
<1> QED
  BY <1>1, <1>2, <1>3, <1>4 DEF Known

\* It holds of every Quest.
LEMMA KnownKeeps == Spec => []Known
<1>1. Known /\ [Next]_vars => Known'
  BY KnownSteps, KnownStutters
<1> QED
  BY <1>1, KnownStarts, PTL DEF Spec

-----------------------------------------------------------------------------
(* What the Escrow holds *)

\* The cases of what is owed after a step.
LEMMA OwedNext ==
    /\ quest'.status = "CANCELLED" => Owed' = 0
    /\ quest'.status = "OPEN" => Owed' = PublishedEscrow'
    /\ quest'.status # "CANCELLED" /\ allocation'.status = "PENDING" => Owed' = PublishedEscrow'
    /\ quest'.status \notin {"CANCELLED", "OPEN"} /\ allocation'.status # "PENDING"
           => Owed' = IF GroupCandidate' THEN IF Unpaid' = {} THEN 0 ELSE PublishedEscrow'
                      ELSE SlotsOf(Unpaid)'
BY DEF Owed

\* Money that Dispute Cases took.
LEMMA UndisturbedKept ==
    ASSUME ledger'.disputed = ledger.disputed, escrow.status # "RELEASED", escrow'.status # "RELEASED"
    PROVE  Undisturbed' <=> Undisturbed
BY DEF Undisturbed, SumOf

\* The price of a complete roster is the whole Escrow.
LEMMA WorthSlots ==
    ASSUME Types, MoneyTypes, NEW S, Worth(S)
    PROVE  SlotsOf(S) = PublishedEscrow
BY PriceTypes DEF Worth, SlotsOf

\* The same of the roster after a step.
LEMMA RosterSlotsNext ==
    ASSUME Types', MoneyTypes', Worth(Roster)'
    PROVE  SlotsOf(Roster)' = PublishedEscrow'
<1>1. PublishedEscrow' = RewardPool' + FeePool'
  BY DEF PublishedEscrow
<1> QED
  BY <1>1 DEF Worth, SlotsOf

-----------------------------------------------------------------------------
(* Every move keeps the Escrow covered *)

\* What the invariant says of a Quest that is not at its end.
LEMMA EscrowOf ==
    ASSUME Known, EscrowInv
    PROVE  /\ EscrowStands /\ EscrowCoversSlots /\ Types /\ MoneyTypes /\ RosterInv /\ LegacyOwned
           /\ quest.status = "OPEN" => escrow.remaining = PublishedEscrow
           /\ quest.status = "OPEN" => allocation.status # "PENDING"
           /\ ~Terminal => Undisturbed /\ quest.holdSince = Never
           /\ ~Terminal /\ quest.status \notin Drafted => escrow.remaining = Owed
           /\ Published /\ Undisturbed => escrow.remaining = Owed
           /\ escrow.status = "ACTIVE" => quest.status \notin Drafted \union {"CANCELLED"}
BY DEF Known, QuestInv, EscrowInv, EscrowStands, EscrowCoversSlots, Owed, Published, Drafted,
       Terminal

\* The roster is complete, and costs what was published.
LEMMA AssignsCovers ==
    ASSUME Known, EscrowInv, Types', MoneyTypes', RosterInv', SameShape, SameHold,
           quest.status = "OPEN", quest'.status = "ASSIGNED",
           UNCHANGED <<escrow, ledger, allocation>>,
           Active' = Roster'
    PROVE  EscrowInv'
<1>1. /\ escrow.remaining = PublishedEscrow /\ escrow.status # "NONE" /\ escrow.remaining >= 0
      /\ escrow.status # "ACTIVE" => escrow.remaining = 0
      /\ allocation.status # "PENDING" /\ Undisturbed /\ quest.holdSince = Never
  BY EscrowOf DEF EscrowStands, Terminal, Drafted
<1>2. (GroupCandidate' <=> GroupCandidate) /\ PublishedEscrow' = PublishedEscrow
  BY ShapeKept
<1>3. Undisturbed' /\ quest'.holdSince = Never
  BY <1>1 DEF Undisturbed, SumOf, SameHold
<1>4. WorkedRoster' /\ Worked'
  BY DEF RosterInv, Worked, Drafted
<1>5. Unpaid' = Roster'
  BY DEF Unpaid, Active, AssignmentsWith, Roster
<1>6. Owed' = PublishedEscrow'
  <2>1. CASE GroupCandidate
    <3>1. Unpaid' # {}
      BY <1>2, <1>4, <1>5, <2>1 DEF WorkedRoster
    <3> QED
      BY <1>1, <1>2, <2>1, <3>1, OwedNext
  <2>2. CASE ~GroupCandidate
    <3>1. SlotsOf(Roster)' = PublishedEscrow'
      BY <1>2, <1>4, <2>2, RosterSlotsNext DEF WorkedRoster
    <3>2. SlotsOf(Unpaid)' = SlotsOf(Roster)'
      BY <1>5 DEF SlotsOf, SumOf, Rewards, Fees
    <3> QED
      BY <1>1, <1>2, <2>2, <3>1, <3>2, OwedNext
  <2> QED
    BY <2>1, <2>2
<1>7. EscrowCoversSlots'
  BY <1>1, <1>2, <1>6 DEF EscrowCoversSlots
<1>8. EscrowStands'
  BY <1>1, <1>3 DEF EscrowStands, Drafted, Terminal, EndedQuestStrandsNothing
<1> QED
  BY <1>7, <1>8 DEF EscrowInv

\* Up to the assignment the Escrow holds all that was published.
LEMMA OpenCovers ==
    ASSUME Known, EscrowInv, Types', MoneyTypes', RosterInv',
           \/ Drafts \/ Publishes \/ Reshapes \/ Decides \/ Consents
           \/ \E w \in Workers : Joins(w)
           \/ \E S \in SUBSET Workers, l \in Workers \union {NoWorker} : Selects(S, l)
    PROVE  EscrowInv'
<1>1. EscrowStands /\ RosterInv /\ Types /\ MoneyTypes
  BY EscrowOf
<1>2. CASE Drafts
  <2>1. /\ quest.status \in Drafted /\ quest'.status \in {"DRAFT", "CANCELLED"}
        /\ escrow' = escrow /\ ledger' = ledger /\ allocation' = allocation /\ SameHold
    BY <1>2 DEF Drafts, MoneyKept
  <2>2. /\ escrow.status = "NONE" /\ escrow.remaining = 0 /\ ~Terminal
        /\ quest.holdSince = Never /\ Undisturbed /\ allocation.status # "PENDING"
    BY <1>1, <2>1 DEF EscrowStands, Drafted, Terminal
  <2>3. quest'.holdSince = Never /\ Undisturbed'
    BY <2>1, <2>2 DEF SameHold, Undisturbed, SumOf
  <2> QED
    BY <2>1, <2>2, <2>3 DEF EscrowInv, EscrowStands, EscrowCoversSlots, Published, Drafted,
                            Terminal, EndedQuestStrandsNothing
<1>3. ASSUME quest'.status = "OPEN", escrow'.remaining = PublishedEscrow',
             escrow'.status # "NONE", escrow'.remaining >= 0,
             escrow'.status # "ACTIVE" => escrow'.remaining = 0,
             quest'.holdSince = Never, allocation'.status # "PENDING", Undisturbed'
      PROVE  EscrowInv'
  <2>1. EscrowCoversSlots'
    BY <1>3, OwedNext DEF EscrowCoversSlots
  <2>2. EscrowStands'
    BY <1>3 DEF EscrowStands, Drafted, Terminal, EndedQuestStrandsNothing
  <2> QED
    BY <2>1, <2>2 DEF EscrowInv
<1>4. CASE Publishes
  <2>1. /\ quest.status = "DRAFT" /\ quest'.status = "OPEN" /\ ledger' = ledger
        /\ escrow'.status = "ACTIVE" /\ escrow'.remaining = PublishedEscrow
        /\ allocation' = allocation /\ SameHold /\ PublishedEscrow' = PublishedEscrow
    BY <1>4, ShapeKept DEF Publishes
  <2>2. /\ quest.holdSince = Never /\ Undisturbed /\ allocation.status # "PENDING"
        /\ PublishedEscrow >= 0
    BY <1>1, <2>1, PriceTypes DEF EscrowStands, Drafted, Terminal
  <2>3. quest'.holdSince = Never /\ Undisturbed'
    BY <2>1, <2>2 DEF SameHold, Undisturbed, SumOf
  <2> QED
    BY <1>3, <2>1, <2>2, <2>3
<1>5. ASSUME quest.status = "OPEN", quest'.status = "OPEN", SameHold,
             quest'.kind.headcount = quest.kind.headcount,
             UNCHANGED <<escrow, ledger, allocation>>
      PROVE  EscrowInv'
  <2>1. /\ escrow.remaining = PublishedEscrow /\ escrow.status # "NONE" /\ escrow.remaining >= 0
        /\ escrow.status # "ACTIVE" => escrow.remaining = 0
        /\ allocation.status # "PENDING" /\ Undisturbed /\ quest.holdSince = Never
    BY <1>5, EscrowOf DEF EscrowStands, Terminal, Drafted
  <2>2. PublishedEscrow' = PublishedEscrow
    BY <1>5 DEF PublishedEscrow, RewardPool, FeePool
  <2>3. quest'.holdSince = Never /\ Undisturbed'
    BY <1>5, <2>1 DEF SameHold, Undisturbed, SumOf
  <2> QED
    BY <1>3, <1>5, <2>1, <2>2, <2>3
<1>6. CASE Reshapes
  BY <1>5, <1>6 DEF Reshapes, MoneyKept
<1>7. CASE Decides
  BY <1>5, <1>7 DEF Decides, SameHold
<1>8. ASSUME NEW w \in Workers, Joins(w) PROVE EscrowInv'
  <2>1. /\ SameShape /\ SameHold /\ UNCHANGED <<escrow, ledger, allocation>>
        /\ quest.status = "OPEN" /\ quest'.status \in {"OPEN", "ASSIGNED"}
    BY <1>8 DEF Joins, MoneyKept
  <2>2. CASE quest'.status = "OPEN"
    BY <1>5, <2>1, <2>2 DEF SameShape
  <2>3. CASE quest'.status = "ASSIGNED"
    <3>1. Active' = Roster'
      BY <1>1, <1>8 DEF Joins, RosterInv, OpenRoster, Active, AssignmentsWith, Roster, Types
    <3> QED
      BY <2>1, <2>3, <3>1, AssignsCovers
  <2> QED
    BY <2>1, <2>2, <2>3
<1>9. ASSUME NEW S \in SUBSET Workers, NEW l \in Workers \union {NoWorker}, Selects(S, l)
      PROVE  EscrowInv'
  <2>1. /\ SameShape /\ SameHold /\ UNCHANGED <<escrow, ledger, allocation>>
        /\ quest.status = "OPEN" /\ quest'.status = "ASSIGNED"
    BY <1>9 DEF Selects, MoneyKept
  <2>2. Active' = Roster'
    BY <1>1, <1>9 DEF Selects, RosterInv, OpenRoster, Active, AssignmentsWith, Roster, Types
  <2> QED
    BY <2>1, <2>2, AssignsCovers
<1>10. CASE Consents
  <2>1. /\ SameShape /\ SameHold /\ UNCHANGED <<escrow, ledger, allocation>>
        /\ quest.status = "OPEN" /\ quest'.status = "ASSIGNED"
    BY <1>10 DEF Consents
  <2>2. Active' = Roster'
    BY <1>1, <1>10 DEF Consents, RosterKept, RosterInv, OpenRoster, Active, AssignmentsWith, Roster
  <2> QED
    BY <2>1, <2>2, AssignsCovers
<1> QED
  BY <1>2, <1>4, <1>6, <1>7, <1>8, <1>9, <1>10

\* A payment that leaves the rest in the Escrow.
LEMMA Paid ==
    ASSUME Known, EscrowInv, NEW pay \in Amounts, NEW cut \in Amounts,
           SettleEscrow(pay, cut, FALSE)
    PROVE  /\ escrow.status = "ACTIVE" /\ escrow'.status \in {"ACTIVE", "SETTLED"}
           /\ escrow'.remaining = escrow.remaining - SumOf(pay) - SumOf(cut)
           /\ escrow'.remaining >= 0
           /\ escrow'.status = "SETTLED" <=> escrow'.remaining = 0
           /\ Undisturbed' <=> Undisturbed
           /\ quest.status \notin Drafted \union {"CANCELLED"}
<1>1. /\ escrow.status = "ACTIVE" /\ Left(pay, cut) \in Int /\ Left(pay, cut) >= 0
      /\ escrow'.status = IF Left(pay, cut) = 0 THEN "SETTLED" ELSE "ACTIVE"
      /\ escrow'.remaining = Left(pay, cut)
      /\ ledger'.disputed = ledger.disputed
  BY EscrowOf, Settled
<1>2. Undisturbed' <=> Undisturbed
  BY <1>1, UndisturbedKept
<1> QED
  BY <1>1, <1>2, EscrowOf DEF Left

\* A cancellation and the end of the money hold empty the Escrow.
LEMMA EmptiesCover ==
    ASSUME Known, EscrowInv, Types', MoneyTypes',
           \/ Releases
           \/ \E pay \in Amounts, cut \in Amounts : Cancels(pay, cut)
    PROVE  EscrowInv'
<1>1. EscrowStands /\ EscrowCoversSlots /\ Types /\ MoneyTypes
  BY EscrowOf
<1>2. ASSUME NEW pay \in Amounts, NEW cut \in Amounts, Cancels(pay, cut) PROVE EscrowInv'
  <2>1. escrow'.status \in {"SETTLED", "RELEASED"} /\ escrow'.remaining = 0
        /\ quest'.status = "CANCELLED" /\ quest.status \in {"OPEN", "ASSIGNED", "IN_PROGRESS"}
        /\ allocation' = allocation
    BY <1>1, <1>2, Settled DEF Cancels
  <2>2. allocation.status # "PENDING"
    BY <1>1, <2>1 DEF EscrowStands
  <2> QED
    BY <2>1, <2>2, OwedNext DEF EscrowInv, EscrowStands, EscrowCoversSlots, Drafted, Terminal,
                                EndedQuestStrandsNothing
<1>3. CASE Releases
  <2>1. /\ escrow.status = "ACTIVE" /\ escrow'.status \in {"SETTLED", "RELEASED"}
        /\ escrow'.remaining = 0
        /\ escrow'.status = "SETTLED" => escrow.remaining - SumOf(Nothing) - SumOf(Nothing) = 0
        /\ ledger'.disputed = ledger.disputed
    BY <1>1, <1>3, Settled, PricesTyped DEF Releases, ReleaseEscrow, Left
  <2>2. SumOf(Nothing) = 0 /\ escrow.remaining \in Int
    BY <1>1, PaysAdd, NothingPays DEF MoneyTypes, Escrows
  <2>3. /\ quest' = quest /\ quest.holdSince # Never /\ allocation' = allocation
        /\ assignment' = assignment /\ rank' = rank /\ leader' = leader
        /\ underfilled' = underfilled
    BY <1>3 DEF Releases, RosterKept
  <2>4. Terminal /\ quest.status \notin Drafted \union {"CANCELLED"}
    BY <1>1, <2>1, <2>3, EscrowOf DEF EscrowStands
  <2>5. EscrowCoversSlots'
    <3>1. SUFFICES ASSUME Undisturbed' PROVE escrow'.remaining = Owed'
      BY DEF EscrowCoversSlots
    <3>2. escrow'.status = "SETTLED"
      BY <2>1, <3>1 DEF Undisturbed
    <3>3. escrow.remaining = 0
      BY <2>1, <2>2, <3>2
    <3>4. Undisturbed
      BY <2>1, <3>1, <3>2, UndisturbedKept
    <3>5. Owed = 0
      BY <2>1, <2>4, <3>3, <3>4, EscrowOf DEF Published, Drafted
    <3>6. Owed' = Owed
      BY <2>3 DEF Owed, Unpaid, Active, AssignmentsWith, GroupCandidate, PublishedEscrow,
                  RewardPool, FeePool, SlotsOf, SumOf, Rewards, Fees, RewardOf, FeeOf, Shared,
                  Shares, GroupFcfs
    <3> QED
      BY <2>1, <3>5, <3>6
  <2>6. EscrowStands'
    BY <1>1, <2>1, <2>3, <2>4 DEF EscrowStands, Drafted, Terminal, EndedQuestStrandsNothing,
                                  GroupCandidate
  <2> QED
    BY <2>5, <2>6 DEF EscrowInv
<1> QED
  BY <1>2, <1>3

\* An award of an Admin shows among what the Dispute Cases took.
LEMMA AwardedDisturbs ==
    ASSUME Known, NEW w \in Workers, Awarded(w)
    PROVE  SumOf(ledger.disputed)' # 0
<1>1. MoneyTypes
  BY DEF Known
<1>2. PICK amount \in Awards \ {0} : PayAward(w, amount)
  BY DEF Awarded
<1>3. amount \in Nat \ {0}
  BY HoldAssumption
<1>4. ledger'.disputed = [ledger.disputed EXCEPT ![w] = @ + amount]
  BY <1>1, <1>2, AwardTyped
<1>5. SumOf(ledger'.disputed) # 0
  <2> DEFINE d == [v \in Workers |-> IF v = w THEN amount ELSE 0]
  <2>1. ledger.disputed \in [Workers -> Nat]
    BY <1>1 DEF MoneyTypes, Ledgers
  <2>2. \A v \in Workers : /\ ledger.disputed[v] \in Int /\ d[v] \in Int
                           /\ ledger'.disputed[v] = ledger.disputed[v] + d[v]
    BY <1>3, <1>4, <2>1
  <2>3. SumOf(d) = amount
    <3>1. \A v \in Workers : d[v] = IF v = w THEN amount ELSE 0
      OBVIOUS
    <3> HIDE DEF d
    <3> QED
      BY <1>3, <3>1, PaysOne
  <2> HIDE DEF d
  <2>4. SumOf(ledger'.disputed) = SumOf(ledger.disputed) + SumOf(d)
    BY <2>2, PaysAdd
  <2>5. SumOf(ledger.disputed) \in Nat
    BY <2>1, PaysAdd
  <2> QED
    BY <1>3, <2>3, <2>4, <2>5
<1> QED
  BY <1>5 DEF SumOf

\* An award takes from a Quest whose hold runs, and what it takes is no longer
\* compared with what is owed.
LEMMA AwardedCovers ==
    ASSUME Known, EscrowInv, Types', MoneyTypes', NEW w \in Workers, Awarded(w)
    PROVE  EscrowInv'
<1>1. EscrowStands /\ Types /\ MoneyTypes
  BY EscrowOf
<1>2. PICK amount \in Awards \ {0} : PayAward(w, amount)
  BY DEF Awarded
<1>3. amount \in Nat \ {0}
  BY HoldAssumption
<1>4. /\ ledger'.disputed = [ledger.disputed EXCEPT ![w] = @ + amount]
      /\ \/ /\ escrow.status = "ACTIVE" /\ escrow'.status \in {"ACTIVE", "SETTLED"}
            /\ escrow'.remaining = escrow.remaining - amount
            /\ amount <= escrow.remaining
            /\ escrow'.status = "SETTLED" <=> escrow'.remaining = 0
         \/ escrow.status = "RELEASED" /\ escrow' = escrow
  BY <1>1, <1>2, AwardTyped
<1>5. ~Undisturbed'
  BY AwardedDisturbs DEF Undisturbed
<1>6. /\ quest' = quest /\ quest.holdSince # Never /\ allocation' = allocation
  BY DEF Awarded
<1>7. Terminal
  BY <1>1, <1>6 DEF EscrowStands
<1>8. escrow.remaining \in Int
  BY <1>1 DEF MoneyTypes, Escrows
<1>9. EscrowStands'
  <2>1. CASE escrow' = escrow
    BY <1>1, <1>6, <1>7, <2>1
       DEF EscrowStands, Drafted, Terminal, EndedQuestStrandsNothing, GroupCandidate,
           MoneyHoldOpen
  <2>2. CASE escrow' # escrow
    <3>1. /\ escrow.status = "ACTIVE" /\ escrow'.status \in {"ACTIVE", "SETTLED"}
          /\ escrow'.remaining >= 0
          /\ escrow'.status = "SETTLED" <=> escrow'.remaining = 0
      <4>1. /\ escrow.status = "ACTIVE" /\ escrow'.status \in {"ACTIVE", "SETTLED"}
            /\ escrow'.remaining = escrow.remaining - amount /\ amount <= escrow.remaining
        BY <1>4, <2>2
      <4>2. escrow'.remaining >= 0
        BY <1>3, <1>8, <4>1
      <4> QED
        BY <1>4, <2>2, <4>1, <4>2
    <3> QED
      BY <1>1, <1>6, <1>7, <3>1
         DEF EscrowStands, Drafted, Terminal, EndedQuestStrandsNothing, GroupCandidate,
             MoneyHoldOpen
  <2> QED
    BY <2>1, <2>2
<1> QED
  BY <1>5, <1>9 DEF EscrowInv, EscrowCoversSlots

\* Nothing is paid, and the same Workers are unpaid: a Team is owed all of it
\* while it works.
LEMMA NothingPaidCovers ==
    ASSUME Known, EscrowInv, Types', MoneyTypes', SameShape, PricesKept,
           UNCHANGED <<escrow, ledger, allocation>>,
           quest.status \notin Drafted \union {"OPEN", "CANCELLED"},
           quest'.status \notin Drafted \union {"OPEN", "CANCELLED"},
           Unpaid' = Unpaid,
           allocation.status = "PENDING" => quest'.status = "COMPLETED",
           Terminal => Terminal' /\ SameHold,
           ~Terminal /\ ~Terminal' => SameHold,
           ~Terminal /\ Terminal' => quest'.holdSince # Never
    PROVE  EscrowInv'
<1>1. EscrowStands /\ EscrowCoversSlots /\ Types /\ MoneyTypes
  BY EscrowOf
<1>2. (GroupCandidate' <=> GroupCandidate) /\ PublishedEscrow' = PublishedEscrow
  BY ShapeKept
<1>3. Undisturbed' <=> Undisturbed
  BY DEF Undisturbed, SumOf
<1>4. SlotsOf(Unpaid)' = SlotsOf(Unpaid)
  <2>1. PICK S : S = Unpaid
    OBVIOUS
  <2>2. SlotsOf(S)' = SlotsOf(S)
    BY SlotsKept
  <2>3. SlotsOf(Unpaid)' = SlotsOf(S)'
    BY <2>1 DEF SlotsOf, SumOf, Rewards, Fees
  <2> QED
    BY <2>1, <2>2, <2>3
<1>5. Owed' = Owed
  BY <1>2, <1>4 DEF Owed
<1>6. EscrowCoversSlots'
  BY <1>1, <1>3, <1>5 DEF EscrowCoversSlots, Published, Drafted
<1>7. EscrowStands'
  BY <1>1, <1>2, <1>3 DEF EscrowStands, Drafted, Terminal, EndedQuestStrandsNothing,
                          MoneyHoldOpen, SameHold
<1> QED
  BY <1>6, <1>7 DEF EscrowInv

\* A step that leaves money and roster as they are.
LEMMA StaysCovers ==
    ASSUME Known, EscrowInv, Types', MoneyTypes', Stays
    PROVE  EscrowInv'
<1>1. EscrowStands /\ EscrowCoversSlots /\ Types /\ MoneyTypes
  BY EscrowOf
<1>2. /\ SameShape /\ SameHold /\ assignment' = assignment /\ rank' = rank /\ leader' = leader
      /\ UNCHANGED <<escrow, ledger, allocation>>
      /\ underfilled' = underfilled \/ Abandons
      /\ quest'.status = quest.status \/ {quest.status, quest'.status} \subseteq UnderWay
  BY DEF Stays, RosterKept
<1>3. PricesKept /\ Unpaid' = Unpaid
  BY <1>1, <1>2, PricesStay
     DEF Abandons, Asking, Unpaid, Active, AssignmentsWith, MoneyTypes, DecisionRows
<1>4. CASE quest.status \notin Drafted \union {"OPEN", "CANCELLED"}
  <2>1. /\ quest'.status \notin Drafted \union {"OPEN", "CANCELLED"}
        /\ Terminal' <=> Terminal
        /\ allocation.status = "PENDING" => quest'.status = "COMPLETED"
    BY <1>1, <1>2, <1>4 DEF UnderWay, Drafted, Terminal, EscrowStands
  <2> QED
    BY <1>2, <1>3, <1>4, <2>1, NothingPaidCovers
<1>5. CASE quest.status \in Drafted \union {"OPEN", "CANCELLED"}
  <2>1. quest'.status = quest.status
    BY <1>2, <1>5 DEF UnderWay, Drafted
  <2>2. (GroupCandidate' <=> GroupCandidate) /\ PublishedEscrow' = PublishedEscrow
    BY <1>2, ShapeKept
  <2>3. Undisturbed' <=> Undisturbed
    BY <1>2 DEF Undisturbed, SumOf
  <2>4. EscrowCoversSlots'
    BY <1>1, <1>2, <1>5, <2>1, <2>2, <2>3, EscrowOf, OwedNext
       DEF EscrowCoversSlots, Published, Drafted, EscrowStands, Owed
  <2>5. EscrowStands'
    BY <1>1, <1>2, <2>1, <2>2, <2>3 DEF EscrowStands, Drafted, Terminal,
                          EndedQuestStrandsNothing, MoneyHoldOpen, SameHold
  <2> QED
    BY <2>4, <2>5 DEF EscrowInv
<1> QED
  BY <1>4, <1>5

\* A Team's work is accepted, and its reward divided.
LEMMA TeamCovers ==
    ASSUME Known, EscrowInv, Types', MoneyTypes', Moves, RosterInv',
           TeamDone \/ \E split \in Amounts : Allocates(split)
    PROVE  EscrowInv'
<1>1. EscrowStands /\ EscrowCoversSlots /\ Types /\ MoneyTypes /\ RosterInv
  BY EscrowOf
<1>2. CASE TeamDone
  <2>1. /\ SameShape /\ SameHold /\ quest.status = "IN_PROGRESS" /\ quest'.status = "COMPLETED"
        /\ UNCHANGED <<escrow, ledger>> /\ allocation'.status = "PENDING" /\ GroupCandidate
        /\ leader \in Active
    BY <1>2 DEF TeamDone
  <2>2. (GroupCandidate' <=> GroupCandidate) /\ PublishedEscrow' = PublishedEscrow
    BY <2>1, ShapeKept
  <2>3. Owed = PublishedEscrow
    BY <1>1, <2>1 DEF Owed, Unpaid, EscrowStands
  <2>4. Owed' = PublishedEscrow'
    BY <2>1, OwedNext
  <2>5. Undisturbed' <=> Undisturbed
    BY <2>1 DEF Undisturbed, SumOf
  <2>6. EscrowCoversSlots'
    BY <1>1, <2>1, <2>2, <2>3, <2>4, <2>5 DEF EscrowCoversSlots, Published
  <2>7. EscrowStands'
    BY <1>1, <2>1, <2>2, <2>5 DEF EscrowStands, Drafted, Terminal, EndedQuestStrandsNothing
  <2> QED
    BY <2>6, <2>7 DEF EscrowInv
<1>3. ASSUME NEW split \in Amounts, Allocates(split) PROVE EscrowInv'
  <2>1. /\ SettleEscrow(split, LeaderFee, FALSE) /\ escrow'.remaining = 0 /\ quest' = quest
        /\ quest.status = "COMPLETED" /\ allocation'.status # "PENDING"
        /\ allocation.status = "PENDING"
    BY <1>3 DEF Allocates
  <2>2. escrow'.status = "SETTLED"
    BY <1>1, <2>1, Paid, PricesTyped
  <2>3. GroupCandidate /\ GroupCandidate'
    BY <1>1, <2>1 DEF EscrowStands, GroupCandidate
  <2>4. Unpaid' = {}
    BY <2>1, <2>3 DEF RosterInv, WorkedRoster, Worked, Drafted, Unpaid
  <2>5. Owed' = 0
    BY <2>1, <2>3, <2>4, OwedNext
  <2> QED
    BY <1>1, <2>1, <2>2, <2>3, <2>5 DEF EscrowInv, EscrowStands, EscrowCoversSlots, Drafted, Terminal,
                                   EndedQuestStrandsNothing
<1> QED
  BY <1>2, <1>3

\* Work is refused or given up: nobody is paid, and nobody gets cheaper.
LEMMA FailsCovers ==
    ASSUME Known, EscrowInv, Types', MoneyTypes', NEW S \in SUBSET Workers, Fails(S)
    PROVE  EscrowInv'
<1>1. EscrowStands /\ EscrowCoversSlots /\ Types /\ MoneyTypes /\ RosterInv
  BY EscrowOf
<1>2. /\ SameShape /\ rank' = rank /\ underfilled' = underfilled
      /\ UNCHANGED <<escrow, ledger, allocation>>
      /\ quest.status \in {"ASSIGNED", "IN_PROGRESS", "FAILED"}
      /\ quest'.status \in {"IN_PROGRESS", "COMPLETED", "FAILED"}
      /\ quest'.status = "FAILED" /\ quest.status = "FAILED" => SameHold
      /\ quest'.status = "IN_PROGRESS" => SameHold
      /\ quest'.status \in {"COMPLETED", "FAILED"} /\ quest.status # "FAILED"
             => quest'.holdSince = now
      /\ quest.status = "FAILED" => quest'.status = "FAILED"
      /\ EndAssignments(S, "INCOMPLETE")
  BY DEF Fails, MoneyKept, SameHold
<1>3. now # Never
  BY <1>1 DEF Types, Times, Never
<1>4. PricesKept
  BY <1>2, PricesStay
<1>5. Unpaid' = Unpaid
  BY <1>1, <1>2 DEF EndAssignments, Unpaid, Active, AssignmentsWith, Types
<1>6. /\ allocation.status # "PENDING"
      /\ Terminal <=> quest.status = "FAILED"
      /\ Terminal' <=> quest'.status # "IN_PROGRESS"
      /\ quest.status \notin Drafted \union {"OPEN", "CANCELLED"}
      /\ quest'.status \notin Drafted \union {"OPEN", "CANCELLED"}
  BY <1>1, <1>2 DEF EscrowStands, Terminal, Drafted
<1>7. /\ Terminal => Terminal' /\ SameHold
      /\ ~Terminal /\ ~Terminal' => SameHold
      /\ ~Terminal /\ Terminal' => quest'.holdSince # Never
  BY <1>2, <1>3, <1>6
<1> QED
  BY <1>2, <1>4, <1>5, <1>6, <1>7, NothingPaidCovers

\* One Worker is paid what the Escrow held for him.
LEMMA PaysWorkerCovers ==
    ASSUME Known, EscrowInv, Types', MoneyTypes', NEW w \in Workers, PaysWorker(w)
    PROVE  EscrowInv'
<1> DEFINE left == escrow.remaining - SumOf(Rewards({w})) - SumOf(Fees({w}))
           unpaid == IF GroupFcfs THEN AssignmentsWith("INCOMPLETE") ELSE {}
<1>1. EscrowStands /\ EscrowCoversSlots /\ Types /\ MoneyTypes
  BY EscrowOf
<1>2. /\ SameShape /\ rank' = rank /\ underfilled' = underfilled /\ allocation' = allocation
      /\ ~GroupCandidate /\ w \in Active /\ quest.status \in {"IN_PROGRESS", "FAILED"}
      /\ SettleEscrow(Rewards({w}), Fees({w}), FALSE)
      /\ EndAssignments({w}, "COMPLETED")
      /\ \/ /\ quest'.status = "COMPLETED" /\ left = SlotsOf(unpaid)
            /\ quest.status = "IN_PROGRESS"
            /\ quest'.holdSince = IF unpaid = {} THEN quest.holdSince ELSE now
         \/ quest'.status = quest.status /\ SameHold
  BY DEF PaysWorker
<1>3. /\ escrow.status = "ACTIVE" /\ escrow'.status \in {"ACTIVE", "SETTLED"}
      /\ escrow'.remaining = left /\ escrow'.remaining >= 0
      /\ escrow'.status = "SETTLED" <=> escrow'.remaining = 0
      /\ Undisturbed' <=> Undisturbed
  BY <1>1, <1>2, Paid, PricesTyped
<1>4. (GroupCandidate' <=> GroupCandidate) /\ PublishedEscrow' = PublishedEscrow /\ PricesKept
  BY <1>2, ShapeKept, PricesStay
<1>5. Unpaid = Unpaid' \union {w} /\ Unpaid' \intersect {w} = {}
  BY <1>1, <1>2 DEF EndAssignments, Unpaid, Active, AssignmentsWith, Types
<1>6. left = escrow.remaining - SlotsOf({w})
  <2>1. SumOf(Rewards({w})) \in Nat /\ SumOf(Fees({w})) \in Nat
    BY <1>1, SlotsOfFew, PriceTypes
  <2> QED
    BY <1>1, <2>1 DEF SlotsOf, MoneyTypes, Escrows
<1>7. PICK S : S = Unpaid'
  OBVIOUS
<1>8. /\ SlotsOf(Unpaid) = SlotsOf(S) + SlotsOf({w})
      /\ SlotsOf(S) \in Nat /\ SlotsOf({w}) \in Nat
  <2>1. SlotsOf(S \union {w}) = SlotsOf(S) + SlotsOf({w}) /\ SlotsOf(S) \in Nat
    BY <1>1, <1>5, <1>7, SlotsAdd
  <2>2. SlotsOf({w}) \in Nat
    BY <1>1, SlotsOfFew, PriceTypes
  <2> QED
    BY <1>5, <1>7, <2>1, <2>2
<1>9. SlotsOf(Unpaid)' = SlotsOf(S)
  <2>1. SlotsOf(S)' = SlotsOf(S)
    BY <1>4, SlotsKept
  <2>2. SlotsOf(Unpaid)' = SlotsOf(S)'
    BY <1>7 DEF SlotsOf, SumOf, Rewards, Fees
  <2> QED
    BY <2>1, <2>2
<1>10. quest.status \notin Drafted \union {"OPEN", "CANCELLED"}
       /\ quest'.status \notin Drafted \union {"OPEN", "CANCELLED"}
  BY <1>2 DEF Drafted
<1>11. allocation.status # "PENDING"
  BY <1>1, <1>2 DEF EscrowStands
<1>12. EscrowCoversSlots'
  <2>1. SUFFICES ASSUME Undisturbed' PROVE escrow'.remaining = Owed'
    BY DEF EscrowCoversSlots
  <2>2. escrow.remaining = SlotsOf(Unpaid)
    BY <1>1, <1>2, <1>3, <1>10, <1>11, <2>1 DEF EscrowCoversSlots, Published, Drafted, Owed
  <2>3. Owed' = SlotsOf(Unpaid)'
    BY <1>2, <1>4, <1>10, <1>11, OwedNext
  <2> QED
    BY <1>3, <1>6, <1>8, <1>9, <2>2, <2>3
<1>13. EndedQuestStrandsNothing'
  <2>1. SUFFICES ASSUME Terminal', escrow'.status = "ACTIVE" PROVE quest'.holdSince # Never
    BY DEF EndedQuestStrandsNothing, MoneyHoldOpen
  <2>2. CASE quest'.status = quest.status /\ SameHold
    BY <1>1, <1>3, <1>11, <2>1, <2>2
       DEF EscrowStands, EndedQuestStrandsNothing, MoneyHoldOpen, Terminal, SameHold
  <2>3. CASE quest'.status = "COMPLETED" /\ left = SlotsOf(unpaid)
             /\ quest'.holdSince = IF unpaid = {} THEN quest.holdSince ELSE now
    <3>1. SlotsOf({}) = 0
      BY <1>1, SlotsOfFew
    <3>2. unpaid # {}
      BY <1>3, <2>1, <2>3, <3>1
    <3>3. now # Never
      BY <1>1 DEF Types, Times, Never
    <3> QED
      BY <2>3, <3>2, <3>3
  <2> QED
    BY <1>2, <2>2, <2>3
<1>14. EscrowStands'
  BY <1>1, <1>2, <1>3, <1>10, <1>11, <1>13 DEF EscrowStands, Terminal, SameHold
<1> QED
  BY <1>12, <1>14 DEF EscrowInv

\* Nobody is left to pay, and nothing is left of the Escrow.
LEMMA NobodyLeftCovers ==
    ASSUME Known, EscrowInv, Types', MoneyTypes', SameShape, allocation' = allocation,
           quest.status \notin Drafted \union {"OPEN", "CANCELLED", "COMPLETED"},
           quest'.status \in {"COMPLETED", "FAILED"},
           escrow.status = "ACTIVE", escrow'.status = "SETTLED", escrow'.remaining = 0,
           Unpaid' = {}
    PROVE  EscrowInv'
<1>1. EscrowStands /\ Types /\ MoneyTypes
  BY EscrowOf
<1>2. GroupCandidate' <=> GroupCandidate
  BY ShapeKept
<1>3. SlotsOf({})' = 0
  <2>1. (Types /\ MoneyTypes => SlotsOf({}) = 0)'
    BY SlotsOfFew, PTL
  <2> QED
    BY <2>1
<1>4. SlotsOf(Unpaid)' = SlotsOf({})'
  BY DEF SlotsOf, SumOf, Rewards, Fees
<1>5. allocation'.status # "PENDING"
  BY <1>1 DEF EscrowStands
<1>6. EscrowCoversSlots'
  BY <1>3, <1>4, <1>5, OwedNext DEF EscrowCoversSlots
<1>7. EscrowStands'
  BY <1>1, <1>2, <1>5 DEF EscrowStands, Drafted, Terminal, EndedQuestStrandsNothing
<1> QED
  BY <1>6, <1>7 DEF EscrowInv

\* All the work of a v1 Quest is accepted and paid.
LEMMA CompletesV1Covers ==
    ASSUME Known, EscrowInv, Types', MoneyTypes', CompletesV1
    PROVE  EscrowInv'
<1>1. EscrowStands /\ Types /\ MoneyTypes /\ RosterInv
  BY EscrowOf
<1>2. /\ SameShape /\ allocation' = allocation /\ quest.apiVersion = "v1"
      /\ quest.status \in {"SUBMITTED", "REWORK"} /\ quest'.status = "COMPLETED"
      /\ SettleEscrow(Rewards(Active), Fees(Active), FALSE) /\ escrow'.remaining = 0
      /\ EndAssignments(Active, "COMPLETED")
  BY DEF CompletesV1
<1>3. escrow.status = "ACTIVE" /\ escrow'.status = "SETTLED"
  BY <1>1, <1>2, Paid, PricesTyped
<1>4. Active = Roster
  BY <1>1, <1>2 DEF RosterInv, WorkedRoster, Worked, Drafted
<1>5. \A w \in Workers : assignment'[w] \in {"NONE", "COMPLETED"}
  BY <1>2, <1>4 DEF EndAssignments, Active, AssignmentsWith, Roster
<1>6. Unpaid' = {}
  BY <1>5 DEF Unpaid, Active, AssignmentsWith
<1> QED
  BY <1>2, <1>3, <1>6, NobodyLeftCovers DEF Drafted

\* A v1 Quest fails, and pays what was accepted before.
LEMMA FailsV1Covers ==
    ASSUME Known, EscrowInv, Types', MoneyTypes', NEW S \in SUBSET Workers, FailsV1(S)
    PROVE  EscrowInv'
<1> DEFINE accepted == {o \in Workers : Accepted(o)}
<1>1. EscrowStands /\ EscrowCoversSlots /\ Types /\ MoneyTypes /\ RosterInv /\ LegacyOwned
  BY EscrowOf
<1>2. /\ SameShape /\ rank' = rank /\ underfilled' = underfilled /\ allocation' = allocation
      /\ quest.apiVersion = "v1" /\ quest'.status = "FAILED" /\ quest'.holdSince = now
      /\ quest.status \in {"ASSIGNED", "IN_PROGRESS", "SUBMITTED", "REWORK"}
      /\ SettleAfterFailure(accepted)
      /\ GroupCandidate => Active \subseteq S
      /\ assignment' = [w \in Workers |->
             IF w \in Covered(accepted) THEN "COMPLETED"
             ELSE IF w \in S \intersect Active THEN "INCOMPLETE" ELSE assignment[w]]
  BY DEF FailsV1
<1>3. /\ Active = Roster /\ accepted \subseteq Active
      /\ GroupCandidate => leader \in Workers
  <2>1. Active = Roster /\ (GroupCandidate => leader \in Workers)
    BY <1>1, <1>2 DEF RosterInv, WorkedRoster, Worked, Drafted, Roster
  <2>2. accepted \subseteq Active
    BY <1>1, <1>2 DEF LegacyOwned, Terminal, Accepted, Sent
  <2> QED
    BY <2>1, <2>2
<1>4. now # Never /\ ~Terminal /\ allocation.status # "PENDING"
      /\ quest.status \notin Drafted \union {"OPEN", "CANCELLED", "COMPLETED"}
  BY <1>1, <1>2 DEF Types, Times, Never, Terminal, EscrowStands, Drafted
<1>5. (GroupCandidate' <=> GroupCandidate) /\ PublishedEscrow' = PublishedEscrow /\ PricesKept
  BY <1>2, ShapeKept, PricesStay
<1> HIDE DEF accepted
<1>6. CASE accepted = {}
  <2>1. Covered(accepted) = {} /\ UNCHANGED <<escrow, ledger>>
    BY <1>2, <1>6 DEF Covered, SettleAfterFailure, moneyVars
  <2>2. Unpaid' = Unpaid
    BY <1>1, <1>2, <2>1 DEF Unpaid, Active, AssignmentsWith, Types
  <2> QED
    BY <1>2, <1>4, <1>5, <2>1, <2>2, NothingPaidCovers DEF Drafted, Terminal
<1>7. CASE accepted # {}
  <2>1. SettleEscrow(PriceOf(accepted), FeeFor(accepted), FALSE)
    BY <1>2, <1>7 DEF SettleAfterFailure
  <2>2. /\ escrow.status = "ACTIVE" /\ escrow'.status \in {"ACTIVE", "SETTLED"}
        /\ escrow'.remaining = escrow.remaining - SumOf(PriceOf(accepted)) - SumOf(FeeFor(accepted))
        /\ escrow'.remaining >= 0
        /\ escrow'.status = "SETTLED" <=> escrow'.remaining = 0
        /\ Undisturbed' <=> Undisturbed
    BY <1>1, <2>1, Paid, PricesTyped
  <2>3. Unpaid = Active
    BY <1>3 DEF Unpaid, Active, AssignmentsWith, Roster
  <2>4. escrow.remaining = Owed /\ Owed = IF GroupCandidate THEN IF Unpaid = {} THEN 0
                                          ELSE PublishedEscrow ELSE SlotsOf(Unpaid)
    BY <1>2, <1>4, EscrowOf DEF Owed
  <2>5. CASE GroupCandidate
    <3>1. Covered(accepted) = Unpaid
      BY <1>7, <2>5 DEF Covered, Unpaid
    <3>2. Unpaid' = {}
      BY <1>2, <2>3, <3>1 DEF Unpaid, Active, AssignmentsWith
    <3>3. PriceOf(accepted) = LeaderReward /\ FeeFor(accepted) = LeaderFee
      BY <1>7, <2>5 DEF PriceOf, FeeFor
    <3>4. RewardPool \in Int /\ FeePool \in Int /\ PublishedEscrow = RewardPool + FeePool
      BY <1>1, PriceTypes
    <3>5. Unpaid # {}
      BY <1>3, <1>7, <2>3
    <3>6. escrow'.remaining = 0
      BY <1>1, <1>3, <2>2, <2>4, <2>5, <3>3, <3>4, <3>5, LeaderSums
    <3> QED
      BY <1>2, <1>4, <2>2, <3>2, <3>6, NobodyLeftCovers
  <2>6. CASE ~GroupCandidate
    <3>1. Covered(accepted) = accepted
          /\ PriceOf(accepted) = Rewards(accepted) /\ FeeFor(accepted) = Fees(accepted)
      BY <2>6 DEF Covered, PriceOf, FeeFor
    <3>2. Unpaid' = Unpaid \ accepted
      BY <1>2, <1>3, <2>3, <3>1 DEF Unpaid, Active, AssignmentsWith
    <3>3. PICK U : U = Unpaid'
      OBVIOUS
    <3>4. Unpaid = U \union accepted /\ U \intersect accepted = {}
      BY <1>3, <2>3, <3>2, <3>3
    <3>5. SlotsOf(Unpaid) = SlotsOf(U) + SlotsOf(accepted) /\ SlotsOf(U) \in Nat
      BY <1>1, <3>4, SlotsAdd
    <3>6. /\ SlotsOf(accepted) = SumOf(Rewards(accepted)) + SumOf(Fees(accepted))
          /\ SumOf(Rewards(accepted)) \in Nat /\ SumOf(Fees(accepted)) \in Nat
      <4>1. accepted \intersect {} = {}
        OBVIOUS
      <4> QED
        BY <1>1, <4>1, SlotsAdd DEF SlotsOf
    <3>7. SlotsOf(Unpaid)' = SlotsOf(U)
      <4>1. SlotsOf(U)' = SlotsOf(U)
        BY <1>5, SlotsKept
      <4>2. SlotsOf(Unpaid)' = SlotsOf(U)'
        BY <3>3 DEF SlotsOf, SumOf, Rewards, Fees
      <4> QED
        BY <4>1, <4>2
    <3>8. escrow'.remaining = SlotsOf(Unpaid)'
      BY <2>2, <2>4, <2>6, <3>1, <3>5, <3>6, <3>7
    <3>9. Owed' = SlotsOf(Unpaid)'
      BY <1>2, <1>4, <1>5, <2>6, OwedNext
    <3>10. EscrowCoversSlots'
      BY <3>8, <3>9 DEF EscrowCoversSlots
    <3>11. EscrowStands'
      BY <1>1, <1>2, <1>4, <2>2 DEF EscrowStands, Drafted, Terminal,
                                    EndedQuestStrandsNothing, MoneyHoldOpen
    <3> QED
      BY <3>10, <3>11 DEF EscrowInv
  <2> QED
    BY <2>5, <2>6
<1> QED
  BY <1>6, <1>7

\* Work that was sent before the failure is paid after it.
LEMMA PaysLateCovers ==
    ASSUME Known, EscrowInv, Types', MoneyTypes', NEW o \in Workers, PaysLate(o)
    PROVE  EscrowInv'
<1>1. EscrowStands /\ EscrowCoversSlots /\ Types /\ MoneyTypes /\ RosterInv
  BY EscrowOf
<1>2. /\ quest' = quest /\ rank' = rank /\ underfilled' = underfilled /\ allocation' = allocation
      /\ quest.apiVersion = "v1" /\ quest.status = "FAILED" /\ o \in LegacyOwners
      /\ SettleEscrow(PriceOf({o}), FeeFor({o}), FALSE)
      /\ \A w \in Workers :
             assignment'[w] = IF w \in Covered({o}) THEN "COMPLETED" ELSE assignment[w]
  BY DEF PaysLate
<1>3. SameShape
  BY <1>2 DEF SameShape
<1>4. (GroupCandidate' <=> GroupCandidate) /\ PublishedEscrow' = PublishedEscrow /\ PricesKept
  BY <1>2, <1>3, ShapeKept, PricesStay
<1>5. /\ escrow.status = "ACTIVE" /\ escrow'.status \in {"ACTIVE", "SETTLED"}
      /\ escrow'.remaining = escrow.remaining - SumOf(PriceOf({o})) - SumOf(FeeFor({o}))
      /\ escrow'.remaining >= 0
      /\ escrow'.status = "SETTLED" <=> escrow'.remaining = 0
      /\ Undisturbed' <=> Undisturbed
  BY <1>1, <1>2, Paid, PricesTyped
<1>6. Terminal /\ allocation.status # "PENDING"
      /\ quest.status \notin Drafted \union {"OPEN", "CANCELLED"}
  BY <1>1, <1>2 DEF Terminal, EscrowStands, Drafted
<1>7. EscrowStands'
  BY <1>1, <1>2, <1>5, <1>6 DEF EscrowStands, Drafted, Terminal,
                                EndedQuestStrandsNothing, MoneyHoldOpen
<1>8. SUFFICES ASSUME Undisturbed' PROVE escrow'.remaining = Owed'
  BY <1>7 DEF EscrowInv, EscrowCoversSlots
<1>9. escrow.remaining = IF GroupCandidate THEN IF Unpaid = {} THEN 0
                         ELSE PublishedEscrow ELSE SlotsOf(Unpaid)
  BY <1>1, <1>2, <1>5, <1>6, <1>8 DEF EscrowCoversSlots, Published, Drafted, Owed
<1>10. Owed' = IF GroupCandidate' THEN IF Unpaid' = {} THEN 0
                      ELSE PublishedEscrow' ELSE SlotsOf(Unpaid)'
  BY <1>2, <1>6, OwedNext
<1>11. CASE GroupCandidate
  <2>1. Covered({o}) = Unpaid
    BY <1>11 DEF Covered, Unpaid
  <2>2. Unpaid' = {}
    BY <1>2, <2>1 DEF Unpaid, Active, AssignmentsWith
  <2>3. PriceOf({o}) = LeaderReward /\ FeeFor({o}) = LeaderFee
    BY <1>11 DEF PriceOf, FeeFor
  <2>4. RewardPool \in Nat \ {0} /\ FeePool \in Nat /\ PublishedEscrow = RewardPool + FeePool
    BY <1>1, PriceTypes
  <2>5. leader \in Workers
    BY <1>2, <1>11 DEF LegacyOwners
  <2>6. escrow'.remaining = escrow.remaining - RewardPool - FeePool
    BY <1>1, <1>5, <2>3, <2>5, LeaderSums
  <2>7. Unpaid # {}
    BY <1>5, <1>9, <1>11, <2>4, <2>6
  <2>8. escrow.remaining = RewardPool + FeePool
    BY <1>9, <1>11, <2>4, <2>7
  <2>9. escrow'.remaining = 0
    BY <2>4, <2>6, <2>8
  <2>10. Owed' = 0
    BY <1>4, <1>10, <1>11, <2>2
  <2> QED
    BY <2>9, <2>10
<1>12. CASE ~GroupCandidate
  <2>1. Covered({o}) = {o} /\ PriceOf({o}) = Rewards({o}) /\ FeeFor({o}) = Fees({o})
    BY <1>12 DEF Covered, PriceOf, FeeFor
  <2>2. assignment[o] = "INCOMPLETE"
    BY <1>2, <1>12 DEF LegacyOwners, AssignmentsWith
  <2>3. Unpaid = Unpaid' \union {o} /\ Unpaid' \intersect {o} = {}
    BY <1>2, <2>1, <2>2 DEF Unpaid, Active, AssignmentsWith
  <2>4. PICK U : U = Unpaid'
    OBVIOUS
  <2>5. /\ SlotsOf(Unpaid) = SlotsOf(U) + SlotsOf({o}) /\ SlotsOf(U) \in Nat
    BY <1>1, <2>3, <2>4, SlotsAdd
  <2>6. /\ SlotsOf({o}) = SumOf(Rewards({o})) + SumOf(Fees({o}))
        /\ SumOf(Rewards({o})) \in Nat /\ SumOf(Fees({o})) \in Nat
    BY <1>1, SlotsOfFew, PriceTypes
  <2>7. SlotsOf(Unpaid)' = SlotsOf(U)
    <3>1. SlotsOf(U)' = SlotsOf(U)
      BY <1>4, SlotsKept
    <3>2. SlotsOf(Unpaid)' = SlotsOf(U)'
      BY <2>4 DEF SlotsOf, SumOf, Rewards, Fees
    <3> QED
      BY <3>1, <3>2
  <2>8. escrow.remaining = SlotsOf(U) + SlotsOf({o})
    BY <1>9, <1>12, <2>5
  <2>9. escrow'.remaining = SlotsOf(U)
    BY <1>5, <2>1, <2>5, <2>6, <2>8
  <2>10. Owed' = SlotsOf(Unpaid)'
    BY <1>4, <1>10, <1>12
  <2> QED
    BY <2>7, <2>9, <2>10
<1> QED
  BY <1>11, <1>12

-----------------------------------------------------------------------------
(* The Escrow through the whole life of a Quest *)

\* Every step keeps the Escrow covered.
LEMMA EscrowKeeping ==
    ASSUME Known, EscrowInv, Known', Moves
    PROVE  EscrowInv'
<1>1. Types' /\ MoneyTypes' /\ RosterInv'
  BY DEF Known, QuestInv
<1>2. CASE \/ Drafts \/ Publishes \/ Reshapes \/ Decides \/ Consents
           \/ \E w \in Workers : Joins(w)
           \/ \E S \in SUBSET Workers, l \in Workers \union {NoWorker} : Selects(S, l)
  BY <1>1, <1>2, OpenCovers
<1>3. CASE Releases \/ \E pay \in Amounts, cut \in Amounts : Cancels(pay, cut)
  BY <1>1, <1>3, EmptiesCover
<1>4. CASE TeamDone \/ \E split \in Amounts : Allocates(split)
  BY <1>1, <1>4, TeamCovers
<1>5. CASE \E w \in Workers : PaysWorker(w) \/ Awarded(w) \/ PaysLate(w)
  BY <1>1, <1>5, PaysWorkerCovers, AwardedCovers, PaysLateCovers
<1>6. CASE \E S \in SUBSET Workers : Fails(S) \/ FailsV1(S)
  BY <1>1, <1>6, FailsCovers, FailsV1Covers
<1>7. CASE Stays \/ CompletesV1
  BY <1>1, <1>7, StaysCovers, CompletesV1Covers
<1> QED
  BY <1>2, <1>3, <1>4, <1>5, <1>6, <1>7 DEF Moves

\* Before there is a Quest there is no Escrow.
LEMMA EscrowStarts == Init => EscrowInv
<1> SUFFICES ASSUME Init PROVE EscrowInv
  OBVIOUS
<1>1. /\ quest.status = "NONE" /\ quest.holdSince = Never /\ allocation.status = "NONE"
      /\ escrow.status = "NONE" /\ escrow.remaining = 0
      /\ ledger.disputed = Nothing
  BY DEF Init, StateInit, EndingInit, WorkInit, Nothing
<1>2. SumOf(Nothing) = 0
  BY PaysAdd, NothingPays
<1> QED
  BY <1>1, <1>2 DEF EscrowInv, EscrowStands, EscrowCoversSlots, Published, Undisturbed, Drafted,
                    Terminal, EndedQuestStrandsNothing

\* Nothing happens to it when nothing happens.
LEMMA EscrowStutters == EscrowInv /\ UNCHANGED vars => EscrowInv'
BY DEF EscrowInv, EscrowStands, EscrowCoversSlots, EndedQuestStrandsNothing, Published,
       Undisturbed, Owed, Unpaid, Active, AssignmentsWith, Terminal, MoneyHoldOpen, GroupCandidate,
       PublishedEscrow, RewardPool, FeePool, SlotsOf, SumOf, Rewards, Fees, RewardOf, FeeOf,
       Shared, Shares, GroupFcfs, vars, stateVars, moneyVars, rosterVars, endingVars, workVars

\* What is known of the Escrow stays known.
LEMMA EscrowKeeps == Spec => []EscrowInv
<1>1. Known /\ Known' /\ EscrowInv /\ [Next]_vars => EscrowInv'
  <2> SUFFICES ASSUME Known, Known', EscrowInv, [Next]_vars PROVE EscrowInv'
    OBVIOUS
  <2>1. CASE Next
    <3>1. Moves
      BY <2>1, KnownSteps
    <3> QED
      BY <3>1, EscrowKeeping
  <2>2. CASE UNCHANGED vars
    BY <2>2, EscrowStutters
  <2> QED
    BY <2>1, <2>2
<1> QED
  BY <1>1, EscrowStarts, KnownKeeps, PTL DEF Spec

\* EscrowCoversSlots, for any Quest: through edits, joins, an incomplete
\* roster, partial payments, failures and late approvals the Quest Escrow holds
\* what every Worker who is not paid yet would cost, to the satang.
THEOREM EscrowCoversSafe == Spec => []EscrowCoversSlots
BY EscrowKeeps, PTL DEF EscrowInv

\* EndedQuestStrandsNothing, for any Quest: a Quest that completes, fails or is
\* cancelled leaves no money in its Escrow that no later step would move.
THEOREM StrandsNothingSafe == Spec => []EndedQuestStrandsNothing
BY EscrowKeeps, PTL DEF EscrowInv, EscrowStands

-----------------------------------------------------------------------------
(* Who is paid what *)

\* What a step has to pay for its Workers to be paid as agreed.
LEMMA PaysAsAgreed ==
    ASSUME MoneyTypes, PaidEach, NEW pay \in Amounts,
           \A w \in Workers : ledger'.paid[w] = ledger.paid[w] + pay[w],
           \A w \in Workers : assignment'[w] \in Waiting =>
                assignment[w] \in Waiting /\ pay[w] = 0,
           \A w \in Workers : assignment'[w] = "COMPLETED" /\ ~GroupCandidate' =>
                \/ /\ assignment[w] = "COMPLETED" /\ ~GroupCandidate
                   /\ pay[w] = 0 /\ RewardOf(w)' = RewardOf(w)
                \/ assignment[w] \in Waiting /\ pay[w] = RewardOf(w)'
    PROVE  PaidEach'
<1>1. \A w \in Workers : ledger.paid[w] \in Int /\ pay[w] \in Int
  BY DEF MoneyTypes, Ledgers, Amounts
<1>2. ASSUME NEW w \in Workers, assignment'[w] \in Waiting PROVE ledger'.paid[w] = 0
  BY <1>1, <1>2 DEF PaidEach
<1>3. ASSUME NEW w \in Workers, assignment'[w] = "COMPLETED", ~GroupCandidate'
      PROVE  ledger'.paid[w] = RewardOf(w)'
  <2>1. CASE assignment[w] = "COMPLETED" /\ ~GroupCandidate
             /\ pay[w] = 0 /\ RewardOf(w)' = RewardOf(w)
    BY <1>1, <2>1 DEF PaidEach
  <2>2. CASE assignment[w] \in Waiting /\ pay[w] = RewardOf(w)'
    <3>1. ledger.paid[w] = 0
      BY <2>2 DEF PaidEach
    <3>2. ledger'.paid[w] = pay[w]
      BY <1>1, <3>1
    <3> QED
      BY <2>2, <3>2
  <2> QED
    BY <1>3, <2>1, <2>2
<1> QED
  BY <1>2, <1>3 DEF PaidEach

\* The same of a step that pays nobody.
LEMMA PaysNobody ==
    ASSUME MoneyTypes, PaidEach,
           \A w \in Workers : ledger'.paid[w] = ledger.paid[w],
           \A w \in Workers : assignment'[w] \in Waiting => assignment[w] \in Waiting,
           \A w \in Workers : assignment'[w] = "COMPLETED" /\ ~GroupCandidate' =>
                assignment[w] = "COMPLETED" /\ ~GroupCandidate /\ RewardOf(w)' = RewardOf(w)
    PROVE  PaidEach'
<1>1. \A w \in Workers : ledger.paid[w] \in Int
  BY DEF MoneyTypes, Ledgers
<1>2. \A w \in Workers : ledger'.paid[w] = ledger.paid[w] + Nothing[w]
  BY <1>1, NothingPays
<1> QED
  BY <1>2, PaysAsAgreed, NothingPays

\* What was accepted after the end of a v1 Quest stays paid.
LEMMA LateStays ==
    ASSUME LatePaid, SameShape, Terminal' => Terminal,
           SumOf(ledger.paid)' = SumOf(ledger.paid),
           \A w \in Workers : Accepted(w)' => Accepted(w),
           \A w \in Workers : assignment[w] = "COMPLETED" => assignment'[w] = "COMPLETED"
    PROVE  LatePaid'
<1>1. (GroupCandidate' <=> GroupCandidate) /\ RewardPool' = RewardPool
  BY ShapeKept
<1>2. quest'.apiVersion = quest.apiVersion
  BY DEF SameShape
<1> QED
  BY <1>1, <1>2 DEF LatePaid

\* Nothing is accepted of a v1 Quest that is cancelled.
LEMMA LateNobody ==
    ASSUME \/ quest'.apiVersion = "v2"
           \/ ~Terminal'
           \/ \A w \in Workers : ~Accepted(w)'
    PROVE  LatePaid'
BY DEF LatePaid

\* Until a Quest is assigned nobody on its roster was paid.
LEMMA BeforeWorkPaid ==
    ASSUME Known, PaidInv,
           \/ Drafts \/ Publishes \/ Reshapes \/ Decides \/ Consents
           \/ \E w \in Workers : Joins(w)
           \/ \E S \in SUBSET Workers, l \in Workers \union {NoWorker} : Selects(S, l)
    PROVE  PaidInv'
<1>1. Types /\ MoneyTypes /\ RosterInv /\ NobodyYet /\ LegacyOwned /\ PaidEach
  BY DEF Known, QuestInv, PaidInv
<1>2. quest.status \in Drafted \union {"OPEN"} /\ ledger' = ledger /\ proof' = proof
  <2>1. CASE \/ Drafts \/ Publishes \/ Reshapes \/ Decides \/ Consents
    <3>1. CASE Drafts
      BY <3>1 DEF Drafts, MoneyKept, Quiet
    <3>2. CASE Publishes
      BY <3>2 DEF Publishes, Quiet, Drafted
    <3>3. CASE Reshapes
      BY <3>3 DEF Reshapes, MoneyKept, Quiet
    <3>4. CASE Decides \/ Consents
      BY <3>4 DEF Decides, Consents, Quiet
    <3> QED
      BY <2>1, <3>1, <3>2, <3>3, <3>4
  <2>2. CASE \E w \in Workers : Joins(w)
    BY <2>2 DEF Joins, MoneyKept, Quiet
  <2>3. CASE \E S \in SUBSET Workers, l \in Workers \union {NoWorker} : Selects(S, l)
    BY <2>3 DEF Selects, MoneyKept, Quiet
  <2> QED
    BY <2>1, <2>2, <2>3
<1>3. \A w \in Workers : assignment[w] \in {"NONE", "ACTIVE"}
  BY <1>1, <1>2 DEF NobodyYet, RosterInv, OpenRoster, Roster, Active, AssignmentsWith, Drafted
<1>4. \A w \in Workers : assignment'[w] \in {"NONE", "ACTIVE"}
  <2>1. CASE Drafts \/ Publishes \/ Reshapes \/ Decides \/ Consents
    BY <1>3, <2>1 DEF Drafts, Publishes, Reshapes, Decides, Consents, RosterKept
  <2>2. ASSUME NEW v \in Workers, Joins(v)
        PROVE  \A w \in Workers : assignment'[w] \in {"NONE", "ACTIVE"}
    BY <1>1, <1>3, <2>2 DEF Joins, Types
  <2>3. ASSUME NEW S \in SUBSET Workers, NEW l \in Workers \union {NoWorker}, Selects(S, l)
        PROVE  \A w \in Workers : assignment'[w] \in {"NONE", "ACTIVE"}
    BY <1>3, <2>3 DEF Selects
  <2> QED
    BY <2>1, <2>2, <2>3
<1>5. PaidEach'
  BY <1>1, <1>2, <1>3, <1>4, PaysNobody DEF Waiting
<1>6. quest'.apiVersion = quest.apiVersion
  BY DEF Drafts, Publishes, Reshapes, Decides, Consents, Joins, Selects, SameShape
<1>7. quest.apiVersion = "v1" => \A w \in Workers : ~Accepted(w)'
  BY <1>1, <1>2 DEF LegacyOwned, Accepted, Sent
<1>8. quest.apiVersion \in {"v1", "v2"}
  BY <1>1 DEF Types, QuestRows
<1>9. LatePaid'
  BY <1>6, <1>7, <1>8, LateNobody
<1> QED
  BY <1>5, <1>9 DEF PaidInv

\* Steps that pay nobody keep what was paid.
LEMMA QuietKeepsPaid ==
    ASSUME Known, PaidInv,
           \/ Stays \/ Releases \/ TeamDone
           \/ \E w \in Workers : Awarded(w)
           \/ \E S \in SUBSET Workers : Fails(S)
    PROVE  PaidInv'
<1>1. Types /\ MoneyTypes /\ RosterInv /\ PaidEach /\ LatePaid
  BY DEF Known, QuestInv, PaidInv
<1>2. \A w \in Workers : ledger.paid[w] \in Int
  BY <1>1 DEF MoneyTypes, Ledgers
<1>3. CASE Stays
  <2>1. /\ SameShape /\ assignment' = assignment /\ rank' = rank /\ ledger' = ledger
        /\ underfilled' = underfilled \/ Abandons
        /\ Terminal' => Terminal
    BY <1>3 DEF Stays, RosterKept, Terminal, UnderWay
  <2>2. PricesKept /\ (GroupCandidate' <=> GroupCandidate)
    BY <1>1, <2>1, PricesStay, ShapeKept DEF Abandons, Asking, MoneyTypes, DecisionRows
  <2>3. PaidEach'
    BY <1>1, <2>1, <2>2, PaysNobody DEF PricesKept
  <2>4. SumOf(ledger.paid)' = SumOf(ledger.paid)
    BY <2>1 DEF SumOf
  <2>5. Terminal' /\ quest.apiVersion = "v1" => \A w \in Workers : Accepted(w)' => Accepted(w)
    <3>1. proof \in [Workers -> ProofRows]
      BY <1>1 DEF Types
    <3>2. CASE Passes \/ Sweeps \/ Pauses \/ Resumes
      BY <3>2 DEF Passes, Sweeps, Pauses, Resumes, Accepted, SweepPassesApprovals,
                  SweepPassesLegacyApprovals
    <3>3. ASSUME NEW v \in Workers, Sends(v) \/ WorksV1(v)
          PROVE  Terminal' /\ quest.apiVersion = "v1" =>
                     \A w \in Workers : Accepted(w)' => Accepted(w)
      BY <2>1, <3>1, <3>3 DEF Sends, WorksV1, Accepted, Terminal, ProofRows
    <3> QED
      BY <1>3, <3>2, <3>3 DEF Stays
  <2>6. LatePaid'
    BY <1>1, <2>1, <2>2, <2>4, <2>5, LateStays, LateNobody DEF SameShape, Types, QuestRows
  <2> QED
    BY <2>3, <2>6 DEF PaidInv
<1>4. ASSUME quest' = quest, UNCHANGED <<assignment, rank, leader, underfilled, proof>>,
             \A w \in Workers : ledger'.paid[w] = ledger.paid[w]
      PROVE  PaidInv'
  <2>1. SameShape /\ (Terminal' => Terminal)
    BY <1>4 DEF SameShape, Terminal
  <2>2. PricesKept /\ (GroupCandidate' <=> GroupCandidate)
    BY <1>4, <2>1, PricesStay, ShapeKept
  <2>3. PaidEach'
    BY <1>1, <1>4, <2>2, PaysNobody DEF PricesKept
  <2>4. SumOf(ledger.paid)' = SumOf(ledger.paid)
    <3>1. \A w \in Workers : ledger.paid[w] \in Int /\ ledger.paid[w] = ledger'.paid[w]
      BY <1>2, <1>4
    <3>2. SumOf(ledger.paid) = SumOf(ledger'.paid)
      BY <3>1, PaysAdd
    <3>3. SumOf(ledger.paid)' = SumOf(ledger'.paid)
      BY DEF SumOf
    <3> QED
      BY <3>2, <3>3
  <2>5. LatePaid'
    BY <1>1, <1>4, <2>1, <2>4, LateStays DEF Accepted
  <2> QED
    BY <2>3, <2>5 DEF PaidInv
<1>5. CASE Releases
  <2>1. \A w \in Workers : ledger'.paid[w] = ledger.paid[w] + Nothing[w]
    BY <1>1, <1>5, Settled, PricesTyped DEF Releases, ReleaseEscrow
  <2>2. \A w \in Workers : ledger'.paid[w] = ledger.paid[w]
    BY <1>2, <2>1, NothingPays
  <2> QED
    BY <1>4, <1>5, <2>2 DEF Releases, RosterKept, Quiet
<1>6. ASSUME NEW w \in Workers, Awarded(w) PROVE PaidInv'
  <2>1. PICK amount \in Awards \ {0} : PayAward(w, amount)
    BY <1>6 DEF Awarded
  <2>2. ledger'.paid = ledger.paid
    BY <1>1, <2>1, AwardTyped
  <2> QED
    BY <1>4, <1>6, <2>2 DEF Awarded, RosterKept, Quiet
<1>7. CASE TeamDone
  <2>1. /\ SameShape /\ GroupCandidate /\ quest.apiVersion = "v2" /\ ledger' = ledger
        /\ EndAssignments(Active, "COMPLETED")
    BY <1>7 DEF TeamDone
  <2>2. GroupCandidate'
    BY <2>1, ShapeKept
  <2>3. \A w \in Workers : assignment'[w] \in Waiting => assignment[w] \in Waiting
    BY <2>1 DEF EndAssignments, Waiting
  <2>4. PaidEach'
    BY <1>1, <2>1, <2>2, <2>3, PaysNobody
  <2>5. LatePaid'
    BY <2>1, LateNobody DEF SameShape
  <2> QED
    BY <2>4, <2>5 DEF PaidInv
<1>8. ASSUME NEW S \in SUBSET Workers, Fails(S) PROVE PaidInv'
  <2>1. /\ SameShape /\ rank' = rank /\ underfilled' = underfilled /\ ledger' = ledger
        /\ quest.apiVersion = "v2" /\ EndAssignments(S, "INCOMPLETE")
    BY <1>8 DEF Fails, MoneyKept
  <2>2. PricesKept /\ (GroupCandidate' <=> GroupCandidate)
    BY <2>1, PricesStay, ShapeKept
  <2>3. /\ \A w \in Workers : assignment'[w] \in Waiting => assignment[w] \in Waiting
        /\ \A w \in Workers : assignment'[w] = "COMPLETED" => assignment[w] = "COMPLETED"
    BY <2>1 DEF EndAssignments, Waiting
  <2>4. PaidEach'
    BY <1>1, <2>1, <2>2, <2>3, PaysNobody DEF PricesKept
  <2>5. LatePaid'
    BY <2>1, LateNobody DEF SameShape
  <2> QED
    BY <2>4, <2>5 DEF PaidInv
<1> QED
  BY <1>3, <1>5, <1>6, <1>7, <1>8

\* A cancellation pays Workers who are not on the roster any more.
LEMMA CancelsKeepsPaid ==
    ASSUME Known, PaidInv, NEW pay \in Amounts, NEW cut \in Amounts, Cancels(pay, cut)
    PROVE  PaidInv'
<1>1. Types /\ MoneyTypes /\ RosterInv /\ PaidEach /\ LegacyOwned
  BY DEF Known, QuestInv, PaidInv
<1>2. /\ SameShape /\ rank' = rank /\ EndAssignments(Active, "CANCELLED") /\ proof' = proof
      /\ quest.status \in {"OPEN", "ASSIGNED", "IN_PROGRESS"} /\ quest'.status = "CANCELLED"
      /\ SettleEscrow(pay, cut, TRUE)
      /\ \A w \in Workers : pay[w] # 0 =>
             w \in Active \/ (GroupCandidate /\ w = leader /\ quest.status # "OPEN")
  BY DEF Cancels, Quiet
<1>3. \A w \in Workers : ledger'.paid[w] = ledger.paid[w] + pay[w]
  BY <1>1, <1>2, Settled
<1>4. GroupCandidate /\ quest.status # "OPEN" => leader \in Active
  BY <1>1, <1>2 DEF RosterInv, WorkedRoster, Worked, Drafted
<1>5. \A w \in Workers : assignment[w] # "ACTIVE" => pay[w] = 0
  BY <1>2, <1>4 DEF Active, AssignmentsWith
<1>6. PricesKept /\ (GroupCandidate' <=> GroupCandidate)
  <2>1. GroupCandidate' <=> GroupCandidate
    BY <1>2, ShapeKept
  <2>2. CASE underfilled' = underfilled
    BY <1>2, <2>1, <2>2, PricesStay
  <2>3. CASE underfilled' # underfilled
    <3>1. quest.status = "OPEN" /\ underfilled'.state = "CANCELLED"
      BY <2>3 DEF Cancels
    <3>2. underfilled.state # "COMPLETED"
      BY <1>1, <3>1 DEF RosterInv, Underfilling
    <3> QED
      BY <1>2, <2>1, <3>1, <3>2, PricesStay
  <2> QED
    BY <2>2, <2>3
<1>7. \A w \in Workers : assignment'[w] =
          IF assignment[w] = "ACTIVE" THEN "CANCELLED" ELSE assignment[w]
  BY <1>2 DEF EndAssignments, Active, AssignmentsWith
<1>8. PaidEach'
  BY <1>1, <1>3, <1>5, <1>6, <1>7, PaysAsAgreed DEF Waiting, PricesKept
<1>9. quest.apiVersion = "v1" => \A w \in Workers : ~Accepted(w)'
  BY <1>1, <1>2 DEF LegacyOwned, Accepted, Terminal
<1>10. LatePaid'
  BY <1>1, <1>2, <1>9, LateNobody DEF SameShape, Types, QuestRows
<1> QED
  BY <1>8, <1>10 DEF PaidInv

\* A v2 Worker is paid the price agreed with him, and a Team divides its
\* reward among its Members.
LEMMA WorkKeepsPaid ==
    ASSUME Known, EscrowInv, PaidInv,
           \/ \E w \in Workers : PaysWorker(w)
           \/ \E split \in Amounts : Allocates(split)
    PROVE  PaidInv'
<1>1. Types /\ MoneyTypes /\ RosterInv /\ PaidEach
  BY DEF Known, QuestInv, PaidInv
<1>2. ASSUME NEW w \in Workers, PaysWorker(w) PROVE PaidInv'
  <2>1. /\ SameShape /\ rank' = rank /\ underfilled' = underfilled /\ w \in Active
        /\ quest.apiVersion = "v2" /\ SettleEscrow(Rewards({w}), Fees({w}), FALSE)
        /\ EndAssignments({w}, "COMPLETED") /\ ~GroupCandidate
    BY <1>2 DEF PaysWorker
  <2>2. PricesKept /\ (GroupCandidate' <=> GroupCandidate)
    BY <2>1, PricesStay, ShapeKept
  <2>3. Rewards({w}) \in Amounts /\ Fees({w}) \in Amounts
    BY <1>1, PricesTyped
  <2>4. \A v \in Workers : ledger'.paid[v] = ledger.paid[v] + Rewards({w})[v]
    BY <1>1, <2>1, <2>3, Settled
  <2>5. \A v \in Workers : Rewards({w})[v] = IF v = w THEN RewardOf(w) ELSE 0
    BY DEF Rewards
  <2>6. /\ assignment[w] = "ACTIVE" /\ assignment'[w] = "COMPLETED"
        /\ \A v \in Workers \ {w} : assignment'[v] = assignment[v]
    BY <2>1 DEF EndAssignments, Active, AssignmentsWith
  <2>7. \A v \in Workers : assignment'[v] \in Waiting =>
             assignment[v] \in Waiting /\ Rewards({w})[v] = 0
    BY <2>5, <2>6 DEF Waiting
  <2>8. \A v \in Workers : assignment'[v] = "COMPLETED" /\ ~GroupCandidate' =>
             \/ /\ assignment[v] = "COMPLETED" /\ ~GroupCandidate
                /\ Rewards({w})[v] = 0 /\ RewardOf(v)' = RewardOf(v)
             \/ assignment[v] \in Waiting /\ Rewards({w})[v] = RewardOf(v)'
    BY <2>1, <2>2, <2>5, <2>6 DEF Waiting, PricesKept
  <2>9. PaidEach'
    BY <1>1, <2>3, <2>4, <2>7, <2>8, PaysAsAgreed
  <2>10. LatePaid'
    BY <2>1, LateNobody DEF SameShape
  <2> QED
    BY <2>9, <2>10 DEF PaidInv
<1>3. ASSUME NEW split \in Amounts, Allocates(split) PROVE PaidInv'
  <2>1. /\ quest' = quest /\ assignment' = assignment /\ quest.apiVersion = "v2"
        /\ rank' = rank /\ underfilled' = underfilled
        /\ SettleEscrow(split, LeaderFee, FALSE) /\ allocation.status = "PENDING"
        /\ \A w \in Workers : assignment[w] # "COMPLETED" => split[w] = 0
    BY <1>3 DEF Allocates, RosterKept
  <2>2. \A w \in Workers : ledger'.paid[w] = ledger.paid[w] + split[w]
    BY <1>1, <2>1, Settled, PricesTyped
  <2>3. GroupCandidate /\ GroupCandidate'
    BY <2>1 DEF EscrowInv, EscrowStands, GroupCandidate
  <2>4. PaidEach'
    BY <1>1, <2>1, <2>2, <2>3, PaysAsAgreed DEF Waiting
  <2>5. LatePaid'
    BY <2>1, LateNobody
  <2> QED
    BY <2>4, <2>5 DEF PaidInv
<1> QED
  BY <1>2, <1>3

\* Of a v1 Quest that nobody was paid of, those are paid whose work is accepted.
LEMMA LegacyPays ==
    ASSUME Types, MoneyTypes, PaidEach, SameShape, rank' = rank, underfilled' = underfilled,
           NEW S \in SUBSET Workers, NEW C \in SUBSET Workers, S # {},
           SettleEscrow(PriceOf(S), FeeFor(S), FALSE),
           \A w \in C : assignment[w] \in Waiting,
           ~GroupCandidate => C = S,
           GroupCandidate => /\ leader \in C
                             /\ \A w \in Workers : assignment[w] \in Waiting,
           \A w \in C : assignment'[w] = "COMPLETED",
           \A w \in Workers \ C : assignment'[w] # assignment[w] =>
                assignment[w] \in Waiting /\ assignment'[w] \in Waiting
    PROVE  /\ PaidEach'
           /\ GroupCandidate => SumOf(ledger.paid)' = RewardPool'
<1>1. PricesKept /\ (GroupCandidate' <=> GroupCandidate) /\ RewardPool' = RewardPool
  BY PricesStay, ShapeKept
<1>2. PriceOf(S) \in Amounts
  BY PricesTyped
<1>3. \A w \in Workers : ledger'.paid[w] = ledger.paid[w] + PriceOf(S)[w]
  BY Settled, PricesTyped
<1>4. CASE ~GroupCandidate
  <2>1. \A w \in Workers : PriceOf(S)[w] = IF w \in C THEN RewardOf(w) ELSE 0
    BY <1>4 DEF PriceOf, Rewards
  <2>2. \A w \in Workers : assignment'[w] \in Waiting =>
             assignment[w] \in Waiting /\ PriceOf(S)[w] = 0
    BY <2>1 DEF Waiting
  <2>3. \A w \in Workers : assignment'[w] = "COMPLETED" /\ ~GroupCandidate' =>
             \/ /\ assignment[w] = "COMPLETED" /\ ~GroupCandidate
                /\ PriceOf(S)[w] = 0 /\ RewardOf(w)' = RewardOf(w)
             \/ assignment[w] \in Waiting /\ PriceOf(S)[w] = RewardOf(w)'
    BY <1>1, <1>4, <2>1 DEF Waiting, PricesKept
  <2> QED
    BY <1>2, <1>3, <1>4, <2>2, <2>3, PaysAsAgreed
<1>5. CASE GroupCandidate
  <2>1. PriceOf(S) = LeaderReward
    BY <1>5 DEF PriceOf
  <2>2. \A w \in Workers : PriceOf(S)[w] = IF w = leader THEN RewardPool ELSE 0
    BY <2>1 DEF LeaderReward
  <2>3. \A w \in Workers : assignment'[w] \in Waiting =>
             assignment[w] \in Waiting /\ PriceOf(S)[w] = 0
    BY <1>5, <2>2 DEF Waiting
  <2>4. PaidEach'
    BY <1>1, <1>2, <1>3, <1>5, <2>3, PaysAsAgreed
  <2>5. SumOf(ledger.paid)' = RewardPool'
    <3>1. \A w \in Workers : LeaderReward[w] \in Int
      BY <1>2, <2>1 DEF Amounts
    <3>2. \A w \in Workers : ledger.paid[w] = 0
      BY <1>5 DEF PaidEach
    <3>3. \A w \in Workers : LeaderReward[w] \in Int /\ LeaderReward[w] = ledger'.paid[w]
      BY <1>3, <2>1, <3>1, <3>2
    <3>4. SumOf(LeaderReward) = SumOf(ledger'.paid)
      BY <3>3, PaysAdd
    <3>5. SumOf(ledger.paid)' = SumOf(ledger'.paid)
      BY DEF SumOf
    <3>6. SumOf(LeaderReward) = RewardPool
      BY <1>5, LeaderSums
    <3> QED
      BY <1>1, <3>4, <3>5, <3>6
  <2> QED
    BY <2>4, <2>5
<1> QED
  BY <1>4, <1>5

\* The end of a v1 Quest pays what is accepted.
LEMMA LegacyKeepsPaid ==
    ASSUME Known, PaidInv,
           \/ CompletesV1
           \/ \E S \in SUBSET Workers : FailsV1(S)
           \/ \E w \in Workers : PaysLate(w)
    PROVE  PaidInv'
<1>1. Types /\ MoneyTypes /\ RosterInv /\ PaidEach /\ LatePaid /\ LegacyOwned
      /\ proof \in [Workers -> ProofRows] /\ Roster \subseteq Workers
  BY DEF Known, QuestInv, PaidInv, Types, Roster
<1>2. /\ SameShape /\ rank' = rank /\ underfilled' = underfilled
      /\ quest.apiVersion = "v1" /\ quest'.apiVersion = "v1" /\ Worked
  <2>1. CASE CompletesV1
    BY <2>1 DEF CompletesV1, SameShape, Worked, Drafted
  <2>2. CASE \E S \in SUBSET Workers : FailsV1(S)
    BY <2>2 DEF FailsV1, SameShape, Worked, Drafted
  <2>3. CASE \E w \in Workers : PaysLate(w)
    BY <2>3 DEF PaysLate, SameShape, Worked, Drafted
  <2> QED
    BY <2>1, <2>2, <2>3
<1>3. PricesKept /\ (GroupCandidate' <=> GroupCandidate) /\ RewardPool' = RewardPool
  BY <1>2, PricesStay, ShapeKept
<1>4. /\ Worth(Roster)
      /\ GroupCandidate => leader \in Roster
      /\ quest.status \notin {"COMPLETED", "FAILED"} => Active = Roster
      /\ \A w \in Roster : assignment[w] # "CANCELLED"
      /\ GroupCandidate => \A u, v \in Roster : assignment[u] = assignment[v]
  BY <1>1, <1>2 DEF RosterInv, WorkedRoster
<1>5. CASE CompletesV1
  <2>1. /\ quest.status \in {"SUBMITTED", "REWORK"} /\ quest'.status = "COMPLETED"
        /\ SettleEscrow(Rewards(Active), Fees(Active), FALSE)
        /\ EndAssignments(Active, "COMPLETED")
        /\ \A w \in Workers : Sent(w)' <=> Sent(w)
    BY <1>5 DEF CompletesV1
  <2>2. Active = Roster
    BY <1>4, <2>1
  <2>3. /\ \A w \in Workers : assignment[w] = IF w \in Active THEN "ACTIVE" ELSE "NONE"
        /\ \A w \in Workers : assignment'[w] = IF w \in Active THEN "COMPLETED" ELSE "NONE"
    BY <2>1, <2>2 DEF EndAssignments, Active, AssignmentsWith, Roster
  <2>4. Rewards(Active) \in Amounts /\ Fees(Active) \in Amounts
    BY <1>1, PricesTyped
  <2>5. \A w \in Workers : ledger'.paid[w] = ledger.paid[w] + Rewards(Active)[w]
    BY <1>1, <2>1, <2>4, Settled
  <2>6. \A w \in Workers : Rewards(Active)[w] = IF w \in Active THEN RewardOf(w) ELSE 0
    BY DEF Rewards
  <2>7. PaidEach'
    BY <1>1, <1>3, <2>3, <2>4, <2>5, <2>6, PaysAsAgreed DEF Waiting, PricesKept
  <2>8. SumOf(ledger.paid)' = RewardPool'
    <3>1. \A w \in Workers : ledger.paid[w] = 0
      BY <1>1, <2>3 DEF PaidEach, Waiting
    <3>2. \A w \in Workers : /\ Rewards(Active)[w] \in Int
                             /\ Rewards(Active)[w] = ledger'.paid[w]
      BY <2>4, <2>5, <3>1 DEF Amounts
    <3>3. SumOf(Rewards(Active)) = SumOf(ledger'.paid)
      BY <3>2, PaysAdd
    <3>4. SumOf(ledger.paid)' = SumOf(ledger'.paid)
      BY DEF SumOf
    <3> QED
      BY <1>3, <1>4, <2>2, <3>3, <3>4 DEF Worth
  <2>9. \A w \in Workers : Accepted(w)' => w \in Active
    BY <1>1, <1>2, <2>1 DEF Accepted, Sent, LegacyOwned, Terminal
  <2>10. LatePaid'
    BY <2>3, <2>8, <2>9 DEF LatePaid
  <2> QED
    BY <2>7, <2>10 DEF PaidInv
<1>6. ASSUME NEW S \in SUBSET Workers, FailsV1(S) PROVE PaidInv'
  <2> DEFINE accepted == {o \in Workers : Accepted(o)}
             C == Covered(accepted)
  <2>1. /\ quest.status \in {"ASSIGNED", "IN_PROGRESS", "SUBMITTED", "REWORK"}
        /\ SettleAfterFailure(accepted)
        /\ \A w \in Workers : assignment'[w] =
               IF w \in C THEN "COMPLETED"
               ELSE IF w \in S \intersect Active THEN "INCOMPLETE" ELSE assignment[w]
    BY <1>6 DEF FailsV1
  <2>2. \A w \in Workers : Accepted(w)' => w \in accepted
    BY <1>1, <1>6 DEF FailsV1, Accepted, ProofRows
  <2>3. Active = Roster /\ accepted \subseteq Active
    BY <1>1, <1>2, <1>4, <2>1 DEF LegacyOwned, Terminal, Accepted, Sent
  <2>4. \A w \in Workers : assignment[w] \in Waiting
    BY <2>3 DEF Active, AssignmentsWith, Roster, Waiting
  <2>5. /\ C \subseteq Workers /\ (~GroupCandidate => C = accepted)
        /\ accepted = {} => C = {}
        /\ GroupCandidate /\ accepted # {} => C = Active
    BY <2>3 DEF Covered, Active, AssignmentsWith, Roster
  <2> HIDE DEF C, accepted
  <2>6. CASE accepted = {}
    <3>1. ledger' = ledger
      BY <2>1, <2>6 DEF SettleAfterFailure, moneyVars
    <3>2. \A w \in Workers : assignment'[w] \in Waiting
      BY <2>1, <2>4, <2>5, <2>6 DEF Waiting
    <3>3. PaidEach'
      BY <1>1, <2>4, <3>1, <3>2, PaysNobody DEF Waiting
    <3>4. LatePaid'
      BY <2>2, <2>6, LateNobody
    <3> QED
      BY <3>3, <3>4 DEF PaidInv
  <2>7. CASE accepted # {}
    <3>1. SettleEscrow(PriceOf(accepted), FeeFor(accepted), FALSE)
      BY <2>1, <2>7 DEF SettleAfterFailure
    <3>2. /\ \A w \in C : assignment'[w] = "COMPLETED"
          /\ \A w \in Workers \ C : assignment'[w] \in Waiting
      BY <2>1, <2>4, <2>5 DEF Waiting
    <3>3. GroupCandidate => leader \in C
      BY <1>4, <2>3, <2>5, <2>7
    <3>4. PaidEach' /\ (GroupCandidate => SumOf(ledger.paid)' = RewardPool')
      BY <1>1, <1>2, <2>3, <2>4, <2>5, <2>7, <3>1, <3>2, <3>3, LegacyPays
    <3>5. accepted \subseteq C
      BY <2>3, <2>5
    <3>6. LatePaid'
      BY <1>3, <2>2, <2>5, <3>2, <3>4, <3>5 DEF LatePaid
    <3> QED
      BY <3>4, <3>6 DEF PaidInv
  <2> QED
    BY <2>6, <2>7

<1>7. ASSUME NEW o \in Workers, PaysLate(o) PROVE PaidInv'
  <2> DEFINE C == Covered({o})
  <2>1. /\ quest' = quest /\ quest.status = "FAILED" /\ o \in LegacyOwners /\ Pending(o)
        /\ SettleEscrow(PriceOf({o}), FeeFor({o}), FALSE)
        /\ \A w \in Workers : assignment'[w] = IF w \in C THEN "COMPLETED" ELSE assignment[w]
        /\ proof' = [proof EXCEPT ![o].status = "APPROVED"]
    BY <1>7 DEF PaysLate
  <2>2. \A w \in Workers : Accepted(w)' => w = o \/ Accepted(w)
    BY <1>1, <2>1 DEF Accepted, ProofRows
  <2>3. GroupCandidate => \A w \in Workers : assignment[w] \in Waiting
    <3>1. SUFFICES ASSUME GroupCandidate PROVE \A w \in Workers : assignment[w] \in Waiting
      OBVIOUS
    <3>2. o = leader /\ ~Accepted(leader)
      BY <2>1, <3>1 DEF LegacyOwners, Pending, Accepted
    <3>3. AssignmentsWith("COMPLETED") = {}
      BY <1>1, <1>2, <2>1, <3>1, <3>2 DEF LegacyOwned
    <3> QED
      BY <1>1, <1>4, <3>3 DEF AssignmentsWith, Roster, Waiting, Types, AssignmentStatuses
  <2>4. /\ C \subseteq Workers /\ \A w \in C : assignment[w] \in Waiting
        /\ ~GroupCandidate => C = {o}
        /\ o \in C
    <3>1. CASE GroupCandidate
      <4>1. C = Active \union AssignmentsWith("INCOMPLETE") /\ o = leader
        BY <2>1, <3>1 DEF Covered, LegacyOwners
      <4>2. o \in Roster /\ assignment[o] \in {"ACTIVE", "INCOMPLETE"}
        BY <1>4, <2>3, <3>1, <4>1 DEF Waiting, Roster
      <4> QED
        BY <3>1, <4>1, <4>2 DEF Active, AssignmentsWith, Waiting
    <3>2. CASE ~GroupCandidate
      BY <2>1, <3>2 DEF Covered, LegacyOwners, AssignmentsWith, Waiting
    <3> QED
      BY <3>1, <3>2
  <2> HIDE DEF C
  <2>5. GroupCandidate => leader \in C
    BY <2>1, <2>4 DEF LegacyOwners
  <2>6. /\ \A w \in C : assignment'[w] = "COMPLETED"
        /\ \A w \in Workers \ C : assignment'[w] = assignment[w]
    BY <2>1, <2>4
  <2>7. PaidEach' /\ (GroupCandidate => SumOf(ledger.paid)' = RewardPool')
    <3>1. {o} \in SUBSET Workers /\ {o} # {}
      OBVIOUS
    <3> QED
      BY <1>1, <1>2, <2>1, <2>3, <2>4, <2>5, <2>6, <3>1, LegacyPays
  <2>8. \A w \in Workers : Accepted(w)' => assignment'[w] = "COMPLETED"
    BY <1>1, <1>2, <2>1, <2>2, <2>4, <2>6 DEF LatePaid, Terminal
  <2>9. LatePaid'
    BY <1>3, <2>7, <2>8 DEF LatePaid
  <2> QED
    BY <2>7, <2>9 DEF PaidInv
<1> QED
  BY <1>5, <1>6, <1>7

\* Every step pays as agreed.
LEMMA PaidKeeping ==
    ASSUME Known, EscrowInv, PaidInv, Moves
    PROVE  PaidInv'
<1>1. CASE \/ Drafts \/ Publishes \/ Reshapes \/ Decides \/ Consents
           \/ \E w \in Workers : Joins(w)
           \/ \E S \in SUBSET Workers, l \in Workers \union {NoWorker} : Selects(S, l)
  BY <1>1, BeforeWorkPaid
<1>2. CASE \/ Stays \/ Releases \/ TeamDone
           \/ \E w \in Workers : Awarded(w)
           \/ \E S \in SUBSET Workers : Fails(S)
  BY <1>2, QuietKeepsPaid
<1>3. CASE \E pay \in Amounts, cut \in Amounts : Cancels(pay, cut)
  BY <1>3, CancelsKeepsPaid
<1>4. CASE (\E w \in Workers : PaysWorker(w)) \/ \E split \in Amounts : Allocates(split)
  BY <1>4, WorkKeepsPaid
<1>5. CASE \/ CompletesV1
           \/ \E S \in SUBSET Workers : FailsV1(S)
           \/ \E w \in Workers : PaysLate(w)
  BY <1>5, LegacyKeepsPaid
<1> QED
  BY <1>1, <1>2, <1>3, <1>4, <1>5 DEF Moves

\* Before there is a Quest nobody was paid.
LEMMA PaidStarts == Init => PaidInv
BY DEF Init, StateInit, PaidInv, PaidEach, LatePaid, Terminal

\* Nothing happens to it when nothing happens.
LEMMA PaidStutters == PaidInv /\ UNCHANGED vars => PaidInv'
BY DEF PaidInv, PaidEach, LatePaid, Accepted, Terminal, GroupCandidate,
       RewardPool, SumOf, RewardOf, Shared, Shares, GroupFcfs, EvenShare,
       vars, stateVars, moneyVars, rosterVars, workVars

\* What is known of the payments stays known.
LEMMA PaidKeeps == Spec => []PaidInv
<1>1. Known /\ EscrowInv /\ PaidInv /\ [Next]_vars => PaidInv'
  <2> SUFFICES ASSUME Known, EscrowInv, PaidInv, [Next]_vars PROVE PaidInv'
    OBVIOUS
  <2>1. CASE Next
    <3>1. Moves
      BY <2>1, KnownSteps
    <3> QED
      BY <3>1, PaidKeeping
  <2>2. CASE UNCHANGED vars
    BY <2>2, PaidStutters
  <2> QED
    BY <2>1, <2>2
<1> QED
  BY <1>1, PaidStarts, KnownKeeps, EscrowKeeps, PTL DEF Spec

\* PaidAsAgreed, for any Quest: whoever's work was accepted gets what was agreed
\* when work started, once, the share of an incomplete roster included; nobody
\* else is paid for work; and a v1 Quest that failed pays what was accepted.
THEOREM PaidAsAgreedSafe == Spec => []PaidAsAgreed
<1>1. Known /\ PaidInv => PaidAsAgreed
  <2> SUFFICES ASSUME Known, PaidInv PROVE PaidAsAgreed
    OBVIOUS
  <2>1. \A w \in Workers : Shared /\ assignment[w] # "NONE" => w \in underfilled.accepted
    BY DEF Known, RosterInv, Underfilling, Roster, Shared
  <2>2. \A w \in Workers :
           /\ assignment[w] = "COMPLETED" /\ ~GroupCandidate => ledger.paid[w] = RewardOf(w)
           /\ assignment[w] \in {"NONE", "ACTIVE", "INCOMPLETE"} => ledger.paid[w] = 0
    BY DEF PaidInv, PaidEach, Waiting
  <2>3. \A w \in Workers : quest.apiVersion = "v1" /\ Terminal /\ Accepted(w) =>
           /\ assignment[w] = "COMPLETED"
           /\ GroupCandidate => SumOf(ledger.paid) = RewardPool
    BY DEF PaidInv, LatePaid
  <2> QED
    BY <2>1, <2>2, <2>3 DEF PaidAsAgreed
<1> QED
  BY <1>1, KnownKeeps, PaidKeeps, PTL

-----------------------------------------------------------------------------
(* Proofs that wait for their review *)

\* So that every share is at least a satang.
LEMMA SlotWorth ==
    ASSUME Types, MoneyTypes, SharesFew, NEW w \in Workers
    PROVE  RewardOf(w) \in Nat \ {0} /\ SlotsOf({w}) \in Nat \ {0}
<1>1. /\ RewardOf(w) \in Nat /\ FeeOf(w) \in Nat /\ SlotsOf({w}) = RewardOf(w) + FeeOf(w)
      /\ RewardPool \in Nat /\ quest.kind.headcount \in Nat \ {0}
      /\ Shared => Shares \in Nat \ {0}
  BY SlotsOfFew, PriceTypes
<1>2. RewardOf(w) # 0
  <2>1. CASE ~Shared
    BY <2>1, PricesAssumption DEF RewardOf
  <2>2. CASE Shared
    <3>1. \A a \in Nat \ {0}, b \in Nat : a * b >= b
      OBVIOUS
    <3>2. RewardPool >= quest.kind.headcount
      BY <1>1, <3>1, PricesAssumption DEF RewardPool
    <3>3. Shares <= RewardPool
      BY <1>1, <2>2, <3>2 DEF SharesFew, Shared
    <3>4. RewardPool \div Shares \in Nat /\ RewardPool \div Shares >= 1
      BY <1>1, <2>2, <3>3, DivMod
    <3> QED
      BY <2>2, <3>4 DEF RewardOf, EvenShare
  <2> QED
    BY <2>1, <2>2
<1> QED
  BY <1>1, <1>2

\* Every step keeps the shares few.
LEMMA SharesKeeping ==
    ASSUME Known, Known', SharesFew, Moves
    PROVE  SharesFew'
<1>1. Types /\ MoneyTypes /\ RosterInv /\ Active \in SUBSET Workers
  BY DEF Known, QuestInv, Active, AssignmentsWith
<1>2. SUFFICES ASSUME underfilled'.state = "COMPLETED" PROVE Shares' <= quest'.kind.headcount
  BY DEF SharesFew
<1>3. quest'.kind.headcount = quest.kind.headcount \/ Drafts
  BY DEF Moves, Publishes, Reshapes, Decides, Consents, Joins, PaysWorker, Awarded, PaysLate,
         Selects, Cancels, Allocates, Fails, FailsV1, TeamDone, Releases, Stays, CompletesV1,
         SameShape
<1>4. underfilled' = underfilled \/ Consents
  BY <1>1, <1>2 DEF MoneyTypes, DecisionRows, Moves, Drafts, Publishes, Reshapes, Decides, Consents, Joins, PaysWorker, Awarded,
         PaysLate, Selects, Cancels, Allocates, Fails, FailsV1, TeamDone, Releases, Stays,
         CompletesV1, MoneyKept, Abandons, Asking
<1>5. CASE underfilled' = underfilled
  <2>1. quest.status \notin Drafted
    BY <1>1, <1>2, <1>5 DEF RosterInv, Underfilling
  <2>2. quest'.kind.headcount = quest.kind.headcount
    BY <1>3, <2>1 DEF Drafts
  <2> QED
    BY <1>2, <1>5, <2>2 DEF SharesFew, Shares
<1>6. CASE Consents
  <2>1. /\ quest.status = "OPEN" /\ underfilled.state \in Asking
        /\ underfilled'.accepted = underfilled.asked
        /\ quest'.kind.headcount = quest.kind.headcount
    BY <1>6 DEF Consents, SameShape
  <2>2. underfilled.asked = Active /\ Cardinality(Active) < quest.kind.headcount
    BY <1>1, <2>1 DEF RosterInv, Underfilling, OpenRoster, Asking
  <2>3. Cardinality(Active) \in Nat /\ quest.kind.headcount \in Nat
    BY <1>1, PricesAssumption, FS_Subset, FS_CardinalityType, PriceTypes
  <2> QED
    BY <2>1, <2>2, <2>3 DEF Shares
<1> QED
  BY <1>4, <1>5, <1>6

\* The shares are few in every Quest.
LEMMA SharesKeeps == Spec => []SharesFew
<1>1. Init => SharesFew
  BY DEF Init, RosterInit, SharesFew
<1>2. Known /\ Known' /\ SharesFew /\ [Next]_vars => SharesFew'
  <2> SUFFICES ASSUME Known, Known', SharesFew, [Next]_vars PROVE SharesFew'
    OBVIOUS
  <2>1. CASE Next
    <3>1. Moves
      BY <2>1, KnownSteps
    <3> QED
      BY <3>1, SharesKeeping
  <2>2. CASE UNCHANGED vars
    BY <2>2 DEF SharesFew, Shares, vars, stateVars
  <2> QED
    BY <2>1, <2>2
<1> QED
  BY <1>1, <1>2, KnownKeeps, PTL DEF Spec

\* A Worker who is not paid has his price in the Escrow, as long as no Dispute
\* Case took from it and the hold was not released.
LEMMA SlotCovered ==
    ASSUME Known, EscrowInv, SharesFew, NEW w \in Workers, w \in Unpaid,
           Published, Undisturbed,
           quest.status \notin {"OPEN", "CANCELLED"}, allocation.status # "PENDING"
    PROVE  /\ escrow.status = "ACTIVE"
           /\ GroupCandidate => escrow.remaining = PublishedEscrow
           /\ ~GroupCandidate => escrow.remaining >= SlotsOf({w})
<1>1. EscrowStands /\ Types /\ MoneyTypes
  BY EscrowOf
<1>2. escrow.remaining = Owed /\ escrow.remaining \in Int
  BY <1>1, EscrowOf DEF MoneyTypes, Escrows
<1>3. CASE GroupCandidate
  <2>1. escrow.remaining = PublishedEscrow /\ PublishedEscrow \in Nat \ {0}
    BY <1>1, <1>2, <1>3, PriceTypes DEF Owed
  <2> QED
    BY <1>1, <1>3, <2>1 DEF EscrowStands
<1>4. CASE ~GroupCandidate
  <2>1. escrow.remaining = SlotsOf(Unpaid)
    BY <1>2, <1>4 DEF Owed
  <2> DEFINE R == Unpaid \ {w}
  <2>2. Unpaid = R \union {w} /\ R \intersect {w} = {}
    OBVIOUS
  <2> HIDE DEF R
  <2>3. SlotsOf(R \union {w}) = SlotsOf(R) + SlotsOf({w}) /\ SlotsOf(R) \in Nat
    BY <1>1, <2>2, SlotsAdd
  <2>4. SlotsOf({w}) \in Nat \ {0}
    BY <1>1, SlotWorth
  <2> QED
    BY <1>1, <1>2, <1>4, <2>1, <2>2, <2>3, <2>4 DEF EscrowStands
<1> QED
  BY <1>3, <1>4

\* So that a Proof that waits can be paid.
LEMMA WaitingCovered ==
    ASSUME Known, EscrowInv, SharesFew, WaitInv
    PROVE  WaitingProofIsCovered
<1>1. EscrowStands /\ Types /\ MoneyTypes /\ RosterInv /\ LegacyOwned /\ SentLate
  BY EscrowOf DEF Known, QuestInv
<1>2. CASE quest.apiVersion = "v2"
  <2>1. SUFFICES ASSUME Reviewable, SumOf(ledger.disputed) = 0, NEW w \in Workers, Pending(w)
                 PROVE  ApprovalSettles(w)
    BY <1>2 DEF WaitingProofIsCovered
  <2>2. quest.status \in {"IN_PROGRESS", "FAILED"}
    BY <2>1 DEF Reviewable
  <2>3. Undisturbed /\ Published
    BY <1>1, <1>2, <2>1, <2>2 DEF WaitInv, Unswept, Undisturbed, Published, EscrowStands,
                                  Terminal, Drafted
  <2>4. allocation.status # "PENDING"
    BY <1>1, <2>2 DEF EscrowStands
  <2>5. CASE GroupCandidate
    <3>1. quest.status = "IN_PROGRESS" /\ w = leader
      BY <1>1, <1>2, <2>1, <2>5 DEF WaitInv, SentLate, Sent, Pending
    <3>2. w \in Active
      BY <1>1, <2>5, <3>1 DEF RosterInv, WorkedRoster, Worked, Drafted
    <3>3. escrow.status = "ACTIVE" /\ escrow.remaining = PublishedEscrow
      BY <2>2, <2>3, <2>4, <2>5, <3>2, SlotCovered DEF Unpaid
    <3>4. PublishedEscrow \in Nat
      BY <1>1, PriceTypes
    <3> QED
      BY <2>5, <3>1, <3>2, <3>3, <3>4 DEF ApprovalSettles, Subject
  <2>6. CASE ~GroupCandidate
    <3>1. w \in Active
      BY <1>2, <2>1, <2>6 DEF WaitInv
    <3>2. escrow.status = "ACTIVE" /\ escrow.remaining >= SlotsOf({w})
      BY <2>2, <2>3, <2>4, <2>6, <3>1, SlotCovered DEF Unpaid
    <3> QED
      BY <2>6, <3>1, <3>2 DEF ApprovalSettles, Subject
  <2> QED
    BY <2>5, <2>6
<1>3. CASE quest.apiVersion = "v1"
  <2>1. SUFFICES ASSUME NEW w \in Workers, LegacyReviewable(w)
                 PROVE  /\ escrow.status = "ACTIVE"
                        /\ escrow.remaining >= SumOf(PriceOf({w})) + SumOf(FeeFor({w}))
    BY <1>3 DEF WaitingProofIsCovered
  <2>2. quest.status \in {"SUBMITTED", "REWORK", "FAILED"} /\ Pending(w) /\ w \in LegacyOwners
    BY <2>1 DEF LegacyReviewable
  <2>3. Undisturbed /\ Published
    BY <1>1, <1>3, <2>1, <2>2 DEF WaitInv, Unswept, Undisturbed, Published, EscrowStands,
                                  Terminal, Drafted
  <2>4. allocation.status # "PENDING"
    BY <1>1, <2>2 DEF EscrowStands
  <2>5. CASE GroupCandidate
    <3>1. w = leader /\ leader \in Roster
          /\ (quest.status # "FAILED" => Active = Roster)
          /\ (quest.status = "FAILED" => Active = {})
          /\ assignment[w] # "CANCELLED"
      BY <1>1, <2>2, <2>5 DEF LegacyOwners, RosterInv, WorkedRoster, Worked, Drafted
    <3>2. assignment[w] # "COMPLETED"
      <4>1. CASE quest.status = "FAILED"
        <5>1. AssignmentsWith("COMPLETED") = {}
          BY <1>1, <1>3, <2>2, <2>5, <3>1, <4>1 DEF LegacyOwned, Accepted, Pending
        <5> QED
          BY <5>1 DEF AssignmentsWith
      <4>2. CASE quest.status # "FAILED"
        BY <3>1, <4>2 DEF Active, AssignmentsWith
      <4> QED
        BY <4>1, <4>2
    <3>3. w \in Unpaid
      BY <1>1, <3>1, <3>2 DEF Unpaid, Active, AssignmentsWith, Types, AssignmentStatuses, Roster
    <3>4. escrow.status = "ACTIVE" /\ escrow.remaining = PublishedEscrow
      BY <2>2, <2>3, <2>4, <2>5, <3>3, SlotCovered
    <3>5. PriceOf({w}) = LeaderReward /\ FeeFor({w}) = LeaderFee
      BY <2>5 DEF PriceOf, FeeFor
    <3>6. SumOf(LeaderReward) = RewardPool /\ SumOf(LeaderFee) = FeePool
      BY <1>1, <3>1, LeaderSums
    <3>7. PublishedEscrow = RewardPool + FeePool /\ PublishedEscrow \in Nat
      BY <1>1, PriceTypes
    <3> QED
      BY <3>4, <3>5, <3>6, <3>7
  <2>6. CASE ~GroupCandidate
    <3>1. w \in Unpaid
      BY <2>2, <2>6 DEF LegacyOwners, Unpaid
    <3>2. escrow.status = "ACTIVE" /\ escrow.remaining >= SlotsOf({w})
      BY <2>2, <2>3, <2>4, <2>6, <3>1, SlotCovered
    <3>3. PriceOf({w}) = Rewards({w}) /\ FeeFor({w}) = Fees({w})
      BY <2>6 DEF PriceOf, FeeFor
    <3> QED
      BY <3>2, <3>3 DEF SlotsOf
  <2> QED
    BY <2>5, <2>6
<1> QED
  BY <1>1, <1>2, <1>3 DEF Types, QuestRows

-----------------------------------------------------------------------------
(* What keeps a Proof waiting safely *)

\* Only an award of an Admin moves money to a Dispute Case.
LEMMA DisputedKept ==
    ASSUME Known, Moves, ~ \E w \in Workers : Awarded(w)
    PROVE  ledger'.disputed = ledger.disputed /\ SumOf(ledger.disputed)' = SumOf(ledger.disputed)
<1>1. Types /\ MoneyTypes
  BY DEF Known, QuestInv
<1>2. SUFFICES ledger'.disputed = ledger.disputed
  BY DEF SumOf
<1>3. CASE ledger' = ledger
  BY <1>3
<1>4. ASSUME NEW pay \in Amounts, NEW cut \in Amounts, NEW released \in BOOLEAN,
             SettleEscrow(pay, cut, released)
      PROVE  ledger'.disputed = ledger.disputed
  BY <1>1, <1>4, Settled
<1>5. CASE Releases
  BY <1>1, <1>4, <1>5, PricesTyped DEF Releases, ReleaseEscrow
<1>6. ASSUME NEW w \in Workers, PaysWorker(w) PROVE ledger'.disputed = ledger.disputed
  BY <1>1, <1>4, <1>6, PricesTyped DEF PaysWorker
<1>7. ASSUME NEW w \in Workers, PaysLate(w) PROVE ledger'.disputed = ledger.disputed
  BY <1>1, <1>4, <1>7, PricesTyped DEF PaysLate
<1>8. ASSUME NEW pay \in Amounts, NEW cut \in Amounts, Cancels(pay, cut)
      PROVE  ledger'.disputed = ledger.disputed
  BY <1>4, <1>8 DEF Cancels
<1>9. ASSUME NEW split \in Amounts, Allocates(split) PROVE ledger'.disputed = ledger.disputed
  BY <1>1, <1>4, <1>9, PricesTyped DEF Allocates
<1>10. CASE CompletesV1
  BY <1>1, <1>4, <1>10, PricesTyped DEF CompletesV1
<1>11. ASSUME NEW S \in SUBSET Workers, FailsV1(S) PROVE ledger'.disputed = ledger.disputed
  <2> DEFINE accepted == {o \in Workers : Accepted(o)}
  <2>1. SettleAfterFailure(accepted)
    BY <1>11 DEF FailsV1
  <2> HIDE DEF accepted
  <2> QED
    BY <1>1, <1>3, <1>4, <2>1, PricesTyped DEF SettleAfterFailure, moneyVars
<1>12. CASE \/ Drafts \/ Publishes \/ Reshapes \/ Decides \/ Consents \/ TeamDone \/ Stays
            \/ \E w \in Workers : Joins(w)
            \/ \E S \in SUBSET Workers, l \in Workers \union {NoWorker} : Selects(S, l)
            \/ \E S \in SUBSET Workers : Fails(S)
  BY <1>3, <1>12 DEF Drafts, Publishes, Reshapes, Decides, Consents, TeamDone, Stays, Joins,
                     Selects, Fails, MoneyKept
<1> QED
  BY <1>5, <1>6, <1>7, <1>8, <1>9, <1>10, <1>11, <1>12 DEF Moves

\* A v1 Quest has no Dispute Case.
LEMMA LegacyDisputedKept ==
    ASSUME Known, Moves, quest.apiVersion = "v1"
    PROVE  SumOf(ledger.disputed)' = SumOf(ledger.disputed)
<1>1. ~ \E w \in Workers : Awarded(w)
  BY DEF Awarded
<1> QED
  BY <1>1, DisputedKept

\* Steps after which no Proof waits for a review.
LEMMA NoReviewWaits ==
    ASSUME Known, EscrowInv, WaitInv, Moves,
           \/ Drafts \/ Publishes \/ Reshapes \/ Decides \/ Consents \/ TeamDone \/ CompletesV1
           \/ \E w \in Workers : Joins(w)
           \/ \E S \in SUBSET Workers, l \in Workers \union {NoWorker} : Selects(S, l)
           \/ \E pay \in Amounts, cut \in Amounts : Cancels(pay, cut)
           \/ \E split \in Amounts : Allocates(split)
    PROVE  WaitInv'
<1>1. quest.apiVersion = "v1" => SumOf(ledger.disputed)' = SumOf(ledger.disputed)
  BY LegacyDisputedKept
<1>3. /\ quest'.apiVersion = quest.apiVersion
      /\ quest'.status \in {"DRAFT", "OPEN", "ASSIGNED", "CANCELLED", "COMPLETED"}
  <2>1. CASE Drafts \/ Publishes \/ Reshapes \/ Decides \/ Consents \/ TeamDone \/ CompletesV1
    BY <2>1 DEF Drafts, Publishes, Reshapes, Decides, Consents, TeamDone, CompletesV1, SameShape
  <2>2. ASSUME NEW w \in Workers, Joins(w)
        PROVE  /\ quest'.apiVersion = quest.apiVersion
               /\ quest'.status \in {"DRAFT", "OPEN", "ASSIGNED", "CANCELLED", "COMPLETED"}
    BY <2>2 DEF Joins, SameShape
  <2>3. ASSUME NEW S \in SUBSET Workers, NEW l \in Workers \union {NoWorker}, Selects(S, l)
        PROVE  /\ quest'.apiVersion = quest.apiVersion
               /\ quest'.status \in {"DRAFT", "OPEN", "ASSIGNED", "CANCELLED", "COMPLETED"}
    BY <2>3 DEF Selects, SameShape
  <2>4. ASSUME NEW pay \in Amounts, NEW cut \in Amounts, Cancels(pay, cut)
        PROVE  /\ quest'.apiVersion = quest.apiVersion
               /\ quest'.status \in {"DRAFT", "OPEN", "ASSIGNED", "CANCELLED", "COMPLETED"}
    BY <2>4 DEF Cancels, SameShape
  <2>5. ASSUME NEW split \in Amounts, Allocates(split)
        PROVE  /\ quest'.apiVersion = quest.apiVersion
               /\ quest'.status \in {"DRAFT", "OPEN", "ASSIGNED", "CANCELLED", "COMPLETED"}
    BY <2>5 DEF Allocates
  <2> QED
    BY <2>1, <2>2, <2>3, <2>4, <2>5
<1>4. ~Terminal' => ~Terminal /\ sweepNow' = sweepNow /\ proof' = proof /\ now' = now
  <2>1. CASE Drafts \/ Publishes \/ Reshapes \/ Decides \/ Consents
    BY <2>1 DEF Drafts, Publishes, Reshapes, Decides, Consents, Quiet, Terminal, Drafted
  <2>2. CASE TeamDone \/ CompletesV1
    BY <2>2 DEF TeamDone, CompletesV1, Terminal
  <2>3. ASSUME NEW w \in Workers, Joins(w)
        PROVE  ~Terminal /\ sweepNow' = sweepNow /\ proof' = proof /\ now' = now
    BY <2>3 DEF Joins, Quiet, Terminal
  <2>4. ASSUME NEW S \in SUBSET Workers, NEW l \in Workers \union {NoWorker}, Selects(S, l)
        PROVE  ~Terminal /\ sweepNow' = sweepNow /\ proof' = proof /\ now' = now
    BY <2>4 DEF Selects, Quiet, Terminal
  <2>5. ASSUME NEW pay \in Amounts, NEW cut \in Amounts, Cancels(pay, cut)
        PROVE  Terminal'
    BY <2>5 DEF Cancels, Terminal
  <2>6. ASSUME NEW split \in Amounts, Allocates(split)
        PROVE  Terminal'
    BY <2>6 DEF Allocates, Terminal
  <2> QED
    BY <2>1, <2>2, <2>3, <2>4, <2>5, <2>6
<1>5. ~Reviewable' /\ quest'.status # "FAILED"
  BY <1>3 DEF Reviewable
<1>6. ~Terminal' => /\ sweepNow' = 0
                    /\ \A w \in Workers : Pending(w)' => proof'[w].sentAt <= now'
  BY <1>4 DEF WaitInv, Pending
<1>7. quest'.apiVersion = "v1" => SumOf(ledger.disputed)' = 0
  BY <1>1, <1>3 DEF WaitInv
<1> QED
  BY <1>5, <1>6, <1>7 DEF WaitInv

\* What a Quest that has not ended says of its Proofs.
LEMMA WaitingYoung ==
    ASSUME Known, EscrowInv, WaitInv, ~Terminal
    PROVE  /\ sweepNow = 0 /\ escrow.status # "RELEASED" /\ quest.holdSince = Never
           /\ SumOf(ledger.disputed) = 0
           /\ \A w \in Workers : Pending(w) => proof[w].sentAt <= now
BY EscrowOf DEF WaitInv, Undisturbed

\* The acceptance of one Worker's Proof leaves those of the others.
LEMMA PaysWorkerWaits ==
    ASSUME Known, EscrowInv, WaitInv, Moves, NEW w \in Workers, PaysWorker(w)
    PROVE  WaitInv'
<1>1. Types /\ MoneyTypes
  BY EscrowOf
<1>2. /\ quest.apiVersion = "v2" /\ ~GroupCandidate /\ SameShape /\ EndAssignments({w}, "COMPLETED")
      /\ quest.status \in {"IN_PROGRESS", "FAILED"} /\ now' = now /\ sweepNow' = sweepNow
      /\ quest'.status \in {"COMPLETED", quest.status}
      /\ quest'.status # "COMPLETED" => SameHold
      /\ \/ proof' = proof /\ ~quest.kind.proofRequired
         \/ proof' = [proof EXCEPT ![w].status = "APPROVED"]
  BY <1>1 DEF PaysWorker
<1>3. escrow'.status # "RELEASED" /\ SumOf(ledger.disputed)' = SumOf(ledger.disputed)
  <2>1. SettleEscrow(Rewards({w}), Fees({w}), FALSE)
    BY DEF PaysWorker
  <2>2. escrow'.status \in {"ACTIVE", "SETTLED"} /\ ledger'.disputed = ledger.disputed
    BY <1>1, <2>1, Settled, PricesTyped, Paid
  <2> QED
    BY <2>2 DEF SumOf
<1>4. Reviewable
  BY <1>2 DEF Reviewable
<1>5. ASSUME NEW v \in Workers, Pending(v)'
      PROVE  Pending(v) /\ v # w /\ proof'[v].sentAt = proof[v].sentAt
  <2>1. CASE proof' = proof
    <3>1. Pending(v)
      BY <1>5, <2>1 DEF Pending
    <3>2. quest.kind.proofRequired
      BY <1>2, <1>4, <3>1 DEF WaitInv
    <3>3. proof = [proof EXCEPT ![w].status = "APPROVED"]
      BY <1>2, <2>1, <3>2
    <3>4. proof[w].status = "APPROVED"
      BY <1>1, <3>3 DEF Types, ProofRows
    <3>5. v # w
      BY <3>1, <3>4 DEF Pending
    <3>6. proof'[v].sentAt = proof[v].sentAt
      BY <2>1
    <3> QED
      BY <3>1, <3>5, <3>6
  <2>2. CASE proof' = [proof EXCEPT ![w].status = "APPROVED"]
    <3>1. proof'[w].status = "APPROVED" /\ \A o \in Workers : o # w => proof'[o] = proof[o]
      BY <1>1, <2>2 DEF Types, ProofRows
    <3> QED
      BY <1>5, <3>1 DEF Pending
  <2> QED
    BY <1>2, <2>1, <2>2
<1>6. \A v \in Active : v # w => v \in Active'
  BY <1>2 DEF EndAssignments, Active, AssignmentsWith
<1>7. ~GroupCandidate' /\ quest'.apiVersion = "v2"
      /\ quest'.kind.proofRequired = quest.kind.proofRequired
  BY <1>2 DEF SameShape, GroupCandidate
<1>8. ~Terminal' => ~Terminal
  BY <1>2 DEF Terminal
<1>9. ~Terminal' => sweepNow' = 0 /\ \A v \in Workers : Pending(v)' => proof'[v].sentAt <= now'
  BY <1>2, <1>5, <1>8 DEF WaitInv
<1>10. ASSUME Reviewable', NEW v \in Workers, Pending(v)'
       PROVE  /\ quest'.kind.proofRequired
              /\ v \in Active'
              /\ SumOf(ledger.disputed)' = 0 /\ quest'.status = "FAILED" =>
                    Unswept(v)' /\ proof'[v].sentAt <= quest'.holdSince
  <2>1. quest'.status = quest.status /\ quest'.holdSince = quest.holdSince
    BY <1>2, <1>10 DEF Reviewable, SameHold
  <2>2. /\ quest.kind.proofRequired /\ v \in Active
        /\ SumOf(ledger.disputed) = 0 /\ quest.status = "FAILED" =>
                Unswept(v) /\ proof[v].sentAt <= quest.holdSince
    BY <1>2, <1>4, <1>5, <1>10 DEF WaitInv
  <2>3. Unswept(v) => Unswept(v)'
    BY <1>2, <1>3, <1>5, <1>10 DEF Unswept
  <2> QED
    BY <1>3, <1>5, <1>6, <1>7, <1>10, <2>1, <2>2, <2>3
<1> QED
  BY <1>7, <1>9, <1>10 DEF WaitInv

\* A failure leaves the Proofs of the others, and its hold begins.
LEMMA FailsWaits ==
    ASSUME Known, EscrowInv, WaitInv, Moves, NEW S \in SUBSET Workers, Fails(S)
    PROVE  WaitInv'
<1>1. Types /\ MoneyTypes /\ RosterInv /\ SentLate
  BY EscrowOf DEF Known, QuestInv
<1>2. /\ quest.apiVersion = "v2" /\ SameShape /\ EndAssignments(S, "INCOMPLETE")
      /\ GroupCandidate => Active \subseteq S
      /\ quest.status \in {"ASSIGNED", "IN_PROGRESS", "FAILED"}
      /\ quest'.status = "FAILED" =>
            quest'.holdSince = IF quest.status = "FAILED" THEN quest.holdSince ELSE now
      /\ quest'.status \in {"FAILED", "IN_PROGRESS", "COMPLETED"}
      /\ quest'.status = "IN_PROGRESS" => quest.status = "IN_PROGRESS"
      /\ escrow' = escrow /\ ledger' = ledger /\ now' = now /\ sweepNow' = sweepNow
  BY DEF Fails, MoneyKept
<1>3. ASSUME NEW v \in Workers, Pending(v)'
      PROVE  /\ proof'[v] = proof[v] /\ v \notin S /\ Pending(v)
             /\ Reviewable /\ quest.kind.proofRequired /\ ~GroupCandidate /\ v \in Active
  <2>1. proof'[v] = proof[v] /\ v \notin S /\ Pending(v)
    BY <1>3 DEF Fails, Pending
  <2>2. quest.status \in Late
    BY <1>1, <1>2, <2>1 DEF SentLate, Sent, Pending
  <2>3. Reviewable
    BY <1>2, <2>2 DEF Late, Reviewable
  <2>4. /\ quest.kind.proofRequired
        /\ IF GroupCandidate THEN quest.status = "IN_PROGRESS" ELSE v \in Active
    BY <1>2, <2>1, <2>3 DEF WaitInv
  <2>5. ~GroupCandidate
    <3>1. SUFFICES ASSUME GroupCandidate PROVE FALSE
      OBVIOUS
    <3>2. v = leader /\ quest.status = "IN_PROGRESS"
      BY <1>1, <1>2, <2>1, <2>4, <3>1 DEF SentLate, Sent, Pending
    <3>3. leader \in Active
      BY <1>1, <3>1, <3>2 DEF RosterInv, WorkedRoster, Worked, Drafted
    <3> QED
      BY <1>2, <2>1, <3>1, <3>2, <3>3
  <2> QED
    BY <2>1, <2>3, <2>4, <2>5
<1>4. /\ quest'.apiVersion = "v2" /\ (GroupCandidate' <=> GroupCandidate)
      /\ quest'.kind.proofRequired = quest.kind.proofRequired
      /\ SumOf(ledger.disputed)' = SumOf(ledger.disputed)
  BY <1>2 DEF SameShape, GroupCandidate, SumOf
<1>5. \A v \in Active : v \notin S => v \in Active'
  BY <1>2 DEF EndAssignments, Active, AssignmentsWith
<1>6. ~Terminal' => ~Terminal
  BY <1>2 DEF Terminal
<1>7. ~Terminal' => sweepNow' = 0 /\ \A v \in Workers : Pending(v)' => proof'[v].sentAt <= now'
  BY <1>2, <1>3, <1>6 DEF WaitInv
<1>8. ASSUME NEW v \in Workers, Pending(v)', SumOf(ledger.disputed)' = 0, quest'.status = "FAILED"
      PROVE  Unswept(v)' /\ proof'[v].sentAt <= quest'.holdSince
  <2>1. CASE quest.status = "FAILED"
    <3>1. Unswept(v) /\ proof[v].sentAt <= quest.holdSince
      BY <1>2, <1>3, <1>4, <1>8, <2>1 DEF WaitInv
    <3>2. Unswept(v)'
      BY <1>2, <1>3, <1>8, <3>1 DEF Unswept
    <3> QED
      BY <1>2, <1>3, <1>8, <2>1, <3>1, <3>2
  <2>2. CASE quest.status # "FAILED"
    <3>1. ~Terminal
      BY <1>2, <2>2 DEF Terminal
    <3>2. /\ sweepNow = 0 /\ escrow.status # "RELEASED" /\ proof[v].sentAt <= now
      BY <1>3, <1>8, <3>1, WaitingYoung
    <3> QED
      BY <1>2, <1>3, <1>8, <2>2, <3>2 DEF Unswept
  <2> QED
    BY <2>1, <2>2
<1> QED
  BY <1>3, <1>4, <1>5, <1>7, <1>8 DEF WaitInv

\* An award takes the money of a Proof that waits, and the release of the hold
\* comes when none waits any more.
LEMMA HoldWaits ==
    ASSUME Known, EscrowInv, WaitInv, Moves, Releases \/ \E w \in Workers : Awarded(w)
    PROVE  WaitInv'
<1>1. Types /\ MoneyTypes
  BY EscrowOf
<1>2. /\ quest' = quest /\ quest.holdSince # Never /\ assignment' = assignment
      /\ now' = now /\ sweepNow' = sweepNow /\ proof' = proof
      /\ quest.apiVersion = "v1" /\ quest.status = "FAILED" => legacy'.dueAt = legacy.dueAt
      /\ leader' = leader
  BY DEF Releases, Awarded, RosterKept, Quiet, EditKept
<1>3. Terminal /\ Terminal'
  BY <1>2, EscrowOf DEF Terminal
<1>4. (GroupCandidate' <=> GroupCandidate) /\ (Reviewable' <=> Reviewable) /\ Active' = Active
      /\ \A v \in Workers : /\ Pending(v)' <=> Pending(v)
                            /\ quest.apiVersion = "v1" /\ quest.status = "FAILED" =>
                                  (LegacyReviewable(v)' <=> LegacyReviewable(v))
  BY <1>2 DEF GroupCandidate, Reviewable, Active, AssignmentsWith, Pending, LegacyReviewable,
              LegacyOwners, SentInTime
<1>5. \A v \in Workers : Reviewable /\ Pending(v) /\ quest.apiVersion = "v2" =>
          /\ quest.kind.proofRequired
          /\ IF GroupCandidate THEN quest.status = "IN_PROGRESS" ELSE v \in Active
  BY DEF WaitInv
<1>6. CASE \E w \in Workers : Awarded(w)
  <2>1. quest.apiVersion = "v2" /\ SumOf(ledger.disputed)' # 0
    BY <1>6, AwardedDisturbs DEF Awarded
  <2> QED
    BY <1>2, <1>3, <1>4, <1>5, <2>1 DEF WaitInv
<1>7. CASE Releases
  <2>1. quest.holdSince + HoldWindow <= sweepNow
    BY <1>7 DEF Releases
  <2>2. SumOf(ledger.disputed)' = SumOf(ledger.disputed)
    <3>1. ledger'.disputed = ledger.disputed
      BY <1>1, <1>7, Settled, PricesTyped DEF Releases, ReleaseEscrow
    <3> QED
      BY <3>1 DEF SumOf
  <2>3. quest.holdSince \in Nat /\ sweepNow \in Nat
        /\ \A v \in Workers : proof[v].sentAt \in Int
    BY <1>1, <1>2, ClockAssumption DEF Types, MoneyTypes, QuestRows, ProofRows, Times, Never
  <2>4. ASSUME NEW v \in Workers, Unswept(v), proof[v].sentAt <= quest.holdSince
        PROVE  FALSE
    <3>1. sweepNow < proof[v].sentAt + ReviewWindow
      BY <2>1, <2>3, <2>4, HoldAssumption DEF Unswept
    <3> QED
      BY <2>1, <2>3, <2>4, <3>1, HoldAssumption, WorkAssumption
  <2>5. \A v \in Workers : ~ (/\ quest.apiVersion = "v2" /\ Reviewable /\ Pending(v)
                              /\ SumOf(ledger.disputed) = 0 /\ quest.status = "FAILED")
    BY <2>4 DEF WaitInv
  <2>6. \A v \in Workers : quest.status = "FAILED" /\ quest.apiVersion = "v1" => ~LegacyReviewable(v)
    BY <2>4 DEF WaitInv, LegacyReviewable, SentInTime
  <2> QED
    BY <1>2, <1>3, <1>4, <1>5, <2>2, <2>5, <2>6 DEF WaitInv
<1> QED
  BY <1>6, <1>7

\* A v1 Quest that fails begins its hold with its Proofs.
LEMMA FailsV1Waits ==
    ASSUME Known, EscrowInv, WaitInv, Moves, NEW S \in SUBSET Workers, FailsV1(S)
    PROVE  WaitInv'
<1>1. Types /\ MoneyTypes
  BY EscrowOf
<1>2. /\ quest.apiVersion = "v1" /\ quest'.apiVersion = "v1" /\ quest'.status = "FAILED"
      /\ sweepNow' = sweepNow /\ ~Terminal /\ Terminal'
  BY DEF FailsV1, SameShape, Terminal
<1>3. sweepNow = 0 /\ escrow.status # "RELEASED" /\ SumOf(ledger.disputed) = 0
  BY <1>2, WaitingYoung
<1>4. SumOf(ledger.disputed)' = 0
  BY <1>2, <1>3, LegacyDisputedKept
<1>5. escrow'.status # "RELEASED"
  <2> DEFINE accepted == {o \in Workers : Accepted(o)}
  <2>1. SettleAfterFailure(accepted)
    BY DEF FailsV1
  <2> HIDE DEF accepted
  <2>2. CASE escrow' = escrow
    BY <1>3, <2>2
  <2>3. CASE SettleEscrow(PriceOf(accepted), FeeFor(accepted), FALSE)
    <3>1. escrow'.status \in {"ACTIVE", "SETTLED"}
      BY <1>1, <2>3, PricesTyped, Paid
    <3> QED
      BY <3>1
  <2> QED
    BY <2>1, <2>2, <2>3 DEF SettleAfterFailure, moneyVars
<1> QED
  BY <1>2, <1>3, <1>4, <1>5 DEF WaitInv, Unswept

\* A late acceptance leaves the Proofs of the others.
LEMMA PaysLateWaits ==
    ASSUME Known, EscrowInv, WaitInv, Moves, NEW o \in Workers, PaysLate(o)
    PROVE  WaitInv'
<1>1. Types /\ MoneyTypes
  BY EscrowOf
<1>2. /\ quest.apiVersion = "v1" /\ quest.status = "FAILED" /\ quest' = quest
      /\ assignment' = [w \in Workers |->
             IF w \in Covered({o}) THEN "COMPLETED" ELSE assignment[w]]
      /\ proof' = [proof EXCEPT ![o].status = "APPROVED"]
      /\ sweepNow' = sweepNow /\ leader' = leader /\ legacy' = legacy
  BY DEF PaysLate
<1>3. Terminal'
  BY <1>2 DEF Terminal
<1>4. SumOf(ledger.disputed)' = 0
  BY <1>2, LegacyDisputedKept DEF WaitInv
<1>5. escrow'.status \in {"ACTIVE", "SETTLED"}
  <2>1. SettleEscrow(PriceOf({o}), FeeFor({o}), FALSE)
    BY DEF PaysLate
  <2> QED
    BY <1>1, <2>1, PricesTyped, Paid
<1>6. ASSUME NEW v \in Workers, LegacyReviewable(v)'
      PROVE  LegacyReviewable(v) /\ proof'[v] = proof[v]
  <2>1. /\ proof'[o].status = "APPROVED"
        /\ \A w \in Workers : w # o => proof'[w] = proof[w]
    BY <1>1, <1>2 DEF Types, ProofRows
  <2>2. Pending(v)' /\ v \in LegacyOwners' /\ SentInTime(v)'
    BY <1>2, <1>6 DEF LegacyReviewable
  <2>3. v # o /\ proof'[v] = proof[v]
    BY <2>1, <2>2 DEF Pending
  <2>4. Pending(v) /\ SentInTime(v)
    BY <1>2, <2>2, <2>3 DEF Pending, SentInTime
  <2>5. v \in LegacyOwners
    <3>1. CASE GroupCandidate
      BY <1>2, <2>2, <3>1 DEF LegacyOwners, GroupCandidate
    <3>2. CASE ~GroupCandidate
      <4>1. assignment'[v] = "INCOMPLETE"
        BY <1>2, <2>2, <3>2 DEF LegacyOwners, GroupCandidate, AssignmentsWith
      <4>2. assignment[v] = "INCOMPLETE"
        BY <1>2, <4>1
      <4> QED
        BY <1>2, <3>2, <4>2 DEF LegacyOwners, AssignmentsWith
    <3> QED
      BY <3>1, <3>2
  <2> QED
    BY <1>2, <2>3, <2>4, <2>5 DEF LegacyReviewable
<1>7. \A v \in Workers : LegacyReviewable(v)' => Unswept(v)'
  <2> SUFFICES ASSUME NEW v \in Workers, LegacyReviewable(v)' PROVE Unswept(v)'
    OBVIOUS
  <2>1. Unswept(v) /\ proof'[v] = proof[v]
    BY <1>2, <1>6 DEF WaitInv
  <2> QED
    BY <1>2, <1>5, <2>1 DEF Unswept
<1> QED
  BY <1>2, <1>3, <1>4, <1>7 DEF WaitInv

\* Nothing is decided: time passes, work is sent, or the lifecycle worker goes
\* past its approvals, which ends the wait of a Proof only if another one
\* stopped it.
LEMMA StaysWaits ==
    ASSUME Known, EscrowInv, SharesFew, WaitInv, Moves, ~OthersStopApproval, Stays
    PROVE  WaitInv'
<1>1. Types /\ MoneyTypes /\ RosterInv /\ LegacyOwned /\ SentLate
  BY EscrowOf DEF Known, QuestInv
<1>2. /\ SameShape /\ quest'.holdSince = quest.holdSince /\ assignment' = assignment
      /\ leader' = leader /\ escrow' = escrow /\ ledger' = ledger
      /\ quest'.status = quest.status \/ {quest.status, quest'.status} \subseteq UnderWay
  BY DEF Stays, SameHold, RosterKept
<1>3. /\ quest'.apiVersion = quest.apiVersion /\ (GroupCandidate' <=> GroupCandidate)
      /\ quest.apiVersion = "v2" => quest'.kind.proofRequired = quest.kind.proofRequired
      /\ SumOf(ledger.disputed)' = SumOf(ledger.disputed) /\ Active' = Active
      /\ (Terminal' <=> Terminal)
      /\ quest'.status = "FAILED" => quest.status = "FAILED"
  BY <1>2 DEF SameShape, GroupCandidate, SumOf, Active, AssignmentsWith, Terminal, UnderWay
<1>4. quest.apiVersion = "v1" => SumOf(ledger.disputed)' = 0
  BY <1>3 DEF WaitInv
<1>5. CASE Passes
  <2>1. /\ now' >= now /\ sweepNow' = sweepNow /\ proof' = proof /\ EditKept
        /\ quest'.status = quest.status \/ quest.status = "ASSIGNED"
    BY <1>1, <1>5, ClockAssumption DEF Passes, Types, Times
  <2>2. ~Terminal => /\ sweepNow' = 0
                     /\ \A w \in Workers : Pending(w)' => proof'[w].sentAt <= now'
    <3>1. \A w \in Workers : proof[w].sentAt \in Int
      BY <1>1, ClockAssumption DEF Types, ProofRows, Times, Never
    <3>2. now \in Int /\ now' \in Int
      BY <1>1, <1>5, ClockAssumption DEF Passes, Types, Times
    <3> QED
      BY <2>1, <3>1, <3>2 DEF WaitInv, Pending
  <2>3. ASSUME NEW w \in Workers, Pending(w)', quest.apiVersion = "v2", Reviewable'
        PROVE  /\ quest'.kind.proofRequired
               /\ IF GroupCandidate' THEN quest'.status = "IN_PROGRESS" ELSE w \in Active'
               /\ SumOf(ledger.disputed)' = 0 /\ quest'.status = "FAILED" =>
                     Unswept(w)' /\ proof'[w].sentAt <= quest'.holdSince
    <3>1. Pending(w)
      BY <2>1, <2>3 DEF Pending
    <3>2. quest.status # "ASSIGNED"
      BY <1>1, <2>3, <3>1 DEF SentLate, Sent, Pending, Late
    <3>3. quest'.status = quest.status /\ Reviewable
      BY <2>1, <2>3, <3>2 DEF Reviewable
    <3>4. Unswept(w) => Unswept(w)'
      BY <1>2, <2>1 DEF Unswept
    <3> QED
      BY <1>2, <1>3, <2>1, <2>3, <3>1, <3>3, <3>4 DEF WaitInv
  <2>4. ASSUME NEW w \in Workers, LegacyReviewable(w)', quest.apiVersion = "v1",
               quest'.status = "FAILED"
        PROVE  Unswept(w)'
    <3>1. quest.status = "FAILED" /\ legacy'.dueAt = legacy.dueAt
      BY <1>3, <2>1, <2>4 DEF EditKept
    <3>2. LegacyReviewable(w)
      BY <1>2, <1>3, <2>1, <2>4, <3>1 DEF LegacyReviewable, LegacyOwners, SentInTime, Pending,
                                          AssignmentsWith
    <3>3. Unswept(w)
      BY <2>4, <3>1, <3>2 DEF WaitInv
    <3> QED
      BY <1>2, <2>1, <3>3 DEF Unswept
  <2> QED
    BY <1>3, <1>4, <2>2, <2>3, <2>4 DEF WaitInv
<1>6. CASE Sweeps
  <2>1. /\ quest' = quest /\ now' = now /\ legacy' = legacy /\ proof' = proof /\ sweepNow' = now
        /\ quest.holdSince # Never
    BY <1>6 DEF Sweeps, SweepPassesApprovals, SweepPassesLegacyApprovals, MoneyHoldOpen
  <2>2. Terminal /\ Terminal'
    BY <1>3, <2>1, EscrowOf
  <2>3. \A w \in Workers : /\ Pending(w)' <=> Pending(w)
                           /\ LegacyReviewable(w)' <=> LegacyReviewable(w)
    BY <1>2, <1>3, <2>1 DEF Pending, LegacyReviewable, LegacyOwners, SentInTime, AssignmentsWith
  <2>4. \A w \in Workers : proof[w].sentAt \in Int
    BY <1>1, ClockAssumption DEF Types, ProofRows, Times, Never
  <2>5. now \in Int
    BY <1>1, ClockAssumption DEF Types, Times
  <2>6. ASSUME NEW w \in Workers, ~ReviewDue(w, now), Unswept(w), Pending(w)
        PROVE  Unswept(w)'
    <3>1. now < proof[w].sentAt + ReviewWindow
      BY <2>4, <2>5, <2>6, WorkAssumption DEF ReviewDue
    <3> QED
      BY <1>2, <2>1, <2>6, <3>1 DEF Unswept
  <2>7. CASE quest.apiVersion = "v2"
    <3>1. WaitingProofIsCovered
      BY WaitingCovered
    <3>2. SweepPassesApprovals
      BY <1>6, <2>7 DEF Sweeps
    <3>3. ASSUME NEW w \in Workers, Pending(w), SumOf(ledger.disputed) = 0,
                 quest.status = "FAILED"
          PROVE  Unswept(w)'
      <4>1. Reviewable
        BY <3>3 DEF Reviewable
      <4>2. \A v \in Workers : Pending(v) => ApprovalSettles(v)
        BY <2>7, <3>1, <3>3, <4>1 DEF WaitingProofIsCovered
      <4>3. ~ApprovalDue(w)
        BY <3>2, <4>2 DEF SweepPassesApprovals, ApprovalDue, ReviewDue
      <4>4. Unswept(w)
        BY <2>7, <3>3, <4>1 DEF WaitInv
      <4> QED
        BY <2>6, <3>3, <4>1, <4>3, <4>4 DEF ApprovalDue
    <3>4. ASSUME NEW w \in Workers, Pending(w), Reviewable
          PROVE  /\ quest.kind.proofRequired
                 /\ IF GroupCandidate THEN quest.status = "IN_PROGRESS" ELSE w \in Active
                 /\ SumOf(ledger.disputed) = 0 /\ quest.status = "FAILED" =>
                       proof[w].sentAt <= quest.holdSince
      BY <2>7, <3>4 DEF WaitInv
    <3> QED
      BY <1>3, <2>1, <2>2, <2>3, <2>7, <3>3, <3>4 DEF WaitInv, Reviewable
  <2>8. CASE quest.apiVersion = "v1"
    <3>1. \A w \in Workers : ~(ReviewDue(w, now) /\ LegacyReviewable(w))
      BY <1>6, <2>8 DEF Sweeps, SweepPassesLegacyApprovals
    <3>2. ASSUME NEW w \in Workers, LegacyReviewable(w), quest.status = "FAILED"
          PROVE  Unswept(w)'
      <4>1. Unswept(w) /\ Pending(w)
        BY <2>8, <3>2 DEF WaitInv, LegacyReviewable
      <4> QED
        BY <2>6, <3>1, <3>2, <4>1
    <3> QED
      BY <1>4, <2>1, <2>2, <2>3, <2>8, <3>2 DEF WaitInv
  <2> QED
    BY <1>1, <2>7, <2>8 DEF Types, QuestRows
<1>7. ASSUME NEW o \in Workers, Sends(o) PROVE WaitInv'
  <2>1. /\ quest.apiVersion = "v2" /\ quest.status = "IN_PROGRESS" /\ quest' = quest
        /\ quest.kind.proofRequired /\ o \in Owners /\ now' = now /\ sweepNow' = sweepNow
        /\ proof' = [proof EXCEPT ![o] = [status |-> "PENDING", sentAt |-> now]]
    BY <1>7 DEF Sends
  <2>2. proof'[o].sentAt = now /\ \A w \in Workers : w # o => proof'[w] = proof[w]
    BY <1>1, <2>1 DEF Types
  <2>3. sweepNow' = 0 /\ \A w \in Workers : Pending(w)' => proof'[w].sentAt <= now'
    <3>1. ~Terminal /\ now <= now
      BY <1>1, <2>1, ClockAssumption DEF Terminal, Types, Times
    <3>2. sweepNow = 0 /\ \A w \in Workers : Pending(w) => proof[w].sentAt <= now
      BY <3>1, WaitingYoung
    <3> QED
      BY <2>1, <2>2, <3>1, <3>2 DEF Pending
  <2>4. ASSUME NEW w \in Workers, Pending(w)', ~GroupCandidate PROVE w \in Active
    <3>1. CASE w = o
      BY <2>1, <2>4, <3>1 DEF Owners
    <3>2. CASE w # o
      <4>1. Pending(w) /\ Reviewable
        BY <2>1, <2>2, <2>4, <3>2 DEF Pending, Reviewable
      <4> QED
        BY <2>1, <2>4, <4>1 DEF WaitInv
    <3> QED
      BY <3>1, <3>2
  <2> QED
    BY <1>3, <2>1, <2>3, <2>4 DEF WaitInv
<1>8. ASSUME NEW o \in Workers, WorksV1(o) PROVE WaitInv'
  <2>1. quest.apiVersion = "v1" /\ now' = now /\ sweepNow' = sweepNow /\ EditKept
    BY <1>8 DEF WorksV1
  <2>2. \/ proof' = proof /\ quest.status # "FAILED"
        \/ /\ Working
           /\ proof' = [proof EXCEPT ![o] = [status |-> "PENDING", sentAt |-> now]]
        \/ /\ quest.status \in {"SUBMITTED", "REWORK"}
           /\ proof' = [proof EXCEPT ![o].status = "APPROVED"]
        \/ proof' = [proof EXCEPT ![o].status = "NOT_APPROVED"]
    BY <1>8 DEF WorksV1
  <2>3. now <= now
    BY <1>1, ClockAssumption DEF Types, Times
  <2>4. \A w \in Workers : Pending(w)' =>
            \/ Pending(w) /\ proof'[w] = proof[w]
            \/ proof'[w].sentAt = now /\ quest.status # "FAILED"
    <3>1. CASE proof' = proof
      BY <3>1 DEF Pending
    <3>2. CASE /\ Working
               /\ proof' = [proof EXCEPT ![o] = [status |-> "PENDING", sentAt |-> now]]
      <4>1. proof'[o].sentAt = now /\ \A w \in Workers : w # o => proof'[w] = proof[w]
        BY <1>1, <3>2 DEF Types
      <4> QED
        BY <3>2, <4>1 DEF Pending, Working
    <3>3. ASSUME NEW s \in {"APPROVED", "NOT_APPROVED"}, proof' = [proof EXCEPT ![o].status = s]
          PROVE  \A w \in Workers : Pending(w)' => Pending(w) /\ proof'[w] = proof[w]
      <4>1. proof'[o].status = s /\ \A w \in Workers : w # o => proof'[w] = proof[w]
        BY <1>1, <3>3 DEF Types, ProofRows
      <4> QED
        BY <3>3, <4>1 DEF Pending
    <3> QED
      BY <2>2, <3>1, <3>2, <3>3
  <2>5. ~Terminal => /\ sweepNow' = 0
                     /\ \A w \in Workers : Pending(w)' => proof'[w].sentAt <= now'
    BY <2>1, <2>3, <2>4 DEF WaitInv
  <2>6. ASSUME NEW w \in Workers, LegacyReviewable(w)', quest'.status = "FAILED"
        PROVE  Unswept(w)'
    <3>1. quest.status = "FAILED" /\ legacy'.dueAt = legacy.dueAt
      BY <1>3, <2>1, <2>6 DEF EditKept
    <3>2. Pending(w) /\ proof'[w] = proof[w]
      BY <2>4, <2>6, <3>1 DEF LegacyReviewable
    <3>3. LegacyReviewable(w)
      BY <1>2, <1>3, <2>6, <3>1, <3>2 DEF LegacyReviewable, LegacyOwners, SentInTime,
                                          AssignmentsWith
    <3>4. Unswept(w)
      BY <2>1, <3>1, <3>3 DEF WaitInv
    <3> QED
      BY <1>2, <2>1, <3>2, <3>4 DEF Unswept
  <2> QED
    BY <1>3, <1>4, <2>1, <2>5, <2>6 DEF WaitInv
<1>9. CASE Pauses \/ Resumes
  <2>1. quest.apiVersion = "v1" /\ now' = now /\ sweepNow' = sweepNow /\ proof' = proof
    BY <1>9 DEF Pauses, Resumes
  <2>2. quest'.status # "FAILED"
    <3>1. quest.status # "FAILED"
      BY <1>1, <1>9 DEF Pauses, Resumes, LegacyOwned, ConsentStatuses
    <3> QED
      BY <1>2, <3>1 DEF UnderWay
  <2>3. ~Terminal => /\ sweepNow' = 0
                     /\ \A w \in Workers : Pending(w)' => proof'[w].sentAt <= now'
    BY <2>1 DEF WaitInv, Pending
  <2> QED
    BY <1>3, <1>4, <2>1, <2>2, <2>3 DEF WaitInv
<1> QED
  BY <1>5, <1>6, <1>7, <1>8, <1>9 DEF Stays

\* Every step keeps the Proofs that wait.
LEMMA WaitKeeping ==
    ASSUME Known, EscrowInv, SharesFew, WaitInv, Moves, ~OthersStopApproval
    PROVE  WaitInv'
<1>1. CASE \/ Drafts \/ Publishes \/ Reshapes \/ Decides \/ Consents \/ TeamDone \/ CompletesV1
           \/ \E w \in Workers : Joins(w)
           \/ \E S \in SUBSET Workers, l \in Workers \union {NoWorker} : Selects(S, l)
           \/ \E pay \in Amounts, cut \in Amounts : Cancels(pay, cut)
           \/ \E split \in Amounts : Allocates(split)
  BY <1>1, NoReviewWaits
<1>2. CASE \E w \in Workers : PaysWorker(w) \/ PaysLate(w)
  BY <1>2, PaysWorkerWaits, PaysLateWaits
<1>3. CASE \E S \in SUBSET Workers : Fails(S) \/ FailsV1(S)
  BY <1>3, FailsWaits, FailsV1Waits
<1>4. CASE Releases \/ \E w \in Workers : Awarded(w)
  BY <1>4, HoldWaits
<1>5. CASE Stays
  BY <1>5, StaysWaits
<1> QED
  BY <1>1, <1>2, <1>3, <1>4, <1>5 DEF Moves

\* Nothing waits at first.
LEMMA WaitStarts == Init => WaitInv
<1> SUFFICES ASSUME Init PROVE WaitInv
  OBVIOUS
<1>1. quest.status = "NONE" /\ sweepNow = 0 /\ \A w \in Workers : proof[w].status = "NONE"
      /\ ledger.disputed = Nothing
  BY DEF Init, StateInit, WorkInit, Nothing
<1>2. SumOf(ledger.disputed) = 0
  BY <1>1, PaysAdd, NothingPays
<1> QED
  BY <1>1, <1>2 DEF WaitInv, Pending, Reviewable

\* A Proof that waits for its review can still be paid, as long as no other
\* Quest's Proof stops the approvals of a sweep that goes on to the releases.
THEOREM WaitingSafe ==
    ASSUME ~OthersStopApproval
    PROVE  Spec => []WaitingProofIsCovered
<1>1. Known /\ EscrowInv /\ SharesFew /\ WaitInv /\ [Next]_vars => WaitInv'
  <2> SUFFICES ASSUME Known, EscrowInv, SharesFew, WaitInv, [Next]_vars PROVE WaitInv'
    OBVIOUS
  <2>1. CASE Next
    <3>1. Moves
      BY <2>1, KnownSteps
    <3> QED
      BY <3>1, WaitKeeping
  <2>2. CASE UNCHANGED vars
    BY <2>2 DEF WaitInv, Unswept, vars, stateVars, rosterVars, moneyVars, workVars, Terminal, Pending, Reviewable,
                GroupCandidate, Active, AssignmentsWith, SumOf, LegacyReviewable, LegacyOwners, SentInTime
  <2> QED
    BY <2>1, <2>2
<1>2. Known /\ EscrowInv /\ SharesFew /\ WaitInv => WaitingProofIsCovered
  BY WaitingCovered
<1> QED
  BY <1>1, <1>2, WaitStarts, KnownKeeps, EscrowKeeps, SharesKeeps, PTL DEF Spec
=============================================================================
