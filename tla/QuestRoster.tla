---------------------------- MODULE QuestRoster ----------------------------
(***************************************************************************)
(* A Quest from its draft to the start of work: drafting, publishing,      *)
(* joining, selecting, the underfilled decision and the start of each      *)
(* Worker.                                                                 *)
(***************************************************************************)
EXTENDS QuestState

CONSTANTS UnderfilledWindow    \* to decide, and again to consent

ASSUME UnderfilledAssumption == UnderfilledWindow \in Nat

VARIABLE underfilled           \* the row of quest_v2_underfilled_decision

DecisionStates == {"NONE", "DECISION_PENDING", "CONSENT_PENDING",
                   "COMPLETED", "CANCELLED"}

\* asked has a consent row each; accepted are the ones that said ACCEPT.
DecisionRows == [state: DecisionStates, expiresAt: Nat,
                 asked: SUBSET Workers, accepted: SUBSET Workers]

RosterTypeOK == underfilled \in DecisionRows

RosterInit ==
    underfilled = [state |-> "NONE", expiresAt |-> 0, asked |-> {}, accepted |-> {}]

-----------------------------------------------------------------------------
(* The Hirer prepares the Quest *)

ValidKind(k) ==
    IF k.participation = "SINGLE" THEN k.headcount = 1 ELSE k.headcount \in 2 .. 20

\* createQuestV2
CreateQuest(k, c) ==
    /\ quest.status = "NONE"
    /\ ValidKind(k)
    /\ now < StartTime
    /\ quest' = [quest EXCEPT !.status = "DRAFT", !.kind = k, !.condition = c]
    /\ UNCHANGED <<now, rosterVars, moneyVars, underfilled>>

\* Mutant: an OPEN Quest may be edited into one with another headcount.
EditQuestAnyHeadcount(k, c) ==
    /\ quest.status \in {"DRAFT", "OPEN"}
    /\ ValidKind(k)
    /\ quest.status = "OPEN" => now < StartTime /\ \A w \in Workers : assignment[w] = "NONE"
    /\ quest' = [quest EXCEPT !.kind = k, !.condition = c]
    /\ UNCHANGED <<now, rosterVars, moneyVars, underfilled>>

\* normalizeEditInput: an edit names at least one field, and may name it as it is.
NamesChange(k, c) == <<k, c>> # <<quest.kind, quest.condition>>

\* An OPEN Quest is edited only before its start, with nobody on its roster,
\* and keeps the headcount that was funded.
Editable(k) ==
    /\ quest.status \in {"DRAFT", "OPEN"}
    /\ ValidKind(k)
    /\ quest.status = "OPEN" =>
           /\ now < StartTime
           /\ \A w \in Workers : assignment[w] = "NONE"
           /\ k.headcount = quest.kind.headcount

\* editQuestV2
EditQuest(k, c) ==
    /\ NamesChange(k, c)
    /\ Editable(k)
    /\ quest' = [quest EXCEPT !.kind = k, !.condition = c]
    /\ UNCHANGED <<now, rosterVars, moneyVars, underfilled>>

\* buildQuestV2PublishCheck, of what a Quest that starts too late fails.
StartsInTime == now < StartTime

\* buildQuestV2PublishCheckForRow; the Wallet it also reads is not this Quest's.
Publishable == quest.status = "DRAFT" /\ StartsInTime

\* publishQuestV2: the Escrow is reserved in the transaction that opens it.
PublishQuest ==
    /\ Publishable
    /\ EnterState("OPEN", FALSE)
    /\ ReserveEscrow
    /\ UNCHANGED <<now, rosterVars, ledger, underfilled>>

-----------------------------------------------------------------------------
(* Workers get on the roster *)

\* What the Quest board shows, and a join checks again under the lock.
OnBoard == quest.status = "OPEN" /\ ~quest.hidden /\ now < StartTime

\* joinQuestV2: whoever takes the last slot assigns the Quest.
JoinQuest(w) ==
    /\ quest.kind.mode = "FCFS"
    /\ assignment[w] = "NONE"
    /\ OnBoard
    /\ Cardinality(Active) < quest.kind.headcount
    /\ assignment' = [assignment EXCEPT ![w] = "ACTIVE"]
    /\ rank' = [rank EXCEPT ![w] = Cardinality(Active) + 1]
    /\ IF Cardinality(Active) + 1 = quest.kind.headcount
          THEN EnterState("ASSIGNED", FALSE)
          ELSE UNCHANGED quest
    /\ UNCHANGED <<now, started, leader, moneyVars, underfilled>>

\* A Candidate Team chooses its own headcount, up to that of the Quest.
FitsQuest(n) ==
    IF quest.kind.participation = "GROUP" THEN n \in 2 .. quest.kind.headcount ELSE n = 1

\* runQuestV2Selection with one Candidate, or with the Team a Leader submitted
\* (CandidateTeams).
SelectCandidates(S, l) ==
    /\ quest.status = "OPEN"
    /\ quest.kind.mode = "CANDIDATE"
    /\ FitsQuest(Cardinality(S))
    /\ IF quest.kind.participation = "GROUP" THEN l \in S ELSE l = NoWorker
    /\ now < StartTime
    /\ \A w \in S : assignment[w] = "NONE"
    /\ assignment' = [w \in Workers |-> IF w \in S THEN "ACTIVE" ELSE assignment[w]]
    /\ rank' = [w \in Workers |-> IF w \in S THEN 1 ELSE rank[w]]
    /\ leader' = l
    /\ EnterState("ASSIGNED", FALSE)
    /\ UNCHANGED <<now, started, moneyVars, underfilled>>

\* Who has to start: every Worker of a roster, of a Candidate Team its Leader.
RequiredStarters == IF GroupCandidate THEN Active \intersect {leader} ELSE Active

\* startQuestWork: the last required Worker puts the Quest in progress.
StartWorkUntil(dueAt, w) ==
    /\ quest.status = "ASSIGNED"
    /\ StartTime <= now /\ now <= dueAt
    /\ w \in RequiredStarters \ started
    /\ started' = started \union {w}
    /\ IF RequiredStarters \subseteq started'
          THEN EnterState("IN_PROGRESS", FALSE)
          ELSE UNCHANGED quest
    /\ UNCHANGED <<now, assignment, rank, leader, moneyVars, underfilled>>

StartWork(w) == StartWorkUntil(DueAt, w)

-----------------------------------------------------------------------------
(* Too few Workers at the start *)

DueUnderfilled ==
    /\ GroupFcfs
    /\ quest.status = "OPEN"
    /\ StartTime <= now
    /\ Active # {} /\ Cardinality(Active) < quest.kind.headcount

\* The row as every command finds it: whoever comes first creates it.
Decision ==
    IF underfilled.state = "NONE" /\ DueUnderfilled
    THEN [state |-> "DECISION_PENDING", expiresAt |-> StartTime + UnderfilledWindow,
          asked |-> Active, accepted |-> {}]
    ELSE underfilled

Underfilled == Decision.state # "NONE"
DecisionPending == Decision.state \in {"DECISION_PENDING", "CONSENT_PENDING"}
DecisionExpired == DecisionPending /\ Decision.expiresAt <= now

\* cancelUnderfilledInTransaction: a Quest that is still OPEN goes with it.
CancelUnderfilled ==
    /\ underfilled' = [Decision EXCEPT !.state = "CANCELLED"]
    /\ IF quest.status = "OPEN"
          THEN CancelQuest(Nothing, Nothing)
          ELSE UNCHANGED <<quest, assignment, moneyVars>>
    /\ UNCHANGED <<now, rank, started, leader>>

\* detectQuestV2Underfilled of the sweep, before anything else happens.
DetectUnderfilled ==
    /\ underfilled.state = "NONE" /\ DueUnderfilled
    /\ underfilled' = Decision
    /\ UNCHANGED stateVars

\* expireQuestV2Underfilled, and every command that comes too late.
ExpireUnderfilled ==
    /\ DecisionExpired
    /\ CancelUnderfilled

\* A read finds the Quest moved on while the decision was pending.
AbandonUnderfilled ==
    /\ DecisionPending
    /\ quest.status # "OPEN"
    /\ CancelUnderfilled

\* decideQuestV2Underfilled
DecideUnderfilled(proceed) ==
    /\ quest.status = "OPEN"
    /\ Decision.state = "DECISION_PENDING"
    /\ ~DecisionExpired
    /\ IF proceed
          THEN /\ underfilled' = [Decision EXCEPT !.state = "CONSENT_PENDING",
                                                  !.expiresAt = now + UnderfilledWindow]
               /\ UNCHANGED stateVars
          ELSE CancelUnderfilled

\* Mutant: the first consent is enough.
FirstConsentDecides(w, accept) ==
    /\ quest.status = "OPEN"
    /\ w \in Active \intersect Decision.asked
    /\ Decision.state = "CONSENT_PENDING"
    /\ ~DecisionExpired
    /\ accept
    /\ underfilled' = [Decision EXCEPT !.accepted = {w}, !.state = "COMPLETED"]
    /\ EnterState("ASSIGNED", FALSE)
    /\ UNCHANGED <<now, rosterVars, moneyVars>>

\* respondToQuestV2Underfilled: once per Worker, and one DECLINE ends it.
RespondToUnderfilled(w, accept) ==
    /\ quest.status = "OPEN"
    /\ w \in Active \intersect Decision.asked
    /\ Decision.state = "CONSENT_PENDING"
    /\ ~DecisionExpired
    /\ w \notin Decision.accepted
    /\ \/ /\ ~accept
          /\ CancelUnderfilled
       \/ /\ accept
          /\ Decision.accepted \union {w} = Decision.asked
          /\ underfilled' = [Decision EXCEPT !.accepted = Decision.asked,
                                             !.state = "COMPLETED"]
          /\ EnterState("ASSIGNED", FALSE)
          /\ UNCHANGED <<now, rosterVars, moneyVars>>
       \/ /\ accept
          /\ Decision.accepted \union {w} # Decision.asked
          /\ underfilled' = [Decision EXCEPT !.accepted = Decision.accepted \union {w}]
          /\ UNCHANGED stateVars

\* cancelUnfilledQuest: the sweep found nobody to ask.
AutoCancelUnfilled ==
    /\ quest.status = "OPEN"
    /\ StartTime <= now
    /\ ~Underfilled
    /\ CancelQuest(Nothing, Nothing)
    /\ UNCHANGED <<now, rank, started, leader, underfilled>>

-----------------------------------------------------------------------------
(* What a Worker's slot is worth: the published terms, or an even share of  *)
(* them when an incomplete roster agreed to do the whole Quest.             *)

Shared == GroupFcfs /\ underfilled.state = "COMPLETED"
Shares == Cardinality(underfilled.accepted)

RewardOf(w) == IF Shared THEN EvenShare(RewardPool, Shares, rank[w]) ELSE Reward
FeeOf(w) == IF Shared THEN EvenShare(FeePool, Shares, rank[w]) ELSE Fee

Rewards(S) == [w \in Workers |-> IF w \in S THEN RewardOf(w) ELSE 0]
Fees(S) == [w \in Workers |-> IF w \in S THEN FeeOf(w) ELSE 0]

\* The Leader of a Candidate Team stands for every slot.
LeaderReward == [w \in Workers |-> IF w = leader THEN RewardPool ELSE 0]
LeaderFee == [w \in Workers |-> IF w = leader THEN FeePool ELSE 0]

\* unpaidSlotSatang
SlotsOf(S) == SumOf(Rewards(S)) + SumOf(Fees(S))

HirerStep ==
    \/ \E k \in Kinds, c \in Conditions : CreateQuest(k, c) \/ EditQuest(k, c)
    \/ PublishQuest
    \/ \E S \in SUBSET Workers, l \in Workers \union {NoWorker} : SelectCandidates(S, l)
    \/ \E proceed \in BOOLEAN : DecideUnderfilled(proceed)

RosterStep ==
    \/ HirerStep
    \/ \E w \in Workers : JoinQuest(w) \/ StartWork(w)
    \/ \E w \in Workers, accept \in BOOLEAN : RespondToUnderfilled(w, accept)
    \/ DetectUnderfilled \/ ExpireUnderfilled \/ AbandonUnderfilled
    \/ AutoCancelUnfilled
=============================================================================
