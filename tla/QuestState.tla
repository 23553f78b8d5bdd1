----------------------------- MODULE QuestState -----------------------------
(***************************************************************************)
(* One Quest of the v1 or the v2 API: its row, its roster, its Quest       *)
(* Escrow and the clock.  Every command locks the Quest row first and runs *)
(* in one transaction, so an action is a whole command; a command that     *)
(* throws rolls back, so what makes it throw is a guard.                   *)
(***************************************************************************)
EXTENDS Integers, FiniteSets, FiniteSetsExt, Functions

CONSTANTS
    Workers, NoWorker,
    Kinds,             \* the mode, participation, headcount and Proof of a Quest
    Conditions,        \* what a Quest may ask of its Workers
    Reward, Fee,       \* per Worker slot, in satang
    CancelPercent,     \* of the reward pool, when an assigned Quest is cancelled
    StartTime, DueAt,
    MaxTime            \* bound on the clock

ASSUME ClockAssumption ==
    /\ StartTime \in Nat /\ DueAt \in Nat /\ MaxTime \in Nat
    /\ StartTime < DueAt /\ DueAt < MaxTime

KindRows == [mode: {"FCFS", "CANDIDATE"}, participation: {"SINGLE", "GROUP"},
             headcount: Nat \ {0}, proofRequired: BOOLEAN]

ASSUME KindsAssumption == Kinds \subseteq KindRows

\* quest_reward_check: nobody works for nothing; the Platform Fee may be zero.
ASSUME PricesAssumption ==
    /\ IsFiniteSet(Workers) /\ NoWorker \notin Workers
    /\ Reward \in Nat \ {0} /\ Fee \in Nat /\ CancelPercent \in Nat

VARIABLES
    now,
    quest,             \* the row of quest
    assignment,        \* status of each Worker's row of quest_assignment
    rank,              \* the order the Workers were assigned in, 0 for none
    started,           \* the Workers with a startedAt
    leader,            \* Leader of the TEAM_SELECTED Candidate Team
    escrow,            \* the Quest Escrow, a Funding Reservation
    ledger             \* what left the Quest Escrow, and where it went

rosterVars == <<assignment, rank, started, leader>>
moneyVars == <<escrow, ledger>>
stateVars == <<now, quest, rosterVars, moneyVars>>

QuestStatuses == {"NONE", "DRAFT", "OPEN", "AWAITING_CONSENT", "ASSIGNED", "IN_PROGRESS",
                  "SUBMITTED", "APPROVED", "REWORK", "COMPLETED", "CANCELLED", "FAILED"}
AssignmentStatuses == {"NONE", "ACTIVE", "COMPLETED", "INCOMPLETE", "CANCELLED"}

Times == 0 .. MaxTime
Never == -1

\* A Quest keeps the API version it was created with.
QuestRows == [apiVersion: {"v1", "v2"}, status: QuestStatuses, kind: KindRows,
              hidden: BOOLEAN, condition: Conditions, holdSince: Times \union {Never}]

StateTypeOK ==
    /\ now \in Times
    /\ quest \in QuestRows
    /\ assignment \in [Workers -> AssignmentStatuses]
    /\ rank \in [Workers -> 0 .. Cardinality(Workers)]
    /\ started \subseteq Workers
    /\ leader \in Workers \union {NoWorker}
    /\ escrow \in [status: {"NONE", "ACTIVE", "SETTLED", "RELEASED"}, remaining: Int]
    /\ ledger \in [paid: [Workers -> Int], disputed: [Workers -> Int],
                   fees: Int, refunded: Int]

StateInit ==
    /\ now = 0
    /\ quest \in [apiVersion: {"v1", "v2"}, status: {"NONE"}, kind: Kinds,
                  hidden: {FALSE}, condition: Conditions, holdSince: {Never}]
    /\ assignment = [w \in Workers |-> "NONE"]
    /\ rank = [w \in Workers |-> 0]
    /\ started = {}
    /\ leader = NoWorker
    /\ escrow = [status |-> "NONE", remaining |-> 0]
    /\ ledger = [paid |-> [w \in Workers |-> 0], disputed |-> [w \in Workers |-> 0],
                 fees |-> 0, refunded |-> 0]

-----------------------------------------------------------------------------
(* The roster *)

GroupFcfs == quest.kind.mode = "FCFS" /\ quest.kind.participation = "GROUP"
GroupCandidate == quest.kind.mode = "CANDIDATE" /\ quest.kind.participation = "GROUP"

AssignmentsWith(s) == {w \in Workers : assignment[w] = s}
Active == AssignmentsWith("ACTIVE")

\* The Assignments of S that are still ACTIVE get status s.
EndAssignments(S, s) ==
    assignment' = [w \in Workers |->
        IF w \in S /\ assignment[w] = "ACTIVE" THEN s ELSE assignment[w]]

-----------------------------------------------------------------------------
(* The states of a Quest *)

\* The states a v1 Quest pauses in for an edit, and returns to.
ConsentStatuses == {"ASSIGNED", "IN_PROGRESS", "SUBMITTED", "APPROVED", "REWORK"}

AllowedPredecessors == [s \in QuestStatuses |->
    (IF s \in ConsentStatuses THEN {"AWAITING_CONSENT"} ELSE {}) \union
    CASE s = "OPEN"             -> {"DRAFT"}
      [] s = "AWAITING_CONSENT" -> ConsentStatuses
      [] s = "ASSIGNED"         -> {"OPEN"}
      [] s = "IN_PROGRESS"      -> {"ASSIGNED"}
      [] s = "SUBMITTED"        -> {"IN_PROGRESS", "REWORK"}
      [] s = "APPROVED"         -> {"IN_PROGRESS", "SUBMITTED", "REWORK"}
      [] s = "REWORK"           -> {"SUBMITTED", "REWORK"}
      [] s = "COMPLETED"        -> {"IN_PROGRESS", "APPROVED"}
      [] s = "CANCELLED"        -> {"DRAFT", "OPEN", "ASSIGNED", "IN_PROGRESS"}
      [] s = "FAILED"           -> ConsentStatuses
      [] OTHER                  -> {}]

\* Entering a state that owes the Hirer returned funding starts the money hold.
TerminalStamp(to, holdRemainder) ==
    IF to = "FAILED" \/ (to = "COMPLETED" /\ holdRemainder) THEN now ELSE quest.holdSince

\* applyQuestStateTransition
EnterState(to, holdRemainder) ==
    /\ quest.status \in AllowedPredecessors[to]
    /\ quest' = [quest EXCEPT !.status = to, !.holdSince = TerminalStamp(to, holdRemainder)]

MoneyHoldOpen == quest.holdSince # Never

-----------------------------------------------------------------------------
(* The Quest Escrow *)

Slot == Reward + Fee
RewardPool == Reward * quest.kind.headcount
FeePool == Fee * quest.kind.headcount
PublishedEscrow == RewardPool + FeePool

Nothing == [w \in Workers |-> 0]
SumOf(f) == SumFunctionOnSet(f, Workers)

\* remainderSplitSatang: even shares, the leftover satang to the first items.
EvenShare(pool, n, position) ==
    pool \div n + (IF position <= pool % n THEN 1 ELSE 0)

\* Each Worker w gets pay[w] and costs the fee cut[w]; what is left goes back
\* to the Hirer when the caller releases the Escrow too.
SettleEscrow(pay, cut, released) ==
    LET left == escrow.remaining - SumOf(pay) - SumOf(cut)
    IN  /\ escrow.status = "ACTIVE"
        /\ left >= 0
        /\ escrow' = [status    |-> IF left = 0 THEN "SETTLED"
                                    ELSE IF released THEN "RELEASED" ELSE "ACTIVE",
                      remaining |-> IF released THEN 0 ELSE left]
        /\ ledger' = [ledger EXCEPT
               !.paid = [w \in Workers |-> ledger.paid[w] + pay[w]],
               !.fees = ledger.fees + SumOf(cut),
               !.refunded = ledger.refunded + (IF released THEN left ELSE 0)]

ReleaseEscrow == SettleEscrow(Nothing, Nothing, TRUE)

\* reserveSpending under the Quest's id.
ReserveEscrow ==
    /\ escrow.status = "NONE"
    /\ escrow' = [status |-> "ACTIVE", remaining |-> PublishedEscrow]

\* What every cancellation does once it knows what the Workers get: pay them,
\* return the rest, end the active Assignments and close the Quest.
CancelQuest(pay, cut) ==
    /\ SettleEscrow(pay, cut, TRUE)
    /\ EndAssignments(Active, "CANCELLED")
    /\ EnterState("CANCELLED", FALSE)

Tick ==
    /\ now < MaxTime
    /\ now' = now + 1
    /\ UNCHANGED <<quest, rosterVars, moneyVars>>
=============================================================================
