----------------------------- MODULE QuestSweep -----------------------------
(***************************************************************************)
(* The lifecycle worker over many Quests.  Every API process runs the same *)
(* sweep every ten seconds: for each kind of due work it reads the oldest  *)
(* BatchLimit rows and then handles them one transaction at a time, so what*)
(* a list says may be over when its item is reached.  What one item does   *)
(* inside its Quest is modelled in QuestLifecycle.                         *)
(***************************************************************************)
EXTENDS Integers, FiniteSets, Sequences, SequencesExt

CONSTANTS
    Quests, Processes,
    BatchLimit,
    MaxCrashes         \* bound on the crashes and failed transactions

ASSUME LimitAssumption == BatchLimit \in Nat \ {0}

VARIABLES
    stage,             \* how far a Quest is
    overdue,           \* those past their due time and not ended, the first due first
    lastProof,             \* the Proof of a Quest that was sent last
    waiting,           \* the Quests whose Proof waits for a review, the first sent first
    awarded,           \* those whose Escrow lost the money of that Proof to an award
    held,              \* the Quests with a money hold, the oldest first
    released,          \* the Quests whose Escrow the sweep released
    notified,          \* the Quests with disputeWindowClosedNotifiedAt
    sweep,             \* of each process: the phase and what it still has to do
    reports,           \* how often each Quest was reported released, or noticed
    crashes

vars ==
    <<stage, overdue, lastProof, waiting, awarded, held, released, notified, sweep, reports, crashes>>

\* Past its due time a Quest is LATE if a Worker did not do his part, and
\* WAITING if only the review of a Proof is missing.  HELD and later: it ended
\* with a money hold that is young, older than the window to file a Dispute
\* Case, or due for its release.
Ages == <<"HELD", "WINDOW_OVER", "RELEASABLE">>
Stages == {"WORK", "LATE", "WAITING", "DONE"} \union Range(Ages)
Phases == <<"APPROVE", "FAIL", "RELEASE", "CLOSE">>

TypeOK ==
    /\ stage \in [Quests -> Stages]
    /\ lastProof \in [Quests -> {"NONE", "SENT", "DUE", "REVIEWED"}]
    /\ overdue \in Seq(Quests) /\ waiting \in Seq(Quests) /\ held \in Seq(Quests)
    /\ awarded \subseteq Quests /\ released \subseteq Quests /\ notified \subseteq Quests
    /\ sweep \in [Processes -> [phase: {"IDLE"} \union Range(Phases),
                                todo: Seq(Quests), now: SUBSET Quests]]
    /\ reports \in [release: [Quests -> Nat], notice: [Quests -> Nat]]
    /\ crashes \in 0 .. MaxCrashes

Idle == [phase |-> "IDLE", todo |-> <<>>, now |-> {}]

Init ==
    /\ stage = [q \in Quests |-> "WORK"]
    /\ lastProof = [q \in Quests |-> "NONE"]
    /\ overdue = <<>> /\ waiting = <<>> /\ held = <<>>
    /\ awarded = {} /\ released = {} /\ notified = {}
    /\ sweep = [p \in Processes |-> Idle]
    /\ reports = [release |-> [q \in Quests |-> 0], notice |-> [q \in Quests |-> 0]]
    /\ crashes = 0

IsHeld(q) == stage[q] \in Range(Ages)

\* What the sweeps record of a Quest, and what Members and the clock change.
sweepVars == <<released, notified, sweep, reports, crashes>>
questVars == <<stage, overdue, lastProof, waiting, awarded, held>>

-----------------------------------------------------------------------------
(* Time *)

\* The part of a Worker who sent no Proof is missing, or only the review is.
PassesDueTime(q) ==
    /\ stage[q] = "WORK"
    /\ \E s \in {"LATE", "WAITING"} :
          /\ s = "WAITING" => lastProof[q] \in {"SENT", "DUE"}
          /\ stage' = [stage EXCEPT ![q] = s]
    /\ overdue' = Append(overdue, q)
    /\ UNCHANGED <<lastProof, waiting, awarded, held, sweepVars>>

\* A Proof has waited for a day, the first sent first.
ReviewFallsDue(q) ==
    /\ lastProof[q] = "SENT"
    /\ \A i, j \in 1 .. Len(waiting) :
           waiting[j] = q /\ i < j => lastProof[waiting[i]] = "DUE"
    /\ lastProof' = [lastProof EXCEPT ![q] = "DUE"]
    /\ UNCHANGED <<stage, overdue, waiting, awarded, held, sweepVars>>

\* The older hold gets older first, and a Proof of its Quest, which was sent
\* before it, has been due for longer.
AgeOf(q) == CHOOSE i \in 1 .. Len(Ages) : Ages[i] = stage[q]

HoldAges(q) ==
    /\ stage[q] \in {"HELD", "WINDOW_OVER"} /\ lastProof[q] # "SENT"
    /\ \A i, j \in 1 .. Len(held) :
           held[j] = q /\ i < j => AgeOf(held[i]) > AgeOf(q)
    /\ stage' = [stage EXCEPT ![q] = Ages[AgeOf(q) + 1]]
    /\ UNCHANGED <<overdue, lastProof, waiting, awarded, held, sweepVars>>

-----------------------------------------------------------------------------
(* What Members do beside the sweeps *)

SendsProof(q) ==
    /\ stage[q] = "WORK" /\ lastProof[q] = "NONE"
    /\ lastProof' = [lastProof EXCEPT ![q] = "SENT"]
    /\ waiting' = Append(waiting, q)
    /\ UNCHANGED <<stage, overdue, awarded, held, sweepVars>>

\* The Proof is decided, and its Quest goes on to s.
Reviewed(q, s) ==
    /\ lastProof' = [lastProof EXCEPT ![q] = "REVIEWED"]
    /\ waiting' = SelectSeq(waiting, LAMBDA r : r # q)
    /\ stage' = [stage EXCEPT ![q] = s]
    /\ overdue' = IF s = "LATE" THEN overdue ELSE SelectSeq(overdue, LAMBDA r : r # q)
    /\ held' = IF s = "HELD" /\ ~IsHeld(q) THEN Append(held, q) ELSE held
    /\ UNCHANGED awarded

\* The Escrow pays no Proof whose money was awarded, or that was released.
Payable(q) == q \notin awarded /\ q \notin released

\* An approval completes the Quest if it was the last thing missing.
Approved(q) ==
    /\ q \in Range(waiting) /\ Payable(q)
    /\ \E s \in CASE stage[q] = "WORK"    -> {"WORK", "DONE"}
                  [] stage[q] = "WAITING" -> {"DONE"}
                  [] OTHER                -> {stage[q]} :
          Reviewed(q, s)

HirerApproves(q) == Approved(q) /\ UNCHANGED sweepVars

\* A refusal fails the Quest, unless each Worker is reviewed alone and others
\* still have their part to do.
HirerRefuses(q) ==
    /\ q \in Range(waiting)
    /\ \E s \in CASE stage[q] \in {"WORK", "LATE"} -> {stage[q], "HELD"}
                  [] stage[q] = "WAITING"          -> {"HELD"}
                  [] OTHER                         -> {stage[q]} :
          Reviewed(q, s)
    /\ UNCHANGED sweepVars

\* An award of a Dispute Case to a Worker whose Proof still waits.
AwardsPendingProof(q) ==
    /\ IsHeld(q) /\ q \in Range(waiting) /\ q \notin released
    /\ awarded' = awarded \union {q}
    /\ UNCHANGED <<stage, overdue, lastProof, waiting, held, sweepVars>>

-----------------------------------------------------------------------------
(* The lists of due work, each in the order of its query *)

Oldest(due) == SubSeq(due, 1, IF Len(due) < BatchLimit THEN Len(due) ELSE BatchLimit)

\* Mutant: the Proof that was sent last comes first.
NewestApprovals == Reverse(SelectSeq(waiting, LAMBDA q : lastProof[q] = "DUE"))

\* autoApproveDueQuestV2Proofs
DueApprovals == SelectSeq(waiting, LAMBDA q : lastProof[q] = "DUE")

\* failDueAtQuestV2Proofs: whatever is past its due time and has not ended,
\* also when nobody's part is missing.
DueFailures == overdue

\* dueMoneyHoldReleaseIds: every hold that was old enough when the sweep
\* started, released or not.
DueReleases(p) == SelectSeq(held, LAMBDA q : q \in sweep[p].now)

\* Mutant: Quests whose window was closed stay in the list.
EveryClosedWindow == SelectSeq(held, LAMBDA q : stage[q] \in {"WINDOW_OVER", "RELEASABLE"})

\* dueDisputeWindowCloseIds: only those nobody was told about.
DueNotices ==
    SelectSeq(held, LAMBDA q : stage[q] \in {"WINDOW_OVER", "RELEASABLE"} /\ q \notin notified)

DueIn(p, phase) ==
    CASE phase = "APPROVE"  -> DueApprovals
      [] phase = "FAIL"     -> DueFailures
      [] phase = "RELEASE"  -> DueReleases(p)
      [] phase = "CLOSE"    -> DueNotices

Enter(p, phase, instant) ==
    sweep' = [sweep EXCEPT ![p] =
                 [phase |-> phase, todo |-> Oldest(DueIn(p, phase)), now |-> instant]]

\* The scheduler's tick, unless the process still sweeps.
StartSweep(p) ==
    /\ sweep[p].phase = "IDLE"
    /\ Enter(p, "APPROVE", {q \in Quests : stage[q] = "RELEASABLE"})
    /\ UNCHANGED <<questVars, released, notified, reports, crashes>>

\* A list is read when the one before it is done.
NextPhase(p) ==
    /\ sweep[p].phase # "IDLE" /\ sweep[p].todo = <<>>
    /\ \/ \E i \in 1 .. Len(Phases) - 1 :
              sweep[p].phase = Phases[i] /\ Enter(p, Phases[i + 1], sweep[p].now)
       \/ sweep[p].phase = "CLOSE" /\ sweep' = [sweep EXCEPT ![p] = Idle]
    /\ UNCHANGED <<questVars, released, notified, reports, crashes>>

-----------------------------------------------------------------------------
(* One item, looked at again under the lock of its Quest *)

IsNext(p, phase, q) ==
    /\ sweep[p].phase = phase
    /\ sweep[p].todo # <<>>
    /\ Head(sweep[p].todo) = q

Takes(p, phase, q) ==
    /\ IsNext(p, phase, q)
    /\ sweep' = [sweep EXCEPT ![p].todo = Tail(@)]

\* The loops over approvals and failures of v2 Quests end with the first
\* transaction that throws; of every other list only its item is lost.
AfterThrow(p) ==
    sweep' = [sweep EXCEPT ![p].todo =
                 IF sweep[p].phase \in {"APPROVE", "FAIL"} THEN <<>> ELSE Tail(@)]

\* reviewQuestV2ProofSubmissionCommand in the name of the Hirer: of a Proof
\* that was reviewed meanwhile it is refused.
ApprovesProof(p, q) ==
    /\ Takes(p, "APPROVE", q)
    /\ IF q \in Range(waiting) THEN Approved(q) ELSE UNCHANGED questVars
    /\ UNCHANGED <<released, notified, reports, crashes>>

\* The settlement finds too little money in the Escrow.
ApprovalThrows(p, q) ==
    /\ IsNext(p, "APPROVE", q)
    /\ q \in Range(waiting) /\ ~Payable(q)
    /\ AfterThrow(p)
    /\ UNCHANGED <<questVars, released, notified, reports, crashes>>

\* failQuestV2AtDueAt
FailsQuest(p, q) ==
    /\ Takes(p, "FAIL", q)
    /\ IF stage[q] = "LATE"
          THEN /\ stage' = [stage EXCEPT ![q] = "HELD"]
               /\ held' = Append(held, q)
               /\ overdue' = SelectSeq(overdue, LAMBDA r : r # q)
          ELSE UNCHANGED <<stage, held, overdue>>
    /\ UNCHANGED <<lastProof, waiting, awarded, released, notified, reports, crashes>>

\* Mutant: the status of the Escrow is not read; releasing again is harmless
\* for the money, but reports the Quest once more.
ReleasesAgain(p, q) ==
    /\ Takes(p, "RELEASE", q)
    /\ released' = released \union {q}
    /\ reports' = [reports EXCEPT !.release[q] = @ + 1]
    /\ UNCHANGED <<questVars, notified, crashes>>

\* releaseMoneyHold
ReleasesHold(p, q) ==
    /\ Takes(p, "RELEASE", q)
    /\ IF q \in released
          THEN UNCHANGED <<released, reports>>
          ELSE /\ released' = released \union {q}
               /\ reports' = [reports EXCEPT !.release[q] = @ + 1]
    /\ UNCHANGED <<questVars, notified, crashes>>

\* closeDisputeWindow
ClosesWindow(p, q) ==
    /\ Takes(p, "CLOSE", q)
    /\ IF q \in notified
          THEN UNCHANGED <<notified, reports>>
          ELSE /\ notified' = notified \union {q}
               /\ reports' = [reports EXCEPT !.notice[q] = @ + 1]
    /\ UNCHANGED <<questVars, released, crashes>>

\* A transaction fails for a reason of the moment, or the process dies within
\* its sweep and starts over.
Crashes(p) ==
    /\ crashes < MaxCrashes
    /\ sweep[p].phase # "IDLE"
    /\ \/ sweep' = [sweep EXCEPT ![p] = Idle]
       \/ sweep[p].todo # <<>> /\ AfterThrow(p)
    /\ crashes' = crashes + 1
    /\ UNCHANGED <<questVars, released, notified, reports>>

Works(p) ==
    \/ StartSweep(p) \/ NextPhase(p)
    \/ \E q \in Quests :
          \/ ApprovesProof(p, q) \/ ApprovalThrows(p, q) \/ FailsQuest(p, q)
          \/ ReleasesHold(p, q) \/ ClosesWindow(p, q)

MemberSteps ==
    \E q \in Quests :
        \/ SendsProof(q) \/ HirerApproves(q) \/ HirerRefuses(q)
        \/ AwardsPendingProof(q)

Next ==
    \/ \E p \in Processes : Works(p) \/ Crashes(p)
    \/ MemberSteps
    \/ \E q \in Quests : PassesDueTime(q) \/ ReviewFallsDue(q) \/ HoldAges(q)

\* setInterval starts sweeps for ever, an awaited query returns, and a Proof
\* that nobody reviews gets a day old.
Spec ==
    /\ Init /\ [][Next]_vars
    /\ \A p \in Processes : WF_vars(Works(p))
    /\ WF_vars(\E q \in Quests : ReviewFallsDue(q))

-----------------------------------------------------------------------------
(* Properties *)

\* However many processes sweep at once, a release is reported once and the end
\* of the window to file a Dispute Case is announced once.
DoneOnce == \A q \in Quests : reports.release[q] <= 1 /\ reports.notice[q] <= 1

\* A Proof that cannot be paid is due and comes before the one of q, or is its.
Stopped(q) ==
    \E i, j \in 1 .. Len(waiting) :
        /\ waiting[j] = q /\ i <= j
        /\ lastProof[waiting[i]] = "DUE" /\ ~Payable(waiting[i])

\* Proofs that nobody reviewed for a day are approved, unless one that cannot
\* be paid was sent before.  Late Quests have failed, unless so many Quests as
\* a batch holds are due before them whose Proof such a one stops.  The end of
\* every window is announced, and the BatchLimit oldest holds are released
\* once they are old enough.
CaughtUp ==
    \A q \in Quests :
        /\ lastProof[q] = "DUE" => Stopped(q)
        /\ stage[q] = "LATE" =>
               \E j \in 1 .. Len(overdue) :
                   /\ overdue[j] = q /\ j > BatchLimit
                   /\ \A i \in 1 .. BatchLimit :
                         stage[overdue[i]] = "WAITING" /\ Stopped(overdue[i])
        /\ stage[q] \in {"WINDOW_OVER", "RELEASABLE"} => q \in notified
        /\ (\E i \in 1 .. Len(held) : i <= BatchLimit /\ held[i] = q /\ stage[q] = "RELEASABLE")
              => q \in released

\* Every hold that is old enough is released: the list of due releases keeps
\* the released Quests, so only the BatchLimit oldest ever are.
EveryHoldReleased == \A q \in Quests : stage[q] = "RELEASABLE" ~> q \in released
=============================================================================
