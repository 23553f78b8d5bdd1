-------------------------- MODULE QuestCandidates --------------------------
(***************************************************************************)
(* How the Quests of one day get their Workers by the v2 API: first come   *)
(* first served joins, applications, and Candidate Teams that form with a  *)
(* Join Code.  QuestRosters has the v1 API, over the same tables.          *)
(* Every command holds the lock of its Quest's row.  A command that puts   *)
(* Workers on a roster also locks those Workers' rows before it looks at   *)
(* their other Quests; it is two steps here, one when it has the locks and *)
(* has looked, one when it commits.                                        *)
(* A red flag of a Member or a hidden Quest makes some commands refuse; a   *)
(* step that is not taken stands for that.                                 *)
(***************************************************************************)
EXTENDS Integers, Sequences, SequencesExt, FiniteSets

CONSTANTS
    Members, NoMember, Quests, Teams,
    FormsOf,          \* the forms a Quest is created with
    Headcount,        \* of each Quest
    Slots,            \* the start and due times a Quest may have
    Clashes,          \* Clashes[s]: the slots that share time with s
    CodeLife,         \* how long a Join Code is valid
    MaxTime           \* when the Quests start

V2Forms == {"JOIN", "APPLY", "TEAM"}
V1Forms == {"DIRECT", "APPLICATION", "INVITATION"}
Forms == V1Forms \union V2Forms

ASSUME ScheduleAssumption ==
    /\ FormsOf \in [Quests -> SUBSET Forms]
    /\ Headcount \in [Quests -> Nat \ {0}]
    /\ Clashes \in [Slots -> SUBSET Slots]
    /\ \A s \in Slots : \A r \in Clashes[s] : s \in Clashes[s] /\ s \in Clashes[r]
    /\ MaxTime \in Nat /\ CodeLife \in Nat

VARIABLES
    now,
    quest,            \* status and form of each Quest
    application,      \* the row of each Member for each Quest
    team,             \* the Candidate Teams
    submitted,        \* the roster each Team was submitted with
    assignment,       \* Assignments of each Quest
    taking,           \* the command that is about to put Workers on a roster
    slot,             \* the times of each Quest
    caught            \* <<m, q, p>>: m was on the roster of q, and on or about to be
                      \* on the one of p, when q got new times (a history variable)

vars == <<now, quest, application, team, submitted, assignment, taking>>
timeVars == <<slot, caught>>

ApplicationStates == {"NONE", "APPLIED", "WITHDRAWN", "REJECTED", "SELECTED"}
TeamStates == {"NONE", "FORMING", "SUBMITTED", "REJECTED", "SELECTED", "DISBANDED"}

\* members are in the order they joined; code is when the Join Code expires,
\* 0 when there is none.
TeamRows == [quest: Quests, state: TeamStates, leader: Members \union {NoMember},
             members: Seq(Members), size: Nat, code: Nat]

\* by which kind of command, and the application or Team it chose.
Takings == [workers: SUBSET Members, by: {"NONE", "JOIN", "APPLY", "TEAM"},
            chosen: {0} \union Members \union Teams]

Idle == [workers |-> {}, by |-> "NONE", chosen |-> 0]

CandidateTypeOK ==
    /\ now \in 0 .. MaxTime
    /\ quest \in [Quests -> [status: {"OPEN", "ASSIGNED", "CANCELLED"},
                             form: Forms]]
    /\ application \in [Quests -> [Members -> ApplicationStates]]
    /\ team \in [Teams -> TeamRows]
    /\ submitted \in [Teams -> SUBSET Members]
    /\ assignment \in [Quests -> [Members -> {"NONE", "ACTIVE", "ENDED"}]]
    /\ taking \in [Quests -> Takings]

TimesTypeOK ==
    /\ slot \in [Quests -> Slots]
    /\ caught \subseteq Members \X Quests \X Quests

\* A slot without a due time clashes with none, and a v1 Quest may have one.
HasDueTime(s) == s \in Clashes[s]

TimesInit ==
    /\ slot \in [Quests -> Slots]
    /\ \A q \in Quests : quest[q].form \in V2Forms => HasDueTime(slot[q])
    /\ caught = {}

CandidateInit ==
    /\ now = 0
    /\ quest \in {f \in [Quests -> [status: {"OPEN"}, form: Forms]] :
                    \A q \in Quests : f[q].form \in FormsOf[q]}
    /\ application = [q \in Quests |-> [m \in Members |-> "NONE"]]
    /\ team \in [Teams -> [quest: Quests, state: {"NONE"}, leader: {NoMember},
                           members: {<<>>}, size: {0}, code: {0}]]
    /\ submitted = [t \in Teams |-> {}]
    /\ assignment = [q \in Quests |-> [m \in Members |-> "NONE"]]
    /\ taking = [q \in Quests |-> Idle]

Active(q) == {m \in Members : assignment[q][m] = "ACTIVE"}
MembersOf(t) == ToSet(team[t].members)

\* A Member is on a Team once.
Without(members, m) == RemoveAt(members, CHOOSE i \in DOMAIN members : members[i] = m)

\* The Quest row is free and the Quest OPEN; v2 also asks for the time.
Unlocked(q) == taking[q] = Idle /\ quest[q].status = "OPEN"
Open(q) == Unlocked(q) /\ now < MaxTime

Participated(q) ==
    \/ \E m \in Members : application[q][m] # "NONE" \/ assignment[q][m] # "NONE"
    \/ \E t \in Teams : team[t].quest = q /\ team[t].state # "NONE"

-----------------------------------------------------------------------------
(* The Hirer's Quest *)

\* Mutant: the edit does not look for Candidates.
EditAnyOpen(q, form) ==
    /\ Open(q)
    /\ {form, quest[q].form} \subseteq FormsOf[q] \intersect V2Forms
    /\ Active(q) = {}
    /\ quest' = [quest EXCEPT ![q].form = form]
    /\ UNCHANGED <<now, application, team, submitted, assignment, taking>>

\* editQuestV2InTransaction of an OPEN Quest: nobody took part yet.  A v1
\* Quest keeps its form.
EditForm(q, form) ==
    /\ Open(q)
    /\ {form, quest[q].form} \subseteq FormsOf[q] \intersect V2Forms
    /\ ~Participated(q)
    /\ quest' = [quest EXCEPT ![q].form = form]
    /\ UNCHANGED <<now, application, team, submitted, assignment, taking>>

\* Mutant: the edit does not look for Workers or Candidates.
EditTimesAnyOpen(q, s) ==
    /\ Open(q) /\ quest[q].form \in V2Forms /\ HasDueTime(s)
    /\ slot' = [slot EXCEPT ![q] = s]
    /\ UNCHANGED <<vars, caught>>

\* The same edit, of the times; it leaves a v2 Quest with a due time.
EditTimes(q, s) ==
    /\ Open(q) /\ quest[q].form \in V2Forms /\ HasDueTime(s)
    /\ ~Participated(q)
    /\ slot' = [slot EXCEPT ![q] = s]
    /\ UNCHANGED <<vars, caught>>

\* A Worker's part in q ends: completed, failed, or cancelled with the Quest.
EndWork(q, m) ==
    /\ taking[q] = Idle
    /\ quest[q].status = "ASSIGNED"
    /\ assignment[q][m] = "ACTIVE"
    /\ assignment' = [assignment EXCEPT ![q][m] = "ENDED"]
    /\ UNCHANGED <<now, quest, application, team, submitted, taking>>

\* Candidates keep their state when the Quest is cancelled under them.
CancelOpenQuest(q) ==
    /\ taking[q] = Idle
    /\ quest[q].status = "OPEN"
    /\ quest' = [quest EXCEPT ![q].status = "CANCELLED"]
    /\ assignment' = [assignment EXCEPT ![q] =
           [m \in Members |-> IF assignment[q][m] = "ACTIVE" THEN "ENDED" ELSE assignment[q][m]]]
    /\ UNCHANGED <<now, application, team, submitted, taking>>

Tick ==
    /\ now < MaxTime
    /\ \A q \in Quests : taking[q] = Idle
    /\ now' = now + 1
    /\ UNCHANGED <<quest, application, team, submitted, assignment, taking>>

-----------------------------------------------------------------------------
(* Applications *)

\* createQuestV2CandidateApplication: once per Member, whatever became of it.
Apply(q, m) ==
    /\ Open(q)
    /\ quest[q].form = "APPLY"
    /\ application[q][m] = "NONE"
    /\ application' = [application EXCEPT ![q][m] = "APPLIED"]
    /\ UNCHANGED <<now, quest, team, submitted, assignment, taking>>

AnswerApplication(q, m, state) ==
    /\ application[q][m] = "APPLIED"
    /\ application' = [application EXCEPT ![q][m] = state]
    /\ UNCHANGED <<now, quest, team, submitted, assignment, taking>>

\* withdrawQuestV2CandidateApplication
WithdrawApplication(q, m) ==
    Open(q) /\ quest[q].form = "APPLY" /\ AnswerApplication(q, m, "WITHDRAWN")

\* rejectQuestV2CandidateApplication, of a roster that keeps others waiting.
RejectApplication(q, m) ==
    Open(q) /\ quest[q].form = "APPLY" /\ AnswerApplication(q, m, "REJECTED")

-----------------------------------------------------------------------------
(* Candidate Teams *)

TakesTeams(q) == Open(q) /\ quest[q].form = "TEAM"

\* Mutant: a Team that was submitted does not count.
OnFormingTeam(q, m) ==
    \E t \in Teams : team[t].quest = q /\ team[t].state = "FORMING" /\ m \in MembersOf(t)

\* hasTeamMembership: a Team the Hirer refused still binds its Members.
HasTeam(q, m) ==
    \E t \in Teams :
        team[t].quest = q /\ team[t].state \notin {"NONE", "DISBANDED"} /\ m \in MembersOf(t)

\* hasActiveAssignment
Free(q, m) == assignment[q][m] # "ACTIVE" /\ ~HasTeam(q, m)

\* createQuestV2CandidateTeam
CreateTeam(t, m, size) ==
    LET q == team[t].quest
    IN  /\ TakesTeams(q)
        /\ team[t].state = "NONE"
        /\ size \in 2 .. Headcount[q]
        /\ Free(q, m)
        /\ team' = [team EXCEPT ![t] = [quest |-> q, state |-> "FORMING", leader |-> m,
                        members |-> <<m>>, size |-> size, code |-> now + CodeLife]]
        /\ UNCHANGED <<now, quest, application, submitted, assignment, taking>>

\* joinCandidateTeam, by the Team's id or by its Join Code alone.
JoinTeam(t, m) ==
    LET q == team[t].quest
    IN  /\ TakesTeams(q)
        /\ team[t].state = "FORMING"
        /\ now < team[t].code
        /\ Len(team[t].members) < team[t].size
        /\ Free(q, m)
        /\ team' = [team EXCEPT ![t].members = Append(@, m)]
        /\ UNCHANGED <<now, quest, application, submitted, assignment, taking>>

\* The row of a Team that m leaves: the earliest of those who stay follows a
\* Leader, and the last one disbands the Team.
Left(row, m) ==
    LET rest == Without(row.members, m)
    IN  [quest |-> row.quest, members |-> rest, size |-> row.size,
         state |-> IF rest = <<>> THEN "DISBANDED" ELSE row.state,
         leader |-> IF row.leader = m /\ rest # <<>> THEN rest[1] ELSE row.leader,
         code |-> IF rest = <<>> THEN 0 ELSE row.code]

\* leaveOrRemoveTeamMember: m leaves, or the Leader removes m.
LeaveTeam(t, m, actor) ==
    /\ TakesTeams(team[t].quest)
    /\ team[t].state = "FORMING"
    /\ m \in MembersOf(t)
    /\ actor = m \/ (actor = team[t].leader /\ actor # m)
    /\ team' = [team EXCEPT ![t] = Left(@, m)]
    /\ UNCHANGED <<now, quest, application, submitted, assignment, taking>>

\* regenerateQuestV2CandidateTeamJoinCode
RenewCode(t) ==
    /\ TakesTeams(team[t].quest)
    /\ team[t].state = "FORMING"
    /\ team' = [team EXCEPT ![t].code = now + CodeLife]
    /\ UNCHANGED <<now, quest, application, submitted, assignment, taking>>

\* submitQuestV2CandidateTeam: a full Team, from then on unchangeable.
SubmitTeam(t) ==
    /\ TakesTeams(team[t].quest)
    /\ team[t].state = "FORMING"
    /\ Len(team[t].members) = team[t].size
    /\ team' = [team EXCEPT ![t].state = "SUBMITTED", ![t].code = 0]
    /\ submitted' = [submitted EXCEPT ![t] = MembersOf(t)]
    /\ UNCHANGED <<now, quest, application, assignment, taking>>

\* rejectQuestV2CandidateTeam
RejectTeam(t) ==
    /\ TakesTeams(team[t].quest)
    /\ team[t].state = "SUBMITTED"
    /\ team' = [team EXCEPT ![t].state = "REJECTED"]
    /\ UNCHANGED <<now, quest, application, submitted, assignment, taking>>

-----------------------------------------------------------------------------
(* Workers get on the roster *)

\* Mutant: the Workers' rows are not locked.
NoWorkerLock(W) == TRUE

\* The SELECT ... FOR UPDATE on the Workers, in the order of their ids; a
\* Quest without a due time locks none.
WorkersUnlocked(W) ==
    \A q \in Quests : HasDueTime(slot[q]) => taking[q].workers \intersect W = {}

Overlaps(q) == {p \in Quests \ {q} : slot[p] \in Clashes[slot[q]]}

\* hasOverlappingActiveWorkerAssignment, under the Workers' locks.
NoConflict(q, W) ==
    HasDueTime(slot[q]) =>
        /\ WorkersUnlocked(W)
        /\ \A p \in Overlaps(q) : Active(p) \intersect W = {}

\* The checks of joinQuestV2 and runQuestV2Selection: W get their Assignments
\* when the command commits.
Take(q, W, by, chosen) ==
    /\ Unlocked(q)
    /\ \A m \in W : assignment[q][m] = "NONE"
    /\ NoConflict(q, W)
    /\ taking' = [taking EXCEPT ![q] = [workers |-> W, by |-> by, chosen |-> chosen]]
    /\ UNCHANGED <<now, quest, application, team, submitted, assignment>>

\* joinQuestV2
Join(q, m) ==
    /\ Open(q) /\ quest[q].form = "JOIN"
    /\ Cardinality(Active(q)) < Headcount[q]
    /\ Take(q, {m}, "JOIN", 0)

\* selectQuestV2CandidateApplication
SelectApplication(q, m) ==
    /\ Open(q) /\ quest[q].form = "APPLY"
    /\ application[q][m] = "APPLIED"
    /\ Take(q, {m}, "APPLY", m)

\* Mutant: a Team that is full need not have been submitted.
SelectFull(t) ==
    /\ TakesTeams(team[t].quest)
    /\ team[t].state \in {"FORMING", "SUBMITTED"}
    /\ Len(team[t].members) = team[t].size
    /\ Take(team[t].quest, MembersOf(t), "TEAM", t)

\* selectQuestV2CandidateTeam
SelectTeam(t) ==
    /\ TakesTeams(team[t].quest)
    /\ team[t].state = "SUBMITTED"
    /\ Len(team[t].members) = team[t].size
    /\ Take(team[t].quest, MembersOf(t), "TEAM", t)

\* flipCandidateRecords: every other submitted Team loses.
FlipTeams(q, c) ==
    [t \in Teams |->
        IF c.by # "TEAM" \/ team[t].quest # q \/ team[t].state # "SUBMITTED" THEN team[t]
        ELSE [team[t] EXCEPT !.state = IF t = c.chosen THEN "SELECTED" ELSE "REJECTED"]]

\* The same for the applications.
FlipApplications(q, c) ==
    [application EXCEPT ![q] =
        [m \in Members |->
            IF c.by = "JOIN" \/ application[q][m] # "APPLIED" THEN application[q][m]
            ELSE IF c.by = "APPLY" /\ m = c.chosen THEN "SELECTED" ELSE "REJECTED"]]

\* The command commits; the roster is complete when it was selected, or when a
\* join took the last slot.
CommitTake(q) ==
    LET c == taking[q]
    IN  /\ c # Idle
        /\ assignment' = [assignment EXCEPT ![q] =
               [m \in Members |-> IF m \in c.workers THEN "ACTIVE" ELSE assignment[q][m]]]
        /\ team' = FlipTeams(q, c)
        /\ application' = FlipApplications(q, c)
        /\ quest' = IF c.by # "JOIN" \/ Cardinality(Active(q)) + 1 = Headcount[q]
                    THEN [quest EXCEPT ![q].status = "ASSIGNED"] ELSE quest
        /\ taking' = [taking EXCEPT ![q] = Idle]
        /\ UNCHANGED <<now, submitted>>

\* The process dies, or a step of it throws: nothing of it stays.
AbortTake(q) ==
    /\ taking[q] # Idle
    /\ taking' = [taking EXCEPT ![q] = Idle]
    /\ UNCHANGED <<now, quest, application, team, submitted, assignment>>

CandidateStep(q, m) ==
    \/ Apply(q, m)
    \/ WithdrawApplication(q, m) \/ RejectApplication(q, m)
    \/ SelectApplication(q, m) \/ Join(q, m) \/ EndWork(q, m)

TeamStep(t) ==
    \/ \E m \in Members : JoinTeam(t, m) \/ LeaveTeam(t, m, m) \/ LeaveTeam(t, m, team[t].leader)
    \/ \E m \in Members, size \in 1 .. Cardinality(Members) : CreateTeam(t, m, size)
    \/ RenewCode(t) \/ SubmitTeam(t) \/ RejectTeam(t) \/ SelectTeam(t)

QuestStep(q) ==
    \/ CommitTake(q) \/ AbortTake(q) \/ CancelOpenQuest(q)
    \/ \E form \in Forms : EditForm(q, form)
=============================================================================
