---------------------------- MODULE QuestRosters ----------------------------
(***************************************************************************)
(* How a Quest gets its Workers by the v1 API: direct joins, applications, *)
(* and Teams that grow by invitations.  The v1 commands look at the state  *)
(* of the Quest but not at its start time; the direct join does not ask    *)
(* for the API version of the Quest either.  With the v2 candidates it     *)
(* extends, the Quests of one day, of both APIs, compete for the same      *)
(* Workers.                                                                *)
(***************************************************************************)
EXTENDS QuestCandidates

CONSTANT InvitationLife    \* how long an invitation can be accepted

ASSUME InvitationAssumption == InvitationLife \in Nat

VARIABLE invitation        \* when the pending invitation to t of m expires, 0 without one

InvitationRows == [Members -> Nat]

InvitationTypeOK == invitation \in [Teams -> InvitationRows]

InvitationInit == invitation = [t \in Teams |-> [m \in Members |-> 0]]

-----------------------------------------------------------------------------
(* Applications and direct joins *)

Takes(q, form) == Unlocked(q) /\ quest[q].form = form

\* createApplication: once per Worker.
CreateApplication(q, m) ==
    /\ Takes(q, "APPLICATION")
    /\ application[q][m] = "NONE"
    /\ application' = [application EXCEPT ![q][m] = "APPLIED"]
    /\ UNCHANGED <<now, quest, team, submitted, assignment, taking>>

\* withdrawApplication
WithdrawOwnApplication(q, m) ==
    Takes(q, "APPLICATION") /\ AnswerApplication(q, m, "WITHDRAWN")

\* joinNoCandidateQuest, by the stored mode that a v2 Quest has as well.
JoinDirect(q, m) ==
    /\ quest[q].form \in {"DIRECT", "JOIN"}
    /\ Cardinality(Active(q)) < Headcount[q]
    /\ Take(q, {m}, "JOIN", 0)

\* selectCandidate with an application.
SelectCandidateApplication(q, m) ==
    /\ quest[q].form = "APPLICATION"
    /\ application[q][m] = "APPLIED"
    /\ Take(q, {m}, "APPLY", m)

-----------------------------------------------------------------------------
(* Teams and their invitations *)

TakesInvited(t) == Takes(team[t].quest, "INVITATION")
Forming(t) == TakesInvited(t) /\ team[t].state = "FORMING"

\* ensureNoMembership
NoMembership(q, m) ==
    \A t \in Teams : team[t].quest = q => m \notin MembersOf(t)

\* createTeam: any size; it counts when the Team is submitted.
CreateInvitedTeam(t, m) ==
    LET q == team[t].quest
    IN  /\ TakesInvited(t)
        /\ team[t].state = "NONE"
        /\ NoMembership(q, m)
        /\ team' = [team EXCEPT ![t] = [quest |-> q, state |-> "FORMING", leader |-> m,
                        members |-> <<m>>, size |-> Headcount[q], code |-> 0]]
        /\ UNCHANGED <<now, quest, application, submitted, assignment, taking, invitation>>

\* createInvitation
Invite(t, m) ==
    /\ Forming(t)
    /\ m # team[t].leader
    /\ invitation[t][m] = 0
    /\ NoMembership(team[t].quest, m)
    /\ invitation' = [invitation EXCEPT ![t][m] = now + InvitationLife]
    /\ UNCHANGED vars

\* revokeInvitation
RevokeInvitation(t, m) ==
    /\ Forming(t)
    /\ invitation[t][m] # 0
    /\ invitation' = [invitation EXCEPT ![t][m] = 0]
    /\ UNCHANGED vars

\* What respondToInvitation asks of an invitation, accepted or declined.
Answerable(t, m) == Forming(t) /\ now < invitation[t][m]

\* Mutant: another Team that the Member joined meanwhile is not looked for.
AcceptAnyInvitation(t, m) ==
    /\ Answerable(t, m) /\ m \notin MembersOf(t)
    /\ team' = [team EXCEPT ![t].members = Append(@, m)]
    /\ invitation' = [invitation EXCEPT ![t][m] = 0]
    /\ UNCHANGED <<now, quest, application, submitted, assignment, taking>>

\* acceptInvitation
AcceptInvitation(t, m) ==
    /\ Answerable(t, m)
    /\ NoMembership(team[t].quest, m)
    /\ team' = [team EXCEPT ![t].members = Append(@, m)]
    /\ invitation' = [invitation EXCEPT ![t][m] = 0]
    /\ UNCHANGED <<now, quest, application, submitted, assignment, taking>>

\* declineInvitation
DeclineInvitation(t, m) ==
    /\ Answerable(t, m)
    /\ invitation' = [invitation EXCEPT ![t][m] = 0]
    /\ UNCHANGED vars

\* leaveTeam: the last one disbands the Team and revokes its invitations.
LeaveInvitedTeam(t, m) ==
    /\ Forming(t)
    /\ m \in MembersOf(t)
    /\ team' = [team EXCEPT ![t] = Left(@, m)]
    /\ invitation' = IF MembersOf(t) = {m} THEN [invitation EXCEPT ![t] = [n \in Members |-> 0]]
                     ELSE invitation
    /\ UNCHANGED <<now, quest, application, submitted, assignment, taking>>

\* removeTeamMember
RemoveTeamMember(t, m) ==
    /\ Forming(t)
    /\ m \in MembersOf(t) \ {team[t].leader}
    /\ team' = [team EXCEPT ![t].members = Without(@, m)]
    /\ UNCHANGED <<now, quest, application, submitted, assignment, taking, invitation>>

\* submitTeam: exactly as many as the Quest asks for.
SubmitInvitedTeam(t) ==
    /\ Forming(t)
    /\ Len(team[t].members) = Headcount[team[t].quest]
    /\ team' = [team EXCEPT ![t].state = "SUBMITTED"]
    /\ submitted' = [submitted EXCEPT ![t] = MembersOf(t)]
    /\ UNCHANGED <<now, quest, application, assignment, taking, invitation>>

\* selectCandidate with a Team.
SelectCandidateTeam(t) ==
    /\ quest[team[t].quest].form = "INVITATION"
    /\ team[t].state = "SUBMITTED"
    /\ Len(team[t].members) = Headcount[team[t].quest]
    /\ Take(team[t].quest, MembersOf(t), "TEAM", t)

-----------------------------------------------------------------------------
(* New times for a Quest *)

\* editQuest of an OPEN Quest: nobody is on its roster, and no Candidate waits.
EditOpenTimes(q, s) ==
    /\ Unlocked(q) /\ quest[q].form \in V1Forms
    /\ Active(q) = {}
    /\ \A m \in Members : application[q][m] \notin {"APPLIED", "SELECTED"}
    /\ \A t \in Teams :
          team[t].quest = q => team[t].state \notin {"FORMING", "SUBMITTED", "SELECTED"}
    /\ slot' = [slot EXCEPT ![q] = s]
    /\ UNCHANGED <<vars, invitation, caught>>

\* applyConsentChanges, once everybody on the roster accepted: nobody looks at
\* their other Quests, or at who is about to get on one.
ApplyConsentedTimes(q, s) ==
    /\ taking[q] = Idle /\ quest[q].form \in V1Forms
    /\ quest[q].status = "ASSIGNED" /\ Active(q) # {}
    /\ slot' = [slot EXCEPT ![q] = s]
    /\ caught' = caught \union
           {c \in Active(q) \X {q} \X (Quests \ {q}) :
               c[1] \in Active(c[3]) \union taking[c[3]].workers}
    /\ UNCHANGED <<vars, invitation>>

EditsTimes ==
    \E q \in Quests, s \in Slots :
        \/ EditTimes(q, s) /\ UNCHANGED invitation
        \/ EditOpenTimes(q, s) \/ ApplyConsentedTimes(q, s)

ApplicationStep(q, m) ==
    /\ \/ CreateApplication(q, m) \/ WithdrawOwnApplication(q, m)
       \/ JoinDirect(q, m) \/ SelectCandidateApplication(q, m)
    /\ UNCHANGED invitation

InvitationStep(t, m) ==
    \/ CreateInvitedTeam(t, m) \/ Invite(t, m) \/ RevokeInvitation(t, m)
    \/ AcceptInvitation(t, m) \/ DeclineInvitation(t, m)
    \/ LeaveInvitedTeam(t, m) \/ RemoveTeamMember(t, m)

InvitedTeamStep(t) ==
    \/ \E m \in Members : InvitationStep(t, m)
    \/ SubmitInvitedTeam(t)
    \/ SelectCandidateTeam(t) /\ UNCHANGED invitation

-----------------------------------------------------------------------------
(* Both APIs *)

rosterVars == <<vars, invitation, timeVars>>

RowsTypeOK == CandidateTypeOK /\ InvitationTypeOK
TypeOK == RowsTypeOK /\ TimesTypeOK

Init == CandidateInit /\ InvitationInit /\ TimesInit

RowStep ==
    \/ /\ \/ Tick
          \/ \E q \in Quests : QuestStep(q)
          \/ \E q \in Quests, m \in Members : CandidateStep(q, m)
          \/ \E t \in Teams : TeamStep(t)
       /\ UNCHANGED invitation
    \/ \E q \in Quests, m \in Members : ApplicationStep(q, m)
    \/ \E t \in Teams : InvitedTeamStep(t)

Next ==
    \/ RowStep /\ UNCHANGED timeVars
    \/ EditsTimes

Spec == Init /\ [][Next]_rosterVars

-----------------------------------------------------------------------------
(* Properties *)

Bound(t) == team[t].state \notin {"NONE", "DISBANDED"}

\* A Member belongs to one Team for one Quest, and every Team is led by one of
\* its own: through joins by code, leaving, removals and changes of Leader.
OneTeamEach ==
    \A t, u \in Teams :
        Bound(t) =>
            /\ team[t].leader \in MembersOf(t)
            /\ Bound(u) /\ u # t /\ team[u].quest = team[t].quest =>
                  MembersOf(t) \intersect MembersOf(u) = {}

\* Nobody gets on the rosters of two Quests at the same time, even when two
\* Hirers choose the same Worker in the same moment, or an edit of one of them
\* lets him be chosen for another.  A Worker may only come to have two at a time
\* while he is, or is just getting, on both, when the roster of a v1 Quest
\* consents to new times.
NoDoubleBooking ==
    \A q \in Quests, m \in Members :
        assignment[q][m] = "ACTIVE" =>
            \A p \in Overlaps(q) :
                assignment[p][m] = "ACTIVE" => <<m, q, p>> \in caught \/ <<m, p, q>> \in caught

\* The roster of a Quest that took a Team is the roster its Leader submitted,
\* and once a Quest has its Workers no Candidate of it waits for an answer.
SelectionDecidesAll ==
    \A q \in Quests : quest[q].status = "ASSIGNED" =>
        /\ \A m \in Members : application[q][m] # "APPLIED"
        /\ \A t \in Teams : team[t].quest = q => team[t].state # "SUBMITTED"
        /\ quest[q].form \in {"TEAM", "INVITATION"} => \E t \in Teams :
              /\ team[t].quest = q /\ team[t].state = "SELECTED"
              /\ {m \in Members : assignment[q][m] # "NONE"} = submitted[t]
=============================================================================
