------------------------- MODULE QuestRosterProofs -------------------------
(***************************************************************************)
(* Theorems about QuestRosters, for any Members, Quests, Teams and any     *)
(* schedule of the Quests.                                                 *)
(*                                                                         *)
(* Every step is one of a few things seen from the tables (Effect): it     *)
(* answers an application, changes the row of one Team, locks Workers,     *)
(* commits or aborts, or touches one Quest.  The properties follow from    *)
(* that and from one inductive invariant.                                  *)
(*                                                                         *)
(* Then theorems about the transactions those commands are (QuestCommands),*)
(* for any Clients, Commands and Keys, and about the lists in which Quests,*)
(* conversations and the program's other rows are shown page by page       *)
(* (PagedLists), for any rows, pages and changes.                          *)
(***************************************************************************)
EXTENDS QuestRosters, QuestCommands, PagedLists, SequenceTheorems, FiniteSetTheorems,
        TLAPS

-----------------------------------------------------------------------------
(* Rows of Members *)

\* A Member who joins follows those on the Team.
LEMMA AppendFacts ==
    ASSUME NEW S, NEW s \in Seq(S), NEW x \in S
    PROVE  /\ Append(s, x) \in Seq(S)
           /\ ToSet(Append(s, x)) = ToSet(s) \union {x}
<1>1. /\ Append(s, x) \in Seq(S)
      /\ DOMAIN Append(s, x) = 1 .. Len(s) + 1
      /\ \A i \in 1 .. Len(s) : Append(s, x)[i] = s[i]
      /\ Append(s, x)[Len(s) + 1] = x
      /\ DOMAIN s = 1 .. Len(s) /\ Len(s) \in Nat
  OBVIOUS
<1>2. \A i \in 1 .. Len(s) + 1 : i \in 1 .. Len(s) \/ i = Len(s) + 1
  BY <1>1
<1>3. \A i \in 1 .. Len(s) : i \in 1 .. Len(s) + 1
  BY <1>1
<1>4. Len(s) + 1 \in 1 .. Len(s) + 1
  BY <1>1
<1> QED
  BY <1>1, <1>2, <1>3, <1>4, Zenon DEF ToSet

\* Who leaves takes nobody else along.
LEMMA WithoutFacts ==
    ASSUME NEW S, NEW s \in Seq(S), NEW m \in ToSet(s)
    PROVE  /\ Without(s, m) \in Seq(S)
           /\ ToSet(Without(s, m)) \subseteq ToSet(s)
           /\ \A x \in ToSet(s) : x # m => x \in ToSet(Without(s, m))
           /\ Without(s, m) # <<>> => Without(s, m)[1] \in ToSet(Without(s, m))
<1> DEFINE i == CHOOSE j \in DOMAIN s : s[j] = m
           rest == RemoveAt(s, i)
<1>1. i \in 1 .. Len(s) /\ s[i] = m
  BY DEF ToSet
<1>2. Len(s) \in Nat /\ DOMAIN s = 1 .. Len(s)
  OBVIOUS
<1> HIDE DEF i
<1>3. /\ rest \in Seq(S) /\ Len(rest) = Len(s) - 1
      /\ \A j \in 1 .. Len(s) - 1 : rest[j] = IF j < i THEN s[j] ELSE s[j + 1]
  <2> DEFINE front == SubSeq(s, 1, i - 1)
             back == SubSeq(s, i + 1, Len(s))
  <2>1. /\ front \in Seq(S) /\ Len(front) = i - 1
        /\ \A j \in 1 .. i - 1 : front[j] = s[j]
    <3>1. \A j \in 1 .. i - 1 : s[j] \in S
      BY <1>1, <1>2
    <3>2. /\ front \in Seq(S) /\ Len(front) = IF 1 <= i - 1 THEN i - 1 - 1 + 1 ELSE 0
          /\ \A j \in 1 .. i - 1 - 1 + 1 : front[j] = s[1 + j - 1]
      BY <1>1, <3>1, SubSeqProperties
    <3> QED
      BY <1>1, <3>2
  <2>2. /\ back \in Seq(S) /\ Len(back) = Len(s) - i
        /\ \A j \in 1 .. Len(s) - i : back[j] = s[i + j]
    <3>1. \A j \in i + 1 .. Len(s) : s[j] \in S
      BY <1>1, <1>2
    <3>2. /\ back \in Seq(S)
          /\ Len(back) = IF i + 1 <= Len(s) THEN Len(s) - (i + 1) + 1 ELSE 0
          /\ \A j \in 1 .. Len(s) - (i + 1) + 1 : back[j] = s[(i + 1) + j - 1]
      BY <1>1, <1>2, <3>1, SubSeqProperties
    <3>3. /\ i + 1 <= Len(s) => Len(s) - (i + 1) + 1 = Len(s) - i
          /\ ~(i + 1 <= Len(s)) => 0 = Len(s) - i
          /\ Len(s) - (i + 1) + 1 = Len(s) - i
      <4>1. ASSUME NEW n \in Nat, NEW k \in 1 .. n
            PROVE  /\ k + 1 <= n => n - (k + 1) + 1 = n - k
                   /\ ~(k + 1 <= n) => 0 = n - k
                   /\ n - (k + 1) + 1 = n - k
        OBVIOUS
      <4> QED
        BY <1>1, <1>2, <4>1
    <3>4. \A j \in 1 .. Len(s) - i : (i + 1) + j - 1 = i + j
      BY <1>1, <1>2
    <3> HIDE DEF back
    <3>5. Len(back) = Len(s) - i
      BY <3>2, <3>3
    <3>6. \A j \in 1 .. Len(s) - i : back[j] = s[i + j]
      BY <3>2, <3>3, <3>4, Zenon
    <3> QED
      BY <3>2, <3>5, <3>6
  <2> HIDE DEF front, back
  <2>3. /\ rest = front \o back
        /\ rest \in Seq(S) /\ Len(rest) = Len(front) + Len(back)
        /\ \A j \in 1 .. Len(front) + Len(back) :
              rest[j] = IF j <= Len(front) THEN front[j] ELSE back[j - Len(front)]
    BY <2>1, <2>2, ConcatProperties DEF rest, RemoveAt, front, back
  <2>4. ASSUME NEW j \in 1 .. Len(s) - 1
        PROVE  rest[j] = IF j < i THEN s[j] ELSE s[j + 1]
    <3>1. CASE j < i
      BY <1>1, <1>2, <2>1, <2>2, <2>3, <3>1
    <3>2. CASE ~(j < i)
      <4>1. j - (i - 1) \in 1 .. Len(s) - i /\ i + (j - (i - 1)) = j + 1
        BY <1>1, <1>2, <3>2
      <4>2. rest[j] = back[j - (i - 1)]
        BY <1>1, <1>2, <2>1, <2>2, <2>3, <3>2
      <4> QED
        BY <2>2, <3>2, <4>1, <4>2
    <3> QED
      BY <3>1, <3>2
  <2> QED
    BY <1>1, <1>2, <2>1, <2>2, <2>3, <2>4
<1> HIDE DEF rest
<1>4. DOMAIN rest = 1 .. Len(s) - 1
  BY <1>3
<1>5. ASSUME NEW x \in ToSet(rest) PROVE x \in ToSet(s)
  <2>1. PICK j \in 1 .. Len(s) - 1 : rest[j] = x
    BY <1>4 DEF ToSet
  <2>2. x = s[j] \/ x = s[j + 1]
    BY <1>3, <2>1
  <2>3. j \in 1 .. Len(s) /\ j + 1 \in 1 .. Len(s)
    BY <1>2
  <2> QED
    BY <1>2, <2>2, <2>3 DEF ToSet
<1>6. ASSUME NEW x \in ToSet(s), x # m PROVE x \in ToSet(rest)
  <2>1. PICK j \in 1 .. Len(s) : s[j] = x
    BY <1>2 DEF ToSet
  <2>2. CASE j < i
    <3>1. j \in 1 .. Len(s) - 1 /\ rest[j] = s[j]
      BY <1>1, <1>2, <1>3, <2>1, <2>2
    <3> QED
      BY <1>4, <2>1, <3>1 DEF ToSet
  <2>3. CASE j > i
    <3>1. j - 1 \in 1 .. Len(s) - 1 /\ rest[j - 1] = s[j]
      BY <1>1, <1>2, <1>3, <2>1, <2>3
    <3> QED
      BY <1>4, <2>1, <3>1 DEF ToSet
  <2> QED
    BY <1>1, <1>6, <2>1, <2>2, <2>3
<1>7. rest # <<>> => rest[1] \in ToSet(rest)
  <2>1. rest # <<>> => 1 \in DOMAIN rest
    BY <1>3
  <2> QED
    BY <2>1 DEF ToSet
<1> QED
  BY <1>3, <1>5, <1>6, <1>7 DEF Without, rest, i

-----------------------------------------------------------------------------
(* The inductive invariant *)

JoinForms == {"JOIN", "DIRECT"}
ApplyForms == {"APPLY", "APPLICATION"}
TeamForms == {"TEAM", "INVITATION"}

\* No Worker is locked by two commands, and whoever works for a Quest, or is
\* about to, does so for another one at the same time only if he was caught by
\* new times.
Workforce(q) == Active(q) \union taking[q].workers

Locked(q) == IF HasDueTime(slot[q]) THEN taking[q].workers ELSE {}

WasCaught(m, q, p) == <<m, q, p>> \in caught \/ <<m, p, q>> \in caught

LocksInv ==
    /\ \A q, p \in Quests : p # q => Locked(q) \intersect Locked(p) = {}
    /\ \A q \in Quests : \A p \in Overlaps(q) :
          \A m \in Workforce(q) \intersect Workforce(p) : WasCaught(m, q, p)

\* A command that has its locks is of the kind its Quest asks for, and the
\* Team it chose is still the one that was submitted.
Justified(q) ==
    /\ quest[q].status = "OPEN"
    /\ \/ taking[q].by = "JOIN" /\ quest[q].form \in JoinForms
       \/ taking[q].by = "APPLY" /\ quest[q].form \in ApplyForms
       \/ /\ taking[q].by = "TEAM" /\ quest[q].form \in TeamForms
          /\ taking[q].chosen \in Teams
          /\ team[taking[q].chosen].quest = q
          /\ team[taking[q].chosen].state = "SUBMITTED"
          /\ taking[q].workers = submitted[taking[q].chosen]

TakingInv == \A q \in Quests : taking[q] # Idle => Justified(q)

\* A Quest that selects has no Worker before its selection, and only the
\* Candidates of its form.
FormInv ==
    /\ \A q \in Quests, m \in Members :
          /\ quest[q].status = "OPEN" /\ assignment[q][m] # "NONE" => quest[q].form \in JoinForms
          /\ application[q][m] # "NONE" => quest[q].form \in ApplyForms
    /\ \A t \in Teams : team[t].state # "NONE" => quest[team[t].quest].form \in TeamForms

\* The roster of a Team does not change once it is submitted.
SubmittedInv ==
    \A t \in Teams :
        team[t].state \in {"SUBMITTED", "SELECTED"} => submitted[t] = MembersOf(t)

RosterInv ==
    /\ RowsTypeOK /\ TimesTypeOK /\ OneTeamEach /\ LocksInv /\ TakingInv
    /\ FormInv /\ SubmittedInv /\ SelectionDecidesAll

-----------------------------------------------------------------------------
(* What a step does to the tables *)

Quiet == UNCHANGED <<quest, application, team, submitted, assignment, taking>>

\* An application of an unlocked Quest changes.
ChangesApplication(q, m) ==
    /\ Unlocked(q) /\ quest[q].form \in ApplyForms
    /\ \E state \in ApplicationStates : application' = [application EXCEPT ![q][m] = state]
    /\ UNCHANGED <<quest, team, submitted, assignment, taking>>

\* The row of a Team of an unlocked Quest changes.
RowBecomes(t, entry) ==
    /\ Unlocked(team[t].quest) /\ quest[team[t].quest].form \in TeamForms
    /\ entry.quest = team[t].quest
    /\ team' = [team EXCEPT ![t] = entry]
    /\ UNCHANGED <<quest, application, assignment, taking>>

\* Whoever is new on the Team has no other.
Gathers(t, entry) ==
    /\ RowBecomes(t, entry) /\ submitted' = submitted
    /\ team[t].state \in {"NONE", "FORMING"} /\ entry.state = "FORMING"
    /\ entry.leader \in ToSet(entry.members)
    /\ \A x \in ToSet(entry.members) :
          ~HasTeam(team[t].quest, x) \/ (team[t].state = "FORMING" /\ x \in MembersOf(t))

Disbands(t, entry) ==
    /\ RowBecomes(t, entry) /\ submitted' = submitted
    /\ team[t].state = "FORMING" /\ entry.state = "DISBANDED"

SameTeam(t, entry) == entry.leader = team[t].leader /\ entry.members = team[t].members

IsSubmitted(t, entry) ==
    /\ RowBecomes(t, entry) /\ SameTeam(t, entry)
    /\ team[t].state = "FORMING" /\ entry.state = "SUBMITTED"
    /\ submitted' = [submitted EXCEPT ![t] = MembersOf(t)]

IsRejected(t, entry) ==
    /\ RowBecomes(t, entry) /\ SameTeam(t, entry) /\ submitted' = submitted
    /\ team[t].state = "SUBMITTED" /\ entry.state = "REJECTED"

ChangesTeam(t) ==
    \E entry \in TeamRows :
        Gathers(t, entry) \/ Disbands(t, entry) \/ IsSubmitted(t, entry) \/ IsRejected(t, entry)

\* A command gets its locks.
LocksWorkers(q) ==
    /\ Unlocked(q)
    /\ \E c \in Takings : NoConflict(q, c.workers) /\ taking' = [taking EXCEPT ![q] = c]
    /\ UNCHANGED <<quest, application, team, submitted, assignment>>
    /\ Justified(q)'

TouchesQuest(q) ==
    \/ CommitTake(q) \/ AbortTake(q) \/ CancelOpenQuest(q)
    \/ \E form \in Forms : EditForm(q, form)
    \/ \E m \in Members : EndWork(q, m)

Effect ==
    \/ Quiet
    \/ \E q \in Quests : LocksWorkers(q) \/ TouchesQuest(q)
    \/ \E q \in Quests, m \in Members : ChangesApplication(q, m)
    \/ \E t \in Teams : ChangesTeam(t)

Good == RowsTypeOK' /\ Effect

-----------------------------------------------------------------------------
(* One lemma per kind of command: it keeps the types and has one effect.   *)

\* The columns of a row.
LEMMA TeamFields ==
    ASSUME RowsTypeOK, NEW t \in Teams
    PROVE  /\ team[t] \in TeamRows /\ team[t].quest \in Quests
           /\ team[t].state \in TeamStates /\ team[t].leader \in Members \union {NoMember}
           /\ team[t].members \in Seq(Members) /\ team[t].size \in Nat /\ team[t].code \in Nat
BY DEF RowsTypeOK, CandidateTypeOK, TeamRows

\* A command on one Team keeps the types of all.
LEMMA TeamTyped ==
    ASSUME RowsTypeOK, NEW t \in Teams, NEW entry \in TeamRows,
           team' = [team EXCEPT ![t] = entry], UNCHANGED <<now, quest, application, assignment, taking>>,
           submitted' \in [Teams -> SUBSET Members], invitation' \in [Teams -> InvitationRows]
    PROVE  RowsTypeOK'
BY DEF RowsTypeOK, CandidateTypeOK, InvitationTypeOK

\* The Members on a Team are Members.
LEMMA MembersTyped ==
    ASSUME RowsTypeOK, NEW t \in Teams
    PROVE  MembersOf(t) \subseteq Members
<1>1. team[t].members \in Seq(Members)
  BY TeamFields
<1> QED
  BY <1>1 DEF MembersOf, ToSet

\* A Member joins a Team, or founds it.
LEMMA GathersTyped ==
    ASSUME RowsTypeOK, NEW t \in Teams, NEW entry \in TeamRows, Gathers(t, entry), now' = now,
           invitation' \in [Teams -> InvitationRows]
    PROVE  Good
<1>1. RowsTypeOK'
  BY TeamTyped DEF Gathers, RowBecomes, RowsTypeOK, CandidateTypeOK
<1> QED
  BY <1>1 DEF Good, Effect, ChangesTeam

\* createQuestV2CandidateTeam and createTeam found a Team.
LEMMA FoundsTeam ==
    ASSUME RowsTypeOK, NEW t \in Teams, NEW m \in Members, NEW size \in Nat, NEW code \in Nat,
           Unlocked(team[t].quest), quest[team[t].quest].form \in TeamForms,
           team[t].state = "NONE", ~HasTeam(team[t].quest, m),
           team' = [team EXCEPT ![t] = [quest |-> team[t].quest, state |-> "FORMING", leader |-> m,
                        members |-> <<m>>, size |-> size, code |-> code]],
           UNCHANGED <<now, quest, application, submitted, assignment, taking, invitation>>
    PROVE  Good
<1> DEFINE entry == [quest |-> team[t].quest, state |-> "FORMING", leader |-> m,
                   members |-> <<m>>, size |-> size, code |-> code]
<1>1. <<m>> \in Seq(Members) /\ ToSet(<<m>>) = {m}
  BY DEF ToSet
<1>2. /\ entry \in TeamRows /\ entry.state = "FORMING" /\ entry.leader = m /\ entry.members = <<m>>
      /\ entry.quest = team[t].quest
  BY <1>1, TeamFields DEF TeamRows, TeamStates
<1> HIDE DEF entry
<1>3. RowBecomes(t, entry)
  BY <1>2 DEF RowBecomes, entry
<1>4. Gathers(t, entry)
  BY <1>1, <1>2, <1>3 DEF Gathers
<1> QED
  BY <1>2, <1>4, GathersTyped DEF RowsTypeOK, InvitationTypeOK

\* joinCandidateTeam and acceptInvitation put a Member on a Team.
LEMMA JoinsTeam ==
    ASSUME RowsTypeOK, OneTeamEach, NEW t \in Teams, NEW m \in Members,
           Unlocked(team[t].quest), quest[team[t].quest].form \in TeamForms,
           team[t].state = "FORMING", ~HasTeam(team[t].quest, m),
           team' = [team EXCEPT ![t].members = Append(@, m)],
           UNCHANGED <<now, quest, application, submitted, assignment, taking>>,
           invitation' \in [Teams -> InvitationRows]
    PROVE  Good
<1> DEFINE members == Append(team[t].members, m)
           entry == [team[t] EXCEPT !.members = members]
<1>1. /\ members \in Seq(Members) /\ ToSet(members) = MembersOf(t) \union {m}
  BY TeamFields, AppendFacts DEF MembersOf
<1>2. team' = [team EXCEPT ![t] = entry]
  OBVIOUS
<1> HIDE DEF members
<1>3. /\ entry \in TeamRows /\ entry.state = team[t].state /\ entry.leader = team[t].leader
      /\ entry.members = members /\ entry.quest = team[t].quest
  BY <1>1, TeamFields DEF TeamRows
<1> HIDE DEF entry
<1>4. RowBecomes(t, entry)
  BY <1>2, <1>3 DEF RowBecomes
<1>5. team[t].leader \in MembersOf(t)
  BY DEF OneTeamEach, Bound
<1>6. Gathers(t, entry)
  BY <1>1, <1>3, <1>4, <1>5 DEF Gathers
<1> QED
  BY <1>3, <1>6, GathersTyped

\* Who leaves, or is removed, leaves a Team behind that its Leader still is on,
\* unless he was the last.
LEMMA LeavesTeam ==
    ASSUME RowsTypeOK, OneTeamEach, NEW t \in Teams, NEW m \in MembersOf(t), NEW entry,
           Unlocked(team[t].quest), quest[team[t].quest].form \in TeamForms,
           team[t].state = "FORMING",
           entry.quest = team[t].quest, entry \in TeamRows,
           entry.members = Without(team[t].members, m),
           \/ entry.state = "DISBANDED"
           \/ /\ entry.state = "FORMING"
              /\ \/ entry.leader = team[t].leader /\ team[t].leader # m
                 \/ entry.leader = entry.members[1] /\ entry.members # <<>>,
           team' = [team EXCEPT ![t] = entry],
           UNCHANGED <<now, quest, application, submitted, assignment, taking>>,
           invitation' \in [Teams -> InvitationRows]
    PROVE  Good
<1>1. team[t].members \in Seq(Members) /\ m \in ToSet(team[t].members)
  BY TeamFields DEF MembersOf
<1>2. /\ ToSet(entry.members) \subseteq MembersOf(t)
      /\ \A x \in MembersOf(t) : x # m => x \in ToSet(entry.members)
      /\ entry.members # <<>> => entry.members[1] \in ToSet(entry.members)
  BY <1>1, WithoutFacts DEF MembersOf
<1>3. team[t].leader \in MembersOf(t)
  BY DEF OneTeamEach, Bound
<1>4. RowBecomes(t, entry)
  BY DEF RowBecomes
<1>5. CASE entry.state = "DISBANDED"
  <2>1. Disbands(t, entry)
    BY <1>4, <1>5 DEF Disbands
  <2>2. RowsTypeOK'
    BY TeamTyped DEF RowsTypeOK, CandidateTypeOK
  <2> QED
    BY <2>1, <2>2 DEF Good, Effect, ChangesTeam
<1>6. CASE entry.state = "FORMING"
  <2>1. entry.leader \in ToSet(entry.members)
    BY <1>2, <1>3, <1>6
  <2>2. Gathers(t, entry)
    BY <1>2, <1>4, <1>6, <2>1 DEF Gathers
  <2> QED
    BY <2>2, GathersTyped
<1> QED
  BY <1>5, <1>6

\* leaveOrRemoveTeamMember, and leaveTeam of the v1 API.
LEMMA LeaveEffect ==
    ASSUME RowsTypeOK, OneTeamEach, NEW t \in Teams, NEW m \in Members,
           \/ \E actor \in Members \union {NoMember} : LeaveTeam(t, m, actor) /\ UNCHANGED invitation
           \/ LeaveInvitedTeam(t, m)
    PROVE  Good
<1> DEFINE rest == Without(team[t].members, m)
           entry == Left(team[t], m)
<1>1. /\ m \in MembersOf(t) /\ team[t].state = "FORMING"
      /\ Unlocked(team[t].quest) /\ quest[team[t].quest].form \in TeamForms
      /\ team' = [team EXCEPT ![t] = entry]
      /\ UNCHANGED <<now, quest, application, submitted, assignment, taking>>
  BY DEF LeaveTeam, TakesTeams, Open, LeaveInvitedTeam, Forming, TakesInvited, Takes, TeamForms
<1>2. invitation' \in [Teams -> InvitationRows]
  BY DEF LeaveInvitedTeam, RowsTypeOK, InvitationTypeOK, InvitationRows
<1>3. rest \in Seq(Members) /\ (rest # <<>> => rest[1] \in Members)
  BY <1>1, TeamFields, WithoutFacts DEF MembersOf
<1> HIDE DEF rest
<1>4. /\ entry \in TeamRows /\ entry.members = rest /\ entry.quest = team[t].quest
      /\ entry.state = IF rest = <<>> THEN "DISBANDED" ELSE "FORMING"
      /\ entry.leader = IF team[t].leader = m /\ rest # <<>> THEN rest[1] ELSE team[t].leader
  BY <1>1, <1>3, TeamFields DEF Left, TeamRows, TeamStates, rest
<1> HIDE DEF entry
<1> QED
  BY <1>1, <1>2, <1>4, LeavesTeam DEF rest

\* removeTeamMember
LEMMA RemoveTeamMemberEffect ==
    ASSUME RowsTypeOK, OneTeamEach, NEW t \in Teams, NEW m \in Members, RemoveTeamMember(t, m)
    PROVE  Good
<1> DEFINE rest == Without(team[t].members, m)
           entry == [team[t] EXCEPT !.members = rest]
<1>1. /\ m \in MembersOf(t) /\ m # team[t].leader /\ team[t].state = "FORMING"
      /\ Unlocked(team[t].quest) /\ quest[team[t].quest].form \in TeamForms
  BY DEF RemoveTeamMember, Forming, TakesInvited, Takes, TeamForms
<1>2. rest \in Seq(Members)
  BY <1>1, TeamFields, WithoutFacts DEF MembersOf
<1>3. /\ team' = [team EXCEPT ![t] = entry] /\ invitation' \in [Teams -> InvitationRows]
      /\ UNCHANGED <<now, quest, application, submitted, assignment, taking>>
  BY DEF RemoveTeamMember, RowsTypeOK, InvitationTypeOK
<1> HIDE DEF rest
<1>4. /\ entry \in TeamRows /\ entry.state = team[t].state /\ entry.members = rest
      /\ entry.quest = team[t].quest /\ entry.leader = team[t].leader
  BY <1>2, TeamFields DEF TeamRows
<1> HIDE DEF entry
<1> QED
  BY <1>1, <1>3, <1>4, LeavesTeam DEF rest

\* A submitted Team keeps its Leader and its Members; so does a rejected one.
LEMMA SubmitEffect ==
    ASSUME RowsTypeOK, NEW t \in Teams,
           (SubmitTeam(t) /\ UNCHANGED invitation) \/ SubmitInvitedTeam(t)
    PROVE  Good
<1> DEFINE code == IF SubmitTeam(t) THEN 0 ELSE team[t].code
           entry == [[team[t] EXCEPT !.state = "SUBMITTED"] EXCEPT !.code = code]
<1>1. code \in Nat
  BY TeamFields
<1>2. /\ Unlocked(team[t].quest) /\ quest[team[t].quest].form \in TeamForms
      /\ team[t].state = "FORMING"
      /\ submitted' = [submitted EXCEPT ![t] = MembersOf(t)]
      /\ UNCHANGED <<now, quest, application, assignment, taking, invitation>>
  BY DEF SubmitTeam, TakesTeams, Open, SubmitInvitedTeam, Forming, TakesInvited, Takes, TeamForms
<1>3. team' = [team EXCEPT ![t] = entry]
  <2>1. CASE SubmitTeam(t)
    BY <2>1, TeamFields DEF SubmitTeam
  <2>2. CASE ~SubmitTeam(t) /\ SubmitInvitedTeam(t)
    <3>1. team' = [team EXCEPT ![t] = [team[t] EXCEPT !.state = "SUBMITTED"]]
      BY <2>2 DEF SubmitInvitedTeam
    <3>2. entry = [team[t] EXCEPT !.state = "SUBMITTED"]
      BY <2>2, TeamFields DEF TeamRows
    <3> QED
      BY <3>1, <3>2
  <2> QED
    BY <2>1, <2>2
<1> HIDE DEF code
<1>4. /\ entry \in TeamRows /\ entry.state = "SUBMITTED" /\ entry.members = team[t].members
      /\ entry.quest = team[t].quest /\ entry.leader = team[t].leader
  BY <1>1, TeamFields DEF TeamRows, TeamStates
<1> HIDE DEF entry
<1>5. IsSubmitted(t, entry)
  BY <1>2, <1>3, <1>4 DEF IsSubmitted, RowBecomes, SameTeam
<1>6. RowsTypeOK'
  BY <1>2, <1>3, <1>4, TeamTyped, MembersTyped DEF RowsTypeOK, CandidateTypeOK, InvitationTypeOK
<1> QED
  BY <1>4, <1>5, <1>6 DEF Good, Effect, ChangesTeam

\* rejectQuestV2CandidateTeam
LEMMA RejectEffect ==
    ASSUME RowsTypeOK, NEW t \in Teams, RejectTeam(t), UNCHANGED invitation
    PROVE  Good
<1> DEFINE entry == [team[t] EXCEPT !.state = "REJECTED"]
<1>1. /\ entry \in TeamRows /\ entry.state = "REJECTED" /\ entry.members = team[t].members
      /\ entry.quest = team[t].quest /\ entry.leader = team[t].leader
  BY TeamFields DEF TeamRows, TeamStates
<1>2. team' = [team EXCEPT ![t] = entry]
  BY DEF RejectTeam
<1> HIDE DEF entry
<1>3. IsRejected(t, entry)
  BY <1>1, <1>2 DEF IsRejected, RowBecomes, SameTeam, RejectTeam, TakesTeams, Open, TeamForms
<1>4. RowsTypeOK'
  BY <1>1, <1>2, TeamTyped DEF RejectTeam, RowsTypeOK, CandidateTypeOK, InvitationTypeOK
<1> QED
  BY <1>1, <1>3, <1>4 DEF Good, Effect, ChangesTeam

\* regenerateQuestV2CandidateTeamJoinCode keeps the Team and those on it.
LEMMA RenewCodeEffect ==
    ASSUME RowsTypeOK, OneTeamEach, NEW t \in Teams, RenewCode(t), UNCHANGED invitation
    PROVE  Good
<1> DEFINE code == now + CodeLife
           entry == [team[t] EXCEPT !.code = code]
<1>1. code \in Nat
  BY ScheduleAssumption DEF RowsTypeOK, CandidateTypeOK
<1> HIDE DEF code
<1>2. /\ entry \in TeamRows /\ entry.state = team[t].state /\ entry.members = team[t].members
      /\ entry.quest = team[t].quest /\ entry.leader = team[t].leader
  BY <1>1, TeamFields DEF TeamRows
<1>3. team' = [team EXCEPT ![t] = entry] /\ team[t].state = "FORMING"
  BY DEF RenewCode, code
<1> HIDE DEF entry
<1>4. RowBecomes(t, entry)
  BY <1>2, <1>3 DEF RowBecomes, RenewCode, TakesTeams, Open, TeamForms
<1>5. Gathers(t, entry)
  BY <1>2, <1>3, <1>4 DEF Gathers, OneTeamEach, Bound, MembersOf, RenewCode
<1> QED
  BY <1>2, <1>5, GathersTyped DEF RenewCode, RowsTypeOK, InvitationTypeOK

\* A command of the kind its Quest asks for gets its locks.
LEMMA TakeEffect ==
    ASSUME RowsTypeOK, NEW q \in Quests, NEW W \in SUBSET Members, NEW by, NEW chosen,
           Take(q, W, by, chosen), UNCHANGED invitation,
           chosen \in {0} \union Members \union Teams,
           \/ by = "JOIN" /\ quest[q].form \in JoinForms
           \/ by = "APPLY" /\ quest[q].form \in ApplyForms
           \/ /\ by = "TEAM" /\ quest[q].form \in TeamForms /\ chosen \in Teams
              /\ team[chosen].quest = q /\ team[chosen].state = "SUBMITTED"
              /\ W = submitted[chosen]
    PROVE  Good
<1> DEFINE c == [workers |-> W, by |-> by, chosen |-> chosen]
<1>1. c \in Takings /\ c.workers = W /\ c.by = by /\ c.chosen = chosen
  BY DEF Takings
<1>2. /\ Unlocked(q) /\ NoConflict(q, W) /\ taking' = [taking EXCEPT ![q] = c]
      /\ UNCHANGED <<now, quest, application, team, submitted, assignment>>
  BY DEF Take
<1> HIDE DEF c
<1>3. taking' \in [Quests -> Takings] /\ taking'[q] = c
  BY <1>1, <1>2 DEF RowsTypeOK, CandidateTypeOK
<1>4. RowsTypeOK'
  BY <1>2, <1>3 DEF RowsTypeOK, CandidateTypeOK, InvitationTypeOK
<1>5. Justified(q)'
  BY <1>1, <1>2, <1>3 DEF Justified, Unlocked
<1>6. LocksWorkers(q)
  BY <1>1, <1>2, <1>5 DEF LocksWorkers
<1> QED
  BY <1>4, <1>6 DEF Good, Effect

\* selectQuestV2CandidateTeam, and selectCandidate with a Team.
LEMMA SelectTeamEffect ==
    ASSUME RowsTypeOK, SubmittedInv, NEW t \in Teams, UNCHANGED invitation,
           SelectTeam(t) \/ SelectCandidateTeam(t)
    PROVE  Good
<1>1. /\ team[t].state = "SUBMITTED" /\ quest[team[t].quest].form \in TeamForms
      /\ Take(team[t].quest, MembersOf(t), "TEAM", t)
  BY DEF SelectTeam, TakesTeams, Open, SelectCandidateTeam, TeamForms
<1>2. submitted[t] = MembersOf(t) /\ MembersOf(t) \in SUBSET Members /\ team[t].quest \in Quests
  BY <1>1, MembersTyped, TeamFields DEF SubmittedInv
<1> QED
  BY <1>1, <1>2, TakeEffect

\* Every command on an application, or that chooses one Worker.
LEMMA WorkerEffect ==
    ASSUME RowsTypeOK, NEW q \in Quests, NEW m \in Members,
           \/ CandidateStep(q, m) /\ UNCHANGED invitation
           \/ ApplicationStep(q, m)
    PROVE  Good
<1> USE DEF Open, Takes, ApplyForms, JoinForms
<1>1. ASSUME UNCHANGED <<now, invitation>>, ChangesApplication(q, m)
      PROVE  Good
  <2>1. application' \in [Quests -> [Members -> ApplicationStates]]
    BY <1>1 DEF ChangesApplication, RowsTypeOK, CandidateTypeOK
  <2>2. RowsTypeOK'
    BY <1>1, <2>1 DEF ChangesApplication, RowsTypeOK, CandidateTypeOK, InvitationTypeOK
  <2> QED
    BY <1>1, <2>2 DEF Good, Effect
<1>2. CASE \/ Apply(q, m) \/ WithdrawApplication(q, m) \/ RejectApplication(q, m)
           \/ CreateApplication(q, m) \/ WithdrawOwnApplication(q, m)
  <2>1. ChangesApplication(q, m) /\ UNCHANGED <<now, invitation>>
    BY <1>2 DEF Apply, WithdrawApplication, RejectApplication, CreateApplication,
                WithdrawOwnApplication, AnswerApplication, ChangesApplication, ApplicationStates,
                CandidateStep, ApplicationStep, Join, SelectApplication, EndWork,
                JoinDirect, SelectCandidateApplication
  <2> QED
    BY <1>1, <2>1
<1>3. CASE UNCHANGED invitation /\ (Join(q, m) \/ JoinDirect(q, m))
  BY <1>3, TakeEffect DEF Join, JoinDirect
<1>4. CASE UNCHANGED invitation /\ (SelectApplication(q, m) \/ SelectCandidateApplication(q, m))
  BY <1>4, TakeEffect DEF SelectApplication, SelectCandidateApplication
<1>5. CASE UNCHANGED invitation /\ EndWork(q, m)
  <2>1. assignment' \in [Quests -> [Members -> {"NONE", "ACTIVE", "ENDED"}]]
    BY <1>5 DEF EndWork, RowsTypeOK, CandidateTypeOK
  <2>2. RowsTypeOK'
    BY <1>5, <2>1 DEF EndWork, RowsTypeOK, CandidateTypeOK, InvitationTypeOK
  <2> QED
    BY <1>5, <2>2 DEF Good, Effect, TouchesQuest
<1> QED
  BY <1>2, <1>3, <1>4, <1>5 DEF CandidateStep, ApplicationStep

QuestRows == [status: {"OPEN", "ASSIGNED", "CANCELLED"}, form: Forms]

\* A Quest keeps its form when its status changes.
LEMMA QuestUpdate ==
    ASSUME RowsTypeOK, NEW q \in Quests, NEW status \in {"OPEN", "ASSIGNED", "CANCELLED"},
           quest' = [quest EXCEPT ![q].status = status]
    PROVE  /\ quest' \in [Quests -> QuestRows]
           /\ quest'[q].status = status
           /\ \A p \in Quests : quest'[p].form = quest[p].form
           /\ \A p \in Quests \ {q} : quest'[p] = quest[p]
<1> DEFINE entry == [quest[q] EXCEPT !.status = status]
<1>1. quest \in [Quests -> QuestRows] /\ quest[q] \in QuestRows
  BY DEF RowsTypeOK, CandidateTypeOK, QuestRows
<1>2. entry \in QuestRows /\ entry.status = status /\ entry.form = quest[q].form
  BY <1>1 DEF QuestRows
<1>3. quest' = [quest EXCEPT ![q] = entry]
  OBVIOUS
<1> HIDE DEF entry
<1> QED
  BY <1>1, <1>2, <1>3

\* A commit answers the Teams and applications of its Quest and keeps all
\* other columns of a Team.
LEMMA CommitFacts ==
    ASSUME RowsTypeOK, NEW q \in Quests, CommitTake(q)
    PROVE  /\ team' \in [Teams -> TeamRows]
           /\ application' \in [Quests -> [Members -> ApplicationStates]]
           /\ assignment' \in [Quests -> [Members -> {"NONE", "ACTIVE", "ENDED"}]]
           /\ quest' \in [Quests -> QuestRows]
           /\ taking' \in [Quests -> Takings]
           /\ \A t \in Teams :
                 /\ team'[t].quest = team[t].quest /\ team'[t].leader = team[t].leader
                 /\ team'[t].members = team[t].members
                 /\ team'[t].state =
                       IF taking[q].by = "TEAM" /\ team[t].quest = q /\ team[t].state = "SUBMITTED"
                       THEN IF t = taking[q].chosen THEN "SELECTED" ELSE "REJECTED"
                       ELSE team[t].state
                 /\ team[t].quest # q => team'[t] = team[t]
           /\ \A p \in Quests : quest'[p].form = quest[p].form
<1> DEFINE c == taking[q]
           answer(t) == IF t = c.chosen THEN "SELECTED" ELSE "REJECTED"
<1>1. team' = FlipTeams(q, c)
  BY DEF CommitTake
<1>2. ASSUME NEW t \in Teams
      PROVE  /\ team'[t] \in TeamRows
             /\ team'[t].quest = team[t].quest /\ team'[t].leader = team[t].leader
             /\ team'[t].members = team[t].members
             /\ team'[t].state =
                   IF c.by = "TEAM" /\ team[t].quest = q /\ team[t].state = "SUBMITTED"
                   THEN answer(t) ELSE team[t].state
             /\ team[t].quest # q => team'[t] = team[t]
  <2>1. CASE c.by # "TEAM" \/ team[t].quest # q \/ team[t].state # "SUBMITTED"
    BY <1>1, <2>1, TeamFields DEF FlipTeams, RowsTypeOK, CandidateTypeOK
  <2>2. CASE ~(c.by # "TEAM" \/ team[t].quest # q \/ team[t].state # "SUBMITTED")
    <3>1. team'[t] = [team[t] EXCEPT !.state = answer(t)]
      BY <1>1, <2>2 DEF FlipTeams
    <3>2. answer(t) \in TeamStates
      BY DEF TeamStates
    <3> HIDE DEF answer, c
    <3> QED
      BY <2>2, <3>1, <3>2, TeamFields DEF TeamRows
  <2> QED
    BY <2>1, <2>2
<1>3. team' \in [Teams -> TeamRows]
  BY <1>1, <1>2 DEF FlipTeams
<1>4. application' \in [Quests -> [Members -> ApplicationStates]]
  BY DEF CommitTake, FlipApplications, RowsTypeOK, CandidateTypeOK, ApplicationStates
<1>5. assignment' \in [Quests -> [Members -> {"NONE", "ACTIVE", "ENDED"}]]
  BY DEF CommitTake, RowsTypeOK, CandidateTypeOK
<1>6. quest' \in [Quests -> QuestRows] /\ \A p \in Quests : quest'[p].form = quest[p].form
  <2>1. CASE quest' = quest
    BY <2>1 DEF RowsTypeOK, CandidateTypeOK, QuestRows
  <2>2. CASE quest' = [quest EXCEPT ![q].status = "ASSIGNED"]
    BY <2>2, QuestUpdate
  <2> QED
    BY <2>1, <2>2 DEF CommitTake
<1>7. taking' \in [Quests -> Takings]
  BY DEF CommitTake, RowsTypeOK, CandidateTypeOK, Idle, Takings
<1> QED
  BY <1>2, <1>3, <1>4, <1>5, <1>6, <1>7

\* What happens to one Quest.
LEMMA QuestEffect ==
    ASSUME RowsTypeOK, NEW q \in Quests, QuestStep(q), UNCHANGED invitation
    PROVE  Good
<1>1. TouchesQuest(q)
  BY DEF QuestStep, TouchesQuest
<1>2. ASSUME CommitTake(q) PROVE RowsTypeOK'
  <2>1. now' = now /\ submitted' = submitted
    BY <1>2 DEF CommitTake
  <2> QED
    BY <1>2, <2>1, CommitFacts DEF RowsTypeOK, CandidateTypeOK, InvitationTypeOK, QuestRows
<1>3. ASSUME AbortTake(q) PROVE RowsTypeOK'
  <2>1. Idle \in Takings
    BY DEF Idle, Takings
  <2> QED
    BY <1>3, <2>1 DEF AbortTake, RowsTypeOK, CandidateTypeOK, InvitationTypeOK
<1>4. ASSUME CancelOpenQuest(q) PROVE RowsTypeOK'
  <2>1. assignment' \in [Quests -> [Members -> {"NONE", "ACTIVE", "ENDED"}]]
    BY <1>4 DEF CancelOpenQuest, RowsTypeOK, CandidateTypeOK
  <2>2. quest' \in [Quests -> QuestRows]
    BY <1>4, QuestUpdate DEF CancelOpenQuest
  <2> QED
    BY <1>4, <2>1, <2>2 DEF CancelOpenQuest, RowsTypeOK, CandidateTypeOK, InvitationTypeOK, QuestRows
<1>5. ASSUME NEW form \in Forms, EditForm(q, form)
      PROVE  RowsTypeOK'
  <2> DEFINE entry == [quest[q] EXCEPT !.form = form]
  <2>0. quest \in [Quests -> QuestRows]
    BY DEF RowsTypeOK, CandidateTypeOK, QuestRows
  <2>1. entry \in QuestRows
    BY <2>0 DEF QuestRows
  <2>2. quest' = [quest EXCEPT ![q] = entry]
    BY <1>5 DEF EditForm
  <2> HIDE DEF entry
  <2>3. quest' \in [Quests -> QuestRows]
    BY <2>0, <2>1, <2>2
  <2> QED
    BY <1>5, <2>3 DEF EditForm, RowsTypeOK, CandidateTypeOK, InvitationTypeOK, QuestRows
<1>6. RowsTypeOK'
  BY <1>2, <1>3, <1>4, <1>5 DEF QuestStep
<1> QED
  BY <1>1, <1>6 DEF Good, Effect

\* Whoever has no Team for a Quest in any state has no Team that binds him.
LEMMA NoMembershipFree ==
    ASSUME NEW q, NEW m, NoMembership(q, m)
    PROVE  ~HasTeam(q, m)
BY DEF NoMembership, HasTeam

\* The commands on a Team of the v1 API.
LEMMA InvitedTeamEffect ==
    ASSUME RowsTypeOK, OneTeamEach, SubmittedInv, NEW t \in Teams, InvitedTeamStep(t)
    PROVE  Good
<1>1. ASSUME NEW m \in Members, CreateInvitedTeam(t, m)
      PROVE  Good
  <2>1. Headcount[team[t].quest] \in Nat /\ 0 \in Nat
    BY TeamFields, ScheduleAssumption
  <2>2. ~HasTeam(team[t].quest, m)
    BY <1>1, NoMembershipFree DEF CreateInvitedTeam
  <2> QED
    BY <1>1, <2>1, <2>2, FoundsTeam DEF CreateInvitedTeam, TakesInvited, Takes, TeamForms
<1>2. ASSUME NEW m \in Members,
             Invite(t, m) \/ RevokeInvitation(t, m) \/ DeclineInvitation(t, m)
      PROVE  Good
  <2>1. now + InvitationLife \in Nat
    BY InvitationAssumption DEF RowsTypeOK, CandidateTypeOK
  <2>2. invitation' \in [Teams -> InvitationRows] /\ UNCHANGED vars
    BY <1>2, <2>1 DEF Invite, RevokeInvitation, DeclineInvitation, RowsTypeOK, InvitationTypeOK,
                      InvitationRows
  <2>3. RowsTypeOK'
    BY <2>2 DEF vars, RowsTypeOK, CandidateTypeOK, InvitationTypeOK
  <2> QED
    BY <2>2, <2>3 DEF vars, Good, Effect, Quiet
<1>3. ASSUME NEW m \in Members, AcceptInvitation(t, m)
      PROVE  Good
  <2>1. invitation' \in [Teams -> InvitationRows]
    BY <1>3 DEF AcceptInvitation, RowsTypeOK, InvitationTypeOK, InvitationRows
  <2>2. ~HasTeam(team[t].quest, m)
    BY <1>3, NoMembershipFree DEF AcceptInvitation
  <2> QED
    BY <1>3, <2>1, <2>2, JoinsTeam
       DEF AcceptInvitation, Answerable, Forming, TakesInvited, Takes, TeamForms
<1>4. ASSUME NEW m \in Members, LeaveInvitedTeam(t, m) \/ RemoveTeamMember(t, m)
      PROVE  Good
  BY <1>4, LeaveEffect, RemoveTeamMemberEffect
<1>5. CASE SubmitInvitedTeam(t)
  BY <1>5, SubmitEffect
<1>6. CASE SelectCandidateTeam(t) /\ UNCHANGED invitation
  BY <1>6, SelectTeamEffect
<1> QED
  BY <1>1, <1>2, <1>3, <1>4, <1>5, <1>6 DEF InvitedTeamStep, InvitationStep

\* The commands on a Team of the v2 API.
LEMMA TeamEffect ==
    ASSUME RowsTypeOK, OneTeamEach, SubmittedInv, NEW t \in Teams, TeamStep(t), UNCHANGED invitation
    PROVE  Good
<1>1. ASSUME NEW m \in Members, JoinTeam(t, m)
      PROVE  Good
  <2>1. invitation' \in [Teams -> InvitationRows]
    BY DEF RowsTypeOK, InvitationTypeOK
  <2> QED
    BY <1>1, <2>1, JoinsTeam DEF JoinTeam, TakesTeams, Open, TeamForms, Free
<1>2. ASSUME NEW m \in Members, LeaveTeam(t, m, m) \/ LeaveTeam(t, m, team[t].leader)
      PROVE  Good
  <2>1. m \in Members \union {NoMember} /\ team[t].leader \in Members \union {NoMember}
    BY TeamFields
  <2> QED
    BY <1>2, <2>1, LeaveEffect
<1>3. ASSUME NEW m \in Members, NEW size, CreateTeam(t, m, size)
      PROVE  Good
  <2>1. size \in Nat /\ now + CodeLife \in Nat
    BY <1>3, TeamFields, ScheduleAssumption DEF CreateTeam, RowsTypeOK, CandidateTypeOK
  <2> QED
    BY <1>3, <2>1, FoundsTeam DEF CreateTeam, TakesTeams, Open, TeamForms, Free
<1> QED
  BY <1>1, <1>2, <1>3, RenewCodeEffect, SubmitEffect, RejectEffect, SelectTeamEffect DEF TeamStep

\* Every step has one effect.
LEMMA StepEffect ==
    ASSUME RowsTypeOK, OneTeamEach, SubmittedInv, RowStep \/ UNCHANGED rosterVars
    PROVE  Good
<1>1. CASE Tick /\ UNCHANGED invitation
  <2>1. now' \in 0 .. MaxTime
    BY <1>1, ScheduleAssumption DEF Tick, RowsTypeOK, CandidateTypeOK
  <2> QED
    BY <1>1, <2>1 DEF Tick, Good, Effect, Quiet, RowsTypeOK, CandidateTypeOK, InvitationTypeOK
<1>2. CASE UNCHANGED rosterVars
  BY <1>2 DEF rosterVars, vars, Good, Effect, Quiet, RowsTypeOK, CandidateTypeOK, InvitationTypeOK
<1> QED
  BY <1>1, <1>2, QuestEffect, WorkerEffect, TeamEffect, InvitedTeamEffect DEF RowStep

-----------------------------------------------------------------------------
(* Every effect keeps every part of the invariant. *)

\* A change of one Team leaves the others alone.
LEMMA RowFacts ==
    ASSUME RowsTypeOK, NEW t \in Teams, NEW entry \in TeamRows, RowBecomes(t, entry)
    PROVE  /\ team'[t] = entry
           /\ \A u \in Teams \ {t} : team'[u] = team[u]
           /\ \A u \in Teams : team'[u].quest = team[u].quest
BY DEF RowBecomes, RowsTypeOK, CandidateTypeOK

\* Of a step that changes no Team but the one it commits, the Teams keep their
\* Leaders and Members.
LEMMA OtherSteps ==
    ASSUME RowsTypeOK, Good, ~\E t \in Teams : ChangesTeam(t)
    PROVE  /\ submitted' = submitted
           /\ \A t \in Teams :
                 /\ team'[t].quest = team[t].quest /\ team'[t].leader = team[t].leader
                 /\ team'[t].members = team[t].members
                 /\ team'[t] = team[t] \/ \E q \in Quests : CommitTake(q)
<1>1. CASE Quiet \/ \E q \in Quests, m \in Members : ChangesApplication(q, m)
  BY <1>1 DEF Quiet, ChangesApplication
<1>2. CASE \E q \in Quests : LocksWorkers(q)
  BY <1>2 DEF LocksWorkers
<1>3. ASSUME NEW q \in Quests, TouchesQuest(q)
      PROVE  /\ submitted' = submitted
             /\ \A t \in Teams :
                   /\ team'[t].quest = team[t].quest /\ team'[t].leader = team[t].leader
                   /\ team'[t].members = team[t].members
                   /\ team'[t] = team[t] \/ CommitTake(q)
  <2>1. CASE CommitTake(q)
    <3>1. submitted' = submitted
      BY <2>1 DEF CommitTake
    <3> QED
      BY <2>1, <3>1, CommitFacts
  <2>2. CASE ~CommitTake(q)
    BY <1>3, <2>2 DEF TouchesQuest, AbortTake, CancelOpenQuest, EditForm, EndWork
  <2> QED
    BY <2>1, <2>2
<1> QED
  BY <1>1, <1>2, <1>3 DEF Good, Effect

\* OneTeamEach: only Gathers puts a Member on a Team, and then one who has none.
LEMMA KeepsOneTeam ==
    ASSUME RowsTypeOK, OneTeamEach, Good
    PROVE  OneTeamEach'
<1>1. ASSUME \A t \in Teams :
                /\ team'[t].quest = team[t].quest
                /\ Bound(t)' => /\ Bound(t) /\ team'[t].leader = team[t].leader
                                /\ team'[t].members = team[t].members
      PROVE  OneTeamEach'
  BY <1>1 DEF OneTeamEach, MembersOf
<1>2. CASE ~\E t \in Teams : ChangesTeam(t)
  <2>1. ASSUME NEW t \in Teams, Bound(t)' PROVE Bound(t)
    <3>1. CASE team'[t] = team[t]
      BY <2>1, <3>1 DEF Bound
    <3>2. ASSUME NEW q \in Quests, CommitTake(q) PROVE Bound(t)
      BY <2>1, <3>2, CommitFacts DEF Bound
    <3> QED
      BY <1>2, <3>1, <3>2, OtherSteps
  <2> QED
    BY <1>1, <1>2, <2>1, OtherSteps
<1>3. ASSUME NEW t \in Teams, NEW entry \in TeamRows,
             Disbands(t, entry) \/ IsSubmitted(t, entry) \/ IsRejected(t, entry)
      PROVE  OneTeamEach'
  <2>1. RowBecomes(t, entry)
    BY <1>3 DEF Disbands, IsSubmitted, IsRejected
  <2>2. ASSUME NEW u \in Teams, Bound(u)'
        PROVE  /\ Bound(u) /\ team'[u].leader = team[u].leader
               /\ team'[u].members = team[u].members
    BY <1>3, <2>1, <2>2, RowFacts DEF Bound, Disbands, IsSubmitted, IsRejected, SameTeam
  <2> QED
    BY <1>1, <2>1, <2>2, RowFacts
<1>4. ASSUME NEW t \in Teams, NEW entry \in TeamRows, Gathers(t, entry)
      PROVE  OneTeamEach'
  <2>1. RowBecomes(t, entry)
    BY <1>4 DEF Gathers
  <2>2. /\ MembersOf(t)' = ToSet(entry.members) /\ team'[t].leader = entry.leader
        /\ \A u \in Teams : team'[u].quest = team[u].quest
        /\ \A u \in Teams \ {t} :
              /\ team'[u] = team[u] /\ MembersOf(u)' = MembersOf(u) /\ (Bound(u)' <=> Bound(u))
    BY <2>1, RowFacts DEF MembersOf, Bound
  <2>3. team'[t].leader \in MembersOf(t)'
    BY <1>4, <2>2 DEF Gathers
  <2>4. ASSUME NEW u \in Teams \ {t}, Bound(u), team[u].quest = team[t].quest
        PROVE  ToSet(entry.members) \intersect MembersOf(u) = {}
    <3>1. ASSUME NEW x \in ToSet(entry.members), x \in MembersOf(u) PROVE FALSE
      <4>1. HasTeam(team[t].quest, x)
        BY <2>4, <3>1 DEF HasTeam, Bound
      <4>2. team[t].state = "FORMING" /\ x \in MembersOf(t)
        BY <1>4, <3>1, <4>1 DEF Gathers
      <4>3. MembersOf(t) \intersect MembersOf(u) = {}
        BY <2>4, <4>2 DEF OneTeamEach, Bound
      <4> QED
        BY <3>1, <4>2, <4>3
    <3> QED
      BY <3>1
  <2>5. ASSUME NEW u \in Teams, NEW v \in Teams, Bound(u)', Bound(v)', u # v,
               team'[u].quest = team'[v].quest
        PROVE  MembersOf(u)' \intersect MembersOf(v)' = {}
    <3>1. CASE u = t
      BY <2>2, <2>4, <2>5, <3>1
    <3>2. CASE v = t
      BY <2>2, <2>4, <2>5, <3>2
    <3>3. CASE u # t /\ v # t
      BY <2>2, <2>5, <3>3 DEF OneTeamEach
    <3> QED
      BY <3>1, <3>2, <3>3
  <2>6. ASSUME NEW u \in Teams, Bound(u)' PROVE team'[u].leader \in MembersOf(u)'
    BY <2>2, <2>3, <2>6 DEF OneTeamEach
  <2> QED
    BY <2>5, <2>6 DEF OneTeamEach
<1> QED
  BY <1>2, <1>3, <1>4 DEF ChangesTeam

\* Two Quests at the same time both have a due time.
LEMMA OverlapFacts ==
    ASSUME TimesTypeOK, NEW q \in Quests, NEW p \in Overlaps(q)
    PROVE  /\ p \in Quests \ {q} /\ q \in Overlaps(p)
           /\ HasDueTime(slot[q]) /\ HasDueTime(slot[p])
<1>1. p \in Quests \ {q} /\ slot[p] \in Clashes[slot[q]]
  BY DEF Overlaps
<1>2. slot[q] \in Slots /\ slot[p] \in Slots
  BY <1>1 DEF TimesTypeOK
<1>3. \A s \in Slots : \A r \in Clashes[s] : s \in Clashes[s] /\ s \in Clashes[r]
  BY ScheduleAssumption
<1>4. slot[q] \in Clashes[slot[q]] /\ slot[q] \in Clashes[slot[p]]
  BY <1>1, <1>2, <1>3
<1>5. slot[p] \in Clashes[slot[p]]
  BY <1>2, <1>3, <1>4
<1> QED
  BY <1>1, <1>4, <1>5 DEF Overlaps, HasDueTime

\* LocksInv: only a command that gets its locks adds to a workforce, and it
\* looks for conflicts under the Workers' locks.
LEMMA KeepsLocks ==
    ASSUME RowsTypeOK, TimesTypeOK, LocksInv, Good, UNCHANGED timeVars
    PROVE  LocksInv'
<1>0. /\ \A q \in Quests : Overlaps(q)' = Overlaps(q)
      /\ \A m, q, p : WasCaught(m, q, p)' <=> WasCaught(m, q, p)
      /\ \A q \in Quests : Locked(q)' = IF HasDueTime(slot[q]) THEN taking'[q].workers ELSE {}
      /\ \A q \in Quests : Locked(q) \subseteq taking[q].workers
  BY DEF timeVars, Overlaps, WasCaught, Locked
<1>1. ASSUME \A q \in Quests : /\ taking'[q].workers \subseteq taking[q].workers
                                 /\ Workforce(q)' \subseteq Workforce(q)
      PROVE  LocksInv'
  <2>1. \A q \in Quests : Locked(q)' \subseteq Locked(q)
    BY <1>0, <1>1 DEF Locked
  <2>2. \A q, p \in Quests : p # q => Locked(q)' \intersect Locked(p)' = {}
    BY <2>1 DEF LocksInv
  <2>3. ASSUME NEW q \in Quests, NEW p \in Overlaps(q),
               NEW m \in Workforce(q)' \intersect Workforce(p)'
        PROVE  WasCaught(m, q, p)
    <3>1. p \in Quests
      BY DEF Overlaps
    <3> QED
      BY <1>1, <3>1 DEF LocksInv
  <2> QED
    BY <1>0, <2>2, <2>3 DEF LocksInv
<1>2. CASE UNCHANGED <<assignment, taking>>
  BY <1>1, <1>2 DEF Workforce, Active
<1>3. ASSUME NEW q \in Quests, TouchesQuest(q)
      PROVE  LocksInv'
  <2>1. ASSUME NEW p \in Quests
        PROVE  /\ taking'[p].workers \subseteq taking[p].workers
               /\ Workforce(p)' \subseteq Workforce(p)
    <3>1. CASE CommitTake(q)
      <4>1. /\ taking'[p].workers \subseteq taking[p].workers
            /\ Active(p)' \subseteq Workforce(p)
        BY <3>1 DEF CommitTake, Idle, RowsTypeOK, CandidateTypeOK, Active, Workforce
      <4> QED
        BY <4>1 DEF Workforce
    <3>2. CASE AbortTake(q)
      <4>1. taking'[p].workers \subseteq taking[p].workers /\ Active(p)' = Active(p)
        BY <3>2 DEF AbortTake, Idle, RowsTypeOK, CandidateTypeOK, Active
      <4> QED
        BY <4>1 DEF Workforce
    <3>3. CASE CancelOpenQuest(q) \/ \E m \in Members : EndWork(q, m)
      <4>1. taking' = taking
        BY <3>3 DEF CancelOpenQuest, EndWork
      <4>2. ASSUME NEW x \in Members, assignment'[p][x] = "ACTIVE"
            PROVE  assignment[p][x] = "ACTIVE"
        <5>1. CASE CancelOpenQuest(q)
          BY <4>2, <5>1 DEF CancelOpenQuest, RowsTypeOK, CandidateTypeOK
        <5>2. ASSUME NEW m \in Members, EndWork(q, m)
              PROVE  assignment[p][x] = "ACTIVE"
          BY <4>2, <5>2 DEF EndWork, RowsTypeOK, CandidateTypeOK
        <5> QED
          BY <3>3, <5>1, <5>2
      <4>3. Active(p)' \subseteq Active(p)
        BY <4>2 DEF Active
      <4> QED
        BY <4>1, <4>3 DEF Workforce
    <3>4. CASE \E form \in Forms : EditForm(q, form)
      BY <3>4 DEF EditForm, Active, Workforce
    <3> QED
      BY <1>3, <3>1, <3>2, <3>3, <3>4 DEF TouchesQuest
  <2> QED
    BY <1>1, <2>1
<1>4. ASSUME NEW q \in Quests, LocksWorkers(q)
      PROVE  LocksInv'
  <2>1. PICK c \in Takings : NoConflict(q, c.workers) /\ taking' = [taking EXCEPT ![q] = c]
    BY <1>4 DEF LocksWorkers
  <2>2. /\ taking'[q] = c
        /\ \A p \in Quests \ {q} : taking'[p] = taking[p] /\ Workforce(p)' = Workforce(p)
        /\ Workforce(q)' = Active(q) \union c.workers
    BY <1>4, <2>1 DEF LocksWorkers, RowsTypeOK, CandidateTypeOK, Workforce, Active
  <2>3. /\ \A p \in Quests \ {q} : Locked(p)' = Locked(p)
        /\ Locked(q)' = IF HasDueTime(slot[q]) THEN c.workers ELSE {}
    BY <1>0, <2>2 DEF Locked
  <2>4. HasDueTime(slot[q]) => \A p \in Quests : Locked(p) \intersect c.workers = {}
    BY <2>1 DEF NoConflict, WorkersUnlocked, Locked
  <2>5. ASSUME NEW r \in Quests, NEW p \in Quests, p # r
        PROVE  Locked(r)' \intersect Locked(p)' = {}
    <3>1. Locked(r) \intersect Locked(p) = {}
      BY <2>5 DEF LocksInv
    <3> QED
      BY <2>3, <2>4, <2>5, <3>1
  <2>6. ASSUME NEW p \in Overlaps(q), NEW m \in Workforce(q)' \intersect Workforce(p)'
        PROVE  WasCaught(m, q, p)
    <3>1. p \in Quests \ {q} /\ HasDueTime(slot[q]) /\ HasDueTime(slot[p])
      BY OverlapFacts
    <3>2. Active(p) \intersect c.workers = {} /\ taking[p].workers \intersect c.workers = {}
      BY <2>1, <2>4, <3>1 DEF NoConflict, Locked
    <3>3. m \in Active(q) /\ m \in Workforce(p)
      BY <2>2, <2>6, <3>1, <3>2 DEF Workforce
    <3>4. m \in Workforce(q) \intersect Workforce(p)
      BY <3>3 DEF Workforce
    <3> QED
      BY <2>6, <3>4 DEF LocksInv
  <2>7. ASSUME NEW r \in Quests, NEW p \in Overlaps(r),
               NEW m \in Workforce(r)' \intersect Workforce(p)'
        PROVE  WasCaught(m, r, p)
    <3>1. p \in Quests \ {r} /\ r \in Overlaps(p)
      BY OverlapFacts
    <3>2. CASE r = q
      BY <2>6, <2>7, <3>2
    <3>3. CASE p = q
      <4>1. WasCaught(m, q, r)
        BY <2>6, <2>7, <3>1, <3>3
      <4> QED
        BY <3>3, <4>1 DEF WasCaught
    <3>4. CASE r # q /\ p # q
      <4>1. m \in Workforce(r) \intersect Workforce(p)
        BY <2>2, <2>7, <3>1, <3>4
      <4> QED
        BY <2>7, <4>1 DEF LocksInv
    <3> QED
      BY <3>2, <3>3, <3>4
  <2> QED
    BY <1>0, <2>5, <2>7 DEF LocksInv
<1> QED
  BY <1>2, <1>3, <1>4 DEF Good, Effect, Quiet, ChangesApplication, ChangesTeam, Gathers, Disbands,
                          IsSubmitted, IsRejected, RowBecomes

\* New times of a Quest without Workers make no overlap that counts, and those
\* a roster consented to catch whoever they touch.
LEMMA EditsKeepLocks ==
    ASSUME RowsTypeOK, TimesTypeOK, LocksInv, EditsTimes
    PROVE  TimesTypeOK' /\ LocksInv' /\ UNCHANGED <<vars, invitation>>
<1>1. PICK q \in Quests, s \in Slots :
          \/ EditTimes(q, s) /\ UNCHANGED invitation
          \/ EditOpenTimes(q, s) \/ ApplyConsentedTimes(q, s)
  BY DEF EditsTimes
<1>2. /\ slot' = [slot EXCEPT ![q] = s] /\ UNCHANGED <<vars, invitation>>
      /\ caught \subseteq caught'
      /\ taking[q] = Idle
  BY <1>1 DEF EditTimes, EditOpenTimes, ApplyConsentedTimes, Open, Unlocked
<1>3. caught' \subseteq Members \X Quests \X Quests
  <2>1. Active(q) \subseteq Members
    BY DEF Active
  <2> QED
    BY <1>1, <2>1 DEF EditTimes, EditOpenTimes, ApplyConsentedTimes, TimesTypeOK
<1>4. TimesTypeOK'
  BY <1>2, <1>3 DEF TimesTypeOK
<1>5. /\ \A r \in Quests : Workforce(r)' = Workforce(r)
      /\ Workforce(q) = Active(q) /\ Locked(q) = {} /\ Locked(q)' = {}
      /\ \A r \in Quests \ {q} : slot'[r] = slot[r] /\ Locked(r)' = Locked(r)
  BY <1>2 DEF vars, Workforce, Active, Locked, Idle, TimesTypeOK, HasDueTime
<1>6. \A m \in Active(q), p \in Quests \ {q} : m \in Workforce(p) => <<m, q, p>> \in caught'
  <2>1. CASE Active(q) = {}
    BY <2>1
  <2>2. CASE Active(q) # {}
    <3>1. ApplyConsentedTimes(q, s)
      BY <1>1, <2>2 DEF EditTimes, EditOpenTimes, Participated, Active
    <3> QED
      BY <3>1 DEF ApplyConsentedTimes, Workforce
  <2> QED
    BY <2>1, <2>2
<1>7. ASSUME NEW r \in Quests, NEW p \in Quests, p # r
      PROVE  Locked(r)' \intersect Locked(p)' = {}
  <2>1. Locked(r) \intersect Locked(p) = {}
    BY <1>7 DEF LocksInv
  <2> QED
    BY <1>5, <1>7, <2>1
<1>8. ASSUME NEW r \in Quests, NEW p \in Overlaps(r)',
             NEW m \in Workforce(r) \intersect Workforce(p)
      PROVE  <<m, r, p>> \in caught' \/ <<m, p, r>> \in caught'
  <2>1. p \in Quests \ {r} /\ slot'[p] \in Clashes[slot'[r]]
    BY <1>8 DEF Overlaps
  <2>2. CASE r = q \/ p = q
    BY <1>5, <1>6, <1>8, <2>1, <2>2
  <2>3. CASE r # q /\ p # q
    <3>1. p \in Overlaps(r)
      BY <1>5, <2>1, <2>3 DEF Overlaps
    <3>2. WasCaught(m, r, p)
      BY <1>8, <3>1 DEF LocksInv
    <3> QED
      BY <1>2, <3>2 DEF WasCaught
  <2> QED
    BY <2>2, <2>3
<1>9. \A r \in Quests : \A p \in Overlaps(r)' :
          \A m \in Workforce(r)' \intersect Workforce(p)' : WasCaught(m, r, p)'
  <2>1. ASSUME NEW r \in Quests, NEW p \in Overlaps(r)'
        PROVE  p \in Quests
    BY <2>1 DEF Overlaps
  <2> QED
    BY <1>5, <1>8, <2>1 DEF WasCaught
<1> QED
  BY <1>2, <1>4, <1>7, <1>9 DEF LocksInv

\* What a step leaves alone of a Quest it does not touch and that is locked or
\* not OPEN.
LEMMA Bystander ==
    ASSUME RowsTypeOK, Good, NEW q \in Quests, ~Unlocked(q), ~TouchesQuest(q)
    PROVE  /\ quest'[q] = quest[q] /\ application'[q] = application[q]
           /\ assignment'[q] = assignment[q] /\ taking'[q] = taking[q]
           /\ \A t \in Teams :
                 /\ team'[t].quest = team[t].quest
                 /\ team[t].quest = q => team'[t] = team[t] /\ submitted'[t] = submitted[t]
<1>1. CASE Quiet
  BY <1>1 DEF Quiet
<1>2. ASSUME NEW p \in Quests, NEW m \in Members, ChangesApplication(p, m)
      PROVE  application'[q] = application[q] /\ UNCHANGED <<quest, team, submitted, assignment, taking>>
  BY <1>2 DEF ChangesApplication, RowsTypeOK, CandidateTypeOK
<1>3. ASSUME NEW p \in Quests, LocksWorkers(p)
      PROVE  taking'[q] = taking[q] /\ UNCHANGED <<quest, application, team, submitted, assignment>>
  BY <1>3 DEF LocksWorkers, RowsTypeOK, CandidateTypeOK
<1>4. ASSUME NEW t \in Teams, ChangesTeam(t)
      PROVE  /\ UNCHANGED <<quest, application, assignment, taking>>
             /\ \A u \in Teams :
                   /\ team'[u].quest = team[u].quest
                   /\ team[u].quest = q => team'[u] = team[u] /\ submitted'[u] = submitted[u]
  <2>1. PICK entry \in TeamRows :
            Gathers(t, entry) \/ Disbands(t, entry) \/ IsSubmitted(t, entry) \/ IsRejected(t, entry)
    BY <1>4 DEF ChangesTeam
  <2>2. RowBecomes(t, entry)
    BY <2>1 DEF Gathers, Disbands, IsSubmitted, IsRejected
  <2>3. team[t].quest # q
    BY <2>2 DEF RowBecomes
  <2>4. \A u \in Teams \ {t} : submitted'[u] = submitted[u]
    BY <2>1 DEF Gathers, Disbands, IsSubmitted, IsRejected, RowsTypeOK, CandidateTypeOK
  <2> QED
    BY <2>2, <2>3, <2>4, RowFacts DEF RowBecomes
<1>5. ASSUME NEW p \in Quests, TouchesQuest(p)
      PROVE  /\ quest'[q] = quest[q] /\ application'[q] = application[q]
             /\ assignment'[q] = assignment[q] /\ taking'[q] = taking[q]
             /\ \A t \in Teams :
                   /\ team'[t].quest = team[t].quest
                   /\ team[t].quest = q => team'[t] = team[t] /\ submitted'[t] = submitted[t]
  <2>0. p # q
    BY <1>5
  <2>1. CASE CommitTake(p)
    <3>1. /\ quest'[q] = quest[q] /\ application'[q] = application[q]
          /\ assignment'[q] = assignment[q] /\ taking'[q] = taking[q] /\ submitted' = submitted
      BY <2>0, <2>1 DEF CommitTake, FlipApplications, RowsTypeOK, CandidateTypeOK
    <3> QED
      BY <2>0, <2>1, <3>1, CommitFacts
  <2>2. CASE AbortTake(p)
    BY <2>0, <2>2 DEF AbortTake, RowsTypeOK, CandidateTypeOK
  <2>3. CASE CancelOpenQuest(p)
    BY <2>0, <2>3 DEF CancelOpenQuest, RowsTypeOK, CandidateTypeOK
  <2>4. CASE \E form \in Forms : EditForm(p, form)
    BY <2>0, <2>4 DEF EditForm, RowsTypeOK, CandidateTypeOK
  <2>5. CASE \E m \in Members : EndWork(p, m)
    BY <2>0, <2>5 DEF EndWork, RowsTypeOK, CandidateTypeOK
  <2> QED
    BY <1>5, <2>1, <2>2, <2>3, <2>4, <2>5 DEF TouchesQuest
<1> QED
  BY <1>1, <1>2, <1>3, <1>4, <1>5 DEF Good, Effect

\* TakingInv: a command keeps what it saw, because the row of its Quest is
\* locked until it commits or aborts.
LEMMA KeepsTaking ==
    ASSUME RowsTypeOK, TakingInv, Good
    PROVE  TakingInv'
<1> SUFFICES ASSUME NEW q \in Quests, taking'[q] # Idle PROVE Justified(q)'
  BY DEF TakingInv
<1>1. CASE taking[q] # Idle /\ ~TouchesQuest(q)
  <2>1. Justified(q) /\ ~Unlocked(q)
    BY <1>1 DEF TakingInv, Unlocked
  <2> QED
    BY <1>1, <2>1, Bystander DEF Justified
<1>2. CASE taking[q] # Idle /\ TouchesQuest(q)
  <2>1. CASE CommitTake(q) \/ AbortTake(q)
    BY <2>1 DEF CommitTake, AbortTake, RowsTypeOK, CandidateTypeOK
  <2> QED
    BY <1>2, <2>1 DEF TouchesQuest, CancelOpenQuest, EditForm, EndWork, Open, Unlocked
<1>3. CASE taking[q] = Idle
  <2>1. ASSUME NEW p \in Quests, LocksWorkers(p) PROVE p = q
    BY <1>3, <2>1 DEF LocksWorkers, RowsTypeOK, CandidateTypeOK
  <2>2. ASSUME NEW p \in Quests, TouchesQuest(p) PROVE FALSE
    BY <1>3, <2>2 DEF TouchesQuest, CommitTake, AbortTake, CancelOpenQuest, EditForm, EndWork,
                      RowsTypeOK, CandidateTypeOK
  <2>3. \E p \in Quests : LocksWorkers(p)
    BY <1>3, <2>2 DEF Good, Effect, Quiet, ChangesApplication, ChangesTeam, Gathers, Disbands,
                      IsSubmitted, IsRejected, RowBecomes
  <2> QED
    BY <2>1, <2>3 DEF LocksWorkers
<1> QED
  BY <1>1, <1>2, <1>3

\* FormInv: only a join leaves its Quest OPEN, and the form of a Quest changes
\* only as long as nobody took part.
LEMMA KeepsForm ==
    ASSUME RowsTypeOK, TakingInv, FormInv, Good
    PROVE  FormInv'
<1>1. ASSUME \A q \in Quests : quest'[q].form = quest[q].form,
             \A q \in Quests, m \in Members :
                /\ quest'[q].status = "OPEN" /\ assignment'[q][m] # "NONE" =>
                      quest[q].form \in JoinForms
                /\ application'[q][m] # "NONE" => quest[q].form \in ApplyForms,
             \A t \in Teams :
                /\ team'[t].quest = team[t].quest
                /\ team'[t].state # "NONE" => quest[team[t].quest].form \in TeamForms
      PROVE  FormInv'
  BY <1>1, TeamFields DEF FormInv
<1>2. CASE Quiet \/ \E q \in Quests : LocksWorkers(q)
  BY <1>1, <1>2 DEF Quiet, LocksWorkers, FormInv
<1>3. ASSUME NEW p \in Quests, NEW n \in Members, ChangesApplication(p, n)
      PROVE  FormInv'
  <2>1. \A q \in Quests, m \in Members :
            application'[q][m] # "NONE" => quest[q].form \in ApplyForms
    BY <1>3 DEF ChangesApplication, FormInv, RowsTypeOK, CandidateTypeOK
  <2> QED
    BY <1>1, <1>3, <2>1 DEF ChangesApplication, FormInv
<1>4. ASSUME NEW t \in Teams, ChangesTeam(t)
      PROVE  FormInv'
  <2>1. PICK entry \in TeamRows : RowBecomes(t, entry)
    BY <1>4 DEF ChangesTeam, Gathers, Disbands, IsSubmitted, IsRejected
  <2>2. \A u \in Teams : /\ team'[u].quest = team[u].quest
                          /\ team'[u].state # "NONE" => quest[team[u].quest].form \in TeamForms
    BY <2>1, RowFacts DEF RowBecomes, FormInv
  <2> QED
    BY <1>1, <2>1, <2>2 DEF RowBecomes, FormInv
<1>5. ASSUME NEW p \in Quests, CommitTake(p)
      PROVE  FormInv'
  <2>1. Justified(p) /\ taking[p] # Idle
    BY <1>5 DEF CommitTake, TakingInv
  <2>2. ASSUME NEW q \in Quests, NEW m \in Members, quest'[q].status = "OPEN",
               assignment'[q][m] # "NONE"
        PROVE  quest[q].form \in JoinForms
    <3>1. CASE q = p
      <4>1. taking[p].by = "JOIN"
        BY <1>5, <2>2, <3>1, QuestUpdate DEF CommitTake
      <4> QED
        BY <2>1, <3>1, <4>1 DEF Justified, ApplyForms, TeamForms
    <3>2. CASE q # p
      BY <1>5, <2>2, <3>2 DEF CommitTake, FormInv, RowsTypeOK, CandidateTypeOK
    <3> QED
      BY <3>1, <3>2
  <2>3. ASSUME NEW q \in Quests, NEW m \in Members, application'[q][m] # "NONE"
        PROVE  quest[q].form \in ApplyForms
    <3>1. application[q][m] # "NONE"
      BY <1>5, <2>3 DEF CommitTake, FlipApplications, RowsTypeOK, CandidateTypeOK
    <3> QED
      BY <3>1 DEF FormInv
  <2>4. \A t \in Teams : /\ team'[t].quest = team[t].quest
                          /\ team'[t].state # "NONE" => quest[team[t].quest].form \in TeamForms
    BY <1>5, CommitFacts DEF FormInv
  <2> QED
    BY <1>1, <1>5, <2>2, <2>3, <2>4, CommitFacts
<1>6. ASSUME NEW p \in Quests,
             AbortTake(p) \/ CancelOpenQuest(p) \/ \E m \in Members : EndWork(p, m)
      PROVE  FormInv'
  <2>1. UNCHANGED <<team, application>> /\ \A q \in Quests : quest'[q].form = quest[q].form
    BY <1>6, QuestUpdate DEF AbortTake, CancelOpenQuest, EndWork
  <2>2. ASSUME NEW q \in Quests, NEW m \in Members, quest'[q].status = "OPEN",
               assignment'[q][m] # "NONE"
        PROVE  quest[q].form \in JoinForms
    <3>1. quest[q].status = "OPEN" /\ assignment[q][m] # "NONE"
      <4>1. CASE CancelOpenQuest(p)
        <5>1. q # p
          BY <2>2, <4>1, QuestUpdate DEF CancelOpenQuest
        <5> QED
          BY <2>2, <4>1, <5>1 DEF CancelOpenQuest, RowsTypeOK, CandidateTypeOK
      <4>2. ASSUME NEW n \in Members, EndWork(p, n)
            PROVE  quest[q].status = "OPEN" /\ assignment[q][m] # "NONE"
        BY <2>2, <4>2 DEF EndWork, RowsTypeOK, CandidateTypeOK
      <4>3. CASE AbortTake(p)
        BY <2>2, <4>3 DEF AbortTake
      <4> QED
        BY <1>6, <4>1, <4>2, <4>3
    <3> QED
      BY <3>1 DEF FormInv
  <2> QED
    BY <1>1, <2>1, <2>2 DEF FormInv
<1>7. ASSUME NEW p \in Quests, NEW form \in Forms, EditForm(p, form)
      PROVE  FormInv'
  <2>1. /\ \A m \in Members : application[p][m] = "NONE" /\ assignment[p][m] = "NONE"
        /\ \A t \in Teams : team[t].quest = p => team[t].state = "NONE"
    BY <1>7 DEF EditForm, Participated
  <2>2. \A q \in Quests \ {p} : quest'[q] = quest[q]
    BY <1>7 DEF EditForm, RowsTypeOK, CandidateTypeOK
  <2>3. UNCHANGED <<team, application, assignment>>
    BY <1>7 DEF EditForm
  <2> QED
    BY <2>1, <2>2, <2>3, TeamFields DEF FormInv
<1> QED
  BY <1>2, <1>3, <1>4, <1>5, <1>6, <1>7 DEF Good, Effect, TouchesQuest

\* SubmittedInv: a submitted Team has the roster of that moment for ever.
LEMMA KeepsSubmitted ==
    ASSUME RowsTypeOK, SubmittedInv, Good
    PROVE  SubmittedInv'
<1>1. CASE ~\E t \in Teams : ChangesTeam(t)
  <2>1. ASSUME NEW t \in Teams, team'[t].state \in {"SUBMITTED", "SELECTED"}
        PROVE  team[t].state \in {"SUBMITTED", "SELECTED"}
    <3>1. ASSUME NEW q \in Quests, CommitTake(q)
          PROVE  team[t].state \in {"SUBMITTED", "SELECTED"}
      BY <2>1, <3>1, CommitFacts
    <3> QED
      BY <1>1, <2>1, <3>1, OtherSteps
  <2> QED
    BY <1>1, <2>1, OtherSteps DEF SubmittedInv, MembersOf
<1>2. ASSUME NEW t \in Teams, NEW entry \in TeamRows,
             Gathers(t, entry) \/ Disbands(t, entry) \/ IsRejected(t, entry)
      PROVE  SubmittedInv'
  <2>1. /\ RowBecomes(t, entry) /\ submitted' = submitted
        /\ entry.state \notin {"SUBMITTED", "SELECTED"}
    BY <1>2 DEF Gathers, Disbands, IsRejected
  <2> QED
    BY <2>1, RowFacts DEF SubmittedInv, MembersOf
<1>3. ASSUME NEW t \in Teams, NEW entry \in TeamRows, IsSubmitted(t, entry)
      PROVE  SubmittedInv'
  <2>1. /\ RowBecomes(t, entry) /\ entry.members = team[t].members
        /\ submitted'[t] = MembersOf(t)
        /\ \A u \in Teams \ {t} : submitted'[u] = submitted[u]
    BY <1>3 DEF IsSubmitted, SameTeam, RowsTypeOK, CandidateTypeOK
  <2> QED
    BY <2>1, RowFacts DEF SubmittedInv, MembersOf
<1> QED
  BY <1>1, <1>2, <1>3 DEF ChangesTeam

\* What SelectionDecidesAll says of one Quest.
Decided(q) ==
    /\ \A m \in Members : application[q][m] # "APPLIED"
    /\ \A t \in Teams : team[t].quest = q => team[t].state # "SUBMITTED"
    /\ quest[q].form \in TeamForms => \E t \in Teams :
          /\ team[t].quest = q /\ team[t].state = "SELECTED"
          /\ {m \in Members : assignment[q][m] # "NONE"} = submitted[t]

\* The commit that completes the roster answers every Candidate.
LEMMA CommitDecides ==
    ASSUME RowsTypeOK, TakingInv, FormInv, NEW q \in Quests, CommitTake(q)
    PROVE  Decided(q)'
<1>1. Justified(q) /\ taking[q] # Idle /\ taking[q] \in Takings
  BY DEF CommitTake, TakingInv, RowsTypeOK, CandidateTypeOK
<1>2. submitted' = submitted
  BY DEF CommitTake
<1>3. ASSUME NEW m \in Members PROVE application'[q][m] # "APPLIED"
  <2>1. application'[q][m] = IF taking[q].by = "JOIN" \/ application[q][m] # "APPLIED"
                             THEN application[q][m]
                             ELSE IF taking[q].by = "APPLY" /\ m = taking[q].chosen
                                  THEN "SELECTED" ELSE "REJECTED"
    BY DEF CommitTake, FlipApplications, RowsTypeOK, CandidateTypeOK
  <2>2. taking[q].by = "JOIN" => application[q][m] = "NONE"
    BY <1>1 DEF FormInv, Justified, JoinForms, ApplyForms
  <2> QED
    BY <2>1, <2>2
<1>4. ASSUME NEW t \in Teams, team[t].quest = q, team[t].state = "SUBMITTED"
      PROVE  taking[q].by = "TEAM"
  BY <1>1, <1>4 DEF FormInv, Justified, JoinForms, ApplyForms, TeamForms
<1>5. \A t \in Teams : team'[t].quest = q => team'[t].state # "SUBMITTED"
  BY <1>4, CommitFacts
<1>6. ASSUME quest[q].form \in TeamForms
      PROVE  \E t \in Teams :
                /\ team'[t].quest = q /\ team'[t].state = "SELECTED"
                /\ {m \in Members : assignment'[q][m] # "NONE"} = submitted'[t]
  <2> DEFINE t == taking[q].chosen
  <2>1. /\ taking[q].by = "TEAM" /\ t \in Teams /\ team[t].quest = q
        /\ team[t].state = "SUBMITTED" /\ taking[q].workers = submitted[t]
        /\ quest[q].status = "OPEN"
    BY <1>1, <1>6 DEF Justified, JoinForms, ApplyForms, TeamForms
  <2>2. \A m \in Members : assignment[q][m] = "NONE"
    BY <1>6, <2>1 DEF FormInv, JoinForms, TeamForms
  <2>3. \A m \in Members :
            assignment'[q][m] = IF m \in taking[q].workers THEN "ACTIVE" ELSE "NONE"
    BY <2>2 DEF CommitTake, RowsTypeOK, CandidateTypeOK
  <2>4. taking[q].workers \subseteq Members
    BY <1>1 DEF Takings
  <2>5. {m \in Members : assignment'[q][m] # "NONE"} = submitted'[t]
    BY <1>2, <2>1, <2>3, <2>4
  <2>6. team'[t].quest = q /\ team'[t].state = "SELECTED"
    BY <2>1, CommitFacts
  <2> QED
    BY <2>1, <2>5, <2>6
<1>7. quest'[q].form = quest[q].form
  BY CommitFacts
<1> QED
  BY <1>3, <1>5, <1>6, <1>7 DEF Decided

\* SelectionDecidesAll: a Quest that has its Workers changes only as they end
\* their work.
LEMMA KeepsSelection ==
    ASSUME RowsTypeOK, TakingInv, FormInv, SelectionDecidesAll, Good
    PROVE  SelectionDecidesAll'
<1> SUFFICES ASSUME NEW q \in Quests, quest'[q].status = "ASSIGNED" PROVE Decided(q)'
  BY DEF SelectionDecidesAll, Decided, TeamForms
<1>1. CASE CommitTake(q)
  BY <1>1, CommitDecides
<1>2. CASE quest[q].status = "ASSIGNED" /\ ~TouchesQuest(q)
  <2>1. Decided(q) /\ ~Unlocked(q)
    BY <1>2 DEF SelectionDecidesAll, Decided, TeamForms, Unlocked
  <2> QED
    BY <1>2, <2>1, Bystander DEF Decided
<1>3. ASSUME NEW n \in Members, EndWork(q, n)
      PROVE  Decided(q)'
  <2>1. Decided(q)
    BY <1>3 DEF EndWork, SelectionDecidesAll, Decided, TeamForms
  <2>2. \A m \in Members : assignment'[q][m] # "NONE" <=> assignment[q][m] # "NONE"
    BY <1>3 DEF EndWork, RowsTypeOK, CandidateTypeOK
  <2>3. UNCHANGED <<quest, application, team, submitted>>
    BY <1>3 DEF EndWork
  <2> QED
    BY <2>1, <2>2, <2>3 DEF Decided
<1>4. CASE quest[q].status = "ASSIGNED" /\ TouchesQuest(q) /\ ~CommitTake(q)
  <2>1. taking[q] # Idle => Justified(q)
    BY DEF TakingInv
  <2>2. \E m \in Members : EndWork(q, m)
    BY <1>4, <2>1 DEF TouchesQuest, AbortTake, CancelOpenQuest, EditForm, Open, Unlocked, Justified
  <2> QED
    BY <1>3, <2>2
<1>5. CASE quest[q].status # "ASSIGNED"
  <2>1. ASSUME NEW p \in Quests, TouchesQuest(p) PROVE CommitTake(q)
    <3>1. CASE CommitTake(p)
      BY <1>5, <3>1 DEF CommitTake, RowsTypeOK, CandidateTypeOK
    <3>2. CASE CancelOpenQuest(p)
      BY <1>5, <3>2, QuestUpdate DEF CancelOpenQuest
    <3>3. CASE AbortTake(p) \/ \E m \in Members : EndWork(p, m)
      BY <1>5, <3>3 DEF AbortTake, EndWork
    <3>4. ASSUME NEW form \in Forms, EditForm(p, form) PROVE FALSE
      BY <1>5, <3>4 DEF EditForm, RowsTypeOK, CandidateTypeOK
    <3> QED
      BY <2>1, <3>1, <3>2, <3>3, <3>4 DEF TouchesQuest
  <2>2. \E p \in Quests : TouchesQuest(p)
    BY <1>5 DEF Good, Effect, Quiet, LocksWorkers, ChangesApplication, ChangesTeam, Gathers,
                Disbands, IsSubmitted, IsRejected, RowBecomes
  <2> QED
    BY <1>1, <2>1, <2>2
<1> QED
  BY <1>1, <1>2, <1>4, <1>5

-----------------------------------------------------------------------------
(* The theorems *)

\* The invariant holds at the start.
LEMMA InitRoster == Init => RosterInv
<1> SUFFICES ASSUME Init PROVE RosterInv
  OBVIOUS
<1>1. RowsTypeOK
  <2>1. team \in [Teams -> TeamRows]
    <3> DEFINE NewRows == [quest: Quests, state: {"NONE"}, leader: {NoMember},
                           members: {<<>>}, size: {0}, code: {0}]
    <3>1. team \in [Teams -> NewRows]
      BY DEF Init, CandidateInit
    <3>2. NewRows \subseteq TeamRows
      <4>1. /\ {<<>>} \subseteq Seq(Members) /\ {"NONE"} \subseteq TeamStates
            /\ {NoMember} \subseteq Members \union {NoMember} /\ {0} \subseteq Nat
        BY DEF TeamStates
      <4> DEFINE empty == {<<>>}
      <4> HIDE DEF empty
      <4>2. empty \subseteq Seq(Members)
        BY <4>1 DEF empty
      <4>3. ASSUME NEW E, E \subseteq Seq(Members)
            PROVE  [quest: Quests, state: {"NONE"}, leader: {NoMember}, members: E, size: {0},
                    code: {0}] \subseteq TeamRows
        BY <4>1, <4>3 DEF TeamRows
      <4> QED
        BY <4>2, <4>3 DEF empty
    <3> HIDE DEF NewRows
    <3> QED
      BY <3>1, <3>2
  <2>2. taking \in [Quests -> Takings]
    BY DEF Init, CandidateInit, Idle, Takings
  <2>3. application \in [Quests -> [Members -> ApplicationStates]]
    BY DEF Init, CandidateInit, ApplicationStates
  <2>4. quest \in [Quests -> QuestRows]
    BY DEF Init, CandidateInit, QuestRows
  <2>5. now \in 0 .. MaxTime /\ submitted \in [Teams -> SUBSET Members]
        /\ assignment \in [Quests -> [Members -> {"NONE", "ACTIVE", "ENDED"}]]
    BY ScheduleAssumption DEF Init, CandidateInit
  <2>6. InvitationTypeOK
    BY DEF Init, InvitationInit, InvitationTypeOK, InvitationRows
  <2> QED
    BY <2>1, <2>2, <2>3, <2>4, <2>5, <2>6 DEF RowsTypeOK, CandidateTypeOK, QuestRows
<1>2. /\ \A t \in Teams : team[t].state = "NONE"
      /\ \A q \in Quests : taking[q] = Idle /\ quest[q].status = "OPEN"
      /\ \A q \in Quests, m \in Members : assignment[q][m] = "NONE" /\ application[q][m] = "NONE"
  BY DEF Init, CandidateInit
<1>3. OneTeamEach /\ SubmittedInv /\ TakingInv /\ FormInv /\ SelectionDecidesAll
  BY <1>2 DEF OneTeamEach, Bound, SubmittedInv, TakingInv, FormInv, SelectionDecidesAll
<1>4. LocksInv
  BY <1>2 DEF LocksInv, Workforce, Active, Idle, Locked
<1>5. TimesTypeOK
  BY DEF Init, TimesInit, TimesTypeOK
<1> QED
  BY <1>1, <1>3, <1>4, <1>5 DEF RosterInv

\* Every step keeps it.
LEMMA NextRoster == RosterInv /\ [Next]_rosterVars => RosterInv'
<1> SUFFICES ASSUME RosterInv, [Next]_rosterVars PROVE RosterInv'
  OBVIOUS
<1>1. CASE \/ RowStep /\ UNCHANGED timeVars
           \/ UNCHANGED rosterVars
  <2>1. Good /\ UNCHANGED timeVars
    BY <1>1, StepEffect DEF RosterInv, rosterVars
  <2>2. TimesTypeOK'
    BY <2>1 DEF RosterInv, TimesTypeOK, timeVars
  <2> QED
    BY <2>1, <2>2, KeepsOneTeam, KeepsLocks, KeepsTaking, KeepsForm, KeepsSubmitted,
       KeepsSelection DEF RosterInv, Good
<1>2. CASE EditsTimes
  <2>1. TimesTypeOK' /\ LocksInv' /\ UNCHANGED <<vars, invitation>>
    BY <1>2, EditsKeepLocks DEF RosterInv
  <2>2. RowsTypeOK' /\ OneTeamEach' /\ TakingInv'
    BY <2>1 DEF RosterInv, vars, RowsTypeOK, CandidateTypeOK, InvitationTypeOK, OneTeamEach,
       Bound, MembersOf, TakingInv, Justified
  <2>3. FormInv' /\ SubmittedInv' /\ SelectionDecidesAll'
    BY <2>1 DEF RosterInv, vars, FormInv, SubmittedInv, MembersOf, SelectionDecidesAll
  <2> QED
    BY <2>1, <2>2, <2>3 DEF RosterInv
<1> QED
  BY <1>1, <1>2 DEF Next

\* RosterInv is an invariant of the specification.
LEMMA Roster == Spec => []RosterInv
  BY InitRoster, NextRoster, PTL DEF Spec

\* Type correctness: every command of both APIs keeps the tables in their types.
THEOREM RosterTypeSafe == Spec => []TypeOK
<1>1. RosterInv => TypeOK
  BY DEF RosterInv, TypeOK
<1> QED
  BY <1>1, Roster, PTL

\* However joins, invitations, removals and selections interleave, nobody is on
\* two Teams of a Quest, and every Team is led by one of its own.
THEOREM OneTeamSafe == Spec => []OneTeamEach
<1>1. RosterInv => OneTeamEach
  BY DEF RosterInv
<1> QED
  BY <1>1, Roster, PTL

\* However many commands of both APIs choose Workers at once, and whichever
\* Quests get new times meanwhile, the locks on the Workers' rows keep everyone
\* from getting on the rosters of two Quests at the same time.
THEOREM NoDoubleBookingSafe == Spec => []NoDoubleBooking
<1>1. ASSUME LocksInv PROVE NoDoubleBooking
  <2> SUFFICES ASSUME NEW q \in Quests, NEW m \in Members, assignment[q][m] = "ACTIVE",
                      NEW p \in Overlaps(q), assignment[p][m] = "ACTIVE"
               PROVE  <<m, q, p>> \in caught \/ <<m, p, q>> \in caught
    BY DEF NoDoubleBooking
  <2>1. m \in Workforce(q) \intersect Workforce(p)
    BY DEF Workforce, Active
  <2> QED
    BY <1>1, <2>1 DEF LocksInv, WasCaught
<1>2. RosterInv => NoDoubleBooking
  BY <1>1 DEF RosterInv
<1> QED
  BY <1>2, Roster, PTL

\* Whoever chooses the Workers of a Quest, and whatever happens meanwhile, the
\* roster is the one its Leader submitted and no Candidate is left waiting.
THEOREM SelectionSafe == Spec => []SelectionDecidesAll
<1>1. RosterInv => SelectionDecidesAll
  BY DEF RosterInv
<1> QED
  BY <1>1, Roster, PTL

-----------------------------------------------------------------------------
(* Commands: the locks of a transaction, in their order *)

\* Every plan has the key of the command in one place i: what it locks before
\* are the Quest, and a Member's row before that; what it locks after are rows
\* of Members.
KeyAt(P, id, i) ==
    /\ Len(P) \in Nat /\ i \in 1 .. Len(P)
    /\ P[i] = Update("COMMAND", id)
    /\ \A j \in 1 .. Len(P) : j > i => P[j].table = "MEMBER"
    /\ \A j \in 1 .. Len(P) : j < i => P[j].table # "COMMAND"
    /\ \A j \in 1 .. Len(P) : P[j].table = "QUEST" => j + 1 = i
    /\ \A j \in 1 .. Len(P) : P[j].table \in {"QUEST", "COMMAND", "MEMBER"}

\* The rows of Workers are locked last.
LEMMA WorkersLast ==
    ASSUME NEW c \in Commands
    PROVE  /\ LockWorkers(c) \in Seq({LockWorkers(c)[n] : n \in DOMAIN LockWorkers(c)})
           /\ \A n \in 1 .. Len(LockWorkers(c)) : LockWorkers(c)[n].table = "MEMBER"
<1>1. c.workers \in Seq({c.workers[n] : n \in DOMAIN c.workers})
  BY CommandAssumption
<1>2. DOMAIN c.workers = 1 .. Len(c.workers) /\ Len(c.workers) \in Nat
  BY <1>1
<1> DEFINE W == LockWorkers(c)
           X == {W[n] : n \in DOMAIN W}
<1>3. W = [n \in 1 .. Len(c.workers) |-> Update("MEMBER", c.workers[n])]
  BY <1>2 DEF LockWorkers
<1>4. DOMAIN W = 1 .. Len(c.workers) /\ W \in [1 .. Len(c.workers) -> X]
  BY <1>3
<1> HIDE DEF W
<1>5. W \in Seq(X) /\ Len(W) = Len(c.workers)
  BY <1>2, <1>4, IsASeq DEF X
<1>6. \A n \in 1 .. Len(W) : W[n] = Update("MEMBER", c.workers[n])
  BY <1>3, <1>5 DEF W
<1>7. \A n \in 1 .. Len(W) : W[n].table = "MEMBER"
  <2>1. \A r : Update("MEMBER", r).table = "MEMBER"
    BY DEF Update
  <2> QED
    BY <1>6, <2>1, Zenon
<1> QED
  BY <1>5, <1>7 DEF W, X

\* What one sequence after another is.
LEMMA Concatenated ==
    ASSUME NEW X, NEW f \in Seq(X), NEW s \in Seq(X)
    PROVE  /\ f \o s \in Seq(X) /\ Len(f \o s) = Len(f) + Len(s)
           /\ \A j \in 1 .. Len(f) : (f \o s)[j] = f[j]
           /\ \A j \in 1 .. Len(s) : (f \o s)[Len(f) + j] = s[j]
<1> DEFINE H == f \o s
<1>1. /\ H \in Seq(X) /\ Len(H) = Len(f) + Len(s)
      /\ \A j \in 1 .. Len(f) + Len(s) : H[j] = IF j <= Len(f) THEN f[j] ELSE s[j - Len(f)]
  BY ConcatProperties, Zenon
<1>2. Len(f) \in Nat /\ Len(s) \in Nat
  OBVIOUS
<1> HIDE DEF H
<1>3. ASSUME NEW j \in 1 .. Len(f) PROVE H[j] = f[j]
  BY <1>1, <1>2
<1>4. ASSUME NEW j \in 1 .. Len(s) PROVE H[Len(f) + j] = s[j]
  <2>1. Len(f) + j \in 1 .. Len(f) + Len(s) /\ ~(Len(f) + j <= Len(f)) /\ Len(f) + j - Len(f) = j
    BY <1>2
  <2> QED
    BY <1>1, <2>1
<1> QED
  BY <1>1, <1>3, <1>4 DEF H

\* Every plan has the key of its command in one place.
LEMMA PlanHasKey ==
    ASSUME NEW c \in Commands, NEW k
    PROVE  \E i \in Nat : KeyAt(Plan(c, k), RowOf(c, k), i)
<1> DEFINE W == LockWorkers(c)
           X == {W[n] : n \in DOMAIN W} \union
                {Update("MEMBER", c.by), Share("MEMBER", c.by), Update("QUEST", c.quest),
                 Update("COMMAND", RowOf(c, k))}
           I == Insert(c, k)
<1>1. /\ W \in Seq(X)
      /\ \A n \in 1 .. Len(W) : W[n].table = "MEMBER"
  <2>1. \A S, T : S \subseteq T => Seq(S) \subseteq Seq(T)
    OBVIOUS
  <2> QED
    BY <2>1, WorkersLast
<1>2. /\ I \in Seq(X) /\ Len(I) = 2
      /\ I[1] = Update("COMMAND", RowOf(c, k)) /\ I[2] = Share("MEMBER", c.by)
  BY DEF Insert
<1>3. /\ Update("COMMAND", RowOf(c, k)).table = "COMMAND"
      /\ Share("MEMBER", c.by).table = "MEMBER" /\ Update("MEMBER", c.by).table = "MEMBER"
      /\ Update("QUEST", c.quest).table = "QUEST"
  BY DEF Update, Share
<1>4. CASE c.kind = "CREATE"
  <2>1. Plan(c, k) = I
    BY <1>4 DEF Plan
  <2> QED
    BY <2>1, <1>2, <1>3 DEF KeyAt
<1>5. CASE c.kind = "PUBLISH"
  <2> DEFINE F == <<Update("MEMBER", c.by), Update("QUEST", c.quest)>>
  <2>1. Plan(c, k) = F \o I
    BY <1>5 DEF Plan
  <2>2. /\ F \in Seq(X) /\ Len(F) = 2
        /\ F[1] = Update("MEMBER", c.by) /\ F[2] = Update("QUEST", c.quest)
    OBVIOUS
  <2> HIDE DEF X, I, F
  <2> DEFINE P == F \o I
  <2>3. /\ Len(P) = Len(F) + Len(I)
        /\ \A j \in 1 .. Len(F) : P[j] = F[j]
        /\ \A j \in 1 .. Len(I) : P[Len(F) + j] = I[j]
    <3>1. F \in Seq(X) /\ I \in Seq(X)
      BY <1>2, <2>2
    <3>2. Len(P) = Len(F) + Len(I)
      BY <3>1, Concatenated
    <3>3. ASSUME NEW j \in 1 .. Len(F) PROVE P[j] = F[j]
      BY <3>1, Concatenated
    <3>4. ASSUME NEW j \in 1 .. Len(I) PROVE P[Len(F) + j] = I[j]
      BY <3>1, Concatenated
    <3> QED
      BY <3>2, <3>3, <3>4
  <2> HIDE DEF P
  <2>4. /\ Len(P) = 4 /\ P[1] = F[1] /\ P[2] = F[2]
        /\ P[3] = Update("COMMAND", RowOf(c, k)) /\ P[4] = Share("MEMBER", c.by)
    BY <2>2, <2>3, <1>2
  <2>5. KeyAt(P, RowOf(c, k), 3)
    BY <2>2, <2>4, <1>3 DEF KeyAt
  <2> QED
    BY <2>1, <2>5 DEF P
<1>6. CASE c.kind # "CREATE" /\ c.kind # "PUBLISH"
  <2> DEFINE F == <<Update("QUEST", c.quest)>>
  <2>1. Plan(c, k) = F \o I \o W
    BY <1>6 DEF Plan
  <2>2. F \in Seq(X) /\ Len(F) = 1 /\ F[1] = Update("QUEST", c.quest)
    OBVIOUS
  <2> HIDE DEF X, I, F, W
  <2> DEFINE G == F \o I
  <2>3. /\ G \in Seq(X) /\ Len(G) = Len(F) + Len(I)
        /\ \A j \in 1 .. Len(F) : G[j] = F[j]
        /\ \A j \in 1 .. Len(I) : G[Len(F) + j] = I[j]
    <3>1. F \in Seq(X) /\ I \in Seq(X)
      BY <1>2, <2>2
    <3>2. G \in Seq(X) /\ Len(G) = Len(F) + Len(I)
      BY <3>1, Concatenated
    <3>3. ASSUME NEW j \in 1 .. Len(F) PROVE G[j] = F[j]
      BY <3>1, Concatenated
    <3>4. ASSUME NEW j \in 1 .. Len(I) PROVE G[Len(F) + j] = I[j]
      BY <3>1, Concatenated
    <3> QED
      BY <3>2, <3>3, <3>4
  <2> HIDE DEF G
  <2>4. /\ G \in Seq(X) /\ Len(G) = 3
        /\ G[1] = F[1] /\ G[2] = I[1] /\ G[3] = I[2]
    BY <2>2, <2>3, <1>2
  <2> DEFINE P == G \o W
  <2>5. /\ Len(W) \in Nat /\ Len(P) = 3 + Len(W)
        /\ \A j \in 1 .. 3 : P[j] = G[j]
        /\ \A j \in 1 .. Len(W) : P[3 + j] = W[j]
    <3>1. G \in Seq(X) /\ W \in Seq(X)
      BY <1>1, <2>4
    <3>2. Len(P) = Len(G) + Len(W)
      BY <3>1, Concatenated
    <3>3. ASSUME NEW j \in 1 .. Len(G) PROVE P[j] = G[j]
      BY <3>1, Concatenated
    <3>4. ASSUME NEW j \in 1 .. Len(W) PROVE P[Len(G) + j] = W[j]
      BY <3>1, Concatenated
    <3> HIDE DEF P
    <3>5. Len(W) \in Nat
      BY <1>1
    <3> QED
      BY <2>4, <3>2, <3>3, <3>4, <3>5
  <2> HIDE DEF P
  <2>6. ASSUME NEW j \in 1 .. Len(P), j > 3 PROVE P[j].table = "MEMBER"
    <3>1. j - 3 \in 1 .. Len(W) /\ 3 + (j - 3) = j
      BY <2>5, <2>6
    <3> QED
      BY <3>1, <2>5, <1>1
  <2>7. /\ P[1] = Update("QUEST", c.quest) /\ P[2] = Update("COMMAND", RowOf(c, k))
        /\ P[3] = Share("MEMBER", c.by)
    BY <2>2, <2>4, <2>5, <1>2
  <2>8. KeyAt(P, RowOf(c, k), 2)
    BY <2>5, <2>6, <2>7, <1>3 DEF KeyAt
  <2> QED
    BY <2>1, <2>8 DEF P, G
<1> QED
  BY <1>4, <1>5, <1>6

-----------------------------------------------------------------------------
(* Commands: whoever waits, waits for what comes later *)

IdOf(p) == RowOf(tx[p].command, tx[p].key)

\* p holds the entry of the unique index for its command and key.
Claims(p) == Update("COMMAND", IdOf(p)) \in Held(p)

OpenTxs == [open: {TRUE}, command: Commands, key: Keys, locked: Nat]

TxTyped ==
    /\ tx \in [Clients -> OpenTxs \union {NoTx}]
    /\ \A p \in Clients : tx[p].open => tx[p].locked <= Len(PlanOf(p))

\* What an open transaction holds, and what it waits for.
LEMMA PlanOfOpen ==
    ASSUME TxTyped, NEW p \in Clients, tx[p].open
    PROVE  /\ tx[p] \in OpenTxs /\ tx[p].locked <= Len(PlanOf(p))
           /\ \E i \in Nat : KeyAt(PlanOf(p), IdOf(p), i)
<1>1. tx[p] \in OpenTxs
  BY DEF TxTyped, NoTx
<1>2. tx[p].command \in Commands
  BY <1>1 DEF OpenTxs
<1> QED
  BY <1>1, <1>2, PlanHasKey DEF TxTyped, PlanOf, IdOf

\* Whoever holds the key of his command, or its Quest, waits for what comes
\* later in every plan.
LEMMA HolderWaits ==
    ASSUME TxTyped, NEW p \in Clients, tx[p].open, ~AllLocked(p), NEW lock \in Held(p)
    PROVE  /\ lock.table = "COMMAND" => NextLock(p).table = "MEMBER"
           /\ lock.table = "QUEST" => NextLock(p).table \in {"COMMAND", "MEMBER"}
           /\ lock.table \in {"QUEST", "COMMAND", "MEMBER"}
<1> DEFINE P == PlanOf(p)
           m == tx[p].locked
<1>1. PICK i \in Nat : KeyAt(P, IdOf(p), i)
  BY PlanOfOpen
<1>2. m \in Nat /\ m <= Len(P) /\ m # Len(P)
  BY PlanOfOpen DEF OpenTxs, AllLocked
<1>3. PICK n \in 1 .. m : lock = P[n]
  BY DEF Held
<1>4. NextLock(p) = P[m + 1]
  BY DEF NextLock
<1> HIDE DEF P, m
<1>5. /\ Len(P) \in Nat /\ m + 1 \in 1 .. Len(P) /\ n \in 1 .. Len(P) /\ i \in 1 .. Len(P)
      /\ m + 1 > n
  BY <1>1, <1>2, <1>3 DEF KeyAt
<1>6. /\ \A j \in 1 .. Len(P) : j > i => P[j].table = "MEMBER"
      /\ \A j \in 1 .. Len(P) : j < i => P[j].table # "COMMAND"
      /\ \A j \in 1 .. Len(P) : P[j].table = "QUEST" => j + 1 = i
      /\ \A j \in 1 .. Len(P) : P[j].table \in {"QUEST", "COMMAND", "MEMBER"}
      /\ P[i].table = "COMMAND"
  BY <1>1 DEF KeyAt, Update
<1>7. lock.table = "COMMAND" => P[m + 1].table = "MEMBER"
  BY <1>3, <1>5, <1>6
<1>8. lock.table = "QUEST" => P[m + 1].table \in {"COMMAND", "MEMBER"}
  BY <1>3, <1>5, <1>6
<1> QED
  BY <1>3, <1>4, <1>5, <1>6, <1>7, <1>8

\* In every circle somebody waits for a Member's row.
LEMMA CircleOverMember ==
    ASSUME TxTyped, NEW S \in SUBSET Clients, WaitInCircle(S)
    PROVE  \E p \in S : NextLock(p).table = "MEMBER"
<1>1. ASSUME NEW p \in S
      PROVE  \E r \in S : \E lock \in Held(r) :
                 /\ tx[r].open /\ ~AllLocked(r) /\ NextLock(p).table = lock.table
  BY DEF WaitInCircle, WaitsFor, Conflict
<1>2. ASSUME NEW p \in S, NextLock(p).table = "COMMAND"
      PROVE  \E r \in S : NextLock(r).table = "MEMBER"
  BY <1>1, <1>2, HolderWaits
<1>3. ASSUME NEW p \in S, NextLock(p).table = "QUEST"
      PROVE  \E r \in S : NextLock(r).table \in {"COMMAND", "MEMBER"}
  BY <1>1, <1>3, HolderWaits
<1>4. PICK p \in S : TRUE
  BY DEF WaitInCircle
<1>5. NextLock(p).table \in {"QUEST", "COMMAND", "MEMBER"}
  BY <1>1, <1>4, HolderWaits
<1> QED
  BY <1>2, <1>3, <1>4, <1>5

-----------------------------------------------------------------------------
(* Commands: one claim to a key, and one row *)

RowsTyped ==
    /\ commandRow \in [CommandIds -> StoredRows \union {NoRow}]
    /\ effects \in [CommandIds -> Nat]
    /\ answers \in [Commands \X Keys -> SUBSET Results]

\* The work of a row was done once, if the row says so.
EffectsTrue ==
    \A i \in CommandIds : effects[i] = IF commandRow[i].result = "DONE" THEN 1 ELSE 0

\* A v2 command is answered with what its own row holds.
AnswersTrue ==
    \A c \in Commands, k \in Keys : c.kind \notin KindsV1 =>
        \A a \in answers[<<c, k>>] :
            /\ commandRow[RowOf(c, k)] \in StoredRows
            /\ commandRow[RowOf(c, k)].for = c /\ commandRow[RowOf(c, k)].result = a

\* A key that is claimed has no row yet, and one claimant.
ClaimsFresh ==
    /\ \A p \in Clients : Claims(p) => commandRow[IdOf(p)] = NoRow
    /\ \A p, r \in Clients : p # r /\ Claims(p) /\ Claims(r) => IdOf(p) # IdOf(r)

CommandInv == TxTyped /\ RowsTyped /\ EffectsTrue /\ AnswersTrue /\ ClaimsFresh

\* A stored row is not the absence of one.
LEMMA StoredRowFacts ==
    /\ NoRow.result = "NONE" /\ NoRow \notin StoredRows
    /\ \A entry \in StoredRows : entry.result \in Results
    /\ \A c \in Commands, r \in Results :
           /\ [for |-> c, result |-> r] \in StoredRows
           /\ [for |-> c, result |-> r].for = c /\ [for |-> c, result |-> r].result = r
BY DEF NoRow, StoredRows, Results

\* A transaction that does not change keeps what it claims.
LEMMA SameClaims ==
    ASSUME NEW r, tx'[r] = tx[r]
    PROVE  (Claims(r))' = Claims(r) /\ (IdOf(r))' = IdOf(r) /\ (PlanOf(r))' = PlanOf(r)
<1>1. (IdOf(r))' = IdOf(r) /\ (PlanOf(r))' = PlanOf(r)
  BY DEF IdOf, PlanOf
<1>2. (Held(r))' = Held(r)
  BY <1>1 DEF Held
<1> QED
  BY <1>1, <1>2 DEF Claims

\* The key is among the first m locks of a plan as soon as m reaches its place.
LEMMA KeyAmong ==
    ASSUME NEW P, NEW id, NEW i \in Nat, KeyAt(P, id, i), NEW m \in Nat, m <= Len(P)
    PROVE  Update("COMMAND", id) \in {P[n] : n \in 1 .. m} <=> i <= m
<1>1. /\ Len(P) \in Nat /\ i \in 1 .. Len(P) /\ P[i] = Update("COMMAND", id)
      /\ \A j \in 1 .. Len(P) : j < i => P[j].table # "COMMAND"
  BY DEF KeyAt
<1>2. ASSUME NEW n \in 1 .. m, P[n] = Update("COMMAND", id) PROVE i <= m
  <2>1. P[n].table = "COMMAND"
    BY <1>2 DEF Update
  <2>2. n \in 1 .. Len(P)
    BY <1>1
  <2> QED
    BY <1>1, <2>1, <2>2
<1> QED
  BY <1>1, <1>2

\* One transaction changes: the others claim what they claimed.
LEMMA OneTx ==
    ASSUME TxTyped, NEW p \in Clients, NEW t, tx' = [tx EXCEPT ![p] = t]
    PROVE  /\ tx'[p] = t /\ DOMAIN tx' = Clients
           /\ \A r \in Clients \ {p} :
                  /\ tx'[r] = tx[r] /\ (Claims(r))' = Claims(r)
                  /\ (IdOf(r))' = IdOf(r) /\ (PlanOf(r))' = PlanOf(r)
<1>1. tx'[p] = t /\ DOMAIN tx' = Clients /\ \A r \in Clients \ {p} : tx'[r] = tx[r]
  BY DEF TxTyped
<1> QED
  BY <1>1, SameClaims

\* A transaction that ends claims nothing.
LEMMA ClosedTx ==
    ASSUME TxTyped, NEW p \in Clients, Close(p)
    PROVE  /\ TxTyped' /\ ~(Claims(p))'
           /\ \A r \in Clients \ {p} : (Claims(r))' = Claims(r) /\ (IdOf(r))' = IdOf(r)
<1>1. /\ tx'[p] = NoTx /\ DOMAIN tx' = Clients
      /\ \A r \in Clients \ {p} :
             /\ tx'[r] = tx[r] /\ (Claims(r))' = Claims(r)
             /\ (IdOf(r))' = IdOf(r) /\ (PlanOf(r))' = PlanOf(r)
  BY OneTx DEF Close
<1>2. ~NoTx.open
  BY DEF NoTx
<1>3. ~(Claims(p))'
  BY <1>1, <1>2 DEF Claims, Held
<1>4. tx' \in [Clients -> OpenTxs \union {NoTx}]
  BY DEF TxTyped, Close
<1>5. ASSUME NEW r \in Clients, tx'[r].open PROVE tx'[r].locked <= Len((PlanOf(r))')
  BY <1>1, <1>2, <1>5 DEF TxTyped
<1> QED
  BY <1>1, <1>3, <1>4, <1>5 DEF TxTyped

\* A transaction is opened with nothing locked.
LEMMA BeginKeeps ==
    ASSUME CommandInv, NEW p \in Clients, NEW c \in Commands, NEW k \in Keys, Begin(p, c, k)
    PROVE  CommandInv'
<1> DEFINE t == [open |-> TRUE, command |-> c, key |-> k, locked |-> 0]
<1>1. TxTyped /\ RowsTyped /\ EffectsTrue /\ AnswersTrue /\ ClaimsFresh
  BY DEF CommandInv
<1>2. tx' = [tx EXCEPT ![p] = t] /\ UNCHANGED <<commandRow, effects, answers>>
  BY DEF Begin
<1>3. t \in OpenTxs /\ t.locked = 0 /\ t.open /\ t.command = c /\ t.key = k
  BY DEF OpenTxs
<1> HIDE DEF t
<1>4. /\ tx'[p] = t /\ DOMAIN tx' = Clients
      /\ \A r \in Clients \ {p} :
             /\ tx'[r] = tx[r] /\ (Claims(r))' = Claims(r)
             /\ (IdOf(r))' = IdOf(r) /\ (PlanOf(r))' = PlanOf(r)
  BY <1>1, <1>2, OneTx
<1>5. ~(Claims(p))'
  BY <1>3, <1>4 DEF Claims, Held
<1>6. TxTyped'
  <2>1. tx' \in [Clients -> OpenTxs \union {NoTx}]
    BY <1>1, <1>2, <1>3 DEF TxTyped
  <2>2. 0 <= Len((PlanOf(p))')
    <3>1. PICK i \in Nat : KeyAt(Plan(c, k), RowOf(c, k), i)
      BY PlanHasKey
    <3>2. Len(Plan(c, k)) \in Nat /\ (PlanOf(p))' = Plan(c, k)
      BY <1>3, <1>4, <3>1 DEF KeyAt, PlanOf
    <3> QED
      BY <3>2
  <2>3. ASSUME NEW r \in Clients, tx'[r].open PROVE tx'[r].locked <= Len((PlanOf(r))')
    BY <1>1, <1>3, <1>4, <2>2, <2>3 DEF TxTyped
  <2> QED
    BY <2>1, <2>3 DEF TxTyped
<1>7. ClaimsFresh'
  BY <1>1, <1>2, <1>4, <1>5 DEF ClaimsFresh
<1>8. RowsTyped' /\ EffectsTrue' /\ AnswersTrue'
  BY <1>1, <1>2 DEF RowsTyped, EffectsTrue, AnswersTrue
<1> QED
  BY <1>6, <1>7, <1>8 DEF CommandInv

\* The entry of the unique index is granted to one, and only for a new key.
LEMMA LockKeeps ==
    ASSUME CommandInv, NEW p \in Clients, Lock(p)
    PROVE  CommandInv'
<1> DEFINE m == tx[p].locked
           t == [tx[p] EXCEPT !.locked = m + 1]
<1>1. TxTyped /\ RowsTyped /\ EffectsTrue /\ AnswersTrue /\ ClaimsFresh
  BY DEF CommandInv
<1>2. /\ tx[p].open /\ ~AllLocked(p) /\ ~Blocked(p) /\ ~Claimed(p)
      /\ tx' = [tx EXCEPT ![p] = t] /\ UNCHANGED <<commandRow, effects, answers>>
  BY DEF Lock
<1>3. tx[p] \in OpenTxs /\ m \in Nat /\ m <= Len(PlanOf(p))
  BY <1>1, <1>2, PlanOfOpen DEF OpenTxs
<1>4. t \in OpenTxs /\ t.locked = m + 1 /\ t.open /\ t.command = tx[p].command /\ t.key = tx[p].key
  <2>1. \A u \in OpenTxs, n \in Nat :
            LET v == [u EXCEPT !.locked = n]
            IN  v \in OpenTxs /\ v.locked = n /\ v.open /\ v.command = u.command /\ v.key = u.key
    BY DEF OpenTxs
  <2>2. m + 1 \in Nat
    BY <1>3
  <2> QED
    BY <1>3, <2>1, <2>2
<1> HIDE DEF t
<1>5. /\ tx'[p] = t /\ DOMAIN tx' = Clients
      /\ \A r \in Clients \ {p} :
             /\ tx'[r] = tx[r] /\ (Claims(r))' = Claims(r)
             /\ (IdOf(r))' = IdOf(r) /\ (PlanOf(r))' = PlanOf(r)
  BY <1>1, <1>2, OneTx
<1>6. (IdOf(p))' = IdOf(p) /\ (PlanOf(p))' = PlanOf(p)
  BY <1>4, <1>5 DEF IdOf, PlanOf
<1>7. PICK i \in Nat : KeyAt(PlanOf(p), IdOf(p), i)
  BY <1>1, <1>2, PlanOfOpen
<1>8. Len(PlanOf(p)) \in Nat /\ m < Len(PlanOf(p))
  BY <1>2, <1>3, <1>7 DEF AllLocked, KeyAt
<1>9. TxTyped'
  <2>1. tx' \in [Clients -> OpenTxs \union {NoTx}]
    BY <1>1, <1>2, <1>4 DEF TxTyped
  <2>2. ASSUME NEW r \in Clients, tx'[r].open PROVE tx'[r].locked <= Len((PlanOf(r))')
    BY <1>1, <1>3, <1>4, <1>5, <1>6, <1>8, <2>2 DEF TxTyped
  <2> QED
    BY <2>1, <2>2 DEF TxTyped
<1>10. Claims(p) <=> i <= m
  BY <1>2, <1>3, <1>7, KeyAmong DEF Claims, Held
<1>11. (Claims(p))' <=> i <= m + 1
  <2>1. m + 1 \in Nat /\ m + 1 <= Len(PlanOf(p))
    BY <1>3, <1>8
  <2>2. (Held(p))' = {PlanOf(p)[n] : n \in 1 .. m + 1}
    BY <1>4, <1>5, <1>6 DEF Held
  <2> QED
    BY <1>6, <1>7, <2>1, <2>2, KeyAmong DEF Claims
<1>12. CASE Claims(p)
  <2>1. (Claims(p))'
    BY <1>3, <1>10, <1>11, <1>12
  <2>2. ClaimsFresh'
    BY <1>1, <1>2, <1>5, <1>6, <1>12, <2>1 DEF ClaimsFresh
  <2> QED
    BY <1>1, <1>2, <1>9, <2>2 DEF CommandInv, RowsTyped, EffectsTrue, AnswersTrue
<1>13. CASE ~Claims(p) /\ ~(Claims(p))'
  <2>2. ClaimsFresh'
    BY <1>1, <1>2, <1>5, <1>6, <1>13 DEF ClaimsFresh
  <2> QED
    BY <1>1, <1>2, <1>9, <2>2 DEF CommandInv, RowsTyped, EffectsTrue, AnswersTrue
<1>14. CASE ~Claims(p) /\ (Claims(p))'
  <2>1. i = m + 1
    BY <1>3, <1>10, <1>11, <1>14
  <2>2. NextLock(p) = Update("COMMAND", IdOf(p))
    BY <1>7, <2>1 DEF NextLock, KeyAt
  <2>3. Update("COMMAND", IdOf(p)).table = "COMMAND" /\ Update("COMMAND", IdOf(p)).row = IdOf(p)
        /\ Update("COMMAND", IdOf(p)).mode = "UPDATE"
    BY DEF Update
  <2>4. commandRow[IdOf(p)] = NoRow
    BY <1>2, <2>2, <2>3 DEF Claimed
  <2>5. ASSUME NEW r \in Clients \ {p}, Claims(r) PROVE IdOf(r) # IdOf(p)
    <3>1. SUFFICES ASSUME IdOf(r) = IdOf(p) PROVE FALSE
      OBVIOUS
    <3>2. Update("COMMAND", IdOf(p)) \in Held(r)
      BY <2>5, <3>1 DEF Claims
    <3>3. Conflict(NextLock(p), Update("COMMAND", IdOf(p)))
      BY <2>2, <2>3 DEF Conflict
    <3>4. WaitsFor(p, r)
      BY <1>2, <3>2, <3>3 DEF WaitsFor
    <3> QED
      BY <1>2, <3>4 DEF Blocked
  <2>6. ClaimsFresh'
    BY <1>1, <1>2, <1>5, <1>6, <2>4, <2>5 DEF ClaimsFresh
  <2> QED
    BY <1>1, <1>2, <1>9, <2>6 DEF CommandInv, RowsTyped, EffectsTrue, AnswersTrue
<1> QED
  BY <1>12, <1>13, <1>14

\* The row of an open transaction is one of the rows.
LEMMA IdFacts ==
    ASSUME TxTyped, NEW p \in Clients, tx[p].open
    PROVE  /\ tx[p].command \in Commands /\ tx[p].key \in Keys
           /\ IdOf(p) \in CommandIds
<1>1. tx[p] \in OpenTxs
  BY PlanOfOpen
<1>2. tx[p].command \in Commands /\ tx[p].key \in Keys
  BY <1>1 DEF OpenTxs
<1> QED
  BY <1>2 DEF IdOf, CommandIds

\* A transaction that ends without writing.
LEMMA EndKeeps ==
    ASSUME CommandInv, NEW p \in Clients, Close(p), UNCHANGED <<commandRow, effects>>,
           RowsTyped', AnswersTrue'
    PROVE  CommandInv'
<1>1. TxTyped /\ EffectsTrue /\ ClaimsFresh
  BY DEF CommandInv
<1>2. /\ TxTyped' /\ ~(Claims(p))'
      /\ \A r \in Clients \ {p} : (Claims(r))' = Claims(r) /\ (IdOf(r))' = IdOf(r)
  BY <1>1, ClosedTx
<1>3. ClaimsFresh'
  BY <1>1, <1>2 DEF ClaimsFresh
<1>4. EffectsTrue'
  BY <1>1 DEF EffectsTrue
<1> QED
  BY <1>2, <1>3, <1>4 DEF CommandInv

\* What died did nothing.
LEMMA RollbackKeeps ==
    ASSUME CommandInv, NEW p \in Clients, Rollback(p)
    PROVE  CommandInv'
<1>1. Close(p) /\ UNCHANGED <<commandRow, effects, answers>>
  BY DEF Rollback
<1>2. RowsTyped' /\ AnswersTrue'
  BY <1>1 DEF CommandInv, RowsTyped, AnswersTrue
<1> QED
  BY <1>1, <1>2, EndKeeps

\* The answer given again is the one in the row.
LEMMA ReplayKeeps ==
    ASSUME CommandInv, NEW p \in Clients, tx[p].open, AnswerFromRow(p)
    PROVE  CommandInv'
<1> DEFINE c == tx[p].command
           k == tx[p].key
           entry == commandRow[IdOf(p)]
<1>1. TxTyped /\ RowsTyped /\ AnswersTrue
  BY DEF CommandInv
<1>2. /\ ~AllLocked(p) /\ NextLock(p).table = "COMMAND" /\ commandRow[NextLock(p).row] # NoRow
      /\ Close(p) /\ UNCHANGED <<commandRow, effects>>
      /\ IF commandRow[NextLock(p).row].for = c THEN Answer(p, commandRow[NextLock(p).row].result)
         ELSE UNCHANGED answers
  BY DEF AnswerFromRow, Claimed
<1>3. c \in Commands /\ k \in Keys /\ IdOf(p) \in CommandIds
  BY <1>1, IdFacts
<1>4. NextLock(p).row = IdOf(p)
  <2>1. PICK i \in Nat : KeyAt(PlanOf(p), IdOf(p), i)
    BY <1>1, PlanOfOpen
  <2> DEFINE n == tx[p].locked + 1
  <2>2. n \in 1 .. Len(PlanOf(p))
    <3>1. tx[p].locked \in Nat /\ tx[p].locked <= Len(PlanOf(p)) /\ tx[p].locked # Len(PlanOf(p))
      BY <1>1, <1>2, PlanOfOpen DEF OpenTxs, AllLocked
    <3> QED
      BY <2>1, <3>1 DEF KeyAt
  <2>3. PlanOf(p)[n].table = "COMMAND"
    BY <1>2 DEF NextLock
  <2> HIDE DEF n
  <2>4. n = i
    BY <2>1, <2>2, <2>3 DEF KeyAt
  <2>5. PlanOf(p)[n] = Update("COMMAND", IdOf(p))
    BY <2>1, <2>4 DEF KeyAt
  <2>6. Update("COMMAND", IdOf(p)).row = IdOf(p)
    BY DEF Update
  <2> QED
    BY <2>5, <2>6 DEF NextLock, n
<1>5. entry \in StoredRows
  BY <1>1, <1>2, <1>3, <1>4 DEF RowsTyped
<1>6. CASE entry.for # c
  <2>1. UNCHANGED answers
    BY <1>2, <1>4, <1>6
  <2>2. RowsTyped' /\ AnswersTrue'
    BY <1>1, <1>2, <2>1 DEF RowsTyped, AnswersTrue
  <2> QED
    BY <1>2, <2>2, EndKeeps
<1>7. CASE entry.for = c
  <2>1. answers' = [answers EXCEPT ![<<c, k>>] = @ \union {entry.result}]
    BY <1>2, <1>4, <1>7 DEF Answer
  <2>2. entry.result \in Results
    BY <1>5, StoredRowFacts
  <2>3. IdOf(p) = RowOf(c, k)
    BY DEF IdOf
  <2> HIDE DEF c, k, entry
  <2>4. RowsTyped'
    BY <1>1, <1>2, <1>3, <2>1, <2>2 DEF RowsTyped
  <2>5. ASSUME NEW d \in Commands, NEW j \in Keys, d.kind \notin KindsV1, NEW a \in answers'[<<d, j>>]
        PROVE  /\ commandRow'[RowOf(d, j)] \in StoredRows
               /\ commandRow'[RowOf(d, j)].for = d /\ commandRow'[RowOf(d, j)].result = a
    <3>1. CASE a \in answers[<<d, j>>]
      BY <1>1, <1>2, <2>5, <3>1 DEF AnswersTrue
    <3>2. CASE a \notin answers[<<d, j>>]
      <4>1. <<d, j>> = <<c, k>> /\ a = entry.result
        BY <1>1, <1>3, <2>1, <2>5, <3>2 DEF RowsTyped
      <4>2. d = c /\ j = k
        BY <4>1
      <4> QED
        BY <1>2, <1>5, <1>7, <2>3, <4>1, <4>2 DEF entry
    <3> QED
      BY <3>1, <3>2
  <2>6. AnswersTrue'
    BY <2>5 DEF AnswersTrue
  <2> QED
    BY <1>2, <2>4, <2>6, EndKeeps
<1> QED
  BY <1>6, <1>7

\* Work is committed by the one who claimed its key, when it has no row.
LEMMA FinishKeeps ==
    ASSUME CommandInv, NEW p \in Clients, NEW result \in Results, tx[p].open, Finish(p, result)
    PROVE  CommandInv'
<1> DEFINE c == tx[p].command
           k == tx[p].key
           id == IdOf(p)
<1>1. TxTyped /\ RowsTyped /\ EffectsTrue /\ AnswersTrue /\ ClaimsFresh
  BY DEF CommandInv
<1>2. c \in Commands /\ k \in Keys /\ id \in CommandIds
  BY <1>1, IdFacts
<1>3. Claims(p)
  <2>1. PICK i \in Nat : KeyAt(PlanOf(p), IdOf(p), i)
    BY <1>1, PlanOfOpen
  <2>2. tx[p].locked = Len(PlanOf(p))
    BY DEF Finish, AllLocked
  <2>3. Len(PlanOf(p)) \in Nat /\ i <= Len(PlanOf(p))
    BY <2>1 DEF KeyAt
  <2> QED
    BY <2>1, <2>2, <2>3, KeyAmong DEF Claims, Held
<1>4. /\ commandRow[id] = NoRow
      /\ \A r \in Clients \ {p} : Claims(r) => IdOf(r) # id
  BY <1>1, <1>3 DEF ClaimsFresh
<1>5. effects[id] = 0
  BY <1>1, <1>2, <1>4, StoredRowFacts DEF EffectsTrue
<1>6. \A d \in Commands, j \in Keys :
          d.kind \notin KindsV1 /\ RowOf(d, j) = id => answers[<<d, j>>] = {}
  BY <1>1, <1>4, StoredRowFacts DEF AnswersTrue
<1>7. /\ commandRow' = IF result = "REJECTED" /\ ForgetsRejection(c) THEN commandRow
                       ELSE [commandRow EXCEPT ![id] = [for |-> c, result |-> result]]
      /\ effects' = IF result = "DONE" THEN [effects EXCEPT ![id] = @ + 1] ELSE effects
      /\ answers' = [answers EXCEPT ![<<c, k>>] = @ \union {result}]
      /\ Close(p)
  BY DEF Finish, Answer, IdOf
<1>8. /\ TxTyped' /\ ~(Claims(p))'
      /\ \A r \in Clients \ {p} : (Claims(r))' = Claims(r) /\ (IdOf(r))' = IdOf(r)
  BY <1>1, <1>7, ClosedTx
<1>9. RowOf(c, k) = id
  BY DEF IdOf
<1> DEFINE entry == [for |-> c, result |-> result]
<1>10. entry \in StoredRows /\ entry.for = c /\ entry.result = result
  BY <1>2, StoredRowFacts
<1> HIDE DEF c, k, id, entry
<1>11. \A i \in CommandIds \ {id} : commandRow'[i] = commandRow[i] /\ effects'[i] = effects[i]
  BY <1>1, <1>2, <1>7 DEF RowsTyped
<1>12. CASE result = "REJECTED" /\ ForgetsRejection(c)
  <2>1. commandRow' = commandRow /\ effects' = effects /\ c.kind \in KindsV1
    BY <1>7, <1>12 DEF ForgetsRejection
  <2>2. RowsTyped'
    BY <1>1, <1>2, <1>7, <2>1 DEF RowsTyped
  <2>3. AnswersTrue'
    <3>1. ASSUME NEW d \in Commands, NEW j \in Keys, d.kind \notin KindsV1
          PROVE  answers'[<<d, j>>] = answers[<<d, j>>]
      BY <1>1, <1>2, <1>7, <2>1, <3>1 DEF RowsTyped
    <3> QED
      BY <1>1, <2>1, <3>1 DEF AnswersTrue
  <2> QED
    BY <1>7, <2>1, <2>2, <2>3, EndKeeps
<1>13. CASE ~(result = "REJECTED" /\ ForgetsRejection(c))
  <2>1. commandRow' = [commandRow EXCEPT ![id] = entry]
    BY <1>7, <1>13 DEF entry
  <2>2. commandRow'[id] = entry
    BY <1>1, <1>2, <2>1 DEF RowsTyped
  <2>3. RowsTyped'
    <3>1. commandRow' \in [CommandIds -> StoredRows \union {NoRow}]
      BY <1>1, <1>10, <2>1 DEF RowsTyped
    <3>2. effects' \in [CommandIds -> Nat]
      <4>1. effects[id] + 1 \in Nat
        BY <1>5
      <4> QED
        BY <1>1, <1>7, <4>1 DEF RowsTyped
    <3>3. answers' \in [Commands \X Keys -> SUBSET Results]
      BY <1>1, <1>2, <1>7 DEF RowsTyped
    <3> QED
      BY <3>1, <3>2, <3>3 DEF RowsTyped
  <2>4. EffectsTrue'
    <3>1. effects'[id] = IF result = "DONE" THEN 1 ELSE 0
      BY <1>1, <1>2, <1>5, <1>7 DEF RowsTyped
    <3>2. ASSUME NEW i \in CommandIds
          PROVE  effects'[i] = IF commandRow'[i].result = "DONE" THEN 1 ELSE 0
      <4>1. CASE i = id
        BY <1>10, <2>2, <3>1, <4>1
      <4>2. CASE i # id
        BY <1>1, <1>11, <4>2 DEF EffectsTrue
      <4> QED
        BY <4>1, <4>2
    <3> QED
      BY <3>2 DEF EffectsTrue
  <2>5. ASSUME NEW d \in Commands, NEW j \in Keys, d.kind \notin KindsV1, NEW a \in answers'[<<d, j>>]
        PROVE  /\ commandRow'[RowOf(d, j)] \in StoredRows
               /\ commandRow'[RowOf(d, j)].for = d /\ commandRow'[RowOf(d, j)].result = a
    <3>1. CASE a \in answers[<<d, j>>]
      <4>1. RowOf(d, j) # id
        BY <1>6, <2>5, <3>1
      <4>2. RowOf(d, j) \in CommandIds \ {id}
        BY <4>1 DEF CommandIds
      <4> QED
        BY <1>1, <1>11, <2>5, <3>1, <4>2 DEF AnswersTrue
    <3>2. CASE a \notin answers[<<d, j>>]
      <4>1. <<d, j>> = <<c, k>> /\ a = result
        BY <1>1, <1>2, <1>7, <2>5, <3>2 DEF RowsTyped
      <4>2. d = c /\ j = k
        BY <4>1
      <4> QED
        BY <1>9, <1>10, <2>2, <4>1, <4>2
    <3> QED
      BY <3>1, <3>2
  <2>6. AnswersTrue'
    BY <2>5 DEF AnswersTrue
  <2>7. ClaimsFresh'
    <3>1. ASSUME NEW r \in Clients, (Claims(r))'
          PROVE  r # p /\ Claims(r) /\ (IdOf(r))' = IdOf(r) /\ commandRow'[IdOf(r)] = NoRow
      <4>1. r # p /\ Claims(r) /\ (IdOf(r))' = IdOf(r)
        BY <1>8, <3>1
      <4>2. tx[r].open
        BY <4>1 DEF Claims, Held
      <4>3. IdOf(r) \in CommandIds \ {id}
        BY <1>1, <1>4, <4>1, <4>2, IdFacts
      <4> QED
        BY <1>1, <1>11, <4>1, <4>3 DEF ClaimsFresh
    <3> QED
      BY <1>1, <3>1 DEF ClaimsFresh
  <2> QED
    BY <1>8, <2>3, <2>4, <2>6, <2>7 DEF CommandInv
<1> QED
  BY <1>12, <1>13

\* The invariant holds at first, and every step keeps it.
LEMMA CommandInductive == CommandSpec => []CommandInv
<1>1. CommandInit => CommandInv
  <2> SUFFICES ASSUME CommandInit PROVE CommandInv
    OBVIOUS
  <2>1. \A p \in Clients : tx[p] = NoTx /\ ~tx[p].open /\ ~Claims(p)
    BY DEF CommandInit, NoTx, Claims, Held
  <2>2. TxTyped
    BY <2>1 DEF CommandInit, TxTyped
  <2>3. RowsTyped
    BY DEF CommandInit, RowsTyped
  <2>4. EffectsTrue
    BY StoredRowFacts DEF CommandInit, EffectsTrue
  <2>5. AnswersTrue
    BY DEF CommandInit, AnswersTrue
  <2>6. ClaimsFresh
    BY <2>1 DEF ClaimsFresh
  <2> QED
    BY <2>2, <2>3, <2>4, <2>5, <2>6 DEF CommandInv
<1>2. CommandInv /\ [CommandNext]_commandVars => CommandInv'
  <2> SUFFICES ASSUME CommandInv, [CommandNext]_commandVars PROVE CommandInv'
    OBVIOUS
  <2>1. CASE UNCHANGED commandVars
    <3>1. \A r : tx'[r] = tx[r]
      BY <2>1 DEF commandVars
    <3>2. \A r : (Claims(r))' = Claims(r) /\ (IdOf(r))' = IdOf(r) /\ (PlanOf(r))' = PlanOf(r)
      BY <3>1, SameClaims
    <3> QED
      BY <2>1, <3>2 DEF commandVars, CommandInv, TxTyped, RowsTyped, EffectsTrue, AnswersTrue, ClaimsFresh
  <2>2. ASSUME NEW p \in Clients, NEW c \in Commands, NEW k \in Keys, Begin(p, c, k)
        PROVE  CommandInv'
    BY <2>2, BeginKeeps
  <2>3. ASSUME NEW p \in Clients, Lock(p) PROVE CommandInv'
    BY <2>3, LockKeeps
  <2>4. ASSUME NEW p \in Clients, Replay(p) \/ ReplayV1(p) PROVE CommandInv'
    BY <2>4, ReplayKeeps DEF Replay, ReplayV1
  <2>5. ASSUME NEW p \in Clients, NEW result \in Results, Finish(p, result) PROVE CommandInv'
    <3>1. tx[p].open
      BY <2>5 DEF Finish, AllLocked
    <3> QED
      BY <2>5, <3>1, FinishKeeps
  <2>6. ASSUME NEW p \in Clients, Rollback(p) \/ BreakDeadlock(p) PROVE CommandInv'
    BY <2>6, RollbackKeeps DEF BreakDeadlock
  <2> QED
    BY <2>1, <2>2, <2>3, <2>4, <2>5, <2>6 DEF CommandNext, Progress
<1> QED
  BY <1>1, <1>2, PTL DEF CommandSpec

\* WorkDoneOnce: the work of a command is done once, and exactly when its row
\* says so, and every v2 command has one answer, for any Clients, Commands and
\* Keys, and whatever is sent again or dies.
THEOREM WorkOnceSafe == CommandSpec => []WorkDoneOnce
<1>1. CommandInv => WorkDoneOnce
  <2> SUFFICES ASSUME CommandInv PROVE WorkDoneOnce
    OBVIOUS
  <2>1. EffectsTrue /\ AnswersTrue
    BY DEF CommandInv
  <2>2. ASSUME NEW c \in Commands, NEW k \in Keys, c.kind \notin KindsV1
        PROVE  Cardinality(answers[<<c, k>>]) <= 1
    <3> DEFINE A == answers[<<c, k>>]
               r == commandRow[RowOf(c, k)].result
    <3>1. A \subseteq {r}
      BY <2>1, <2>2 DEF AnswersTrue
    <3>2. IsFiniteSet({r}) /\ Cardinality({r}) = 1
      BY FS_Singleton
    <3> QED
      BY <3>1, <3>2, FS_Subset
  <2> QED
    BY <2>1, <2>2 DEF EffectsTrue, WorkDoneOnce
<1> QED
  BY <1>1, CommandInductive, PTL

\* QuestsNeverDeadlock: no circle of any number of transactions waits over
\* Quests and keys alone.
THEOREM QuestLocksSafe == CommandSpec => []QuestsNeverDeadlock
<1>1. CommandInv => QuestsNeverDeadlock
  BY CircleOverMember DEF CommandInv, QuestsNeverDeadlock, Deadlocks
<1> QED
  BY <1>1, CommandInductive, PTL

-----------------------------------------------------------------------------
(* A walk through a list shows every row that stays *)

\* Of a set of keys, those that the list has before k.
Before(k, keys) == {l \in keys : After(k, l)}

\* Where the next page begins: after the value of the cursor, or after the row
\* it names as that row is now.
Boundary ==
    IF list.check = "VALUE" THEN <<walk.cursor.at, walk.cursor.id>> ELSE KeyOf(walk.cursor.id)

\* A list of conversations is of one table, read once for each page.
PhaseOK ==
    /\ list.by = "ACTIVITY" /\ walk.state = "READING" => walk.left = {1} /\ walk.found = {}
    /\ walk.state = "SUMMARIES" =>
           list.by = "ACTIVITY" /\ walk.left = {} /\ Cardinality(walk.found) <= limit

\* The rows a page and its cursor name were stored once; a boundary that was
\* checked is there until it is lost.
NamedOK ==
    /\ walk.cursor = NoCursor \/ walk.cursor.id \in Rows
    /\ walk.cursor # NoCursor => row[walk.cursor.id].state # "ABSENT"
    /\ \A k \in walk.found : row[k[2]].state # "ABSENT"
    /\ ~astray /\ walk.cursor # NoCursor /\ walk.checked # {} /\ list.check # "VALUE" =>
           row[walk.cursor.id].state \in Stored

\* What was read of a row still holds, but where rows move; conversations move
\* to the front only, as long as the walk is not astray.
FoundOK ==
    /\ list.check \in {"TABLE", "LISTED"} => \A k \in walk.found : KeyOf(k[2]) = k
    /\ \A k \in walk.found : k[2] \in steady => KeyOf(k[2]) = k
    /\ list.by = "ACTIVITY" /\ ~astray => \A k \in walk.found : k[1] <= row[k[2]].at

\* A row that stays and was not shown yet comes after the boundary; once its
\* table was read, it is on the page or a full page is before it.
NoneMissed ==
    ~astray =>
    /\ walk.state = "READING" /\ walk.cursor # NoCursor =>
           \A r \in steady \ shown : After(KeyOf(r), Boundary)
    /\ Walking => \A r \in steady \ shown : SourceOf(r) \notin walk.left =>
           \/ KeyOf(r) \in walk.found
           \/ walk.more /\ limit <= Cardinality(Before(KeyOf(r), walk.found))
    /\ walk.state = "ENDED" => steady \subseteq shown

\* A row that stays and was shown does not come after the boundary, whereas
\* what was read for this page does.
NoneTwice ==
    list.by # "ACTIVITY" =>
    /\ steady \intersect again = {}
    /\ walk.state = "READING" => \A r \in steady \intersect shown :
           walk.cursor # NoCursor /\ ~After(KeyOf(r), Boundary)
    /\ walk.state = "READING" /\ walk.cursor # NoCursor =>
           \A k \in walk.found : After(k, Boundary)

PagingInv ==
    /\ PagingTypeOK /\ steady \subseteq Listed
    /\ PhaseOK /\ NamedOK /\ FoundOK /\ NoneMissed /\ NoneTwice

\* Of a set that is not empty some element has the least number.
LEMMA LeastNumbered ==
    ASSUME NEW S, S # {}, NEW f \in [S -> Nat]
    PROVE  \E m \in S : \A x \in S : f[m] <= f[x]
<1> DEFINE Used == {f[x] : x \in S}
<1> DEFINE Less == OpToRel(<, Nat)
<1>1. Used \subseteq Nat /\ Used # {}
  OBVIOUS
<1>2. PICK n \in Used : \A i \in Used : ~(<<i, n>> \in Less)
  <2>1. IsWellFoundedOn(Less, Nat)
    BY NatLessThanWellFounded
  <2> HIDE DEF Used, Less
  <2> QED
    BY <1>1, <2>1, WFMin
<1>3. \A i \in Nat : i < n => i \notin Used
  <2> SUFFICES ASSUME NEW i \in Nat, i < n PROVE i \notin Used
    OBVIOUS
  <2>1. <<i, n>> \in Less
    BY <1>1, <1>2 DEF OpToRel
  <2> HIDE DEF Less
  <2> QED
    BY <1>2, <2>1
<1>4. PICK m \in S : f[m] = n
  BY <1>2
<1>5. ASSUME NEW x \in S PROVE f[m] <= f[x]
  BY <1>3, <1>4
<1> QED
  BY <1>5

\* What precedes an element in a finite set is fewer, the earlier it is.
LEMMA FewerBefore ==
    ASSUME NEW S, IsFiniteSet(S), NEW A \in SUBSET S, NEW B \in SUBSET S,
           NEW x \in B, x \notin A, A \subseteq B
    PROVE  Cardinality(A) < Cardinality(B)
<1>1. IsFiniteSet(B) /\ A \in SUBSET B /\ A # B
  BY FS_Subset
<1>2. Cardinality(A) <= Cardinality(B) /\ Cardinality(A) # Cardinality(B)
  BY <1>1, FS_Subset
<1>3. Cardinality(A) \in Nat /\ Cardinality(B) \in Nat
  BY <1>1, FS_Subset, FS_CardinalityType
<1> QED
  BY <1>2, <1>3

\* A finite set that an order puts in line has a last element.
LEMMA LastExists ==
    ASSUME NEW S, IsFiniteSet(S), S # {}, NEW R,
           \A x, y, z \in S : <<x, y>> \in R /\ <<y, z>> \in R => <<x, z>> \in R,
           \A x \in S : <<x, x>> \notin R,
           \A x, y \in S : x = y \/ <<x, y>> \in R \/ <<y, x>> \in R
    PROVE  \E m \in S : \A l \in S \ {m} : <<m, l>> \in R
<1> DEFINE Later(x) == {l \in S : <<l, x>> \in R}
<1> DEFINE f == [x \in S |-> Cardinality(Later(x))]
<1>1. \A x \in S : Later(x) \in SUBSET S /\ Cardinality(Later(x)) \in Nat
  BY FS_Subset, FS_CardinalityType
<1>2. PICK m \in S : \A x \in S : f[m] <= f[x]
  <2>1. f \in [S -> Nat]
    BY <1>1
  <2> HIDE DEF f
  <2> QED
    BY <2>1, LeastNumbered
<1>3. ASSUME NEW l \in S, <<l, m>> \in R PROVE FALSE
  <2>1. Later(l) \subseteq Later(m) /\ l \in Later(m) /\ l \notin Later(l)
    BY <1>3
  <2>2. Cardinality(Later(l)) < Cardinality(Later(m))
    <3>1. Later(l) \in SUBSET S /\ Later(m) \in SUBSET S
      BY <1>1
    <3> HIDE DEF Later
    <3> QED
      BY <2>1, <3>1, FewerBefore
  <2>3. f[m] <= f[l]
    BY <1>2
  <2> QED
    BY <1>1, <2>2, <2>3
<1> QED
  BY <1>3

-----------------------------------------------------------------------------
(* Keys and pages *)

\* There are finitely many keys.
LEMMA KeysFinite ==
    ASSUME NEW keys \in SUBSET PlaceKeys
    PROVE  IsFiniteSet(keys) /\ Cardinality(keys) \in Nat
<1>1. IsFiniteSet(0..MaxPlace) /\ IsFiniteSet(Rows)
  BY PagingAssumptions, FS_Interval
<1>2. IsFiniteSet((0..MaxPlace) \X Rows)
  BY <1>1, FS_Product
<1> QED
  BY <1>2, FS_Subset, FS_CardinalityType DEF PlaceKeys

\* A key is a place and an id.
LEMMA KeyParts ==
    ASSUME NEW k \in PlaceKeys
    PROVE  /\ k = <<k[1], k[2]>>
           /\ k[1] \in 0..MaxPlace /\ k[1] \in Int
           /\ k[2] \in Rows /\ k[2] \in Int /\ k[2] # 0
<1>1. k = <<k[1], k[2]>> /\ k[1] \in 0..MaxPlace /\ k[2] \in Rows
  BY DEF PlaceKeys
<1>2. \A i \in 0..MaxPlace : i \in Int
  BY PagingAssumptions
<1>3. \A r \in Rows : r \in Int /\ r # 0
  BY PagingAssumptions
<1> QED
  BY <1>1, <1>2, <1>3

\* A list puts its rows in line.
LEMMA InLine ==
    ASSUME NEW j \in PlaceKeys, NEW k \in PlaceKeys, NEW l \in PlaceKeys
    PROVE  /\ ~After(k, k)
           /\ After(j, k) /\ After(k, l) => After(j, l)
           /\ j = k \/ After(j, k) \/ After(k, j)
<1>1. /\ j[1] \in Int /\ j[2] \in Int /\ j = <<j[1], j[2]>>
      /\ k[1] \in Int /\ k[2] \in Int /\ k = <<k[1], k[2]>>
      /\ l[1] \in Int /\ l[2] \in Int /\ l = <<l[1], l[2]>>
  BY KeyParts
<1>2. ~Smaller(k, k)
  BY <1>1 DEF Smaller
<1>3. Smaller(j, k) /\ Smaller(k, l) => Smaller(j, l)
  BY <1>1 DEF Smaller
<1>4. Smaller(l, k) /\ Smaller(k, j) => Smaller(l, j)
  BY <1>1 DEF Smaller
<1>5. j = k \/ Smaller(j, k) \/ Smaller(k, j)
  BY <1>1 DEF Smaller
<1> QED
  BY <1>2, <1>3, <1>4, <1>5 DEF After

\* The last row of a page that is not empty.
LEMMA LastFits ==
    ASSUME NEW page \in SUBSET PlaceKeys, page # {}
    PROVE  LastOf(page) \in page /\ \A l \in page \ {LastOf(page)} : After(LastOf(page), l)
<1> DEFINE R == {p \in page \X page : After(p[1], p[2])}
<1>1. \A k, l \in page : <<k, l>> \in R <=> After(k, l)
  OBVIOUS
<1>2. /\ \A x, y, z \in page : <<x, y>> \in R /\ <<y, z>> \in R => <<x, z>> \in R
      /\ \A x \in page : <<x, x>> \notin R
      /\ \A x, y \in page : x = y \/ <<x, y>> \in R \/ <<y, x>> \in R
  <2> HIDE DEF R
  <2> QED
    BY <1>1, InLine
<1>3. \E m \in page : \A l \in page \ {m} : <<m, l>> \in R
  <2>1. IsFiniteSet(page)
    BY KeysFinite
  <2> HIDE DEF R
  <2> QED
    BY <1>2, <2>1, LastExists
<1>4. \E m \in page : \A l \in page \ {m} : After(m, l)
  <2> HIDE DEF R
  <2> QED
    BY <1>1, <1>3
<1> QED
  BY <1>4 DEF LastOf

\* The rows before an earlier row are fewer.
LEMMA FewerBeforeKey ==
    ASSUME NEW keys \in SUBSET PlaceKeys, NEW k \in PlaceKeys, NEW l \in keys, After(k, l)
    PROVE  Before(l, keys) \subseteq Before(k, keys)
           /\ Cardinality(Before(l, keys)) < Cardinality(Before(k, keys))
<1>1. Before(l, keys) \subseteq Before(k, keys)
  BY InLine DEF Before
<1>2. l \in Before(k, keys) /\ l \notin Before(l, keys)
  BY InLine DEF Before
<1>3. Before(l, keys) \in SUBSET keys /\ Before(k, keys) \in SUBSET keys
  BY DEF Before
<1>4. IsFiniteSet(keys)
  BY KeysFinite
<1> QED
  BY <1>1, <1>2, <1>3, <1>4, FewerBefore

\* A page takes the first rows: if n rows come before k, then n rows of the
\* first n do.
LEMMA PageIsBefore ==
    ASSUME NEW keys \in SUBSET PlaceKeys, NEW n \in Nat, NEW k \in PlaceKeys,
           n <= Cardinality(Before(k, keys))
    PROVE  n <= Cardinality(Before(k, FirstOf(keys, n)))
<1> DEFINE Cut == Before(k, keys) \ FirstOf(keys, n)
<1>0. \A l \in PlaceKeys : Cardinality(Before(l, keys)) \in Nat
  BY KeysFinite DEF Before
<1>1. FirstOf(keys, n) \in SUBSET keys /\ \A l \in PlaceKeys : Before(l, FirstOf(keys, n)) \in SUBSET keys
  BY DEF FirstOf, Before
<1>2. CASE Cut = {}
  <2>1. Before(k, FirstOf(keys, n)) = Before(k, keys)
    BY <1>1, <1>2 DEF Before
  <2> QED
    BY <2>1
<1>3. CASE Cut # {}
  <2> DEFINE f == [x \in Cut |-> Cardinality(Before(x, keys))]
  <2>1. Cut \subseteq PlaceKeys /\ Cut \subseteq keys
    BY DEF Before
  <2>2. PICK m \in Cut : \A x \in Cut : f[m] <= f[x]
    <3>1. f \in [Cut -> Nat]
      BY <1>0, <2>1
    <3> HIDE DEF f, Cut
    <3> QED
      BY <1>3, <3>1, LeastNumbered
  <2>3. ASSUME NEW l \in Before(m, keys) PROVE l \in Before(k, FirstOf(keys, n))
    <3>1. l \in keys /\ After(m, l) /\ After(k, m) /\ m \in keys
      BY <2>3 DEF Before
    <3>2. After(k, l)
      BY <3>1, InLine
    <3>3. Cardinality(Before(l, keys)) < Cardinality(Before(m, keys))
      BY <2>1, <3>1, FewerBeforeKey
    <3>4. l \notin Cut
      <4> SUFFICES ASSUME l \in Cut PROVE FALSE
        OBVIOUS
      <4>1. f[m] <= f[l]
        BY <2>2
      <4>2. Cardinality(Before(l, keys)) \in Nat /\ Cardinality(Before(m, keys)) \in Nat
        BY <1>0, <2>1
      <4> QED
        BY <3>3, <4>1, <4>2
    <3> QED
      BY <3>1, <3>2, <3>4 DEF Before
  <2>4. n <= Cardinality(Before(m, keys))
    <3>1. m \in keys /\ ~(Cardinality(Before(m, keys)) < n)
      BY DEF FirstOf, Before
    <3> QED
      BY <1>0, <2>1, <3>1
  <2>5. Cardinality(Before(m, keys)) <= Cardinality(Before(k, FirstOf(keys, n)))
    <3>1. Before(m, keys) \in SUBSET Before(k, FirstOf(keys, n))
      BY <2>3
    <3>2. IsFiniteSet(Before(k, FirstOf(keys, n)))
      BY <1>1, KeysFinite
    <3> QED
      BY <3>1, <3>2, FS_Subset
  <2>6. Cardinality(Before(k, FirstOf(keys, n))) \in Nat
    BY <1>1, KeysFinite
  <2> QED
    BY <1>0, <2>1, <2>4, <2>5, <2>6
<1> QED
  BY <1>2, <1>3

\* A page holds no more than it was asked to.
LEMMA PageFits ==
    ASSUME NEW keys \in SUBSET PlaceKeys, NEW n \in Nat
    PROVE  FirstOf(keys, n) \subseteq keys /\ Cardinality(FirstOf(keys, n)) <= n
<1> DEFINE page == FirstOf(keys, n)
<1>1. page \subseteq keys /\ page \in SUBSET PlaceKeys
  BY DEF FirstOf
<1>2. CASE page = {}
  BY <1>1, <1>2, FS_EmptySet
<1>3. CASE page # {}
  <2> DEFINE m == LastOf(page)
  <2>1. m \in page /\ \A l \in page \ {m} : After(m, l)
    <3> HIDE DEF page
    <3> QED
      BY <1>1, <1>3, LastFits
  <2> HIDE DEF m
  <2>2. page \ {m} \subseteq Before(m, keys)
    BY <1>1, <2>1 DEF Before
  <2>3. Cardinality(Before(m, keys)) < n
    BY <2>1 DEF FirstOf, Before
  <2>4. Before(m, keys) \in SUBSET PlaceKeys
    BY DEF Before
  <2>5. IsFiniteSet(Before(m, keys)) /\ Cardinality(Before(m, keys)) \in Nat
    BY <2>4, KeysFinite
  <2>6. Cardinality(page \ {m}) <= Cardinality(Before(m, keys))
    <3> HIDE DEF page
    <3> QED
      BY <2>2, <2>5, FS_Subset
  <2>7. IsFiniteSet(page) /\ Cardinality(page) \in Nat
    <3> HIDE DEF page
    <3> QED
      BY <1>1, KeysFinite
  <2>8. Cardinality(page \ {m}) = Cardinality(page) - 1
    <3> HIDE DEF page
    <3> QED
      BY <2>1, <2>7, FS_RemoveElement
  <2> HIDE DEF page
  <2>9. Cardinality(page) <= n
    BY <2>3, <2>5, <2>6, <2>7, <2>8
  <2> QED
    BY <1>1, <2>9 DEF page
<1> QED
  BY <1>2, <1>3

\* What is read of a table: a row is on the page, or a full page is before it
\* and the table has more.
LEMMA TablePage ==
    ASSUME NEW keys \in SUBSET PlaceKeys, NEW n \in Nat \ {0}, NEW k \in keys
    PROVE  \/ k \in FirstOf(FirstOf(keys, n + 1), n)
           \/ /\ n < Cardinality(FirstOf(keys, n + 1))
              /\ n <= Cardinality(Before(k, FirstOf(FirstOf(keys, n + 1), n)))
<1> DEFINE probe == FirstOf(keys, n + 1)
<1>1. probe \in SUBSET PlaceKeys
  BY DEF FirstOf
<1>2. Before(k, probe) \in SUBSET probe /\ Before(k, keys) \in SUBSET PlaceKeys
  BY DEF Before, FirstOf
<1>3. /\ IsFiniteSet(probe) /\ Cardinality(probe) \in Nat
      /\ Cardinality(Before(k, probe)) \in Nat /\ Cardinality(Before(k, keys)) \in Nat
      /\ Cardinality(Before(k, probe)) <= Cardinality(probe)
  <2> HIDE DEF probe
  <2> QED
    BY <1>1, <1>2, KeysFinite, FS_Subset
<1>4. CASE k \notin probe
  <2>1. ~(Cardinality(Before(k, keys)) < n + 1)
    BY <1>4 DEF FirstOf, Before
  <2>2. n + 1 <= Cardinality(Before(k, keys)) /\ n + 1 \in Nat
    BY <1>3, <2>1
  <2>3. n + 1 <= Cardinality(Before(k, probe))
    BY <2>2, PageIsBefore
  <2> HIDE DEF probe
  <2>4. n <= Cardinality(Before(k, probe)) /\ n < Cardinality(probe)
    BY <1>3, <2>3
  <2>5. n <= Cardinality(Before(k, FirstOf(probe, n)))
    BY <1>1, <2>4, PageIsBefore
  <2> QED
    BY <2>4, <2>5 DEF probe
<1>5. CASE k \in probe /\ k \notin FirstOf(probe, n)
  <2> HIDE DEF probe
  <2>1. ~(Cardinality(Before(k, probe)) < n)
    BY <1>5 DEF FirstOf, Before
  <2>2. n <= Cardinality(Before(k, probe))
    BY <1>3, <2>1
  <2>3. k \notin Before(k, probe)
    BY InLine DEF Before
  <2>4. Cardinality(Before(k, probe)) < Cardinality(probe)
    BY <1>2, <1>3, <1>5, <2>3, FewerBefore
  <2>5. n <= Cardinality(Before(k, FirstOf(probe, n)))
    BY <1>1, <2>2, PageIsBefore
  <2> QED
    BY <1>3, <2>2, <2>4, <2>5 DEF probe
<1> QED
  BY <1>4, <1>5

\* A row that a page leaves for later comes after all of it.
LEMMA LeftForLater ==
    ASSUME NEW found \in SUBSET PlaceKeys, NEW n \in Nat \ {0}, NEW k \in PlaceKeys,
           k \notin FirstOf(found, n), k \in found \/ n <= Cardinality(Before(k, found))
    PROVE  /\ FirstOf(found, n) # {}
           /\ \A l \in FirstOf(found, n) : After(k, l)
           /\ k \in found => n < Cardinality(found)
<1> DEFINE page == FirstOf(found, n)
<1>1. page \in SUBSET found /\ page \in SUBSET PlaceKeys /\ Before(k, page) \in SUBSET page
      /\ Before(k, found) \in SUBSET found
  BY DEF FirstOf, Before
<1>2. /\ IsFiniteSet(page) /\ Cardinality(page) \in Nat
      /\ IsFiniteSet(found) /\ Cardinality(found) \in Nat
      /\ IsFiniteSet(Before(k, page)) /\ Cardinality(Before(k, page)) \in Nat
      /\ Cardinality(Before(k, found)) \in Nat
  <2> HIDE DEF page
  <2> QED
    BY <1>1, KeysFinite, FS_Subset, FS_CardinalityType
<1>3. n <= Cardinality(Before(k, found))
  <2>1. k \in found => ~(Cardinality(Before(k, found)) < n)
    BY DEF FirstOf, Before
  <2> QED
    BY <1>2, <2>1
<1>4. n <= Cardinality(Before(k, page))
  BY <1>3, PageIsBefore
<1>5. Cardinality(page) <= n
  BY PageFits
<1> HIDE DEF page
<1>6. Before(k, page) = page
  <2>1. Cardinality(Before(k, page)) <= Cardinality(page)
    BY <1>1, <1>2, FS_Subset
  <2>2. Cardinality(page) = Cardinality(Before(k, page))
    BY <1>2, <1>4, <1>5, <2>1
  <2> QED
    BY <1>1, <1>2, <2>2, FS_Subset
<1>7. page # {}
  <2>1. Cardinality({}) = 0
    BY FS_EmptySet
  <2> QED
    BY <1>2, <1>4, <1>6, <2>1
<1>8. \A l \in page : After(k, l)
  BY <1>6 DEF Before
<1>9. k \in found => n < Cardinality(found)
  <2> HAVE k \in found
  <2>1. k \notin Before(k, found)
    BY InLine DEF Before
  <2>2. Cardinality(Before(k, found)) < Cardinality(found)
    BY <1>1, <1>2, <2>1, FewerBefore
  <2> QED
    BY <1>2, <1>3, <2>2
<1> QED
  BY <1>7, <1>8, <1>9 DEF page

\* More keys, more of them before a key.
LEMMA MoreBefore ==
    ASSUME NEW keys \in SUBSET PlaceKeys, NEW more \in SUBSET PlaceKeys, keys \subseteq more,
           NEW k \in PlaceKeys
    PROVE  /\ Cardinality(Before(k, keys)) \in Nat /\ Cardinality(Before(k, more)) \in Nat
           /\ Cardinality(Before(k, keys)) <= Cardinality(Before(k, more))
<1>1. Before(k, keys) \in SUBSET Before(k, more) /\ Before(k, more) \in SUBSET PlaceKeys
  BY DEF Before
<1>2. IsFiniteSet(Before(k, more)) /\ Cardinality(Before(k, more)) \in Nat
  BY <1>1, KeysFinite
<1> QED
  BY <1>1, <1>2, FS_Subset, FS_CardinalityType

\* What the lists have in common.
LEMMA KindsOfList ==
    ASSUME NEW l \in Lists
    PROVE  /\ l.check \in {"VALUE", "TABLE", "LISTED", "MEMBER"}
           /\ l.by = "ACTIVITY" <=> l.check = "MEMBER"
           /\ l.by = "ACTIVITY" => l.sources = 1 /\ l.sorts = {"NEWEST"}
           /\ l.check = "VALUE" => l.by \in {"START", "NAME"}
           /\ l.sources \in {1, 2}
           /\ "MOVE" \in l.changes => l.check = "VALUE"
           /\ "BUMP" \in l.changes \/ "FALL" \in l.changes => l.by = "ACTIVITY"
           /\ "DELETE" \in l.changes => l.check \in {"TABLE", "VALUE"}
BY DEF Lists, List, Fixed, Filtered, Newest, Oldest, EitherWay, AdminActivity,
       LedgerTransactions, WorkExperiences, Certificates, PenaltyHistory, AdminMembers,
       MemberHistory, MemberReviews, ProfileReviews, AdminReports, OwnMessageReports,
       AdminDisputeCases, AdminQuests, AdminWallets, AdminTopUps, AdminPayouts,
       ConductEvidence, WorkMessages, InquiryMessages, QuestBoard, OwnQuests, QuestBoardV2,
       OwnQuestsV2, Tags, WorkConversations, CandidateInquiries

-----------------------------------------------------------------------------
(* Rows change *)

\* What a change of row r does: nothing to the others, and to r nothing that a
\* walk relies on without going astray.
Altered(r) ==
    /\ UNCHANGED <<list, sort, limit, walk, shown, again>>
    /\ row' \in [Rows -> Row] /\ \A q \in Rows \ {r} : row'[q] = row[q]
    /\ steady' = steady \ {r}
    /\ astray' \in BOOLEAN /\ (astray => astray') /\ changes' \in 0..MaxChanges
    /\ row'[r].state # "ABSENT"
    /\ row[r].state # "ABSENT" =>
          /\ list.check \in {"TABLE", "LISTED"} => row'[r].at = row[r].at
          /\ list.by = "ACTIVITY" /\ ~astray'
             /\ (walk.cursor.id = r \/ \E k \in walk.found : k[2] = r) =>
                    row[r].at <= row'[r].at
          /\ row[r].state \in Stored /\ list.check # "VALUE" /\ ~astray'
             /\ walk.cursor.id = r => row'[r].state \in Stored

\* Every change is of that kind.
LEMMA ChangesAlter ==
    ASSUME PagingTypeOK, NEW r \in Rows, NEW at \in 0..MaxPlace,
           \/ InsertRow(r, at) \/ Move(r, at) \/ Bump(r, at) \/ Fall(r, at)
           \/ Leave(r) \/ Enter(r) \/ Delete(r)
    PROVE  Altered(r)
<1>1. PICK kind, new : Change(kind, r, new) /\
          \/ kind = "INSERT" /\ row[r].state = "ABSENT" /\ new = [at |-> at, state |-> "LISTED"]
             /\ astray' = astray
          \/ kind = "LEAVE" /\ row[r].state = "LISTED" /\ new = [row[r] EXCEPT !.state = "UNLISTED"]
             /\ astray' = astray
          \/ kind = "ENTER" /\ row[r].state = "UNLISTED" /\ new = [row[r] EXCEPT !.state = "LISTED"]
             /\ astray' = astray
          \/ kind = "MOVE" /\ row[r].state \in Stored /\ new = [row[r] EXCEPT !.at = at]
             /\ astray' = astray
          \/ kind = "DELETE" /\ row[r].state \in Stored /\ new = [row[r] EXCEPT !.state = "DELETED"]
             /\ astray' = (astray \/ (list.check = "TABLE" /\ walk.cursor.id = r))
          \/ kind = "BUMP" /\ row[r].state \in Stored /\ row[r].at <= at
             /\ new = [row[r] EXCEPT !.at = at] /\ astray' = astray
          \/ kind = "FALL" /\ row[r].state \in Stored /\ at < row[r].at
             /\ new = [row[r] EXCEPT !.at = at]
             /\ astray' = (astray \/ walk.cursor.id = r \/ \E k \in walk.found : k[2] = r)
  <2>1. CASE InsertRow(r, at)
    BY <2>1 DEF InsertRow
  <2>2. CASE Move(r, at)
    BY <2>2 DEF Move
  <2>3. CASE Bump(r, at)
    BY <2>3 DEF Bump
  <2>4. CASE Fall(r, at)
    BY <2>4 DEF Fall
  <2>5. CASE Leave(r)
    BY <2>5 DEF Leave
  <2>6. CASE Enter(r)
    BY <2>6 DEF Enter
  <2>7. CASE Delete(r)
    BY <2>7 DEF Delete
  <2> QED
    BY <2>1, <2>2, <2>3, <2>4, <2>5, <2>6, <2>7
<1>2. /\ UNCHANGED <<list, sort, limit, walk, shown, again>>
      /\ row' = [row EXCEPT ![r] = new] /\ steady' = steady \ {r}
      /\ changes' = changes + 1 /\ changes < MaxChanges /\ kind \in list.changes
  BY <1>1 DEF Change
<1>3. /\ row \in [Rows -> Row] /\ row[r] \in Row /\ list \in Lists /\ astray \in BOOLEAN
      /\ changes \in 0..MaxChanges
  BY DEF PagingTypeOK
<1>4. /\ row[r] = [at |-> row[r].at, state |-> row[r].state]
      /\ row[r].at \in 0..MaxPlace
      /\ row[r].state \in {"ABSENT", "LISTED", "UNLISTED", "DELETED"}
  BY <1>3 DEF Row
<1>5. /\ new \in Row /\ new.state # "ABSENT"
      /\ kind \in {"INSERT", "LEAVE", "ENTER", "DELETE"} /\ row[r].state # "ABSENT" => new.at = row[r].at
      /\ kind \in {"LEAVE", "ENTER", "MOVE", "BUMP", "FALL"} /\ row[r].state \in Stored => new.state \in Stored
      /\ kind = "BUMP" => row[r].at <= new.at
  BY <1>1, <1>4 DEF Row, Stored
<1>6. row' \in [Rows -> Row] /\ row'[r] = new /\ \A q \in Rows \ {r} : row'[q] = row[q]
  BY <1>2, <1>3, <1>5
<1>7. changes' \in 0..MaxChanges
  BY <1>2, <1>3, PagingAssumptions
<1>8. astray' \in BOOLEAN /\ (astray => astray')
  BY <1>1, <1>3
<1>9. /\ kind = "MOVE" => list.check = "VALUE"
      /\ kind \in {"BUMP", "FALL"} => list.check = "MEMBER"
      /\ kind = "DELETE" => list.check \in {"TABLE", "VALUE"}
      /\ list.by = "ACTIVITY" <=> list.check = "MEMBER"
  BY <1>2, <1>3, KindsOfList
<1>10. ASSUME row[r].state # "ABSENT"
       PROVE  /\ list.check \in {"TABLE", "LISTED"} => row'[r].at = row[r].at
              /\ list.by = "ACTIVITY" /\ ~astray'
                 /\ (walk.cursor.id = r \/ \E k \in walk.found : k[2] = r) =>
                        row[r].at <= row'[r].at
              /\ row[r].state \in Stored /\ list.check # "VALUE" /\ ~astray'
                 /\ walk.cursor.id = r => row'[r].state \in Stored
  <2>1. kind \in {"LEAVE", "ENTER", "MOVE", "DELETE", "BUMP", "FALL"}
    BY <1>1, <1>10
  <2>2. list.check \in {"TABLE", "LISTED"} => row'[r].at = row[r].at
    BY <1>5, <1>6, <1>9, <1>10, <2>1
  <2>3. list.by = "ACTIVITY" /\ ~astray'
        /\ (walk.cursor.id = r \/ \E k \in walk.found : k[2] = r) => row[r].at <= row'[r].at
    <3>1. kind \in {"LEAVE", "ENTER"} => row[r].at <= row'[r].at
      BY <1>4, <1>5, <1>6, <1>10, PagingAssumptions
    <3>2. kind = "BUMP" => row[r].at <= row'[r].at
      BY <1>5, <1>6
    <3>3. kind = "FALL" => (~astray' => ~(walk.cursor.id = r \/ \E k \in walk.found : k[2] = r))
      BY <1>1
    <3> QED
      BY <1>9, <2>1, <3>1, <3>2, <3>3
  <2>4. row[r].state \in Stored /\ list.check # "VALUE" /\ ~astray'
        /\ walk.cursor.id = r => row'[r].state \in Stored
    BY <1>1, <1>5, <1>6, <1>9, <2>1
  <2> QED
    BY <2>2, <2>3, <2>4
<1> QED
  BY <1>2, <1>5, <1>6, <1>7, <1>8, <1>10 DEF Altered

\* A walk gets over such a change.
LEMMA AlteredKept ==
    ASSUME PagingInv, NEW r \in Rows, Altered(r)
    PROVE  PagingInv'
<1>1. /\ list' = list /\ sort' = sort /\ limit' = limit /\ walk' = walk
      /\ shown' = shown /\ again' = again /\ steady' = steady \ {r}
      /\ row' \in [Rows -> Row] /\ \A q \in Rows \ {r} : row'[q] = row[q]
      /\ astray' \in BOOLEAN /\ (astray => astray') /\ changes' \in 0..MaxChanges
      /\ row'[r].state # "ABSENT"
  BY DEF Altered
<1>2. /\ list \in Lists /\ sort \in list.sorts /\ walk \in Walk /\ row \in [Rows -> Row]
      /\ walk.found \in SUBSET PlaceKeys /\ steady \subseteq Rows
  BY DEF PagingInv, PagingTypeOK, Walk
<1>3. \A k \in walk.found : k[2] \in Rows /\ k = <<k[1], k[2]>> /\ k[1] \in Int
  BY <1>2, KeyParts
<1>4. \A q \in Rows : row[q].at \in Int /\ row'[q].at \in Int
  BY <1>1, <1>2, PagingAssumptions DEF Row
<1>5. PagingTypeOK'
  BY <1>1 DEF PagingInv, PagingTypeOK, Walk
<1>6. \A q \in steady' : q # r /\ q \in steady /\ q \in Rows /\ row'[q] = row[q] /\ KeyOf(q)' = KeyOf(q)
  BY <1>1, <1>2 DEF KeyOf
<1>7. (steady \subseteq Listed)'
  BY <1>1, <1>2, <1>6 DEF PagingInv, Listed
<1>8. PhaseOK'
  BY <1>1 DEF PagingInv, PhaseOK
<1>9. NamedOK'
  <2>1. walk.cursor # NoCursor => row'[walk.cursor.id].state # "ABSENT"
    BY <1>1 DEF PagingInv, NamedOK
  <2>2. \A k \in walk.found : row'[k[2]].state # "ABSENT"
    BY <1>1, <1>3 DEF PagingInv, NamedOK
  <2>3. ASSUME ~astray', walk.cursor # NoCursor, walk.checked # {}, list.check # "VALUE"
        PROVE  row'[walk.cursor.id].state \in Stored
    <3>1. row[walk.cursor.id].state \in Stored /\ walk.cursor.id \in Rows
          /\ row[walk.cursor.id].state # "ABSENT"
      BY <1>1, <2>3 DEF PagingInv, NamedOK
    <3>2. CASE walk.cursor.id = r
      BY <2>3, <3>1, <3>2 DEF Altered
    <3>3. CASE walk.cursor.id # r
      BY <1>1, <3>1, <3>3
    <3> QED
      BY <3>2, <3>3
  <2>4. walk.cursor = NoCursor \/ walk.cursor.id \in Rows
    BY DEF PagingInv, NamedOK
  <2> QED
    BY <1>1, <2>1, <2>2, <2>3, <2>4 DEF NamedOK
<1>10. \A q \in Rows : list.check \in {"TABLE", "LISTED"} /\ row[q].state # "ABSENT" => KeyOf(q)' = KeyOf(q)
  <2> TAKE q \in Rows
  <2> HAVE list.check \in {"TABLE", "LISTED"} /\ row[q].state # "ABSENT"
  <2>1. row'[q].at = row[q].at
    BY <1>1 DEF Altered
  <2> QED
    BY <2>1 DEF KeyOf
<1>11. \A q \in Rows : list.by = "ACTIVITY" /\ ~astray' /\ row[q].state # "ABSENT"
          /\ (walk.cursor.id = q \/ \E k \in walk.found : k[2] = q) => row[q].at <= row'[q].at
  <2> TAKE q \in Rows
  <2> HAVE list.by = "ACTIVITY" /\ ~astray' /\ row[q].state # "ABSENT"
           /\ (walk.cursor.id = q \/ \E k \in walk.found : k[2] = q)
  <2>1. CASE q = r
    BY <2>1 DEF Altered
  <2>2. CASE q # r
    BY <1>1, <1>4, <2>2
  <2> QED
    BY <2>1, <2>2
<1>12. FoundOK'
  <2>1. ASSUME list.check \in {"TABLE", "LISTED"}, NEW k \in walk.found PROVE KeyOf(k[2])' = k
    <3>1. k[2] \in Rows /\ row[k[2]].state # "ABSENT" /\ KeyOf(k[2]) = k
      BY <1>3, <2>1 DEF PagingInv, NamedOK, FoundOK
    <3>2. KeyOf(k[2])' = KeyOf(k[2])
      BY <1>10, <2>1, <3>1
    <3> QED
      BY <3>1, <3>2
  <2>2. ASSUME NEW k \in walk.found, k[2] \in steady' PROVE KeyOf(k[2])' = k
    <3>1. KeyOf(k[2]) = k /\ KeyOf(k[2])' = KeyOf(k[2])
      BY <1>6, <2>2 DEF PagingInv, FoundOK
    <3> QED
      BY <3>1
  <2>3. ASSUME list.by = "ACTIVITY", ~astray', NEW k \in walk.found PROVE k[1] <= row'[k[2]].at
    <3>1. k[1] <= row[k[2]].at /\ k[2] \in Rows /\ row[k[2]].state # "ABSENT"
      BY <1>1, <1>3, <2>3 DEF PagingInv, FoundOK, NamedOK
    <3>2. row[k[2]].at <= row'[k[2]].at
      BY <1>11, <2>3, <3>1
    <3> QED
      BY <1>3, <1>4, <3>1, <3>2
  <2> QED
    BY <1>1, <2>1, <2>2, <2>3 DEF FoundOK
<1>15. walk.cursor # NoCursor /\ list.by # "ACTIVITY" => Boundary' = Boundary
  <2> HAVE walk.cursor # NoCursor /\ list.by # "ACTIVITY"
  <2>1. CASE list.check = "VALUE"
    BY <1>1, <2>1 DEF Boundary
  <2>2. CASE list.check # "VALUE"
    <3>1. walk.cursor.id \in Rows /\ row[walk.cursor.id].state # "ABSENT"
      BY DEF PagingInv, NamedOK
    <3>2. list.check \in {"TABLE", "LISTED"}
      BY <1>2, <2>2, KindsOfList
    <3>3. KeyOf(walk.cursor.id)' = KeyOf(walk.cursor.id)
      <4>1. KeyOf(walk.cursor.id)' = <<row'[walk.cursor.id].at, walk.cursor.id>>
        BY <1>1 DEF KeyOf
      <4>2. row'[walk.cursor.id].at = row[walk.cursor.id].at
        BY <1>1, <3>1, <3>2 DEF Altered
      <4> QED
        BY <4>1, <4>2 DEF KeyOf
    <3> QED
      BY <1>1, <2>2, <3>3 DEF Boundary
  <2> QED
    BY <2>1, <2>2
<1>16. ASSUME walk.cursor # NoCursor, list.by = "ACTIVITY", ~astray', NEW q \in steady',
              After(KeyOf(q), Boundary)
       PROVE  After(KeyOf(q), Boundary')
  <2>1. walk.cursor.id \in Rows /\ row[walk.cursor.id].state # "ABSENT" /\ walk.cursor.id \in Int
    BY <1>16, PagingAssumptions DEF PagingInv, NamedOK
  <2>2. sort = "NEWEST" /\ list.check # "VALUE"
    BY <1>2, <1>16, KindsOfList
  <2>3. Boundary = <<row[walk.cursor.id].at, walk.cursor.id>>
        /\ Boundary' = <<row'[walk.cursor.id].at, walk.cursor.id>>
    BY <1>1, <2>2 DEF Boundary, KeyOf
  <2>4. row[walk.cursor.id].at <= row'[walk.cursor.id].at
    BY <1>11, <1>16, <2>1
  <2>5. KeyOf(q) = <<row[q].at, q>> /\ q \in Int /\ q \in Rows
    <3>1. q \in Rows
      BY <1>6, <1>16
    <3> QED
      BY <3>1, PagingAssumptions DEF KeyOf
  <2> QED
    BY <1>4, <1>16, <2>1, <2>2, <2>3, <2>4, <2>5 DEF After, Smaller
<1>17. NoneMissed'
  <2> SUFFICES ASSUME ~astray'
               PROVE  /\ walk.state = "READING" /\ walk.cursor # NoCursor =>
                             \A q \in steady' \ shown : After(KeyOf(q)', Boundary')
                      /\ Walking => \A q \in steady' \ shown : SourceOf(q) \notin walk.left =>
                             \/ KeyOf(q)' \in walk.found
                             \/ walk.more /\ limit <= Cardinality(Before(KeyOf(q), walk.found)')
                      /\ walk.state = "ENDED" => steady' \subseteq shown
    BY <1>1 DEF NoneMissed, Walking, SourceOf, After
  <2>1. ~astray /\ NoneMissed
    BY <1>1 DEF PagingInv
  <2>2. ASSUME walk.state = "READING", walk.cursor # NoCursor, NEW q \in steady' \ shown
        PROVE  After(KeyOf(q)', Boundary')
    <3>1. After(KeyOf(q), Boundary) /\ KeyOf(q)' = KeyOf(q)
      BY <1>6, <2>1, <2>2 DEF NoneMissed
    <3>2. CASE list.by = "ACTIVITY"
      BY <1>16, <2>2, <3>1, <3>2
    <3>3. CASE list.by # "ACTIVITY"
      BY <1>15, <2>2, <3>1, <3>3
    <3> QED
      BY <3>2, <3>3
  <2>3. ASSUME Walking, NEW q \in steady' \ shown, SourceOf(q) \notin walk.left
        PROVE  \/ KeyOf(q)' \in walk.found
               \/ walk.more /\ limit <= Cardinality(Before(KeyOf(q), walk.found)')
    <3>1. q \in steady \ shown /\ KeyOf(q)' = KeyOf(q)
      BY <1>6
    <3>2. \/ KeyOf(q) \in walk.found
          \/ walk.more /\ limit <= Cardinality(Before(KeyOf(q), walk.found))
      BY <2>1, <2>3, <3>1 DEF NoneMissed
    <3>3. Before(KeyOf(q), walk.found)' = Before(KeyOf(q), walk.found)
      BY <1>1, <3>1 DEF Before, After
    <3> QED
      BY <3>1, <3>2, <3>3
  <2>4. walk.state = "ENDED" => steady' \subseteq shown
    BY <1>1, <2>1 DEF NoneMissed
  <2> QED
    BY <2>2, <2>3, <2>4
<1>18. NoneTwice'
  <2> SUFFICES ASSUME list.by # "ACTIVITY"
               PROVE  /\ steady' \intersect again = {}
                      /\ walk.state = "READING" => \A q \in steady' \intersect shown :
                             walk.cursor # NoCursor /\ ~After(KeyOf(q)', Boundary')
                      /\ walk.state = "READING" /\ walk.cursor # NoCursor =>
                             \A k \in walk.found : After(k, Boundary')
    BY <1>1 DEF NoneTwice, After
  <2> QED
    BY <1>1, <1>6, <1>15 DEF PagingInv, NoneTwice
<1> QED
  BY <1>5, <1>7, <1>8, <1>9, <1>12, <1>17, <1>18 DEF PagingInv

-----------------------------------------------------------------------------
(* The client reads *)

\* The parts of a walk.
LEMMA WalkParts ==
    ASSUME PagingInv
    PROVE  /\ walk = [state |-> walk.state, cursor |-> walk.cursor, checked |-> walk.checked,
                      left |-> walk.left, found |-> walk.found, more |-> walk.more]
           /\ walk.state \in {"READING", "SUMMARIES", "ENDED", "REJECTED"}
           /\ walk.cursor = [at |-> walk.cursor.at, id |-> walk.cursor.id]
           /\ walk.cursor \in [at : 0..MaxPlace, id : Rows \union {0}]
           /\ walk.checked \in SUBSET {1, 2} /\ walk.left \in SUBSET {1, 2}
           /\ walk.found \in SUBSET PlaceKeys /\ walk.more \in BOOLEAN
BY DEF PagingInv, PagingTypeOK, Walk

\* The key of a row.
LEMMA RowKeys ==
    ASSUME PagingInv, NEW r \in Rows
    PROVE  KeyOf(r) \in PlaceKeys /\ KeyOf(r)[1] = row[r].at /\ KeyOf(r)[2] = r
BY DEF PagingInv, PagingTypeOK, Row, KeyOf, PlaceKeys

\* A row is in one of the tables its list is read from.
LEMMA SourceIn ==
    ASSUME PagingInv, NEW r \in Rows
    PROVE  SourceOf(r) \in Sources(list)
<1>1. list.sources \in {1, 2} /\ r \in Nat
  BY KindsOfList, PagingAssumptions DEF PagingInv, PagingTypeOK
<1>2. r % list.sources \in 0..(list.sources - 1)
  <2>1. r % 1 \in 0..0 /\ r % 2 \in 0..1
    BY <1>1
  <2> QED
    BY <1>1, <2>1
<1> QED
  BY <1>1, <1>2 DEF SourceOf, Sources

\* The cursor is checked: the row it names is there, or the walk is refused.
LEMMA CheckKept ==
    ASSUME PagingInv, NEW s \in 1..2, CheckCursor(s)
    PROVE  PagingInv'
<1>1. /\ list' = list /\ sort' = sort /\ limit' = limit /\ row' = row /\ steady' = steady
      /\ changes' = changes /\ shown' = shown /\ again' = again /\ astray' = astray
      /\ walk.state = "READING" /\ s \in {1, 2}
  BY DEF CheckCursor, rowSide
<1>2. /\ walk'.cursor = walk.cursor /\ walk'.left = walk.left /\ walk'.found = walk.found
      /\ walk'.more = walk.more /\ walk' \in Walk
      /\ \/ walk'.state = "READING" /\ CursorHolds(walk.cursor)
         \/ walk'.state = "REJECTED" /\ walk'.checked = walk.checked
  BY <1>1, WalkParts DEF CheckCursor, Walk
<1>3. PagingTypeOK' /\ (steady \subseteq Listed)'
  BY <1>1, <1>2 DEF PagingInv, PagingTypeOK, Listed
<1>4. PhaseOK'
  BY <1>1, <1>2 DEF PagingInv, PhaseOK
<1>5. NamedOK'
  <2>1. CursorHolds(walk.cursor) /\ list.check # "VALUE" => row[walk.cursor.id].state \in Stored
    <3>1. list.check \in {"VALUE", "TABLE", "LISTED", "MEMBER"}
      BY KindsOfList DEF PagingInv, PagingTypeOK
    <3> QED
      BY <3>1 DEF CursorHolds, Stored
  <2> QED
    BY <1>1, <1>2, <2>1 DEF PagingInv, NamedOK
<1>6. FoundOK'
  BY <1>1, <1>2 DEF PagingInv, FoundOK, KeyOf
<1>7. NoneMissed'
  BY <1>1, <1>2 DEF PagingInv, NoneMissed, Walking, SourceOf, KeyOf, Boundary, Before, After
<1>8. NoneTwice'
  BY <1>1, <1>2 DEF PagingInv, NoneTwice, KeyOf, Boundary, After
<1> QED
  BY <1>3, <1>4, <1>5, <1>6, <1>7, <1>8 DEF PagingInv

\* A table is read.
LEMMA ProbeKept ==
    ASSUME PagingInv, NEW s \in 1..2, Probe(s)
    PROVE  PagingInv'
<1> DEFINE keys == {KeyOf(r) : r \in PastCursor({q \in Listed : SourceOf(q) = s})}
<1>1. PICK probe, page :
          /\ probe = FirstOf(keys, limit + 1) /\ page = FirstOf(probe, limit)
          /\ walk' = [walk EXCEPT !.left = walk.left \ {s}, !.found = walk.found \union page,
                                  !.more = walk.more \/ Cardinality(probe) > limit,
                                  !.state = IF list.by = "ACTIVITY" THEN "SUMMARIES" ELSE walk.state]
  BY DEF Probe
<1>2. /\ list' = list /\ sort' = sort /\ limit' = limit /\ row' = row /\ steady' = steady
      /\ changes' = changes /\ shown' = shown /\ again' = again /\ astray' = astray
      /\ walk.state = "READING" /\ s \in walk.left /\ s \in walk.checked
  BY DEF Probe, rowSide
<1>3. limit \in Nat \ {0} /\ list \in Lists /\ steady \subseteq Rows /\ steady \subseteq Listed
      /\ list.check \in {"VALUE", "TABLE", "LISTED", "MEMBER"}
  BY KindsOfList, PagingAssumptions DEF PagingInv, PagingTypeOK
<1>4. \A k \in keys : \E r \in Listed : k = KeyOf(r) /\
          (walk.cursor # NoCursor => After(k, Boundary))
  BY DEF PastCursor, Boundary
<1>5. /\ keys \in SUBSET PlaceKeys
      /\ \A k \in keys : k[2] \in Listed /\ k = KeyOf(k[2]) /\ k[1] = row[k[2]].at
      /\ \A k \in keys : walk.cursor # NoCursor => After(k, Boundary)
  <2>1. \A r \in Listed : KeyOf(r) \in PlaceKeys /\ KeyOf(r)[1] = row[r].at /\ KeyOf(r)[2] = r
    BY RowKeys DEF Listed
  <2> HIDE DEF keys
  <2> QED
    BY <1>4, <2>1
<1>6. ASSUME ~astray, NEW r \in steady \ shown, SourceOf(r) = s PROVE KeyOf(r) \in keys
  <2>1. r \in Listed /\ r \in Rows
    BY <1>3
  <2>2. CASE walk.cursor = NoCursor
    BY <1>6, <2>1, <2>2 DEF PastCursor
  <2>3. CASE walk.cursor # NoCursor
    <3>1. After(KeyOf(r), Boundary)
      BY <1>2, <1>6, <2>3 DEF PagingInv, NoneMissed
    <3>2. CASE list.check = "VALUE"
      BY <1>6, <2>1, <2>3, <3>1, <3>2 DEF PastCursor, Boundary
    <3>3. CASE list.check # "VALUE"
      <4>1. row[walk.cursor.id].state \in Stored
        BY <1>2, <1>6, <2>3, <3>3 DEF PagingInv, NamedOK
      <4> QED
        BY <1>6, <2>1, <2>3, <3>1, <3>3, <4>1 DEF PastCursor, Boundary
    <3> QED
      BY <3>2, <3>3
  <2> QED
    BY <2>2, <2>3
<1> HIDE DEF keys
<1>7. /\ page \subseteq keys /\ page \in SUBSET PlaceKeys /\ probe \in SUBSET PlaceKeys
      /\ Cardinality(probe) \in Nat
  <2>1. page \subseteq keys /\ probe \subseteq keys
    BY <1>1 DEF FirstOf
  <2> QED
    BY <1>5, <2>1, KeysFinite
<1>8. /\ walk'.cursor = walk.cursor /\ walk'.checked = walk.checked
      /\ walk'.left = walk.left \ {s} /\ walk'.found = walk.found \union page
      /\ walk'.more = (walk.more \/ Cardinality(probe) > limit)
      /\ walk'.state = (IF list.by = "ACTIVITY" THEN "SUMMARIES" ELSE "READING")
      /\ walk' \in Walk
  BY <1>1, <1>2, <1>7, WalkParts DEF Walk
<1>9. PagingTypeOK' /\ (steady \subseteq Listed)'
  BY <1>2, <1>8 DEF PagingInv, PagingTypeOK, Listed
<1>10. PhaseOK'
  <2>1. list.by = "ACTIVITY" => walk.left = {1} /\ walk.found = {}
    BY <1>2 DEF PagingInv, PhaseOK
  <2>2. Cardinality(page) <= limit
    BY <1>1, <1>3, <1>7, PageFits
  <2> QED
    BY <1>2, <1>8, <2>1, <2>2 DEF PhaseOK
<1>11. NamedOK'
  <2>1. \A k \in page : row[k[2]].state # "ABSENT"
    BY <1>5, <1>7 DEF Listed
  <2> QED
    BY <1>2, <1>8, <2>1 DEF PagingInv, NamedOK
<1>12. FoundOK'
  <2>1. \A k \in page : KeyOf(k[2]) = k /\ k[1] <= row[k[2]].at
    <3>1. \A k \in page : k[1] = row[k[2]].at /\ k[1] \in Int
      BY <1>5, <1>7, KeyParts
    <3> QED
      BY <1>5, <1>7, <3>1
  <2>2. \A r : KeyOf(r)' = KeyOf(r)
    BY <1>2 DEF KeyOf
  <2> QED
    BY <1>2, <1>8, <2>1, <2>2 DEF PagingInv, FoundOK
<1>13. ASSUME ~astray, NEW r \in steady \ shown, SourceOf(r) \notin walk.left \ {s}
       PROVE  \/ KeyOf(r) \in walk.found \union page
              \/ /\ walk.more \/ Cardinality(probe) > limit
                 /\ limit <= Cardinality(Before(KeyOf(r), walk.found \union page))
  <2>1. /\ walk.found \in SUBSET PlaceKeys /\ walk.found \union page \in SUBSET PlaceKeys
        /\ KeyOf(r) \in PlaceKeys
    BY <1>3, <1>7, RowKeys, WalkParts
  <2>2. CASE SourceOf(r) = s
    <3>1. PICK k \in keys : k = KeyOf(r)
      BY <1>6, <1>13, <2>2
    <3>2. \/ k \in page
          \/ Cardinality(probe) > limit /\ limit <= Cardinality(Before(k, page))
      BY <1>1, <1>3, <1>5, <1>7, TablePage
    <3>3. /\ Cardinality(Before(k, page)) <= Cardinality(Before(k, walk.found \union page))
          /\ Cardinality(Before(k, page)) \in Nat
          /\ Cardinality(Before(k, walk.found \union page)) \in Nat
      BY <1>7, <2>1, <3>1, MoreBefore
    <3> QED
      BY <1>3, <3>1, <3>2, <3>3
  <2>3. CASE SourceOf(r) # s
    <3>1. \/ KeyOf(r) \in walk.found
          \/ walk.more /\ limit <= Cardinality(Before(KeyOf(r), walk.found))
      BY <1>2, <1>13, <2>3 DEF PagingInv, NoneMissed, Walking
    <3>2. /\ Cardinality(Before(KeyOf(r), walk.found)) <= Cardinality(Before(KeyOf(r), walk.found \union page))
          /\ Cardinality(Before(KeyOf(r), walk.found)) \in Nat
          /\ Cardinality(Before(KeyOf(r), walk.found \union page)) \in Nat
      BY <2>1, MoreBefore
    <3> QED
      BY <1>3, <3>1, <3>2
  <2> QED
    BY <2>2, <2>3
<1>14. NoneMissed'
  <2>1. ASSUME ~astray, walk'.state = "READING", walk.cursor # NoCursor, NEW r \in steady \ shown
        PROVE  After(KeyOf(r), Boundary)
    BY <1>2, <2>1 DEF PagingInv, NoneMissed
  <2> QED
    BY <1>2, <1>8, <1>13, <2>1 DEF NoneMissed, SourceOf, KeyOf, Boundary, Before, After
<1>15. NoneTwice'
  <2>1. walk.cursor # NoCursor => \A k \in page : After(k, Boundary)
    BY <1>5, <1>7
  <2> QED
    BY <1>2, <1>8, <2>1 DEF PagingInv, NoneTwice, KeyOf, Boundary, After
<1> QED
  BY <1>9, <1>10, <1>11, <1>12, <1>14, <1>15 DEF PagingInv

\* What a cursor keeps of a place is a place.
LEMMA MilliPlace ==
    ASSUME NEW at \in 0..MaxPlace
    PROVE  Milli(at) \in 0..MaxPlace
<1>1. at \in Nat /\ at <= MaxPlace /\ MaxPlace \in Nat /\ MicrosPerMilli \in Nat \ {0}
  BY PagingAssumptions
<1>2. at \div MicrosPerMilli \in 0..at
  BY <1>1
<1> QED
  BY <1>1, <1>2 DEF Milli

\* Where the page after this one begins.
NextBoundary(last) ==
    IF list.check = "VALUE" THEN <<Milli(last[1]), last[2]>> ELSE KeyOf(last[2])

\* A page is shown: nothing that stays is left out by its cursor, and nothing
\* will be read again.
LEMMA ShowKept ==
    ASSUME PagingInv, Walking, NEW page \in SUBSET PlaceKeys, NEW last, NEW hasNext \in BOOLEAN,
           Show(page, last, hasNext), astray' \in BOOLEAN, astray => astray',
           page # {} => last \in page,
           page # {} => row[last[2]].state # "ABSENT",
           ~astray' => \A r \in steady \ shown :
               \/ \E k \in page : k[2] = r
               \/ page # {} /\ hasNext /\ After(KeyOf(r), NextBoundary(last)),
           list.by # "ACTIVITY" => \A r \in steady :
               /\ ~(r \in shown /\ \E k \in page : k[2] = r)
               /\ page # {} /\ (r \in shown \/ \E k \in page : k[2] = r) =>
                      ~After(KeyOf(r), NextBoundary(last))
    PROVE  PagingInv'
<1> DEFINE rs == {k[2] : k \in page}
           cursor == [at |-> Milli(last[1]), id |-> last[2]]
           goesOn == page # {} /\ hasNext
<1>1. /\ list' = list /\ sort' = sort /\ limit' = limit /\ row' = row /\ steady' = steady
      /\ changes' = changes /\ shown' = shown \union rs /\ again' = again \union (shown \intersect rs)
  BY DEF Show, rowSide
<1>2. rs \subseteq Rows /\ (goesOn => last[1] \in 0..MaxPlace /\ last[2] \in Rows /\ last[2] # 0)
  BY KeyParts
<1>3. goesOn => cursor \in [at : 0..MaxPlace, id : Rows \union {0}] /\ cursor # NoCursor
                /\ cursor.at = Milli(last[1]) /\ cursor.id = last[2]
  <2>1. goesOn => Milli(last[1]) \in 0..MaxPlace
    BY <1>2, MilliPlace
  <2> HIDE DEF goesOn
  <2> QED
    BY <1>2, <2>1 DEF NoCursor
<1>4. list.sources \in {1, 2} /\ Sources(list) \in SUBSET {1, 2} /\ (list.by = "ACTIVITY" => Sources(list) = {1})
      /\ list \in Lists
  <2>1. list.sources \in {1, 2} /\ (list.by = "ACTIVITY" => list.sources = 1) /\ list \in Lists
    BY KindsOfList DEF PagingInv, PagingTypeOK
  <2>2. 1..1 = {1} /\ 1..2 = {1, 2}
    OBVIOUS
  <2> QED
    BY <2>1, <2>2 DEF Sources
<1>5. goesOn => /\ walk'.state = "READING" /\ walk'.cursor = cursor /\ walk'.checked = {}
                /\ walk'.left = Sources(list) /\ walk'.found = {} /\ walk'.more = FALSE
                /\ walk' \in Walk
  <2> HAVE goesOn
  <2>1. walk' = NewPage(cursor)
    BY DEF Show
  <2> HIDE DEF cursor
  <2> QED
    BY <1>3, <1>4, <2>1 DEF NewPage, Walk
<1>6. ~goesOn => /\ walk'.state = "ENDED" /\ walk'.cursor = walk.cursor /\ walk'.checked = walk.checked
                 /\ walk'.left = walk.left /\ walk'.found = walk.found /\ walk' \in Walk
  <2> HAVE ~goesOn
  <2>1. walk' = [walk EXCEPT !.state = "ENDED"]
    BY DEF Show
  <2> QED
    BY <2>1, WalkParts DEF Walk
<1>7. \A r : KeyOf(r)' = KeyOf(r)
  BY <1>1 DEF KeyOf
<1>8. goesOn => Boundary' = NextBoundary(last)
  BY <1>1, <1>3, <1>5 DEF Boundary, NextBoundary, KeyOf
<1>9. PagingTypeOK' /\ (steady \subseteq Listed)'
  <2>1. (shown \union rs) \subseteq Rows /\ (again \union (shown \intersect rs)) \subseteq Rows
    BY <1>2 DEF PagingInv, PagingTypeOK
  <2>2. walk' \in Walk
    BY <1>5, <1>6
  <2> HIDE DEF rs, goesOn, cursor
  <2> QED
    BY <1>1, <2>1, <2>2 DEF PagingInv, PagingTypeOK, Listed
<1>10. \A r \in steady \ shown : r \notin rs /\ ~astray' =>
          goesOn /\ After(KeyOf(r), NextBoundary(last))
  OBVIOUS
<1>11. list.by # "ACTIVITY" => \A r \in steady :
          /\ ~(r \in shown /\ r \in rs)
          /\ goesOn /\ r \in shown \union rs => ~After(KeyOf(r), NextBoundary(last))
  OBVIOUS
<1>12. goesOn => row[cursor.id].state # "ABSENT" /\ cursor.id \in Rows
  BY <1>2
<1> HIDE DEF rs, goesOn, cursor
<1>13. PhaseOK'
  BY <1>1, <1>4, <1>5, <1>6 DEF PhaseOK
<1>14. NamedOK'
  <2>1. CASE goesOn
    BY <1>1, <1>5, <1>12, <2>1 DEF NamedOK
  <2>2. CASE ~goesOn
    BY <1>1, <1>6, <2>2 DEF PagingInv, NamedOK
  <2> QED
    BY <2>1, <2>2
<1>15. FoundOK'
  <2>1. CASE goesOn
    BY <1>5, <2>1 DEF FoundOK
  <2>2. CASE ~goesOn
    BY <1>1, <1>6, <1>7, <2>2 DEF PagingInv, FoundOK
  <2> QED
    BY <2>1, <2>2
<1>16. NoneMissed'
  <2>1. CASE goesOn
    <3>1. \A r \in steady : SourceOf(r)' \in Sources(list)
      BY <1>1, SourceIn DEF PagingInv, PagingTypeOK, SourceOf
    <3> QED
      BY <1>1, <1>5, <1>8, <1>10, <2>1, <3>1 DEF NoneMissed, Walking, After, KeyOf
  <2>2. CASE ~goesOn
    BY <1>1, <1>6, <1>10, <2>2 DEF NoneMissed, Walking
  <2> QED
    BY <2>1, <2>2
<1>17. NoneTwice'
  <2>1. list.by # "ACTIVITY" => steady \intersect (again \union (shown \intersect rs)) = {}
    BY <1>11 DEF PagingInv, NoneTwice
  <2>2. CASE goesOn
    BY <1>1, <1>3, <1>5, <1>8, <1>11, <2>1, <2>2 DEF NoneTwice, After, KeyOf
  <2>3. CASE ~goesOn
    BY <1>1, <1>6, <2>1, <2>3 DEF NoneTwice
  <2> QED
    BY <2>2, <2>3
<1> QED
  BY <1>9, <1>13, <1>14, <1>15, <1>16, <1>17 DEF PagingInv

\* The tables are merged and cut to a page.
LEMMA MergeKept ==
    ASSUME PagingInv, MergePage
    PROVE  PagingInv'
<1>1. PICK page, last, hasNext :
          /\ page = FirstOf(walk.found, limit)
          /\ last = IF page = {} THEN <<0, 0>> ELSE LastOf(page)
          /\ hasNext = (walk.more \/ Cardinality(walk.found) > limit)
          /\ Show(page, last, hasNext)
  BY DEF MergePage
<1>2. /\ walk.state = "READING" /\ walk.left = {} /\ astray' = astray /\ astray \in BOOLEAN
      /\ list.by # "ACTIVITY" /\ list.check \in {"VALUE", "TABLE", "LISTED"}
      /\ list.check = "VALUE" => list.by \in {"START", "NAME"}
      /\ limit \in Nat \ {0} /\ steady \subseteq Rows
  <2>1. walk.state = "READING" /\ walk.left = {} /\ astray' = astray
    BY DEF MergePage
  <2>2. list.by # "ACTIVITY"
    BY <2>1 DEF PagingInv, PhaseOK
  <2> QED
    BY <2>1, <2>2, KindsOfList, PagingAssumptions DEF PagingInv, PagingTypeOK
<1>3. walk.found \in SUBSET PlaceKeys /\ page \in SUBSET PlaceKeys /\ page \subseteq walk.found
      /\ walk.more \in BOOLEAN /\ hasNext \in BOOLEAN
  BY <1>1, WalkParts DEF FirstOf
<1>4. page # {} => last \in page /\ \A l \in page \ {last} : After(last, l)
  BY <1>1, <1>3, LastFits
<1>5. page # {} => row[last[2]].state # "ABSENT"
  BY <1>3, <1>4 DEF PagingInv, NamedOK
<1>6. page # {} => NextBoundary(last) = last
  <2> HAVE page # {}
  <2>1. last \in PlaceKeys /\ last \in walk.found /\ last = <<last[1], last[2]>>
    BY <1>3, <1>4, KeyParts
  <2>2. CASE list.check = "VALUE"
    BY <1>2, <2>1, <2>2 DEF NextBoundary, Milli
  <2>3. CASE list.check # "VALUE"
    <3>1. KeyOf(last[2]) = last
      BY <1>2, <2>1, <2>3 DEF PagingInv, FoundOK
    <3> QED
      BY <2>3, <3>1 DEF NextBoundary
  <2> QED
    BY <2>2, <2>3
<1>7. \A r \in steady : \A k \in page : k[2] = r => k = KeyOf(r)
  BY <1>3 DEF PagingInv, FoundOK
<1>8. ASSUME ~astray', NEW r \in steady \ shown
      PROVE  \/ \E k \in page : k[2] = r
             \/ page # {} /\ hasNext /\ After(KeyOf(r), NextBoundary(last))
  <2>1. PICK k \in PlaceKeys : k = KeyOf(r) /\ k[2] = r
    BY <1>2, RowKeys
  <2>2. k \in walk.found \/ (walk.more /\ limit <= Cardinality(Before(k, walk.found)))
    BY <1>2, <1>8, <2>1 DEF PagingInv, NoneMissed, Walking
  <2>3. CASE k \in page
    BY <2>1, <2>3
  <2>4. CASE k \notin page
    <3>1. /\ page # {} /\ \A l \in page : After(k, l)
          /\ k \in walk.found => limit < Cardinality(walk.found)
      BY <1>1, <1>2, <1>3, <2>2, <2>4, LeftForLater
    <3>2. hasNext
      BY <1>1, <1>2, <1>3, <2>2, <3>1, KeysFinite
    <3> QED
      BY <1>4, <1>6, <2>1, <3>1, <3>2
  <2> QED
    BY <2>3, <2>4
<1>9. ASSUME NEW r \in steady
      PROVE  /\ ~(r \in shown /\ \E k \in page : k[2] = r)
             /\ page # {} /\ (r \in shown \/ \E k \in page : k[2] = r) =>
                    ~After(KeyOf(r), NextBoundary(last))
  <2>1. KeyOf(r) \in PlaceKeys
    BY <1>2, RowKeys
  <2>2. r \in shown => walk.cursor # NoCursor /\ ~After(KeyOf(r), Boundary)
    BY <1>2 DEF PagingInv, NoneTwice
  <2>3. walk.cursor # NoCursor => \A k \in page : After(k, Boundary)
    BY <1>2, <1>3 DEF PagingInv, NoneTwice
  <2>4. ~(r \in shown /\ \E k \in page : k[2] = r)
    BY <1>7, <2>2, <2>3
  <2>5. ASSUME page # {}, r \in shown PROVE ~After(KeyOf(r), last)
    <3>1. After(last, Boundary) /\ ~After(KeyOf(r), Boundary) /\ last \in PlaceKeys
          /\ walk.cursor # NoCursor
      BY <1>3, <1>4, <2>2, <2>3, <2>5
    <3>2. Boundary \in PlaceKeys
      <4>1. walk.cursor.id \in Rows /\ walk.cursor.at \in 0..MaxPlace
        BY <3>1, WalkParts DEF PagingInv, NamedOK
      <4> QED
        BY <4>1, RowKeys DEF Boundary, PlaceKeys
    <3> QED
      BY <2>1, <3>1, <3>2, InLine
  <2>6. ASSUME NEW k \in page, k[2] = r PROVE ~After(KeyOf(r), last)
    <3>1. k = KeyOf(r) /\ last \in PlaceKeys /\ (k = last \/ After(last, k))
      BY <1>3, <1>4, <1>7, <2>6
    <3> QED
      BY <2>1, <3>1, InLine
  <2> QED
    BY <1>6, <2>4, <2>5, <2>6
<1>10. Walking
  BY <1>2 DEF Walking
<1> QED
  BY <1>1, <1>2, <1>3, <1>4, <1>5, <1>8, <1>9, <1>10, ShowKept

\* The last row of a page of conversations, which are in line by milliseconds.
LEMMA LastByMilliFits ==
    ASSUME PagingInv, NEW page \in SUBSET PlaceKeys, page # {}, \A k \in page : k = KeyOf(k[2])
    PROVE  LastByMilli(page) \in page
<1> DEFINE Short(k) == <<Milli(k[1]), k[2]>>
           R == {p \in page \X page : Smaller(Short(p[1]), Short(p[2]))}
<1>1. \A k, l \in page : <<k, l>> \in R <=> Smaller(Short(k), Short(l))
  OBVIOUS
<1>2. \A k \in page : Milli(k[1]) \in Int /\ k[2] \in Int
  <2> TAKE k \in page
  <2>1. k[1] \in 0..MaxPlace /\ k[2] \in Int
    BY KeyParts
  <2>2. Milli(k[1]) \in 0..MaxPlace
    BY <2>1, MilliPlace
  <2> QED
    BY <2>1, <2>2, PagingAssumptions
<1>3. \A k, l \in page : k[2] = l[2] => k = l
  OBVIOUS
<1>4. /\ \A x, y, z \in page : <<x, y>> \in R /\ <<y, z>> \in R => <<x, z>> \in R
      /\ \A x \in page : <<x, x>> \notin R
      /\ \A x, y \in page : x = y \/ <<x, y>> \in R \/ <<y, x>> \in R
  <2> HIDE DEF R
  <2>1. \A x, y, z \in page : <<x, y>> \in R /\ <<y, z>> \in R => <<x, z>> \in R
    BY <1>1, <1>2 DEF Smaller
  <2>2. \A x \in page : <<x, x>> \notin R
    BY <1>1, <1>2 DEF Smaller
  <2>3. \A x, y \in page : x = y \/ <<x, y>> \in R \/ <<y, x>> \in R
    <3> TAKE x, y \in page
    <3>1. /\ Milli(x[1]) \in Int /\ x[2] \in Int /\ Milli(y[1]) \in Int /\ y[2] \in Int
      BY <1>2
    <3>2. x[2] = y[2] \/ Smaller(Short(x), Short(y)) \/ Smaller(Short(y), Short(x))
      BY <3>1 DEF Smaller
    <3> QED
      BY <1>1, <1>3, <3>2
  <2> QED
    BY <2>1, <2>2, <2>3
<1>5. \E m \in page : \A l \in page \ {m} : <<m, l>> \in R
  <2>1. IsFiniteSet(page)
    BY KeysFinite
  <2> HIDE DEF R
  <2> QED
    BY <1>4, <2>1, LastExists
<1>6. \E m \in page : \A l \in page \ {m} : Smaller(Short(m), Short(l))
  <2> HIDE DEF R
  <2> QED
    BY <1>1, <1>5
<1> QED
  BY <1>6 DEF LastByMilli

\* The conversations of a page are summarised.
LEMMA SummariesKept ==
    ASSUME PagingInv, Summaries
    PROVE  PagingInv'
<1>1. PICK page, last, hasNext :
          /\ page = Summarised(walk.found)
          /\ last = IF page = {} THEN <<0, 0>> ELSE LastByMilli(page)
          /\ hasNext = (walk.more \/ Cardinality(walk.found) > Cardinality(page))
          /\ Show(page, last, hasNext)
          /\ astray' = (astray \/ (page = {} /\ walk.found # {}))
  BY DEF Summaries
<1>2. /\ walk.state = "SUMMARIES" /\ list.by = "ACTIVITY" /\ walk.left = {}
      /\ Cardinality(walk.found) <= limit /\ limit \in Nat \ {0}
      /\ sort = "NEWEST" /\ list.check # "VALUE"
      /\ steady \subseteq Rows /\ steady \subseteq Listed /\ astray \in BOOLEAN /\ walk.more \in BOOLEAN
      /\ walk.found \in SUBSET PlaceKeys
  <2>1. walk.state = "SUMMARIES"
    BY DEF Summaries
  <2> QED
    BY <2>1, WalkParts, KindsOfList, PagingAssumptions DEF PagingInv, PhaseOK, PagingTypeOK
<1>3. hasNext \in BOOLEAN /\ astray' \in BOOLEAN /\ (astray => astray')
  BY <1>1, <1>2
<1>4. \A p \in page : /\ p \in PlaceKeys /\ p = KeyOf(p[2]) /\ p[2] \in Listed
                      /\ \E k \in walk.found : k[2] = p[2]
  <2> TAKE p \in page
  <2>1. PICK k \in walk.found : k[2] \in Listed /\ p = KeyOf(k[2])
    BY <1>1 DEF Summarised
  <2>2. k[2] \in Rows
    BY <1>2, KeyParts
  <2>3. p \in PlaceKeys /\ p[2] = k[2]
    BY <2>1, <2>2, RowKeys
  <2> QED
    BY <2>1, <2>3
<1>5. page \in SUBSET PlaceKeys
  BY <1>4
<1>6. page # {} => last \in page
  BY <1>1, <1>4, <1>5, LastByMilliFits
<1>7. page # {} => row[last[2]].state # "ABSENT"
  BY <1>4, <1>6 DEF Listed
<1>8. ASSUME ~astray', NEW r \in steady \ shown
      PROVE  \/ \E k \in page : k[2] = r
             \/ page # {} /\ hasNext /\ After(KeyOf(r), NextBoundary(last))
  <2>1. /\ KeyOf(r) \in PlaceKeys /\ KeyOf(r)[2] = r /\ r \in Listed
    BY <1>2, RowKeys
  <2>2. \/ KeyOf(r) \in walk.found
        \/ walk.more /\ limit <= Cardinality(Before(KeyOf(r), walk.found))
    BY <1>1, <1>2, <1>8 DEF PagingInv, NoneMissed, Walking
  <2>3. CASE KeyOf(r) \in walk.found
    <3>1. KeyOf(r) \in page
      BY <1>1, <2>1, <2>3 DEF Summarised
    <3> QED
      BY <2>1, <3>1
  <2>4. CASE walk.more /\ limit <= Cardinality(Before(KeyOf(r), walk.found))
    <3>1. Before(KeyOf(r), walk.found) = walk.found /\ walk.found # {}
      <4>1. Before(KeyOf(r), walk.found) \in SUBSET walk.found
        BY DEF Before
      <4>2. IsFiniteSet(walk.found) /\ Cardinality(walk.found) \in Nat
        BY <1>2, KeysFinite
      <4>3. /\ Cardinality(Before(KeyOf(r), walk.found)) \in Nat
            /\ Cardinality(Before(KeyOf(r), walk.found)) <= Cardinality(walk.found)
        BY <4>1, <4>2, FS_Subset, FS_CardinalityType
      <4>4. Cardinality(walk.found) = Cardinality(Before(KeyOf(r), walk.found))
            /\ Cardinality(walk.found) # 0
        BY <1>2, <2>4, <4>2, <4>3
      <4> QED
        BY <4>1, <4>2, <4>4, FS_Subset, FS_EmptySet
    <3>2. page # {} /\ hasNext
      BY <1>1, <1>8, <2>4, <3>1
    <3>3. last \in page /\ last = KeyOf(last[2])
      BY <1>4, <1>6, <3>2
    <3>4. PICK k \in walk.found : k[2] = last[2]
      BY <1>4, <3>3
    <3>5. Smaller(KeyOf(r), k)
      BY <1>2, <3>1 DEF Before, After
    <3>6. k[1] <= row[k[2]].at
      BY <1>1, <1>2, <1>8 DEF PagingInv, FoundOK
    <3>7. /\ KeyOf(r)[1] \in Int /\ KeyOf(r)[2] \in Int
          /\ k[1] \in Int /\ k[2] \in Int
          /\ last[1] \in Int /\ last[2] \in Int /\ last[1] = row[k[2]].at
      <4>1. last \in PlaceKeys /\ k \in PlaceKeys
        BY <1>2, <1>5, <3>3
      <4>2. last[1] = row[last[2]].at
        BY <3>3, <4>1, KeyParts, RowKeys
      <4> QED
        BY <2>1, <3>4, <4>1, <4>2, KeyParts
    <3>8. Smaller(KeyOf(r), last)
      BY <3>4, <3>5, <3>6, <3>7 DEF Smaller
    <3> QED
      BY <1>2, <3>2, <3>3, <3>8 DEF After, NextBoundary
  <2> QED
    BY <2>2, <2>3, <2>4
<1>9. Walking
  BY <1>2 DEF Walking
<1> QED
  BY <1>1, <1>2, <1>3, <1>5, <1>6, <1>7, <1>8, <1>9, ShowKept

-----------------------------------------------------------------------------
(* The walk *)

\* The first page begins before every row.
LEMMA WalkBegins == PagingInit => PagingInv
<1> SUFFICES ASSUME PagingInit PROVE PagingInv
  OBVIOUS
<1>1. /\ list \in Lists /\ sort \in list.sorts /\ limit \in 1..MaxLimit /\ steady = Listed
      /\ shown = {} /\ again = {} /\ astray = FALSE /\ changes = 0 /\ walk = NewPage(NoCursor)
  BY DEF PagingInit
<1>2. list.sources \in {1, 2} /\ (list.by = "ACTIVITY" => list.sources = 1)
  BY <1>1, KindsOfList
<1>3. Sources(list) \in SUBSET {1, 2} /\ (list.by = "ACTIVITY" => Sources(list) = {1})
  <2>1. 1..1 = {1} /\ 1..2 = {1, 2}
    OBVIOUS
  <2> QED
    BY <1>2, <2>1 DEF Sources
<1>4. /\ walk.state = "READING" /\ walk.cursor = NoCursor /\ walk.found = {} /\ walk.more = FALSE
      /\ walk.left = Sources(list) /\ walk \in Walk
  <2>1. NoCursor \in [at : 0..MaxPlace, id : Rows \union {0}]
    BY PagingAssumptions DEF NoCursor
  <2> HIDE DEF NoCursor
  <2> QED
    BY <1>1, <1>3, <2>1 DEF NewPage, Walk
<1>5. row \in [Rows -> Row]
  <2>1. row \in [Rows -> [at : 0..MaxPlace, state : {"LISTED"}] \union [at : {0}, state : {"ABSENT"}]]
    BY DEF PagingInit
  <2>2. [at : 0..MaxPlace, state : {"LISTED"}] \union [at : {0}, state : {"ABSENT"}] \subseteq Row
    BY PagingAssumptions DEF Row
  <2> QED
    BY <2>1, <2>2
<1>6. PagingTypeOK
  <2>1. changes \in 0..MaxChanges /\ astray \in BOOLEAN /\ steady \subseteq Rows
    <3>1. 0 \in 0..MaxChanges
      BY PagingAssumptions
    <3>2. Listed \subseteq Rows
      BY DEF Listed
    <3> QED
      BY <1>1, <3>1, <3>2
  <2> QED
    BY <1>1, <1>4, <1>5, <2>1 DEF PagingTypeOK
<1>7. \A r \in Rows : SourceOf(r) \in Sources(list)
  <2> TAKE r \in Rows
  <2>1. r \in Nat
    BY PagingAssumptions
  <2>2. r % 1 \in 0..0 /\ r % 2 \in 0..1
    BY <2>1
  <2> QED
    BY <1>2, <2>2 DEF SourceOf, Sources
<1>8. NoneMissed
  BY <1>1, <1>4, <1>7 DEF NoneMissed, Listed
<1> QED
  BY <1>1, <1>3, <1>4, <1>6, <1>8 DEF PagingInv, PhaseOK, NamedOK, FoundOK, NoneTwice

\* The invariant of the walk, through every change of a row and every step of
\* the reader.
LEMMA WalkKept == PagingInv /\ [PagingNext]_pagingVars => PagingInv'
<1> SUFFICES ASSUME PagingInv, [PagingNext]_pagingVars PROVE PagingInv'
  OBVIOUS
<1>1. ASSUME NEW r \in Rows, NEW at \in 0..MaxPlace,
             InsertRow(r, at) \/ Move(r, at) \/ Bump(r, at) \/ Fall(r, at)
      PROVE  PagingInv'
  BY <1>1, ChangesAlter, AlteredKept DEF PagingInv
<1>2. ASSUME NEW r \in Rows, Leave(r) \/ Enter(r) \/ Delete(r)
      PROVE  PagingInv'
  <2>1. 0 \in 0..MaxPlace
    BY PagingAssumptions
  <2> QED
    BY <1>2, <2>1, ChangesAlter, AlteredKept DEF PagingInv
<1>3. ASSUME NEW s \in 1..2, CheckCursor(s) \/ Probe(s) PROVE PagingInv'
  BY <1>3, CheckKept, ProbeKept
<1>4. ASSUME MergePage \/ Summaries PROVE PagingInv'
  BY <1>4, MergeKept, SummariesKept
<1>5. ASSUME UNCHANGED pagingVars PROVE PagingInv'
  BY <1>5 DEF pagingVars, PagingInv, PagingTypeOK, Listed, PhaseOK, NamedOK, FoundOK,
       NoneMissed, NoneTwice, Walking, SourceOf, KeyOf, Boundary, Before, After
<1> QED
  BY <1>1, <1>2, <1>3, <1>4, <1>5 DEF PagingNext

\* Whatever list a client walks, in whatever pages, and whatever happens to its
\* rows meanwhile: the types of the walk and where it stands.
THEOREM WalkHolds == PagingSpec => []PagingInv
<1> QED
  BY WalkBegins, WalkKept, PTL DEF PagingSpec

\* A walk that came to its end has shown every row that stayed, and none of
\* them twice, but for lists of conversations and walks that lost their way.
THEOREM WalkCompleteSafe == PagingSpec => []WalkComplete
<1>1. PagingInv => WalkComplete
  BY DEF PagingInv, NoneMissed, NoneTwice, WalkComplete
<1> QED
  BY <1>1, WalkHolds, PTL
=============================================================================
