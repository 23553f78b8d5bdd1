------------------------- MODULE MCQuestCandidates -------------------------
(* One instance for what the commands of a day do to the rosters, one for   *)
(* Quests without Teams that get new times, and one for the locks the       *)
(* commands take; an execution is of one of them.                           *)
EXTENDS QuestRosters, QuestCommands, TLC

CONSTANTS m1, m2, m3, q1, q2, t1, t2, day, evening, undated, worker, hirer, client1, client2, key

MCMembers == {m1, m2, m3}
MCQuests == {q1, q2}
MCTeams == {t1, t2}

\* One Quest for Teams or joins, one for a single Worker, at the same time,
\* each of them made by either API.
MCForms == (q1 :> {"TEAM", "JOIN", "INVITATION"}) @@ (q2 :> {"APPLY", "APPLICATION", "DIRECT"})
MCHeadcount == (q1 :> 2) @@ (q2 :> 1)
MCSlots == {day, evening, undated}
MCClashes == [s \in MCSlots |-> IF s = undated THEN {} ELSE {s}]

MCClients == {client1, client2}
Command(kind, by, quest_, workers) ==
    [kind |-> kind, by |-> by, quest |-> quest_, workers |-> workers]

\* A Worker who joins two Quests, by both APIs, and a Hirer who edits a Quest
\* while he, or another device of his, chooses that Worker.
MCCommands ==
    {Command("JOIN", worker, q1, <<worker>>), Command("JOIN", worker, q2, <<worker>>),
     Command("DIRECT_JOIN", worker, q2, <<worker>>),
     Command("PUBLISH", hirer, q1, <<>>), Command("SELECT", hirer, q1, <<worker>>)}

VARIABLE scene

\* What either Quest may be moved to, and where the Quests are not moved.
MayBe(q) == IF q = q1 THEN {day, evening} ELSE {day, undated}
AtOnce == slot = [q \in Quests |-> day]

MCInit ==
    /\ scene \in {"ROSTERS", "TIMES", "LOCKS"}
    /\ Init /\ CommandInit
    /\ scene = "TIMES" => \A q \in Quests : slot[q] \in MayBe(q)
    /\ scene # "TIMES" => AtOnce
    /\ scene = "LOCKS" =>
           quest = [q \in Quests |-> [status |-> "OPEN", form |-> IF q = q1 THEN "TEAM" ELSE "APPLY"]]
    /\ scene # "ROSTERS" => \A t \in Teams : team[t].quest = q1

MCNext ==
    \/ scene = "ROSTERS" /\ RowStep /\ UNCHANGED <<timeVars, commandVars, scene>>
    \/ /\ scene = "TIMES" /\ Next /\ UNCHANGED <<team, commandVars, scene>>
       /\ \A q \in Quests : slot'[q] \in MayBe(q)
    \/ scene = "LOCKS" /\ CommandNext /\ UNCHANGED <<rosterVars, scene>>

MCSpec == MCInit /\ [][MCNext]_<<rosterVars, commandVars, scene>>

Symmetry == Permutations(MCMembers) \union Permutations(MCTeams)
=============================================================================
