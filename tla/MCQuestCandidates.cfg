SPECIFICATION MCSpec
CONSTANTS
    m1 = m1
    m2 = m2
    m3 = m3
    q1 = q1
    q2 = q2
    worker = worker
    hirer = hirer
    client1 = client1
    client2 = client2
    key = key
    t1 = t1
    t2 = t2
    NoMember = NoMember
    Members <- MCMembers
    Quests <- MCQuests
    Teams <- MCTeams
    FormsOf <- MCForms
    Headcount <- MCHeadcount
    day = day
    evening = evening
    undated = undated
    Slots <- MCSlots
    Clashes <- MCClashes
    CodeLife = 1
    InvitationLife = 1
    MaxTime = 2
    Clients <- MCClients
    Commands <- MCCommands
    Keys = {key}
SYMMETRY Symmetry
CHECK_DEADLOCK FALSE
INVARIANTS
    OneTeamEach
    NoDoubleBooking
    SelectionDecidesAll
    WorkDoneOnce
    QuestsNeverDeadlock
