SPECIFICATION CommunitySpec
CONSTANTS
    h = h
    w = w
    q1 = q1
    x1 = x1
    k0 = k0
    k1 = k1
    k2 = k2
    Members = {h}
    EarlierCase = k0
    HasWallet = {h}
    AddedByAdmin = {"BAN_7_DAYS"}
    SetByAdmin = {"ACTIVE", "FROZEN"}
    AdminKeys = {1}
    WEEK = 1
    MONTH = 2
    MaxNow = 2
    MaxRecords = 6
    AssignedQuests <- MCQuests
    HirerOf <- MCHirerOf
    WorkerOf <- MCWorkerOf
    DueAt <- MCDueAt
    Ratings = {2, 3}
    ReviewFloor = 1
    Messages = {x1}
    Author <- MCAuthor
    QuestOf <- MCQuestOf
    Cases = {k1}
    MaxVersion = 3
INVARIANTS
    StrikesFollowLadder
    BanIsWhatHistorySays
    BanFreezesWallet
    DecisionMatchesRecord
CHECK_DEADLOCK FALSE
