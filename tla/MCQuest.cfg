SPECIFICATION Spec
CONSTANTS
    w1 = w1
    w2 = w2
    w3 = w3
    c1 = c1
    c2 = c2
    Workers <- MCWorkers
    Kinds <- MCKinds
    Conditions <- MCConditions
    Extras <- MCExtras
    NoWorker = NoWorker
    Hirer = Hirer
    Reward = 11
    Fee = 2
    CancelPercent = 20
    StartTime = 1
    DueAt = 2
    MaxTime = 4
    UnderfilledWindow = 1
    ReviewWindow = 1
    AllocationWindow = 1
    EditWindow = 1
    MaxEditRequests = 1
    SelfFilingWindow = 0
    AdminFilingWindow = 1
    HoldWindow = 2
    Awards = {12, 20}
    MaxCases = 1
    OthersStopApproval = FALSE
    Dues = {2, 3}
    ConfirmWindow = 1
    ReworkLimit = 1
SYMMETRY Symmetry
CHECK_DEADLOCK FALSE
INVARIANTS
    EscrowCoversSlots
    EndedQuestStrandsNothing
    PaidAsAgreed
    WaitingProofIsCovered
    SentProofIsReviewed
PROPERTIES
    EditAppliedByAll
