SPECIFICATION Spec
CONSTANTS
    m1 = m1
    t1 = t1
    t2 = t2
    e1 = e1
    e2 = e2
    p1 = p1
    s1 = s1
    NoEvent = NoEvent
    NoTopUp = NoTopUp
    Members = {m1}
    TopUps = {t1, t2}
    TopUpTerms <- MCTerms
    Events = {e1, e2}
    Webhooks = {e1, e2}
    Content <- PaidAndReversed
    Refused = {}
    Processors = {p1}
    Tasks = {s1}
    MaxAttempts = 1
    BatchLimit = 2
    MaxCrashes = 1
    MaxOthers = 1
    Rewards = {2}
    Fundings = {3}
    ConversionLimits = {1}
    StatusChanges = {"FROZEN"}
    Capacity = 7
    InitialWallet <- MCInitialWallet
INVARIANTS CreditedOnce TopUpFollowsProvider ProcessedTakesEffect OwnRequestsFit
CHECK_DEADLOCK FALSE
