SPECIFICATION FairSpec
CONSTANTS
    m1 = m1
    q1 = q1
    q2 = q2
    w1 = w1
    w2 = w2
    NoQuote = NoQuote
    Members = {m1}
    Quotes = {q1}
    Workers = {w1, w2}
    Capacity = 10
    InitialWallet <- MCInitialWallet
    ConversionLimits = {2}
    StatusChanges = {"ACTIVE", "FROZEN"}
    Terms <- MCTerms
    Charges <- WithinQuote
    Preparation <- SharedPreparation
    ChargesComplete = TRUE
    MaxCrashes = 1
PROPERTY SubmissionEnds
CHECK_DEADLOCK FALSE
