SPECIFICATION Spec
CONSTANTS
    m1 = m1
    q1 = q1
    q2 = q2
    w1 = w1
    w2 = w2
    NoQuote = NoQuote
    Members = {m1}
    Quotes <- MCQuotes
    Workers = {w1, w2}
    Capacity = 10
    InitialWallet <- MCInitialWallet
    ConversionLimits = {3}
    StatusChanges = {}
    Terms <- MCTerms
    Charges <- AboveQuote
    Preparation <- SharedPreparation
    ChargesComplete = TRUE
    MaxCrashes = 1
INVARIANTS
    ReserveMatchesActive
    LedgerFollowsProvider
PROPERTIES
    KeepsPromise
SYMMETRY Symmetry
CHECK_DEADLOCK FALSE
