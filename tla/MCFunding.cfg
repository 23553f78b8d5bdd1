SPECIFICATION Spec
CONSTANTS
    hirer = hirer
    worker = worker
    r1 = r1
    r2 = r2
    k1 = k1
    k3 = k3
    k2 = k2
    v1 = v1
    v2 = v2
    Members <- MCMembers
    Reservations = {r1, r2}
    References = {k1}
    Revisions = {v1, v2}
    FirstRevision = v1
    Amounts = {1, 2}
    Fees = {0, 1}
    Capacity = 5
    InitialWallet <- MCInitialWallet
    ConversionLimits = {2}
    StatusChanges = {"ACTIVE", "FROZEN"}
    Callers <- MCCallers
    Policies <- MCPolicies
INVARIANTS
    RowMatchesHistory
    EachKeyPaysOnce
    EscrowMatchesWallet
PROPERTIES
    KeepsPromise
CHECK_DEADLOCK FALSE
