SPECIFICATION FilesSpec
CONSTANTS
    Objects = {o1, o2, o3}
    Requests = {r1, r2}
    Keys = {k1, k2}
    NoObject = NoObject
    MaxFaults = 2
    MaxFlowsInUse = 2
    MaxImages = 2
    MaxProofFiles = 2
    MaxPortfolioImages = 2
INVARIANT NoFileIsLost
SYMMETRY Symmetry
CHECK_DEADLOCK FALSE
