SPECIFICATION CarefulSpec
CONSTANTS
    MaxKey = 12
    MaxDay = 2
    MaxRuns = 3
    MaxFaults = 2
    MaxBatch = 3
    Sizes = {2, 3}
    AccountSets = {{1, 2}, {1, 2, 3}}
    Supply = 7
    EaterAmount = 4
    ChildAmount = 2
    RentMin = 5
    ChunkSize = 1
    LateKinds = {"sweep", "refill", "dist"}
    Spare = 0
INVARIANTS
    TypeOK
    NoFundsLost
    NoTransferToLostKey
    SweptBeforeRefill
PROPERTY
    RotateOnlyEmpty
CHECK_DEADLOCK FALSE
