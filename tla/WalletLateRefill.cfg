SPECIFICATION Spec
CONSTANTS
    MaxKey = 7
    MaxDay = 1
    MaxRuns = 3
    MaxFaults = 1
    MaxBatch = 2
    Sizes = {2}
    AccountSets = {{1, 2}}
    Supply = 8
    EaterAmount = 5
    ChildAmount = 2
    RentMin = 1
    ChunkSize = 2
    LateKinds = {"sweep", "refill", "dist"}
    Spare = 0
INVARIANT
    NoFundsLost
CHECK_DEADLOCK FALSE
