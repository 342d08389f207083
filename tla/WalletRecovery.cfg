SPECIFICATION FairSpec
CONSTANTS
    MaxKey = 18
    MaxDay = 1
    MaxRuns = 6
    MaxFaults = 1
    MaxBatch = 2
    Sizes = {2}
    AccountSets = {{1}}
    Supply = 4
    EaterAmount = 2
    ChildAmount = 1
    RentMin = 1
    ChunkSize = 2
    LateKinds = {"sweep", "dist"}
    Spare = 4
PROPERTY
    Recovers
CHECK_DEADLOCK FALSE
