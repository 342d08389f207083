SPECIFICATION FairSpec
CONSTANTS
    TokenKeys = {k1, k2, k3, k4}
    Empty = Empty
    MaxTokens = 3
    MaxRuns = 4
    MaxFaults = 2
INVARIANTS TypeOK NeverAssignedTwice LaunchedOnce
PROPERTIES SentinelKept ImplementsLedger Recovers
CHECK_DEADLOCK FALSE
