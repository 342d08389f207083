SPECIFICATION FairSpec
CONSTANTS
    REFRESH_MARGIN = 4
    REFRESH_POLL = 1
    FirstPeriod = 1
    Latency = 1
    AccessLives = {7}
    RefreshLives = {24}
    Ttls = {9, 12}
    MaxFaults = 2
INVARIANTS TypeOK KeptAlive TokenOutlives
PROPERTY Recovers
