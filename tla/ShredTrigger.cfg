SPECIFICATION Spec
CONSTANTS
    SlotsInEpoch = 2
    MaxEpoch = 1
    MaxRuns = 2
    MaxFaults = 1
    fire_at = 2
    MaxShreds = 5
INVARIANTS TypeOK FiresOnFirstRun LaunchedForFocus
CHECK_DEADLOCK FALSE
