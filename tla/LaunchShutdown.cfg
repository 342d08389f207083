SPECIFICATION FairSpec
CONSTANTS
    NumWallets = 1
    MaxBreaks = 0
    MaxTrades = 0
PROPERTY ShutdownReturns
CHECK_DEADLOCK FALSE
