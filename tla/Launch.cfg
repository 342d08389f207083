SPECIFICATION FairSpec
CONSTANTS
    NumWallets = 2
    MaxBreaks = 1
    MaxTrades = 1
INVARIANTS TypeOK SellsAreBacked SentOnce
PROPERTIES ImplementsPlan Unwound
CHECK_DEADLOCK FALSE
