SPECIFICATION WindowSpec
CONSTANTS
    Files <- MCFiles
    Names = {"DE", "NL"}
    TwoTo64 = 230
INVARIANTS WindowTypeOK Sound Exact
