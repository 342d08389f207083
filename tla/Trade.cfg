SPECIFICATION Spec
CONSTANTS
    Users = {u1}
    Globals <- MCGlobals
    tiers <- MCTiers
    ONE_BILLION_SUPPLY = 10000
    Supply = 10000
    SolAmounts = {1, 223, 2027, 9000}
    TokenAmounts = {1, 777, 3000}
    Slippages = {1, 10}
    MaxTrades = 3
INVARIANTS
    TypeOK
    LaunchBuyLands
    Solvent
    FreshQuotesLand
PROPERTY
    ProductNeverFalls
CHECK_DEADLOCK FALSE
