SPECIFICATION FairSpec
CONSTANTS
    Budget = 1
    MaxActive = 1
    Costs <- MCCosts
    ContinueCost = 1
    Compact = 1
    Keep = 1
    MaxFailures = 1
    MaxActions = 2
    MaxColonies = 1
    MaxDays = 2
    MaxCrashes = 1
CHECK_DEADLOCK FALSE
PROPERTIES LedgerMoves ApprovedSettles
