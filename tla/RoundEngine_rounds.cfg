\* The thresholds are scaled down so that a halt takes three rounds.
SPECIFICATION FairSpec
CONSTANTS
    a1 = a1
    a2 = a2
    a3 = a3
    Agent <- MCAgent
    Topology <- MCTopology
    Costs = {1}
    BudgetLimit = 11
    RoutedFit = 1
    MaxIterations = 1
    MaxRounds = 4
    StallFrom = 1
    StallWarn = 1
    StallHalt = 2
    MaxRedirects = 1
    MaxAsked = 1
    MaxCrashes = 1
CHECK_DEADLOCK FALSE
INVARIANTS TypeOK TurnsInOrder HaltEarned
PROPERTIES RoundEnds
