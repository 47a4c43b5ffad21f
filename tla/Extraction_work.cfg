SPECIFICATION FairSpec
CONSTANTS
    c1 = c1
    c2 = c2
    Colony <- TwoColonies
    HasMemoryStore = TRUE
    MaxCrashes = 1
    MaxFaults = 1
    MaxCommands = 1
CHECK_DEADLOCK FALSE

INVARIANTS TypeOK RunsPerLife FailureUnverified
PROPERTIES ReceiptIsFinal WorkYields EventuallyReceipted
