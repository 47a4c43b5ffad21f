\* One colony, two tasks and two commands at a time, one subscriber, a crash.
CONSTANTS
    Colony = {c1}
    Client = {k1, k2}
    NoColony = NoColony
    MaxRounds = 2
    MaxRequests = 3
    MaxRestarts = 1
    MaxSubs = 1
    MaxGen = 0
SPECIFICATION Spec
SYMMETRY Symmetry
CHECK_DEADLOCK FALSE
INVARIANTS
    TypeOK
    VerdictOnce
    RoundsInLog
PROPERTIES
    ImplementsEventLog
