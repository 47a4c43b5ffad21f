\* A kill between the guard of a completion and its event.
CONSTANTS
    Colony = {c1}
    Client = {k1, k2}
    NoColony = NoColony
    MaxRounds = 2
    MaxRequests = 3
    MaxRestarts = 1
    MaxSubs = 1
    MaxGen = 0
SPECIFICATION Spec
CHECK_DEADLOCK FALSE
PROPERTIES
    KilledStaysKilled
