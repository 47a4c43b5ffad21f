\* A kill while the task waits for an append; no crash is needed.
CONSTANTS
    Colony = {c1}
    Client = {k1, k2}
    NoColony = NoColony
    MaxRounds = 2
    MaxRequests = 3
    MaxRestarts = 0
    MaxSubs = 0
    MaxGen = 0
SPECIFICATION Spec
CHECK_DEADLOCK FALSE
INVARIANTS
    ReplaySameState
