\* A subscriber whose leaving breaks a fan-out, and a crash; one command at a
\* time; no symmetry (liveness).
CONSTANTS
    Colony = {c1}
    Client = {k1}
    NoColony = NoColony
    MaxRounds = 2
    MaxRequests = 3
    MaxRestarts = 1
    MaxSubs = 1
    MaxGen = 0
SPECIFICATION FairSpec
CHECK_DEADLOCK FALSE
PROPERTIES  SettledForGood
