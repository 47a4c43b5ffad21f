SPECIFICATION Spec
CONSTANTS
    c1 = c1
    c2 = c2
    t1 = t1
    t2 = t2
    t3 = t3
    Colony <- MCColony
    Task <- MCTask
    GroupOf <- MCGroupOf
    InputFrom <- MCInputFrom
    EditStatus <- MCEdits
    Limit = 1
    ColonyLimit = 2
    RoundCost = 1
    None = None
    MaxSteps = 2
    MaxEdits = 1
    MaxRestarts = 1
CHECK_DEADLOCK FALSE
INVARIANTS TypeOK DepthEarned OvershootBounded TrackerHonest
SYMMETRY ColonySymmetry
