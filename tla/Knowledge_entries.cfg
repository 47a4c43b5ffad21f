SPECIFICATION Spec
CONSTANTS
    c1 = c1
    c2 = c2
    e1 = e1
    e2 = e2
    Entry <- MCEntry
    Colony <- MCColony
    Secret <- MCSecret
    Old <- MCOld
    Accesses <- MCAccesses
    PromoteAt = 2
    MaxEvents = 3
    MaxBusy = 2
    MaxRestarts = 1
CHECK_DEADLOCK FALSE
INVARIANTS TypeOK CountedOnce AdmissionHolds
