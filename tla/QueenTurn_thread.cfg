SPECIFICATION FairSpec
CONSTANTS
    a1 = a1
    Thread = {th}
    NoThread = NoThread
    MaxTurns = 2
    Caller <- MCCaller
    Stype = {svc, det}
    Handlers = {det}
    Colony = {col}
    NoColony = NoColony
    Nobody = Nobody
    Ms = {0}
    Message <- MCMessage
    MaxAsks = 1
    MaxIterations = 2
    MaxCalls = 1
    PlanningModel = TRUE
CHECK_DEADLOCK FALSE
INVARIANTS TypeOK AnswerCovers RouterClean
PROPERTIES Answered
