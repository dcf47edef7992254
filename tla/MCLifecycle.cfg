SPECIFICATION LifeSpec
CONSTANTS
    wk1 = wk1
    wk2 = wk2
    a = a
    b = b
    c = c
    d = d
    q1 = q1
    Null = Null
    Workers <- TwoWorkers
    Pools <- UpToTwoWorkers
    Ids <- ThreeIds
    MaxCalls = 2
    Requests <- OneRequest
INVARIANTS
    LifeTypeOK
    ResultsMatchCall
    IdleBetweenCalls
    PanicsOnlyWhenCutOff
PROPERTIES
    ImplementsPoll
    CallsReturn
    StopEndsProcess
