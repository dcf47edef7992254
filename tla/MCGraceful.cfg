SPECIFICATION SignalledSpec
CONSTANTS
    wk1 = wk1
    wk2 = wk2
    a = a
    b = b
    c = c
    d = d
    q1 = q1
    Null = Null
    Workers <- OneWorker
    Pools <- JustOneWorker
    Ids <- TwoIds
    MaxCalls = 1
    Requests <- OneRequest
INVARIANT
    GracefulShutdown
