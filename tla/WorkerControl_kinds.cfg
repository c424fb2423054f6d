CONSTANTS
    Workers = {w1}
    w1 = w1
    Options <- BothKinds
    Queues = {"high", "default"}
    Local = TRUE
    Null = Null
    MaxNow = 2
    MaxPushes = 3
SPECIFICATION FairSpec
INVARIANTS
    LoopHeeds
PROPERTIES
    RestartReachesItsWorkers
