SPECIFICATION MCFairSpec
CONSTANTS
    Requests = {a, b, n, s}
    a = a
    b = b
    n = n
    c1 = c1
    c2 = c2
    Nested <- Nesting
    Single = {s}
    Conns = {c1, c2}
    Pools <- SmallPools
    None = None
    Writes = 2
    MaxActive = 2
    MaxErrors = 2
    Listed = {w1, w2}
    Period = 1
    Ttl = 2
    Null = Null
INVARIANTS
    LevelCountsCurrent
    CurrentNotDone
    Atomic
PROPERTIES
    EveryCallEnds
    DashboardFollows
CHECK_DEADLOCK FALSE
