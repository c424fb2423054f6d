SPECIFICATION MCFairSpec
CONSTANTS
    Processes = {s1, s2}
    s1 = s1
    s2 = s2
    t1 = t1
    t2 = t2
    TaskSet = {t1, t2}
    Setups <- SetupsAll
    OverlapTtl = 2
    MaxInstances = 2
    MaxFaults = 1
INVARIANTS
    RunsExcluded
    DueAsAsked
PROPERTIES
    RunsAgain
