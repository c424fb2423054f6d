\* Three commands of two runners, one of which may be killed; sheets of up to three
\* calls; three calls that remember or change one value, which lives for a second;
\* and requests to routes with limits 1 and 2 in a window of two seconds, the first
\* two of which may overlap.
CONSTANTS
    Runners = {c1, c2}
    Tables = {"users", "jobs"}
    Retries = 2
    MaxRuns = 3
    MaxCrashes = 1
    Null = Null
    Keys = {"item", "throttle:ip", "throttle:ip:timer"}
    Calls = {c1, c2, c3}
    Ttl = 1
    MaxTime = 4
    MaxUpdates = 2
    MaxStarts = 5
    Limits = {1, 2}
    Decay = 2
    MaxMeet = 2
SPECIFICATION MCSpec
SYMMETRY Interchangeable
INVARIANTS
    DeploysInTurn
    BlueprintsBuild
    StaleOnlyIfOvertaken
    LimitAsStated
CHECK_DEADLOCK FALSE
