CONSTANTS
    Jobs = {j1}
    Workers = {w1, w2}
    Null = Null
    MaxTries = 2
    MaxExceptions = 2
    Backoff <- BackoffSteps
    RetryAfter = 1
    Delays = {0, 1}
    Deadlined = {j1}
    MaxRetries = 1
    MaxCrashes = 1
    MaxErrors = 1
SPECIFICATION FairSpec
INVARIANTS
    Accounted
    WaitingHasTriesLeft
    AttemptsCounted
PROPERTIES
    UnstartedNeverRemoved
    OneByOneExact
    EventuallySettled
