CONSTANTS
    Jobs = {j1, j2}
    Unique = {j1, j2}
    Delayable = {j1}
    UniqueFor = TRUE
    Workers = {w1}
    Null = Null
    MaxTries = 3
    MaxExceptions = 3
    Backoff <- BackoffSteps
    MaxTroubles = 1
    MaxOverruns = 0
    MaxCommands = 1
SPECIFICATION FairSpec
INVARIANTS
    ExtraStartsNeedTrouble
    OneUniqueJob
PROPERTIES
    KeepsContract
    EventuallySettled
