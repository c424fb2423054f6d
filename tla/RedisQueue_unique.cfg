\* Two jobs of one uniqueId with a lock that has no time to live, and nothing that fails.
CONSTANTS
    Jobs = {j1, j2}
    Unique = {j1, j2}
    Delayable = {j1}
    UniqueFor = FALSE
    Workers = {w1}
    Null = Null
    MaxTries = 3
    MaxExceptions = 3
    Backoff <- BackoffSteps
    MaxTroubles = 0
    MaxOverruns = 0
    MaxCommands = 0
SPECIFICATION FairSpec
PROPERTIES
    UniqueLockFreed
