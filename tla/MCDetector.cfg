CONSTANTS
    c1 = c1
    c2 = c2
    Caller = {c1, c2}
    Worker = {w1, w2}
    Framework = {"torch", "keras"}
    Scenarios <- MCScenarios
    MaxFilesToScan = 5
    MaxDepth = 1
    MaxModels = 1
    MaxFrameworks = 2
    MaxCacheEntries = 1
    TaskBuffer = 1
    MaxEdits = 1
SPECIFICATION FairSpec
INVARIANTS
    ResultComplete
    ModelsBounded
    CacheGrowsByOverlap
PROPERTIES
    CallsReturn
\* Every scan returns.
CHECK_DEADLOCK FALSE
