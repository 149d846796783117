CONSTANTS
    Stage = {s1, s2, s3}
    MaxWorkers = 1
    NoError = NoError
    Torn = Torn
SPECIFICATION FairSpec
INVARIANTS
    SerialFailFast
PROPERTIES
    ExecuteReturns
    GoroutinesEnd
CHECK_DEADLOCK FALSE
