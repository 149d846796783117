CONSTANTS
    Stage = {s1, s2}
    MaxWorkers = 2
    NoError = NoError
    Torn = Torn
SPECIFICATION Spec
INVARIANTS
    FailFastStopsDependents
CHECK_DEADLOCK FALSE
