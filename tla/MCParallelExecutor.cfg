CONSTANTS
    Stage = {s1, s2, s3}
    MaxWorkers = 2
    NoError = NoError
    Torn = Torn
SPECIFICATION Spec
SYMMETRY StageSymmetry
INVARIANTS
    TypeOK
    SnapshotHasDependencies
    ResultsFollowDependencies
    SkippedOnlyAfterError
    ReturnAccountsForAll
PROPERTIES
    CompletedIsFinal
    ImplementsLifecycle
\* Execute ends and its goroutines stop.
CHECK_DEADLOCK FALSE
