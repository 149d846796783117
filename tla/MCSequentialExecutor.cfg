CONSTANTS
    Stage = {s1, s2, s3}
    MaxDeps = 2
    StageList <- MCStageList
SPECIFICATION FairSpec
INVARIANTS
    ValidationDecidesCycles
    OrderFollowsDependencies
    VerdictTellsStages
PROPERTIES
    ImplementsLifecycle
\* Execute ends.
CHECK_DEADLOCK FALSE
