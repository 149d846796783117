CONSTANTS
    Stage = {s1, s2}
    BufferSize = 2
    Nothing = Nothing
    MaxStages = 7
    Files <- MCFiles
SPECIFICATION Spec
INVARIANTS
    SuccessShownIsTrue
CHECK_DEADLOCK FALSE
