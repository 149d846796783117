CONSTANTS
    Deployer = {d1, d2}
    Operator = Operator
    MaxHigh = 1
    Replicas = 1
    Surge = 1
SPECIFICATION SideBySide
INVARIANTS
    ReportTellsHelm
    RestoresOlderRevision
    FailureTriesRollback
    GatesTellCluster
PROPERTIES
    PostCheckEnds
\* Every caller returns.
CHECK_DEADLOCK FALSE
