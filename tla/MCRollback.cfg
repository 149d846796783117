CONSTANTS
    Deployer = {d1, d2}
    Operator = Operator
    MaxHigh = 1
    Replicas = 1
    Surge = 1
SPECIFICATION SideBySide
INVARIANTS
    PreviousIsHealthy
CHECK_DEADLOCK FALSE
