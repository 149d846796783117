\* Six projects; scans, checks, pipelines and quick scans of three scanners; batches of two dependencies.
CONSTANTS
    BatchSize = 2
    MaxFindings = 8
    MaxPolicyFiles = 2
    MaxReportFindings = 8
    Controls <- AllControls
    CweControls <- DefaultMappings
    QuickScan <- MCQuickScan
    Scenarios <- MCScenarios

SPECIFICATION FairSpec

INVARIANTS
    SuccessIsComplete
    NoReportLeftBehind
    NothingLost
    ExitTellsScan
    GateTellsScan
    ControlsTellFindings

PROPERTY CommandEnds
