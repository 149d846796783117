CONSTANTS
    Notifier = {n1, n2}
    Slack = {n1}
    MaxNotifiers = 2
    MaxAlerts = 1
    Manager = Manager
SPECIFICATION Spec
INVARIANTS
    SendFollowsCopy
    ClosedIsComplete
PROPERTIES
    AsyncEnds
\* The alerts are sent, and nobody need change the list.
CHECK_DEADLOCK FALSE
