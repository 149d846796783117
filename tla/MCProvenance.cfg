CONSTANTS
    author = author
    other = other
    User = {author, other}
    Scripts <- MCScripts
    Project <- MCProject
    MaxComponents = 3
    MaxEdits = 1
SPECIFICATION Spec
INVARIANTS
    RefusalTellsChange
    SbomListsManifests
\* Every command ends.
CHECK_DEADLOCK FALSE
