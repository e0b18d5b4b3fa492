CONSTANTS
    p1 = p1
    p2 = p2
    c1 = c1
    c2 = c2
    d1 = d1
    d2 = d2
    d3 = d3
    None = None
    Process = {p1, p2}
    Content = {c1, c2}
    Dir = {d1, d2}
    Packaged = 4
    ContentVersion = 2
    BackupDir = TRUE
    MaxCrashes = 2
    MaxRot = 1
    MaxInstalls = 2
SYMMETRY Symmetry
SPECIFICATION Spec
INVARIANTS
    SetsAreComplete
    RowsHaveObjects
    RecordedSetsExist
PROPERTIES
    MigrationsAreBackedUp
CHECK_DEADLOCK FALSE
