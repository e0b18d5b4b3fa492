CONSTANTS
    p1 = p1
    p2 = p2
    c1 = c1
    c2 = c2
    d1 = d1
    d2 = d2
    d3 = d3
    None = None
    Process = {p1}
    Content = {c1}
    Dir = {d1, d2}
    Packaged = 3
    ContentVersion = 2
    BackupDir = TRUE
    MaxCrashes = 1
    MaxRot = 0
    MaxInstalls = 0
SPECIFICATION FairSpec
PROPERTIES
    BootstrapCompletes
CHECK_DEADLOCK FALSE
