CONSTANTS
    j1 = j1
    j2 = j2
    j3 = j3
    j4 = j4
    j5 = j5
    j6 = j6
    j7 = j7
    j8 = j8
    c0 = c0
    c1 = c1
    c2 = c2
    c3 = c3
    r1 = r1
    r2 = r2
    Job = {j1, j2, j3, j4, j5, j6, j7, j8}
    Plans <- JobPlans
    Family <- JobFamilies
    Kind <- JobKinds
    Production = {j1, j2, j3, j4, j5, j7}
    Automatic = {"macro", "file_selected", "onspd"}
    Retention = TRUE
    Content = {c0, c1, c2, c3}
    Published <- Sources
    Record = {r1, r2}
    RecordsOf <- Parsers
    Malformed = {c2}
    Window = {r1}
    MaxAttempts <- Attempts
    MaxCrashes = 1
    None = None
SPECIFICATION FairSpec
INVARIANTS
    EvidenceIsWhole
    ResultsAreComplete
    TicksKeepAndEndTheirRuns
PROPERTIES
    ClosedRunsAreSealed
    JobsEnd
CHECK_DEADLOCK FALSE
