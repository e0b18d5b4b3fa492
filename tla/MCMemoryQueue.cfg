SPECIFICATION Spec
CONSTANTS
    j1 = j1
    j2 = j2
    t1 = t1
    t2 = t2
    None = None
    Job = {j1, j2}
    Thread = {t1, t2}
    Token = {1, 2, 3, 4}
    Request <- Requests
    Limit = 2
    Delays = {0, 1}
    Lease = 2
    Skew = 1
    MaxTime = 4
SYMMETRY Symmetry
INVARIANTS
    JobsAreValid
PROPERTIES
    ImplementsLifecycle
CHECK_DEADLOCK FALSE
