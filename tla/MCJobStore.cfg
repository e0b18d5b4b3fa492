SPECIFICATION Spec
CONSTANTS
  j1 = j1
  j2 = j2
  w1 = w1
  w2 = w2
  JobId = {j1, j2}
  Worker = {w1, w2}
  Token = {1, 2, 3, 4}
  Request <- MixedRequests
  AttemptLimit = 2
  LeaseSeconds = 2
  RetryAfter = {2}
  Skew = 1
  MaxTime = 3
  NoJob = NoJob
  NoToken = NoToken
  NoIdentity = NoIdentity
INVARIANTS
  TablesAreConsistent
  HandlesAreFenced
PROPERTIES
  LiveLeaseIsExclusive
  LateWorkerCannotCommit
  ImplementsLifecycle
SYMMETRY Symmetry
CHECK_DEADLOCK FALSE
