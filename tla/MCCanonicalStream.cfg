SPECIFICATION Spec
CONSTANTS
  Discovery = Discovery
  v0 = v0
  v1 = v1
  v2 = v2
  Run = {r1, r2, r3}
  Key = {k1}
  Value = {v0, v1, v2}
  Scope = {s1, s2}
  Lane = {Production, Discovery}
  Production = Production
  Definition <- Definitions
  MaxRevisions = 3
  NoScope = NoScope
  NoValue = NoValue
  NoLane = NoLane
CHECK_DEADLOCK FALSE
SYMMETRY Symmetry
INVARIANTS
  StreamsAreConsistent
  DecisionHistory
PROPERTIES
  ReadersSeeOnlyDecisions
  CanonicalMovesForward
