CONSTANTS
    Session = {s1}
    Turn = {1, 2}
    Approval = {a1}
    Request = {1, 2}
    MaxSessions = 1
    MaxTurns = 2
    None = None
SPECIFICATION FairSpec
INVARIANTS
    StreamsAreConsistent
    DecisionsReachTheirTurn
    ReservationsEnd
PROPERTIES
    DecisionsAreFinal
    PromptsAreBounded
CHECK_DEADLOCK FALSE
