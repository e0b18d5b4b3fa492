CONSTANTS
    Session = {s1}
    Turn = {1, 2, 3}
    Approval = {}
    Request = {}
    MaxSessions = 1
    MaxTurns = 3
    None = None
SPECIFICATION Spec
INVARIANTS
    OneActiveTurn
CHECK_DEADLOCK FALSE
