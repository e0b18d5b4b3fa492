CONSTANTS
    Rule <- Schedules
    Enabled <- Registries
    PeriodLength = 2
    SearchLimit = 3
    SafetyLimit = 4
    Skew = 1
    MaxTime = 6
    MaxFaults = 3
    None = None
SPECIFICATION FairSpec
INVARIANTS
    SchedulesAreConsistent
    NoSlotIsSkipped
PROPERTIES
    CursorMovesForward
    DueSlotsGetTheirJobs
