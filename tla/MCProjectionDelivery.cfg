CONSTANTS
    r1 = r1
    None = None
    Key = {1, 2, 3}
    KindOf <- KindsOfKeys
    Anchor = {1, 2}
    Demands <- DemandsToMeet
    Rule = {r1}
    Breaches <- OneRuleBroken
    PageSize = 1
    MaxRows = 2
    MaxAttempts = 2
    DayLength = 3
    WeekLength = 3
    MaxNow = 2
    MaxRevisions = 2
    MaxCommands = 1
    MaxFaults = 1
SPECIFICATION FairSpec
INVARIANTS
    LineageIsTrue
    PublicationIsCoherent
    ShownIsWhole
    ReplaysAddNothing
PROPERTIES
    DeliveriesEnd
CHECK_DEADLOCK FALSE
