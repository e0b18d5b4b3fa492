CONSTANTS
    Caller = {c1, c2}
    Request = {r1, r2}
    Principal = {p1, p2}
    Cohort = {onspd, other}
    Quoted = {onspd}
    Intent = {i1}
    DailyLimit = 1
    Cooldown = 1
    Ttl = 2
    DayLength = 4
    MaxTime = 4
    MaxEvents = 2
    None = None
SYMMETRY Symmetry
SPECIFICATION Spec
INVARIANTS
    LedgerIsConsistent
    CooldownIsShared
    QuotaNeedsApproval
    DecisionIsFinal
