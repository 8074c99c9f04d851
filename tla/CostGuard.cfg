SPECIFICATION Spec
CONSTANTS
    Callers = {c1, c2}
    Users = {u1}
    Limit = 3
    UserLimit = 1
    MaxActions = 2
    MaxCost = 2
    None = None
INVARIANTS
    TypeOK
    FlagMatchesTotal
    CountsToday
    OvershootBounded
    RateBounded
