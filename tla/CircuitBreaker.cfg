CONSTANTS
    Callers = {c1, c2, c3}
    FailureThreshold = 2
    RecoveryTimeout = 2
    SuccessesNeeded = 2
    None = None
SPECIFICATION FairSpec
INVARIANTS
    TypeOK
    CountsConsecutiveFailures
    OpenedAtMatchesState
PROPERTY ClosesWhenHealthy
