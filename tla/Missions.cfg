SPECIFICATION Spec
CONSTANTS
    MaxThreads = 2
    Ticker = ticker
    Manual = {user}
    Ops = {op1}
    FireCooldown = 2
    Cooldown = 1
    MaxPerDay = 1
    MaxConcurrent = 1
    Period = 1
    DayLength = 2
    Horizon = 2
    MaxFaults = 1
    MaxCrashes = 1
    MaxRequests = 1
    None = None
INVARIANTS TypeOK CountsOnce ListedRunningBounded
PROPERTIES NoRefire PausedIsNotTicked FireIsReconciled
CHECK_DEADLOCK FALSE
