SPECIFICATION ManagerFairSpec
CONSTANTS
    Threads = {t1}
    Loops = {h1}
    Callers = {c1, c2}
    SignalCap = 2
    None = None
INVARIANTS
    TypeOK
PROPERTY StopIsHeard
CHECK_DEADLOCK FALSE
