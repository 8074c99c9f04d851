SPECIFICATION ManagerTurnsEndSpec
CONSTANTS
    Threads = {t1}
    Loops = {h1}
    Callers = {c1, c2}
    SignalCap = 1
    None = None
PROPERTY JoinReturns
CHECK_DEADLOCK FALSE
