SPECIFICATION LastingTurnsSpec
CONSTANTS
    Threads = {t1}
    MissionThreads = {}
    GateThread = t1
    Loops = {h1}
    Callers = {agent}
    Agent = agent
    Gates = {g1}
    AuthGates = {}
    ExternalGates = {}
    FallbackGates = {}
    Keys = {t1}
    KeyOf <- OneKey
    SignalCap = 1
    OwnerThreads = {t1}
    SlowTurns = TRUE
    Crashes = FALSE
    None = None
PROPERTY DeadlineBreaksOut
CHECK_DEADLOCK FALSE
