SPECIFICATION Spec
CONSTANTS
    Threads = {t1, m1}
    MissionThreads = {m1}
    GateThread = t1
    Loops = {h1, h2, h3}
    Callers = {agent, watcher}
    Agent = agent
    Gates = {g1, g2}
    AuthGates = {g2}
    ExternalGates = {g1}
    FallbackGates = {g2}
    Keys = {t1, m1}
    KeyOf <- OneKey
    SignalCap = 1
    OwnerThreads = {t1, m1}
    SlowTurns = FALSE
    Crashes = TRUE
    None = None
SYMMETRY Symmetry
INVARIANTS
    RouterTypeOK
    AgentOwnsTheTurn
    OwnerRecordsAreLive
    GateMeansWaiting
CHECK_DEADLOCK FALSE
