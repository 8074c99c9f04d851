SPECIFICATION Spec
CONSTANTS
    l1 = l1
    l2 = l2
    s1 = s1
    s2 = s2
    parentThread = parentThread
    Leases <- MCLeases
    Threads = {parentThread, childThread}
    Callers = {parentThread}
    Names <- MCNames
    Spellings <- MCSpellings
    Plan <- MCPlan
    Batches = {b1}
    Scripts = {s1, s2}
    GrantSets <- MCGrantSets
    BatchSize = 2
    Deadlines = {1}
    UseLimits = {2}
    Horizon = 1
    None = None
INVARIANTS TypeOK UsesConserved ChildWithinParent
CHECK_DEADLOCK FALSE
SYMMETRY Symmetry
