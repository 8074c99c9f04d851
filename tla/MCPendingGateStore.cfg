SPECIFICATION Spec
CONSTANTS
    g1 = g1
    g2 = g2
    g3 = g3
    k1 = k1
    k2 = k2
    th1 = th1
    th2 = th2
    t1 = t1
    t2 = t2
    None = None
    Gates <- MCGates
    Keys <- MCKeys
    KeyOf <- MCKeyOf
    ThreadOf <- MCThreadOf
    Channels <- MCChannels
    ChannelOf <- MCChannelOf
    Trusted <- MCTrusted
    PreGranted <- MCPreGranted
    Tasks <- MCTwoTasks
    MaxCrashes = 1
    IOErrors = TRUE
INVARIANTS
    IndexesAgree
    GrantDiesWithProcess
    OneRowPerKey
PROPERTY ImplementsBoard
CHECK_DEADLOCK FALSE
