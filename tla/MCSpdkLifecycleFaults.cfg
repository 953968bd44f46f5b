CONSTANTS
    c1 = c1
    c2 = c2
    b1 = b1
    b2 = b2
    None = None
    Contexts <- MCContexts
    Bdev <- MCTwoBdevs
    Config <- MCSameConfig
    WorkerCount = 2
    Failures <- MCUncontained
    Events = TRUE
SPECIFICATION Spec
INVARIANT
    TeardownStartsOnce
CHECK_DEADLOCK FALSE
