CONSTANTS
    c1 = c1
    c2 = c2
    b1 = b1
    b2 = b2
    None = None
    Contexts <- MCContexts
    Bdev <- MCSameBdev
    Config <- MCSameConfig
    WorkerCount = 2
    Failures <- MCContained
    Events = TRUE
SPECIFICATION FairSpec
INVARIANTS
    TypeOK
    AvailableMeansReady
    DescriptorsExclusive
    ResourcesReleasedFirst
    NeverJoinsItself
PROPERTY
    OwnersReturn
CHECK_DEADLOCK FALSE
