CONSTANTS
    c1 = c1
    c2 = c2
    k1 = k1
    None = None
    Thrown = Thrown
    Connectors <- MCConnectors
    WorkerCount <- MCWorkers
    Keys <- MCKeys
    Payloads <- MCPayloads
    Lengths <- MCLengths
    MaxValueBytes = 2
    QueueDepth = 2
    MaxRequests = 2
SPECIFICATION FairSpec
INVARIANTS
    TypeOK
    AnswersTruthful
    OneEnvironment
PROPERTY
    RequestsEnd
CHECK_DEADLOCK FALSE
