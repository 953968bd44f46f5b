CONSTANTS
    c1 = c1
    c2 = c2
    k1 = k1
    None = None
    Thrown = Thrown
    Connectors <- MCOneConnector
    WorkerCount <- MCOneWorkers
    Keys <- MCKeys
    Payloads <- MCPayloads
    Lengths <- MCLengths
    MaxValueBytes = 2
    QueueDepth = 2
    MaxRequests = 3
SPECIFICATION Spec
INVARIANT
    StoresCompleteOnDevice
CHECK_DEADLOCK FALSE
