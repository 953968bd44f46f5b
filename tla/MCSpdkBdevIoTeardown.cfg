CONSTANTS
    c1 = c1
    c2 = c2
    None = None
    Callers <- MCOneCaller
    Readers <- MCReaders
    WorkerCount = 2
    BufferCount = 1
    ItemCount = 4
    MaxBatches = 2
    MaxRetries = 1
    MaxErrors = 0
    BdevEvents = TRUE
SPECIFICATION FairSpec
INVARIANT
    PoolsReleasedFirst
PROPERTIES
    BatchesReturn
    ShutdownEnds
CHECK_DEADLOCK FALSE
