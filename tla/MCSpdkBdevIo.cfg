CONSTANTS
    c1 = c1
    c2 = c2
    None = None
    Callers <- MCCallers
    Readers <- MCReaders
    WorkerCount = 1
    BufferCount = 1
    ItemCount = 2
    MaxBatches = 3
    MaxRetries = 1
    MaxErrors = 1
    BdevEvents = TRUE
SPECIFICATION FairSpec
INVARIANTS
    TypeOK
    RequestsInOnePlace
    LeasesExact
    NoStrandedRequest
PROPERTIES
    NoOvertaking
    BatchesReturn
CHECK_DEADLOCK FALSE
