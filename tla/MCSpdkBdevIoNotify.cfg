CONSTANTS
    c1 = c1
    c2 = c2
    None = None
    Callers <- MCOneCaller
    Readers <- MCReaders
    WorkerCount = 1
    BufferCount = 1
    ItemCount = 1
    MaxBatches = 1
    MaxRetries = 0
    MaxErrors = 0
    BdevEvents = FALSE
SPECIFICATION Spec
INVARIANT
    NotifiesLiveBatch
CHECK_DEADLOCK FALSE
