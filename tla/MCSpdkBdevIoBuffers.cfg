CONSTANTS
    c1 = c1
    c2 = c2
    None = None
    Callers <- MCCallers
    Readers <- MCReaders
    WorkerCount = 2
    BufferCount = 1
    ItemCount = 2
    MaxBatches = 2
    MaxRetries = 0
    MaxErrors = 0
    BdevEvents = TRUE
SPECIFICATION Spec
INVARIANT
    InFlightBuffersExist
CHECK_DEADLOCK FALSE
