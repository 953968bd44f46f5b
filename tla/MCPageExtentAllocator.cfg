CONSTANTS
    TotalPages <- MCTotalPages
    MaxUint64 <- MCMaxUint64
    MaxBytes <- MCMaxBytes
    Bdevs <- MCBdevs
SPECIFICATION Spec
INVARIANTS
    TypeOK
    FreeSpaceCoalesced
    PagesPartitioned
    AccountingExact
    ThrowsUnreachable
    RefusalExact
    SegmentsTransferEntry
    SegmentsFitDevice
PROPERTIES
    ImplementsReservation
