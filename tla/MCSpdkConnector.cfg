CONSTANTS
    w1 = w1
    w2 = w2
    a = a
    b = b
    None = None
    Torn = Torn
    Workers <- MCWorkers
    Keys <- MCKeys
    Values <- MCValues
    PageCount <- MCPageCount
    PageSize <- MCPageSize
    Requests <- MCRequests
    MaxRequests <- MCMaxRequests
SPECIFICATION FairSpec
INVARIANTS
    TypeOK
    PagesOwnedOnce
    ReadsStayInEntry
PROPERTIES
    CommittedPagesUntouched
    ImplementsCache
    RequestsEnd
CHECK_DEADLOCK FALSE
