SPECIFICATION Spec
CONSTANTS
    c1 = c1
    c2 = c2
    k1 = k1
    Clients = {c1, c2}
    Identities = {k1}
    Foreign = Foreign
    Payloads <- MCPayloads
    MaxValueBytes = 2
    MaxCalls = 5
    MaxDamages = 1
    None = None
SYMMETRY MCSymmetry
INVARIANTS
    TypeOK
    LoadsWhole
    VisibleIsWhole
    ConflictsHaveCause
CHECK_DEADLOCK FALSE
