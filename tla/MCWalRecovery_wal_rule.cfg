\* Commit flushes data pages before its COMMIT record is forced; one crash.
CONSTANTS
    Pages = {p1, p2}
    NoPage = NoPage
    Capacity = 1
    TxnIdBound = 3
    MaxChanges = 1
    MaxCrashes = 1
    MaxCheckpoints = 0
    MaxFlushFaults = 0
    ShortWrites = FALSE
    BeforeImages = {TRUE, FALSE}
    AutoFlush = FALSE
SPECIFICATION Spec
SYMMETRY PageSymmetry
PROPERTY RecoveryAtomic
