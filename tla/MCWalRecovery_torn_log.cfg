\* A WAL write that can stop short once; one crash.
CONSTANTS
    Pages = {p1, p2}
    NoPage = NoPage
    Capacity = 1
    TxnIdBound = 3
    MaxChanges = 1
    MaxCrashes = 1
    MaxCheckpoints = 0
    MaxFlushFaults = 1
    ShortWrites = TRUE
    BeforeImages = {TRUE, FALSE}
    AutoFlush = FALSE
SPECIFICATION Spec
SYMMETRY PageSymmetry
INVARIANT CommittedSurvive
