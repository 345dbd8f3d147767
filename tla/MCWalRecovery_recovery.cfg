\* Crashes at any point, recovery interrupted by crashes, a checkpoint, and
\* a WAL fsync that can fail once.
\* Writes carry a before image (UPDATE, DELETE); INSERT's image-less CLR
\* is covered by MCWalRecovery_live.cfg and MCWalRecovery_clr_redo.cfg.
CONSTANTS
    Pages = {p1, p2}
    NoPage = NoPage
    Capacity = 1
    TxnIdBound = 3
    MaxChanges = 2
    MaxCrashes = 2
    MaxCheckpoints = 1
    MaxFlushFaults = 1
    ShortWrites = FALSE
    BeforeImages = {TRUE}
    AutoFlush = FALSE
SPECIFICATION Spec
SYMMETRY PageSymmetry
INVARIANT TypeOK
INVARIANT CompensatedOnce
INVARIANT CommittedSurvive
