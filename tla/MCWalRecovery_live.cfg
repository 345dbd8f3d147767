\* Recovery under weak fairness of its steps: crashes at any point, one of
\* them during recovery, and a checkpoint. No symmetry: liveness is checked.
\* Writes are INSERTs, whose CLRs carry no image.
CONSTANTS
    Pages = {p1, p2}
    NoPage = NoPage
    Capacity = 1
    TxnIdBound = 3
    MaxChanges = 1
    MaxCrashes = 2
    MaxCheckpoints = 1
    MaxFlushFaults = 0
    ShortWrites = FALSE
    BeforeImages = {FALSE}
    AutoFlush = FALSE
SPECIFICATION FairSpec
PROPERTY RecoveryTerminates
