\* Recovery interrupted by a second crash after an Append's auto-flush made
\* the CLR of an undone INSERT durable. No checkpoint, so the checkpoint
\* analysis of MCWalRecovery_checkpoint_loser.cfg plays no part.
CONSTANTS
    Pages = {p1, p2}
    NoPage = NoPage
    Capacity = 1
    TxnIdBound = 3
    MaxChanges = 1
    MaxCrashes = 2
    MaxCheckpoints = 0
    MaxFlushFaults = 0
    ShortWrites = FALSE
    BeforeImages = {FALSE}
    AutoFlush = TRUE
SPECIFICATION Spec
SYMMETRY PageSymmetry
PROPERTY UndoComplete
