\* One session: ROLLBACK leaves the heap as it is.
CONSTANTS
    Sessions = {s1}
    TxnIdBound = 5
    MaxTuples = 3
    StatementLock = TRUE
    VacuumEnabled = FALSE
SPECIFICATION Spec
INVARIANT RollbackInvisible
