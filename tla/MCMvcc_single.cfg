\* One session, the configuration cmd/minidb builds, with VACUUM.
CONSTANTS
    Sessions = {s1}
    TxnIdBound = 6
    MaxTuples = 3
    StatementLock = TRUE
    VacuumEnabled = TRUE
SPECIFICATION Spec
INVARIANT TypeOK
PROPERTY RepeatableRead
