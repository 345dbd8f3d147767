\* Two serialized sessions without VACUUM: DELETE has no write-write check.
CONSTANTS
    Sessions = {s1, s2}
    TxnIdBound = 5
    MaxTuples = 3
    StatementLock = TRUE
    VacuumEnabled = FALSE
SPECIFICATION Spec
PROPERTY RepeatableRead
