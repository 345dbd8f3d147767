\* One session: UPDATE inserts a new version and keeps the old one visible.
CONSTANTS
    Sessions = {s1}
    TxnIdBound = 5
    MaxTuples = 3
    StatementLock = TRUE
    VacuumEnabled = FALSE
SPECIFICATION Spec
INVARIANT OneVersionPerRow
