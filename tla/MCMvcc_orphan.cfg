\* One session: an autocommit statement returning an error.
CONSTANTS
    Sessions = {s1}
    TxnIdBound = 5
    MaxTuples = 3
    StatementLock = TRUE
    VacuumEnabled = FALSE
SPECIFICATION Spec
INVARIANT NoOrphanTxn
