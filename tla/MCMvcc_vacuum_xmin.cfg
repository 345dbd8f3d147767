\* Two serialized sessions with VACUUM between statements.
CONSTANTS
    Sessions = {s1, s2}
    TxnIdBound = 5
    MaxTuples = 3
    StatementLock = TRUE
    VacuumEnabled = TRUE
SPECIFICATION Spec
PROPERTY VacuumKeepsVisible
