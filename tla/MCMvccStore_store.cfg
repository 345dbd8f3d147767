\* Four transactions, two rows, callers that write a row once per transaction.
CONSTANTS
    TxnIdBound = 5
    RowBound = 2
    Data = {d1, d2}
    MaxChain = 3
    OncePerRow = TRUE
SYMMETRY DataSymmetry
SPECIFICATION Spec
INVARIANT TypeOK
INVARIANT NoConcurrentWriters
PROPERTY AbstractSpec
