\* Callers may write a row more than once in a transaction.
CONSTANTS
    TxnIdBound = 4
    RowBound = 2
    Data = {d1, d2}
    MaxChain = 3
    OncePerRow = FALSE
SYMMETRY DataSymmetry
SPECIFICATION Spec
PROPERTY AbstractSpec
