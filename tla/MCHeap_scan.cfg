\* Two tables, pages of 144 bytes (two tuples each), one restart.
CONSTANTS
    Tables = {tA, tB}
    PageSize = 144
    DataLens = {8, 16}
    MaxPages = 5
    MaxWrites = 5
    MaxRestarts = 1
SYMMETRY TableSymmetry
SPECIFICATION Spec
INVARIANT ScanExact
