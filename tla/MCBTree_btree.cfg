\* Order 3 (at most two keys a node): five keys make leaf splits, internal
\* splits and a third level; deletes empty leaves that later inserts refill.
\* MaxPages = 10 does not bind: the five keys never need more pages.
CONSTANTS
    Keys = {1, 2, 3, 4, 5}
    RIDs = {r1, r2}
    NoRID = NoRID
    Order = 3
    MaxPages = 10
SPECIFICATION Spec
SYMMETRY RIDSymmetry
INVARIANT TypeOK
INVARIANT WellFormed
INVARIANT ScanAllInKeyOrder
PROPERTY AbstractSpec
