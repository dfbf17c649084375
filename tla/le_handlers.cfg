SPECIFICATION Spec
CONSTANTS
    Jobs = {j1, j2}
    MaxOrder = 2
    DeleteMayFail = FALSE
    NoRow = NoRow
    Requested <- Mixed
SYMMETRY Symmetry
INVARIANTS TypeOK AutoRenewSupported 
