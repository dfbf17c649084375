SPECIFICATION Spec
CONSTANTS
    Jobs = {j1}
    MaxOrder = 2
    DeleteMayFail = TRUE
    NoRow = NoRow
    Requested <- Every
INVARIANT DeletedZoneIsDetached
 
