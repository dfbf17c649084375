SPECIFICATION FairSpec
CONSTANTS
    Writers = {w1, w2}
    Browsers = {b1, b2}
    Values = {a, b}
    Ttls <- Two
    Ids <- Six
    MaxWrites = 2
    MaxAttempts = 2
    Slots = 1
    None = None
INVARIANTS TypeOK 
PROPERTIES KeptValuesStay WritesEnd
CHECK_DEADLOCK FALSE
