SPECIFICATION Spec
CONSTANTS
    Workers = {w1, w2}
    NRules = 2
    Ranks <- Levels
    InfoRank = 1
    ErrorRank = 3
    Cooldowns <- ZeroOrOne
    Windows <- OneOrTwo
    Day = 1
    NServers = 1
    MaxTime = 2
    MaxEvents = 2
    MaxChanges = 1
    Never = Never
INVARIANTS TypeOK StormBounded 
PROPERTIES RowsLeaveInTime
SYMMETRY Symmetry
CHECK_DEADLOCK FALSE
