SPECIFICATION SpecReady
CONSTANTS
    Keys = {k1}
    ZoneNames = {n1}
    Target = n1
    MaxZoneId = 1
    Providers = {azure}
    Admins = {}
    NoRow = NoRow
    Requests = {r1, r2}
    Data = {d1, d2}
    Ttls = {60, 300}
    Omit = Omit
    SilentLookup = FALSE
CHECK_DEADLOCK FALSE
INVARIANTS CreatedOnlyIfAbsent RefusalsAreJustified DeletedMeansGone
PROPERTY EveryRequestAnswered
