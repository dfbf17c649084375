SPECIFICATION SpecReady
CONSTANTS
    Keys = {k1}
    ZoneNames = {n1, n2}
    Target = n1
    MaxZoneId = 1
    Providers = {azure, bind}
    Admins = {a1}
    NoRow = NoRow
    Requests = {r1}
    Data = {d1}
    Ttls = {60, 300}
    Omit = Omit
    SilentLookup = TRUE
INVARIANTS TypeOK WritesWereAllowed
PROPERTY OmittedFieldsPreserved
