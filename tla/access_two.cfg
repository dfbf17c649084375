SPECIFICATION AccessSpec
CONSTANTS
    Keys = {k1}
    ZoneNames = {n1, n2}
    MaxZoneId = 2
    Providers = {bind, azure}
    Admins = {a1, a2}
    NoRow = NoRow
SYMMETRY Symmetry
INVARIANTS AccessTypeOK SomePluginEnabled
PROPERTY RevocationIsFinal
