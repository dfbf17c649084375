SPECIFICATION Spec
CONSTANTS
    Names = {n1, n2, n3}
    AdminUser = n1
    Handlers = {h1}
    Logins = {b1}
    Passwords = {p1}
    MaxVersion = 2
    NamesReused = FALSE
    NoRow = NoRow
SYMMETRY Symmetry
INVARIANTS TypeOK RevokedSessionsEnd AdminRemains
PROPERTY PrivilegesNeedAdmin
