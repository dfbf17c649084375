SPECIFICATION Spec
CONSTANTS
    Handlers = {h1, h2}
    MaxPairs = 3
    None = None
CHECK_DEADLOCK FALSE
SYMMETRY Symmetry
INVARIANTS TypeOK LoneInstallTakesEffect
