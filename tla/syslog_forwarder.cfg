SPECIFICATION Spec
CONSTANTS
    Events = {e1, e2}
    Savers = {s1}
    h1 = h1
    h2 = h2
    Hosts = {h1, h2}
    Requested <- Changes
    First <- Large
    MaxSize = 2
    MaxGen = 2
    None = None
INVARIANTS TypeOK OrderKept 
PROPERTIES StreamFollowsConfig EveryEventDecided
