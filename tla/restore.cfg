SPECIFICATION FairSpec
CONSTANTS
    Restores = {r1, r2}
    n1 = n1
    n2 = n2
    ZoneNames = {n1, n2}
    MaxZoneId = 2
    Live = Live
    None = None
    LiveGrant = {n1}
    ArchiveGrant = {n2}
    Requested <- Typical
    LiveZones <- Live12
    ArchiveZones <- Archive21
CHECK_DEADLOCK FALSE
INVARIANTS TypeOK  StoredDecrypts NoReplayedSessions
PROPERTIES ImplementsAtomic GateReopens
