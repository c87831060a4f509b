SPECIFICATION FairSpec
CONSTANTS
    k1 = k1
    k2 = k2
    ip1 = ip1
    ip2 = ip2
    Keys <- MCKeys
    Ips <- MCIps
    Conns = {n1, n2}
    Cpus = {c1}
    Limits <- MCLimits
    ClientFiles <- RevokingFiles
    Ttl = 1
    Capacity = 1
    MaxTime = 1
    None = None
INVARIANTS
    TypeOK
    LiveEntryIsMirrored
    RevokedKeysHaveNoEntry
    SlotsMatchSessions
PROPERTIES
    SessionLimitHolds
    RevokedKeyIsShutOut
    ExpiredEntriesGo
