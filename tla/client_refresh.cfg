SPECIFICATION Spec
CONSTANTS
    s1 = s1
    s2 = s2
    Servers = {s1, s2}
    Reachable = {s2}
    Orders <- PriorityOrder
    Conns = {n1, n2}
    Commands = {m1}
    MsPerTick = 2
    Ttl = 2
    MaxRetries = 1
    RetryInterval = 2
    MaxTime = 3
    None = None
    Refresher = Refresher
INVARIANTS
    TypeOK
    GivesUpLast
    TunnelStaysAllowed
PROPERTIES
    IssuedCountersIncrease
CHECK_DEADLOCK FALSE
SYMMETRY ConnSymmetry
