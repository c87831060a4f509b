SPECIFICATION Spec
CONSTANTS
    s1 = s1
    s2 = s2
    Servers = {s1, s2}
    Reachable = {s1, s2}
    Orders <- PriorityOrder
    Conns = {n1, n2}
    Commands = {}
    MsPerTick = 2
    Ttl = 2
    MaxRetries = 0
    RetryInterval = 1
    MaxTime = 4
    None = None
    Refresher = Refresher
INVARIANT TunnelStaysAllowed
CHECK_DEADLOCK FALSE
