SPECIFICATION Spec
CONSTANTS
    k1 = k1
    k2 = k2
    ip1 = ip1
    ip2 = ip2
    Keys <- MCKeys
    Ips <- MCIps
    Conns = {n1}
    Cpus = {c1}
    Limits <- MCLimits
    ClientFiles <- SteadyFiles
    Ttl = 1
    Capacity = 2
    MaxTime = 1
    None = None
INVARIANT RunSpaNeverFails
