SPECIFICATION Spec
CONSTANTS
    ip1 = ip1
    ip2 = ip2
    Cpus = {c1}
    Ips <- MCIps
    Limit = 2
    GlobalLimit = 2
    Window = 3
    MapSize = 1
    RingSize = 2
    MaxTime = 8
    MaxAdmitted = 6
    None = None
INVARIANTS
    TypeOK
    OneBudgetPerWindow
    TwoBudgetsPerSpan
SYMMETRY IpSymmetry
CHECK_DEADLOCK FALSE
