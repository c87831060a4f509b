SPECIFICATION Spec
CONSTANTS
    j1 = j1
    j2 = j2
    c1 = c1
    Jobs <- TwoJobs
    Clients = {c1}
    ClientOf <- OneClient
    Workers = {w1, w2}
    Sizes = {2}
    NormSizes = {1}
    MaxJobs = 2
    MaxBytes = 2
    MaxCrashes = 0
    None = None
INVARIANT StorageQuota
CHECK_DEADLOCK FALSE
