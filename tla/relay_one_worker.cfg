SPECIFICATION Spec
CONSTANTS
    j1 = j1
    j2 = j2
    c1 = c1
    Jobs <- TwoJobs
    Clients = {c1}
    ClientOf <- OneClient
    Workers = {w1}
    Sizes = {1, 2}
    NormSizes = {1}
    MaxJobs = 1
    MaxBytes = 2
    MaxCrashes = 1
    None = None
INVARIANTS
    TypeOK
    JobQuotaForKeptJobs
    CompleteJobsHaveTheirResult
    StorageQuota
    NoJobIsForgotten
PROPERTIES
    CompleteIsFinal
CHECK_DEADLOCK FALSE
SYMMETRY JobSymmetry
