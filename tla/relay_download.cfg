SPECIFICATION DownloadSpec
CONSTANTS
    j1 = j1
    c1 = c1
    Jobs <- OneJob
    Clients = {c1}
    ClientOf <- LoneJob
    Workers = {w1, w2}
    Sizes = {3}
    NormSizes = {0, 2}
    MaxJobs = 1
    MaxBytes = 8
    MaxCrashes = 1
    None = None
    Readers = {r1}
    Chunk = 2
INVARIANTS
    DownloadTypeOK
    DownloadIsOneResult
PROPERTIES
    JobsFinish
    DownloadsEnd
CHECK_DEADLOCK FALSE
