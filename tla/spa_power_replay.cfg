SPECIFICATION Spec
CONSTANTS
    k1 = k1
    k2 = k2
    ip1 = ip1
    ip2 = ip2
    Keys <- MCKeys
    Ips <- MCIps
    Packets <- MCPackets
    KeyFiles <- MCKeyFiles
    Times <- MCTimes
    TimeWindow = 1
    MaxAccepts = 2
    NoFile = NoFile
    None = None
    PowerLoss = TRUE
INVARIANT AcceptedCountersIncrease
