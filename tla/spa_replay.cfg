SPECIFICATION FairSpec
CONSTANTS
    k1 = k1
    k2 = k2
    ip1 = ip1
    ip2 = ip2
    Keys <- MCKeys
    Ips <- MCIps
    Packets <- MCPackets
    KeyFiles <- MCKeyFiles
    Times <- MCTimes
    TimeWindow = 1
    MaxAccepts = 4
    NoFile = NoFile
    None = None
    PowerLoss = FALSE
INVARIANTS
    TypeOK
    AcceptedCountersIncrease
    AcceptedIsRecorded
    CountersWereSigned
PROPERTIES
    CounterFileNeverRegresses
    ImplementsGuard
    ReportedRevocationTakesEffect
