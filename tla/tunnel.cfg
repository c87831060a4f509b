SPECIFICATION FairSpec
CONSTANTS
    MaxPlain = 2
    Base = 2
    Window = 2
    UpLen = 2
    DownLen = 3
    Faults = {"app", "target"}
INVARIANTS
    TypeOK
    NothingLostInTransit
    FramesOpen
PROPERTIES
    UpIsAByteStream
    DownIsAByteStream
    DeadSessionsEnd
    UploadArrives
