CONSTANTS
    MaxMsgs = 2
    NotifyMsgs = {2}
    MaxClock = 3
    Midnight = 2
    MaxStops = 2
SPECIFICATION FairSpec
INVARIANTS
    TypeOK
    WorkerOnlyOnAckedLink
    ListedFilesExist
    SentOnce
    NothingVanishes
PROPERTIES
    WaitEnds
    DrainsWhileLinkHolds
