CONSTANTS
    MaxFrames = 5
    MaxFaults = 5
    DogPeriod = 3
SPECIFICATION FairSpec
INVARIANTS
    TypeOK
    KeepAliveTracksLink
    StaleOnlineIsBounded
    ClosingIsOffline
    ConnectFirst
    OneSubscription
PROPERTIES
    ImplementsContract
    Recovers
