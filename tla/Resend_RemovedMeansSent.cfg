CONSTANTS
    MaxMsgs = 2
    NotifyMsgs = {2}
    MaxClock = 2
    Midnight = 2
    MaxStops = 0
SPECIFICATION Spec
INVARIANTS
    RemovedMeansSent
