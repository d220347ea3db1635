CONSTANTS
    Zigbee <- TwoRegisters
    Values = {0, 1}
    Ids = {1, 2}
    Lines = {"9600E", "9600N"}
    MaxJobs = 3
    MaxFaults = 2
SPECIFICATION Spec
INVARIANTS
    TypeOK
    CacheMatchesPort
    RepeatedSuccessMeansSet
PROPERTY
    FailureMeansMoved
