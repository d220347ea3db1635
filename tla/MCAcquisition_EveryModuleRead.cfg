CONSTANTS
    Modules <- SecondLine
    Slash = TRUE
    RetryCount = 2
    MaxFaults = 4
SPECIFICATION FairSpec
PROPERTIES
    EveryModuleRead
