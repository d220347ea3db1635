CONSTANTS
    Modules <- SharedLine
    Slash = TRUE
    RetryCount = 3
    MaxFaults = 6
SPECIFICATION FairSpec
INVARIANTS
    TypeOK
    ValuesAreOwn
    BoundedAge
PROPERTIES
    ToleratesFailures
    ReadingsReturn
