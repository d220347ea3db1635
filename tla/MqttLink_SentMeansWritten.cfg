CONSTANTS
    MaxFrames = 4
    MaxFaults = 2
    DogPeriod = 2
SPECIFICATION Spec
INVARIANTS
    SentMeansWritten
