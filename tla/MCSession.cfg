CONSTANTS
    Base = 4
    IdCount = 4
    MaxMessages = 3
    MaxInFlight = 2
    MaxConnects = 2
    MaxCommands = 1
    MaxWire = 4
SPECIFICATION Spec
INVARIANTS TypeOK AckMeansTaken
PROPERTIES ImplementsChannel Answered
CHECK_DEADLOCK FALSE
