SPECIFICATION ReportSpec
CONSTANTS
    Modules <- MCModules
    Levels <- MCLevels
    SamplingFrequency = 2
    Day = 5
    Days = 2
INVARIANT LastOffIsAdded
