SPECIFICATION Spec
CONSTANTS
    Breakages <- MCBreakages
    MaxEvents = 2
    NumCap = 8
    Units <- MCUnits
    Channels = {1, 2}
    Password <- MCPassword
    Digits = {0, 1}
    TitleWidth <- MCTitleWidth
    BarWidth = 800
    ClickAt <- MCClickAt
    SwitchWidth = 9
    Strides = 4
    Modules <- MCModules
    Levels <- MCLevels
    SamplingFrequency = 2
    Day = 5
    Days = 2
INVARIANT OffLabelShown
