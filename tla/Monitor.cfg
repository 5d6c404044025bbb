SPECIFICATION LiveSpec
CONSTANTS
    Fields <- MCFields
    Values <- MCValues
    Times = {0, 1}
    MaxCommands = 3
INVARIANTS
    MonitorInv
PROPERTIES
    LatestShown
