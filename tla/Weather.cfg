SPECIFICATION ClientLiveSpec
CONSTANTS
    Lengths <- MCLengths
    BufSize = 3
    MaxResults = 2
    Fields = 2
    MaxCommands = 2
CHECK_DEADLOCK FALSE
INVARIANTS
    WeatherInv
PROPERTIES
    CommandEnds
