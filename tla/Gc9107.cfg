SPECIFICATION Spec
CONSTANTS
    Width = 2
    Height = 1
    N = 6
    screen_map <- MCMap
    Regions <- SomeRegions
    MaxDraws = 2
INVARIANTS
    OneScreenListens
    CallsBackOnce
PROPERTIES
    IsBigScreen
