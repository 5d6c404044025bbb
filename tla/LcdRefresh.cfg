SPECIFICATION LiveRefresh
CONSTANTS
    Width = 2
    Height = 1
    N = 6
    screen_map <- MCMap
    Regions <- WholeScreen
    MaxDraws = 8
INVARIANTS
    RefreshInv
    WholePicture
PROPERTIES
    WaitEnds
