SPECIFICATION LiveSpec
CONSTANTS
    Count = 3
    Frames = 2
    MaxClicks = 5
INVARIANTS
    WallInv
PROPERTIES
    IsWall
    ClickTakesEffect
