CONSTANTS
    black = black
    red = red
    on = on
    Colours <- TwoColours
    Black = black
    On = on
    Intervals <- TwoIntervals
    Default = 6
    Counts <- TwoCounts
    Capacity = 2
    Period = 8
    MaxSends = 2
SPECIFICATION LiveSpec
INVARIANTS
    LedInv
    OnSchedule
    WakesInTime
PROPERTIES
    LowBatteryBlinks
    LedsAreBlinkers
