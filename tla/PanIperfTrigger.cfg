SPECIFICATION LiveSpec
CONSTANTS
    Phones = {p1, p2}
    Kept = {p1}
    Budget = 2
    Zero = zero
    Erased = erased
    Tries <- MCTries
    Shell = FALSE
    MbSize = 2
PROPERTIES
    PanIsTriggered
