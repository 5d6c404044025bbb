SPECIFICATION Spec
CONSTANTS
    Phones = {p1, p2}
    Kept = {p1}
    Budget = 2
    Zero = zero
    Erased = erased
    Tries <- MCTries
    Shell = TRUE
    MbSize = 2
INVARIANTS
    LastPairedKept
