SPECIFICATION LiveSpec
CONSTANTS
    Phones = {p1, p2}
    Kept = {p1}
    Budget = 2
    Zero = zero
    Erased = erased
    Tries <- MCTries
    Shell = TRUE
    MbSize = 1
INVARIANTS
    LinkInv
    BudgetWhole
    OneLateRequest
PROPERTIES
    AsksThePeer
    ShellReturns
