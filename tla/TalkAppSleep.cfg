CONSTANTS
    PmLimit = 2
SPECIFICATION DSpec
INVARIANTS
    SleepsOnlyInStandby
