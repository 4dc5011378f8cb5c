SPECIFICATION Spec
CONSTANTS
    Given <- MCGiven
    MaxMinorUnits = 999
    Places = 4
CHECK_DEADLOCK FALSE
INVARIANTS
    TypeOK
    AmountExact
    RefusedRightly
