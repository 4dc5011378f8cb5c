SPECIFICATION RowSpec
CONSTANTS
    Null = Null
    MaxMinorUnits = 3
    Rows <- OddRows
INVARIANTS
    ChecksAgree
    RoundTrip
    ReadsRaiseOrValid
    AmountsExact
\* One row is written, and read at most once.
CHECK_DEADLOCK FALSE
