SPECIFICATION Spec
CONSTANTS
    Services = {"s1", "s2"}
    Sharing = {"s1"}
    Ids = {1, 2}
    Codes = {"CASH", "cash", "BANK"}
    CaseFold <- MCCaseFold
    MaxTime = 1
    MaxDeletions = 2
INVARIANTS
    TypeOK
    CodesStayUnique
    LogsExact
PROPERTIES
    OrderKept
