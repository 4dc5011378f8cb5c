SPECIFICATION Spec
CONSTANTS
    u1 = u1
    u2 = u2
    u3 = u3
    j1 = j1
    j2 = j2
    e1 = e1
    e2 = e2
    l1 = l1
    l2 = l2
    l3 = l3
    l4 = l4
    Absent = Absent
    NoCall = NoCall
    Units = {u1, u2}
    Requests <- RepositoryRequests
    MaxCalls = 3
    MaxDepth = 0
    Careful = {}
    InitialLedgers <- HalfLedgers
    AccountIds = {1, 2}
    JournalIds = {j1}
    EntryIds = {e1, e2}
    LineIds = {l1, l2, l3, l4}
    EventIds = {1}
    Codes = {"CASH", "cash", "BANK"}
    CaseFold <- MCCaseFold
    Currencies = {"EUR"}
SYMMETRY UnitSymmetry
CHECK_DEADLOCK FALSE
INVARIANTS
    ErrorMeansNotCommitted
