SPECIFICATION Spec
CONSTANTS
    a1 = a1
    j1 = j1
    Absent = Absent
    NoSnapshot = NoSnapshot
    Unlisted = Unlisted
    AccountIds = {a1}
    JournalIds = {j1}
    EntryIds = {1, 2, 3}
    LineIds = {1, 2, 3, 4, 5, 6}
    EventIds = {}
    Codes = {"CASH"}
    CaseFold <- MCCaseFold
    Currencies = {"EUR"}
    Drafts <- ThreeEntries
    DateOf <- MCDateOf
    MaxUnits = 3
INVARIANTS
    TypeOK
    EntriesFirstResolve
    RowsExact
    FileFollowsProjection
