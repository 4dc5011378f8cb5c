SPECIFICATION Spec
CONSTANTS
    s1 = s1
    s2 = s2
    a1 = a1
    a2 = a2
    j1 = j1
    e1 = e1
    e2 = e2
    l1 = l1
    l2 = l2
    Absent = Absent
    NoCall = NoCall
    Scopes = {s1, s2}
    AccountIds = {a1, a2}
    JournalIds = {j1}
    EntryIds = {e1, e2}
    LineIds = {l1, l2}
    EventIds = {1}
    Codes = {"CASH", "cash"}
    CaseFold <- MCCaseFold
    Currencies = {"EUR", "USD"}
    Drafts <- TwoEntryDrafts
    MaxDepth = 0
    ServicesOnly = FALSE
INVARIANTS
    TypeOK
    LedgerIntegrity
    BooksBalance
    ExclusiveScope
PROPERTIES
    HistoryKept
