SPECIFICATION Spec
CONSTANTS
    s1 = s1
    s2 = s2
    a1 = a1
    a2 = a2
    j1 = j1
    e1 = e1
    e2 = e2
    l1 = l1
    l2 = l2
    Absent = Absent
    NoCall = NoCall
    Scopes = {s1}
    AccountIds = {a1}
    JournalIds = {j1}
    EntryIds = {e1}
    LineIds = {l1, l2}
    EventIds = {1, 2}
    Codes = {"CASH"}
    CaseFold <- MCCaseFold
    Currencies = {"EUR", "USD"}
    Drafts <- OneAccountDrafts
    MaxDepth = 2
    ServicesOnly = TRUE
PROPERTIES
    DeletionsAudited
    ContractKept
