SPECIFICATION FairSpec
CONSTANTS
    u1 = u1
    u2 = u2
    a1 = a1
    j1 = j1
    e1 = e1
    l1 = l1
    l2 = l2
    Absent = Absent
    Units = {u1, u2}
    AccountIds = {a1}
    JournalIds = {j1}
    EntryIds = {e1}
    LineIds = {l1, l2}
    EventIds = {1}
    Codes = {"CASH"}
    CaseFold <- MCCaseFold
    Currencies = {"EUR"}
    Drafts <- OneTransfer
    MaxDepth = 1
    ServicesOnly = FALSE
INVARIANTS
    TypeOK
PROPERTIES
    ContractKept
    FailedCommitsFinal
    WaitingEnds
