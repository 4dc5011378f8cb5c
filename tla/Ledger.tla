------------------------------- MODULE Ledger -------------------------------
(***************************************************************************)
(* What a Lumbago data store holds, and what one operation may do to it.   *)
(*                                                                         *)
(* A ledger is the four collections every unit of work exposes: accounts,  *)
(* journals, journal entries and audit events.  Each collection is a       *)
(* function from identifiers to a record or Absent.  Names, descriptions,  *)
(* metadata, dates and timestamps are left out; codes are kept because     *)
(* their uniqueness ignores case, lines because entries must balance.      *)
(***************************************************************************)
EXTENDS Integers, Sequences, Functions

CONSTANTS
    AccountIds, JournalIds, EntryIds, LineIds, EventIds,
    Codes,          \* codes accounts and journals may carry
    CaseFold,       \* str.casefold on those codes
    Currencies,
    Absent          \* marks an identifier with no record

Account == [code : Codes, active : BOOLEAN]
Journal == [code : Codes]
JournalLine == [id : LineIds, journal_entry_id : EntryIds,
                account_id : AccountIds, side : {"debit", "credit"},
                minor_units : Nat, currency : Currencies]
JournalEntry == [journal_id : JournalIds, lines : Seq(JournalLine)]
AuditEvent == [record_type : {"Account"}, record_id : AccountIds, snapshot : Account]
                \cup [record_type : {"Journal"}, record_id : JournalIds, snapshot : Journal]

OrAbsent(records) == records \cup {Absent}

Ledgers == [accounts : [AccountIds -> OrAbsent(Account)],
            journals : [JournalIds -> OrAbsent(Journal)],
            entries  : [EntryIds -> OrAbsent(JournalEntry)],
            audit    : [EventIds -> OrAbsent(AuditEvent)]]

ASSUME AbsentAssumption ==
    Absent \notin Account \cup Journal \cup JournalEntry \cup AuditEvent

EmptyLedger == [accounts |-> [a \in AccountIds |-> Absent],
                journals |-> [j \in JournalIds |-> Absent],
                entries  |-> [e \in EntryIds |-> Absent],
                audit    |-> [ev \in EventIds |-> Absent]]

Present(collection) == {id \in DOMAIN collection : collection[id] # Absent}

-----------------------------------------------------------------------------
(* The journal-entry model: what validation accepts.                       *)

(* A definition marked "Slip" is its successor with a plausible mistake,   *)
(* against which the properties are tried; nothing uses it.                *)

\* Slip: every line is added, whatever its currency.
TotalAnyCurrency(entry, currency, side) ==
    SumFunctionOnSet([n \in DOMAIN entry.lines |-> entry.lines[n].minor_units],
                     {n \in DOMAIN entry.lines : entry.lines[n].side = side})

Total(entry, currency, side) ==
    SumFunctionOnSet([n \in DOMAIN entry.lines |-> entry.lines[n].minor_units],
                     {n \in DOMAIN entry.lines :
                          /\ entry.lines[n].currency = currency
                          /\ entry.lines[n].side = side})

Balanced(entry) ==
    \A currency \in Currencies :
        Total(entry, currency, "debit") = Total(entry, currency, "credit")

UniqueLineIds(entry) ==
    \A m, n \in DOMAIN entry.lines :
        entry.lines[m].id = entry.lines[n].id => m = n

ValidEntry(id, entry) ==
    /\ Len(entry.lines) >= 2
    /\ \A n \in DOMAIN entry.lines :
          /\ entry.lines[n].journal_entry_id = id
          /\ entry.lines[n].minor_units > 0
    /\ UniqueLineIds(entry)
    /\ Balanced(entry)

AccountsOf(entry) == {entry.lines[n].account_id : n \in DOMAIN entry.lines}
LineIdsOf(entry) == {entry.lines[n].id : n \in DOMAIN entry.lines}

-----------------------------------------------------------------------------
(* Conditions the operations test before they write.                       *)

\* Another record of the collection carries the code, ignoring case.
CodeTaken(collection, id, code) ==
    \E other \in Present(collection) \ {id} :
        CaseFold[collection[other].code] = CaseFold[code]

JournalUsed(L, j) == \E e \in Present(L.entries) : L.entries[e].journal_id = j
AccountUsed(L, a) == \E e \in Present(L.entries) : a \in AccountsOf(L.entries[e])

MayCreateAccount(L, a, record) ==
    L.accounts[a] = Absent /\ ~CodeTaken(L.accounts, a, record.code)

MayUpdateAccount(L, a, record) ==
    L.accounts[a] # Absent /\ ~CodeTaken(L.accounts, a, record.code)

MayDeleteAccount(L, a) == L.accounts[a] # Absent /\ ~AccountUsed(L, a)

MayCreateJournal(L, j, record) ==
    L.journals[j] = Absent /\ ~CodeTaken(L.journals, j, record.code)

MayUpdateJournal(L, j, record) ==
    L.journals[j] # Absent /\ ~CodeTaken(L.journals, j, record.code)

MayDeleteJournal(L, j) == L.journals[j] # Absent /\ ~JournalUsed(L, j)

\* Slip: line identifiers compared within the entry only.
MayCreateEntryOwnLines(L, e, entry) ==
    /\ ValidEntry(e, entry)
    /\ L.entries[e] = Absent
    /\ L.journals[entry.journal_id] # Absent
    /\ \A a \in AccountsOf(entry) : L.accounts[a] # Absent

\* The repository's own checks on a new entry.
MayCreateEntry(L, e, entry) ==
    /\ ValidEntry(e, entry)
    /\ L.entries[e] = Absent
    /\ L.journals[entry.journal_id] # Absent
    /\ \A a \in AccountsOf(entry) : L.accounts[a] # Absent
    /\ \A other \in Present(L.entries) :
          LineIdsOf(L.entries[other]) \cap LineIdsOf(entry) = {}

\* AccountingService.create_entry also refuses inactive accounts.
MayPostEntry(L, e, entry) ==
    /\ MayCreateEntry(L, e, entry)
    /\ \A a \in AccountsOf(entry) : L.accounts[a].active

\* The audit log refuses an event identifier it already holds.
MayAppend(L, ev) == L.audit[ev] = Absent

-----------------------------------------------------------------------------
(* What the operations write.                                              *)

PutAccount(L, a, record) == [L EXCEPT !.accounts = [@ EXCEPT ![a] = record]]
PutJournal(L, j, record) == [L EXCEPT !.journals = [@ EXCEPT ![j] = record]]
PutEntry(L, e, entry)    == [L EXCEPT !.entries = [@ EXCEPT ![e] = entry]]
PutEvent(L, ev, event)   == [L EXCEPT !.audit = [@ EXCEPT ![ev] = event]]

\* Slip: the snapshot taken after the record is gone.
AccountDeletedLate(L, a) ==
    [record_type |-> "Account", record_id |-> a, snapshot |-> Absent]

AccountDeleted(L, a) ==
    [record_type |-> "Account", record_id |-> a, snapshot |-> L.accounts[a]]
JournalDeleted(L, j) ==
    [record_type |-> "Journal", record_id |-> j, snapshot |-> L.journals[j]]

-----------------------------------------------------------------------------
(* What must hold of every ledger a caller can read or commit.             *)

ReferencesResolve(L) ==
    \A e \in Present(L.entries) :
        /\ L.journals[L.entries[e].journal_id] # Absent
        /\ \A a \in AccountsOf(L.entries[e]) : L.accounts[a] # Absent

CodesUnique(collection) ==
    \A x, y \in Present(collection) :
        CaseFold[collection[x].code] = CaseFold[collection[y].code] => x = y

LinesUnique(L) ==
    \A e, f \in Present(L.entries) :
        e # f => LineIdsOf(L.entries[e]) \cap LineIdsOf(L.entries[f]) = {}

EntriesValid(L) == \A e \in Present(L.entries) : ValidEntry(e, L.entries[e])

Integrity(L) ==
    /\ ReferencesResolve(L)
    /\ CodesUnique(L.accounts)
    /\ CodesUnique(L.journals)
    /\ LinesUnique(L)
    /\ EntriesValid(L)

\* What a line adds to a currency: debits are positive, credits negative.
Posted(line, currency) ==
    IF line.currency # currency THEN 0
    ELSE IF line.side = "debit" THEN line.minor_units ELSE -line.minor_units

Remainder(entry, currency) ==
    SumFunction([n \in DOMAIN entry.lines |-> Posted(entry.lines[n], currency)])

BooksClose(L) ==
    \A e \in Present(L.entries) : \A currency \in Currencies :
        Remainder(L.entries[e], currency) = 0

\* Entries are immutable and the audit log only grows.
KeepsHistory(L, M) ==
    /\ \A e \in Present(L.entries) : M.entries[e] = L.entries[e]
    /\ \A ev \in Present(L.audit) : M.audit[ev] = L.audit[ev]

Vanished(before, after) == Present(before) \ Present(after)

NewEvents(L, M) == {M.audit[ev] : ev \in Present(M.audit) \ Present(L.audit)}

\* The events added are exactly those of the records that disappeared, each
\* with the record as it was.
AuditedStep(L, M) ==
    NewEvents(L, M) = {AccountDeleted(L, a) : a \in Vanished(L.accounts, M.accounts)}
                        \cup {JournalDeleted(L, j) : j \in Vanished(L.journals, M.journals)}

\* Over a whole unit of work a record may change before it is deleted, or be
\* deleted, created and deleted again: its last deletion has a new event.
VanishedAudited(L, M) ==
    /\ \A a \in Vanished(L.accounts, M.accounts) :
          \E event \in NewEvents(L, M) :
              event.record_type = "Account" /\ event.record_id = a
    /\ \A j \in Vanished(L.journals, M.journals) :
          \E event \in NewEvents(L, M) :
              event.record_type = "Journal" /\ event.record_id = j
=============================================================================
