------------------------------ MODULE Postings ------------------------------
(***************************************************************************)
(* project_postings and export_postings_csv (lumbago/exports) beside       *)
(* workflows that go on committing.  The exporter lists entries, accounts  *)
(* and journals in any order, within one unit of work or over several; a   *)
(* unit reads the ledger that was committed when it read first.  Then it   *)
(* projects them to rows, one for each line, or meets a reference it       *)
(* cannot resolve, and writes the rows to CSV as it holds them by then.    *)
(*                                                                         *)
(* Workflows commit one operation each, which shows the exporter every     *)
(* ledger longer ones would.  The audit log is left alone.                 *)
(***************************************************************************)
EXTENDS Ledger, SequencesExt

CONSTANTS
    Drafts,        \* journal entries callers present
    DateOf,        \* their transaction dates
    MaxUnits,      \* bound on the units of work of one export
    NoSnapshot,    \* the unit has not read yet
    Unlisted       \* the collection has not been listed yet

ASSUME DraftsAssumption == Drafts \subseteq JournalEntry
\* UUIDs have an order, and there are finitely many.
ASSUME EntryIdsAssumption == EntryIds \subseteq Int /\ IsFiniteSet(EntryIds)
ASSUME DateOfAssumption == DateOf \in [EntryIds -> Int]
ASSUME MaxUnitsAssumption == MaxUnits \in Nat \ {0}
ASSUME NoSnapshotAssumption == NoSnapshot \notin Ledgers

Tables == {"entries", "accounts", "journals"}

VARIABLES
    db,         \* the committed ledger
    unit,       \* what the exporter's unit of work reads
    units,      \* units of work it has opened
    list,       \* the collections as listed
    listed_in,  \* in which unit; 0 for none
    outcome,    \* "none", "rows" or "raised"
    rows,       \* the rows projected
    file        \* the rows of the CSV file

vars == <<db, unit, units, list, listed_in, outcome, rows, file>>
exporterVars == <<unit, units, list, listed_in, outcome, rows, file>>

Listings == [entries  : [EntryIds -> OrAbsent(JournalEntry)] \cup {Unlisted},
             accounts : [AccountIds -> OrAbsent(Account)] \cup {Unlisted},
             journals : [JournalIds -> OrAbsent(Journal)] \cup {Unlisted}]

PostingRow ==
    [entry_id : EntryIds, transaction_date : Int, journal_code : Codes,
     line_id : LineIds, line_position : Nat, account_code : Codes,
     side : {"debit", "credit"}, minor_units : Nat, currency : Currencies]

TypeOK ==
    /\ db \in Ledgers
    /\ unit \in Ledgers \cup {NoSnapshot}
    /\ units \in 1..MaxUnits
    /\ list \in Listings
    /\ listed_in \in [Tables -> 0..MaxUnits]
    /\ outcome \in {"none", "rows", "raised"}
    /\ rows \in Seq(PostingRow)
    /\ file \in Seq(PostingRow)

Nothing == [table \in Tables |-> Unlisted]

Init ==
    /\ db = EmptyLedger
    /\ unit = NoSnapshot
    /\ units = 1
    /\ list = Nothing
    /\ listed_in = [table \in Tables |-> 0]
    /\ outcome = "none"
    /\ rows = <<>>
    /\ file = <<>>

-----------------------------------------------------------------------------
(* Committed workflows.                                                    *)

Commits(L) ==
    /\ db' = L
    /\ UNCHANGED exporterVars

CreateAccount == \E a \in AccountIds, record \in Account :
    MayCreateAccount(db, a, record) /\ Commits(PutAccount(db, a, record))

UpdateAccount == \E a \in AccountIds, record \in Account :
    MayUpdateAccount(db, a, record) /\ Commits(PutAccount(db, a, record))

DeleteAccount == \E a \in AccountIds :
    MayDeleteAccount(db, a) /\ Commits(PutAccount(db, a, Absent))

CreateJournal == \E j \in JournalIds, record \in Journal :
    MayCreateJournal(db, j, record) /\ Commits(PutJournal(db, j, record))

UpdateJournal == \E j \in JournalIds, record \in Journal :
    MayUpdateJournal(db, j, record) /\ Commits(PutJournal(db, j, record))

DeleteJournal == \E j \in JournalIds :
    MayDeleteJournal(db, j) /\ Commits(PutJournal(db, j, Absent))

PostEntry == \E e \in EntryIds, draft \in Drafts :
    MayPostEntry(db, e, draft) /\ Commits(PutEntry(db, e, draft))

Workflow ==
    \/ CreateAccount \/ UpdateAccount \/ DeleteAccount
    \/ CreateJournal \/ UpdateJournal \/ DeleteJournal \/ PostEntry

-----------------------------------------------------------------------------
(* The exporter reads.                                                     *)

\* Slip: each statement of the unit sees what is committed by then.
Newest == db

Snapshot == IF unit = NoSnapshot THEN db ELSE unit

List(table) ==
    /\ outcome = "none" /\ listed_in[table] = 0
    /\ unit' = Snapshot
    /\ list' = [list EXCEPT ![table] = Snapshot[table]]
    /\ listed_in' = [listed_in EXCEPT ![table] = units]
    /\ UNCHANGED <<db, units, outcome, rows, file>>

NextUnit ==
    /\ outcome = "none" /\ units < MaxUnits
    /\ units' = units + 1
    /\ unit' = NoSnapshot
    /\ UNCHANGED <<db, list, listed_in, outcome, rows, file>>

-----------------------------------------------------------------------------
(* The projection.                                                         *)

\* Slip: entries of one date in the order they were given.
ByDate(e, f) == DateOf[e] < DateOf[f]

EntryBefore(e, f) == DateOf[e] < DateOf[f] \/ (DateOf[e] = DateOf[f] /\ e < f)

\* What sorted may return for the entries of S, given in some order.
SortedEntries(S) ==
    {s \in SetToSeqs(S) : \A i, j \in DOMAIN s : i < j => ~EntryBefore(s[j], s[i])}

\* project_postings raises RecordNotFoundError.
Unresolved ==
    \E e \in Present(list.entries) :
        \/ list.journals[list.entries[e].journal_id] = Absent
        \/ \E a \in AccountsOf(list.entries[e]) : list.accounts[a] = Absent

Position(n) == n - 1

\* Slip: credits with a sign.
Signed(line) == IF line.side = "credit" THEN -line.minor_units ELSE line.minor_units

Amount(line) == line.minor_units

RowsOf(e) ==
    LET entry == list.entries[e] IN
    [n \in DOMAIN entry.lines |->
        LET line == entry.lines[n] IN
        [entry_id |-> e, transaction_date |-> DateOf[e],
         journal_code |-> list.journals[entry.journal_id].code,
         line_id |-> line.id, line_position |-> Position(n),
         account_code |-> list.accounts[line.account_id].code,
         side |-> line.side, minor_units |-> Amount(line),
         currency |-> line.currency]]

\* The entries come in any order; the rows do not depend on it.
Project ==
    /\ outcome = "none" /\ \A table \in Tables : listed_in[table] # 0
    /\ \/ /\ Unresolved
          /\ outcome' = "raised"
          /\ UNCHANGED rows
       \/ /\ ~Unresolved
          /\ outcome' = "rows"
          /\ \E ordered \in SortedEntries(Present(list.entries)) :
                rows' = FlattenSeq([n \in DOMAIN ordered |-> RowsOf(ordered[n])])
    /\ UNCHANGED <<db, unit, units, list, listed_in, file>>

-----------------------------------------------------------------------------
(* The CSV file.                                                           *)

\* Slip: rows of one entry stay as they were given.
RowBeforeByEntry(r, s) ==
    \/ r.transaction_date < s.transaction_date
    \/ r.transaction_date = s.transaction_date /\ r.entry_id < s.entry_id

RowBefore(r, s) ==
    \/ r.transaction_date < s.transaction_date
    \/ /\ r.transaction_date = s.transaction_date
       /\ \/ r.entry_id < s.entry_id
          \/ r.entry_id = s.entry_id /\ r.line_position < s.line_position

SortedRows(S) ==
    {s \in SetToSeqs(S) : \A i, j \in DOMAIN s : i < j => ~RowBefore(s[j], s[i])}

\* The caller may have rearranged the rows, or kept their order and asks for it.
ExportCsv ==
    /\ outcome = "rows" /\ file = <<>>
    /\ \E preserve_order \in BOOLEAN :
          file' \in IF preserve_order THEN {rows} ELSE SortedRows(Range(rows))
    /\ UNCHANGED <<db, unit, units, list, listed_in, outcome, rows>>

StartOver ==
    /\ outcome # "none"
    /\ unit' = NoSnapshot
    /\ units' = 1
    /\ list' = Nothing
    /\ listed_in' = [table \in Tables |-> 0]
    /\ outcome' = "none"
    /\ rows' = <<>>
    /\ file' = <<>>
    /\ UNCHANGED db

-----------------------------------------------------------------------------
Next ==
    \/ Workflow
    \/ \E table \in Tables : List(table)
    \/ NextUnit \/ Project \/ ExportCsv \/ StartOver

Spec == Init /\ [][Next]_vars

-----------------------------------------------------------------------------
(* The projection fails only for an exporter that listed accounts or       *)
(* journals in an earlier unit than the entries.  One unit, whatever the   *)
(* order in it, is always enough, and so are several with the entries in   *)
(* the first: posted entries stay, and keep what they refer to.            *)
EntriesFirstResolve ==
    outcome = "raised" =>
        \E table \in {"accounts", "journals"} : listed_in[table] < listed_in["entries"]

InOrder(r, s) ==
    \/ r.transaction_date < s.transaction_date
    \/ r.transaction_date = s.transaction_date /\ r.entry_id < s.entry_id
    \/ r.entry_id = s.entry_id /\ r.line_position < s.line_position

(* Nothing is lost or doubled on the way: there is one row for each line   *)
(* listed, found by its entry and zero-based position, in the documented   *)
(* order of date, entry and position, however the entries were listed.     *)
RowsExact ==
    outcome = "rows" =>
        /\ \A e \in Present(list.entries) : \A n \in DOMAIN list.entries[e].lines :
              \E r \in DOMAIN rows : rows[r].entry_id = e /\ rows[r].line_position = n - 1
        /\ \A r \in DOMAIN rows :
              LET entry == list.entries[rows[r].entry_id]
                  n == rows[r].line_position + 1 IN
              entry # Absent /\ n \in DOMAIN entry.lines /\ rows[r].line_id = entry.lines[n].id
        /\ \A r, s \in DOMAIN rows : r < s => InOrder(rows[r], rows[s])

(* The CSV file is the same for every arrangement of the rows handed over: *)
(* its order and the order of the projection, coded apart, agree.          *)
FileFollowsProjection == file # <<>> => file = rows
=============================================================================
