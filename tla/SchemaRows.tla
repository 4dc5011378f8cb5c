------------------------------ MODULE SchemaRows -------------------------------
(***************************************************************************)
(* One record or row on its way through the SQL schema: validated by the   *)
(* domain models, mapped to a row (mappers.py), bound by the column types  *)
(* (base.py), held to the constraints the migration created                *)
(* (0001_initial.py; models.py declares them a second time), and read      *)
(* back.  Rows are also written by hand, in SQL, past the mappers.         *)
(*                                                                         *)
(* A text is its length and what its characters are: upper or lower case   *)
(* letters, letters after a leading mark (a dot, say), text no code or     *)
(* currency may hold, or letters with a blank at the end.  NUL characters  *)
(* are left out: SQLite's length() stops at one.  An amount is counted in  *)
(* half hundredths, so that it can be fractional.  Identifiers, metadata   *)
(* and snapshots pass through unchanged and are left out; codes that clash *)
(* and references that dangle are in the units of work.                    *)
(***************************************************************************)
EXTENDS SequencesExt

CONSTANTS
    Null,
    MaxMinorUnits,   \* 999999999999999999 in the code
    Rows             \* the rows, or the fields, that may be written, by table

\* No row, no result, and an exception, which have no columns of a row.
Nothing == [nothing |-> TRUE]
Raised == [raised |-> TRUE]

VARIABLES
    database,
    table,
    given,     \* the fields of a record, or a row, to be written
    by,        \* "mapper", or "sql" for a row written by hand
    stored,
    result     \* what a read of the stored row returned

rowVars == <<database, table, given, by, stored, result>>

Databases == {"sqlite", "postgresql"}
Tables == {"accounts", "journals", "journal_entries", "audit_events"}

-----------------------------------------------------------------------------
(* Columns, as models.py declares them and as the migration creates them.  *)

Column(type) == [type |-> type, limit |-> 0, null |-> FALSE]
String(n) == [type |-> "text", limit |-> n, null |-> FALSE]
Currency == [type |-> "currency", limit |-> 3, null |-> FALSE]
Optional(column) == [type |-> column.type, limit |-> column.limit, null |-> TRUE]

\* The columns of f and those of g.
Joined(f, g) ==
    [c \in DOMAIN f \cup DOMAIN g |-> IF c \in DOMAIN f THEN f[c] ELSE g[c]]

RecordColumns ==
    [created_at |-> Column("time"), updated_at |-> Column("time"),
     extensions |-> Column("json")]

CodeRow ==
    Joined(RecordColumns,
           [code |-> String(64), name |-> String(200),
            description |-> Optional(String(2000))])

AccountRow ==
    Joined(CodeRow, [account_type |-> Column("choice"), active |-> Column("flag")])

JournalRow == CodeRow

EntryRow ==
    Joined(RecordColumns,
           [description |-> String(1000), reference |-> Optional(String(200)),
            lines |-> Column("lines")])

LineRow ==
    [id |-> Column("id"), position |-> Column("id"), side |-> Column("choice"),
     amount |-> Column("amount"), currency |-> Currency,
     description |-> Optional(String(1000))]

AuditRow ==
    [occurred_at |-> Column("time"), action |-> Column("choice"),
     record_type |-> String(200), actor |-> Optional(String(200))]

Declared ==
    [accounts |-> AccountRow, journals |-> JournalRow, journal_entries |-> EntryRow,
     journal_lines |-> LineRow, audit_events |-> AuditRow]

record_columns ==
    [created_at |-> Column("time"), updated_at |-> Column("time"),
     extensions |-> Column("json")]

code_columns ==
    [code |-> String(64), name |-> String(200), description |-> Optional(String(2000))]

Migrated ==
    [accounts |->
         Joined(Joined(record_columns, code_columns),
                [account_type |-> Column("choice"), active |-> Column("flag")]),
     journals |-> Joined(record_columns, code_columns),
     journal_entries |->
         Joined(record_columns,
                [description |-> String(1000), reference |-> Optional(String(200)),
                 lines |-> Column("lines")]),
     journal_lines |->
         [id |-> Column("id"), position |-> Column("id"), side |-> Column("choice"),
          amount |-> Column("amount"), currency |-> Currency,
          description |-> Optional(String(1000))],
     audit_events |->
         [occurred_at |-> Column("time"), action |-> Column("choice"),
          record_type |-> String(200), actor |-> Optional(String(200))]]

Columns(schema) == IF schema = "declared" THEN Declared ELSE Migrated

\* What is given for a column; lines at their positions.
Text ==
    {text \in [len : Nat, kind : {"upper", "lower", "marked", "other", "padded"}] :
        text.kind = "padded" => text.len > 0}
Time == [at : Int, zone : {"utc", "none", "session"}]
Sides == {"debit", "credit"}
Words == Sides \cup {"asset", "delete", "none", "declared"}
Amount == [form : {"integer", "real", "text", "numeric"}, halves : Int]

ASSUME NullAssumption == Null \notin Text \cup Time \cup Amount \cup Int \cup Words
ASSUME MaxMinorUnitsAssumption == MaxMinorUnits \in Nat

Fills(column, value) ==
    \/ value = Null
    \/ /\ column.type \in {"text", "currency"} => value \in Text
       /\ column.type = "time" => value \in Time
       /\ column.type = "amount" => value \in Amount

FillsRow(name, row) ==
    /\ DOMAIN row = DOMAIN Declared[name]
    /\ \A c \in DOMAIN row : Fills(Declared[name][c], row[c])

WellFormed(t, row) ==
    /\ FillsRow(t, row)
    /\ t = "journal_entries" =>
           /\ IsFiniteSet(row.lines)
           /\ \A line \in row.lines :
                 /\ FillsRow("journal_lines", line) /\ line.position \in Int
                 /\ line.amount # Null /\ line.amount.form = "integer" =>
                        line.amount.halves % 2 = 0

ASSUME RowsAssumption == \A t \in Tables : \A row \in Rows[t] : WellFormed(t, row)

-----------------------------------------------------------------------------
(* The CHECKs, once as models.py spells them and once as the migration     *)
(* does.  They are asked of rows without a NULL where NULL is refused.     *)

\* Patterns: GLOB of SQLite, and regular expressions of PostgreSQL.  How a
\* code starts is asked only of texts that have no character but a code's.
GlobsCodeOnly(text) == text.len = 0 \/ text.kind \in {"upper", "lower", "marked"}
GlobsStart(text) == text.len > 0 /\ text.kind \in {"upper", "lower"}
GlobsUpperOnly(text) == text.len = 0 \/ text.kind = "upper"
MatchesCode(text) == text.len > 0 /\ text.kind \in {"upper", "lower"}
MatchesCurrency(text) == text.len = 3 /\ text.kind = "upper"

\* Slip: PostgreSQL is asked for the characters of a code, not how it starts.
code_checks_unanchored(db, row) ==
    /\ row.code.len \in 1..64
    /\ db = "sqlite" => GlobsCodeOnly(row.code) /\ GlobsStart(row.code)
    /\ db = "postgresql" => GlobsCodeOnly(row.code)
    /\ row.name.len \in 1..200
    /\ row.updated_at.at >= row.created_at.at

code_checks(db, row) ==
    /\ row.code.len \in 1..64
    /\ db = "sqlite" => GlobsCodeOnly(row.code) /\ GlobsStart(row.code)
    /\ db = "postgresql" => MatchesCode(row.code)
    /\ row.name.len \in 1..200
    /\ row.updated_at.at >= row.created_at.at

AccountChecks(db, row) == row.account_type = "asset" /\ code_checks(db, row)

EntryChecks(row) ==
    /\ row.updated_at.at >= row.created_at.at
    /\ row.description.len \in 1..1000

LineChecks(db, row) ==
    /\ row.position >= 0
    /\ row.side \in Sides
    /\ row.amount.halves \in 2..2 * MaxMinorUnits
    /\ db = "sqlite" => row.amount.form = "integer"
    /\ db = "postgresql" => row.amount.halves % 2 = 0
    /\ row.currency.len = 3
    /\ db = "sqlite" => GlobsUpperOnly(row.currency)
    /\ db = "postgresql" => MatchesCurrency(row.currency)

DeclaredChecks(db, name, row) ==
    /\ name = "accounts" => AccountChecks(db, row)
    /\ name = "journals" => code_checks(db, row)
    /\ name = "journal_entries" => EntryChecks(row)
    /\ name = "journal_lines" => LineChecks(db, row)
    /\ name = "audit_events" => row.action = "delete"

code_constraints(db, row) ==
    /\ row.code.len \in 1..64
    /\ IF db = "sqlite" THEN GlobsCodeOnly(row.code) /\ GlobsStart(row.code)
       ELSE MatchesCode(row.code)
    /\ row.name.len \in 1..200
    /\ row.updated_at.at >= row.created_at.at

\* Slip: PostgreSQL is not asked for whole hundredths.
line_constraints_fractional(db, row) ==
    /\ row.position >= 0 /\ row.side \in Sides
    /\ row.amount.halves \in 2..2 * MaxMinorUnits
    /\ db = "sqlite" => row.amount.form = "integer"
    /\ row.currency.len = 3
    /\ IF db = "sqlite" THEN GlobsUpperOnly(row.currency)
       ELSE MatchesCurrency(row.currency)

line_constraints(db, row) ==
    /\ row.position >= 0 /\ row.side \in Sides
    /\ row.amount.halves \in 2..2 * MaxMinorUnits
    /\ IF db = "sqlite" THEN row.amount.form = "integer" ELSE row.amount.halves % 2 = 0
    /\ row.currency.len = 3
    /\ IF db = "sqlite" THEN GlobsUpperOnly(row.currency)
       ELSE MatchesCurrency(row.currency)

MigratedChecks(db, name, row) ==
    /\ name \in {"accounts", "journals"} => code_constraints(db, row)
    /\ name = "accounts" => row.account_type = "asset"
    /\ name = "journal_entries" =>
           /\ row.updated_at.at >= row.created_at.at
           /\ row.description.len \in 1..1000
    /\ name = "journal_lines" => line_constraints(db, row)
    /\ name = "audit_events" => row.action = "delete"

ChecksPass(db, schema, name, row) ==
    IF schema = "declared" THEN DeclaredChecks(db, name, row)
    ELSE MigratedChecks(db, name, row)

-----------------------------------------------------------------------------
(* What a database does with the value of a column.                        *)

IsText(column) == column.type \in {"text", "currency"}

\* varchar(n) drops blanks beyond n, and refuses other characters there.
Trimmed(column, text) ==
    IF text.kind = "padded" /\ text.len = column.limit + 1
    THEN [len |-> column.limit, kind |-> "upper"]
    ELSE text

\* BLOB has no affinity; NUMERIC without a scale keeps every digit.
WholeHundredths(db, amount) ==
    [form |-> IF db = "sqlite" THEN amount.form ELSE "numeric",
     halves |-> amount.halves]

\* SQLite forgets the zone; PostgreSQL answers in the session's.
DateTime(db, time) ==
    [at |-> time.at, zone |-> IF db = "sqlite" THEN "none" ELSE "session"]

InColumn(db, column, value) ==
    IF value = Null THEN Null
    ELSE CASE IsText(column) /\ db = "postgresql" -> Trimmed(column, value)
           [] column.type = "amount" -> WholeHundredths(db, value)
           [] column.type = "time" -> DateTime(db, value)
           [] OTHER -> value

InRow(db, columns, row) == [c \in DOMAIN row |-> InColumn(db, columns[c], row[c])]

\* With its lines, which have a table of their own.
InColumns(db, tables, t, row) ==
    IF t # "journal_entries" THEN InRow(db, tables[t], row)
    ELSE [InRow(db, tables[t], row) EXCEPT !.lines =
              {InRow(db, tables["journal_lines"], line) : line \in row.lines}]

Fits(db, column, value) ==
    \/ column.type = "lines"
    \/ value = Null /\ column.null
    \/ /\ value # Null
       /\ IsText(column) => db = "sqlite" \/ value.len <= column.limit
       /\ column.type = "flag" => value \in {0, 1}

RowFits(db, schema, name, row) ==
    /\ \A c \in DOMAIN row : Fits(db, Columns(schema)[name][c], row[c])
    /\ ChecksPass(db, schema, name, row)

\* The primary key and the unique positions of the lines, too.
Accepts(db, schema, t, row) ==
    LET kept == InColumns(db, Columns(schema), t, row) IN
    /\ RowFits(db, schema, t, kept)
    /\ t = "journal_entries" =>
           /\ \A line \in kept.lines : RowFits(db, schema, "journal_lines", line)
           /\ \A line, other \in kept.lines :
                  line.id = other.id \/ line.position = other.position => line = other

-----------------------------------------------------------------------------
(* What the domain models make of given fields.                            *)

Stripped(text) ==
    IF text.kind # "padded" THEN text
    ELSE IF text.len = 1 THEN [len |-> 0, kind |-> "other"]
    ELSE [len |-> text.len - 1, kind |-> "upper"]

UpperCase(text) ==
    [len |-> text.len, kind |-> IF text.kind = "lower" THEN "upper" ELSE text.kind]

\* A time in UTC, and an amount as a Python integer.
InUtc(time) == [at |-> time.at, zone |-> "utc"]
Integral(amount) == [form |-> "integer", halves |-> amount.halves]

Normal(column, value) ==
    IF value = Null THEN Null
    ELSE CASE column.type = "text" -> Stripped(value)
           [] column.type = "currency" -> UpperCase(Stripped(value))
           [] column.type = "time" -> InUtc(value)
           [] column.type = "amount" -> Integral(value)
           [] OTHER -> value

Lengthy(text, bounds) == text # Null /\ text.len \in bounds
Described(text, limit) == text # Null => text.len <= limit

RecordModel(f) == f.updated_at.at >= f.created_at.at

Coded(f) ==
    /\ Lengthy(f.code, 1..64) /\ f.code.kind \in {"upper", "lower"}
    /\ Lengthy(f.name, 1..200)
    /\ Described(f.description, 2000)

Account(f) ==
    /\ RecordModel(f) /\ Coded(f)
    /\ f.account_type = "asset" /\ f.active \in {0, 1}

Journal(f) == RecordModel(f) /\ Coded(f)

\* A fractional hundredth and a float are refused.
JournalLine(given_line, line) ==
    /\ line.id # Null
    /\ given_line.amount # Null /\ given_line.amount.form # "real"
    /\ line.amount.halves % 2 = 0 /\ line.amount.halves \in 2..2 * MaxMinorUnits
    /\ line.side \in Sides
    /\ Lengthy(line.currency, {3}) /\ line.currency.kind = "upper"
    /\ Described(line.description, 1000)

Total(lines, side, currency) ==
    FoldLeft(LAMBDA sum, line :
                 sum + IF line.side = side /\ line.currency = currency THEN line.amount.halves
                       ELSE 0,
             0, lines)

JournalEntry(given_lines, f) ==
    /\ RecordModel(f)
    /\ Lengthy(f.description, 1..1000) /\ Described(f.reference, 200)
    /\ Len(f.lines) >= 2
    /\ \A n \in DOMAIN f.lines : JournalLine(given_lines[n], f.lines[n])
    /\ IsInjective([n \in DOMAIN f.lines |-> f.lines[n].id])
    /\ \A n \in DOMAIN f.lines :
           Total(f.lines, "debit", f.lines[n].currency)
               = Total(f.lines, "credit", f.lines[n].currency)

AuditEvent(f) ==
    /\ f.action = "delete"
    /\ Lengthy(f.record_type, 1..200)
    /\ f.actor # Null => f.actor.len \in 1..200

NormalFields(t, f) == [c \in DOMAIN f |-> Normal(Declared[t][c], f[c])]

\* The record the fields make, or Raised; here the lines are a sequence.
Normalized(t, f) ==
    IF t # "journal_entries" THEN NormalFields(t, f)
    ELSE [NormalFields(t, f) EXCEPT !.lines =
              [n \in DOMAIN f.lines |-> NormalFields("journal_lines", f.lines[n])]]

Aware(t, f) ==
    \A c \in DOMAIN f :
        Declared[t][c].type = "time" => f[c] # Null /\ f[c].zone # "none"

Valid(t, f) ==
    CASE t = "accounts" -> Account(Normalized(t, f))
      [] t = "journals" -> Journal(Normalized(t, f))
      [] t = "journal_entries" -> JournalEntry(f.lines, Normalized(t, f))
      [] t = "audit_events" -> AuditEvent(Normalized(t, f))

Validated(t, f) == IF Aware(t, f) /\ Valid(t, f) THEN Normalized(t, f) ELSE Raised

-----------------------------------------------------------------------------
(* The mappers, and what a program does with them.                         *)

InPosition(a, b) == a.position < b.position

Sorted(lines) ==
    LET sorted == CHOOSE s \in SetToSeqs(lines) :
                      \A m, n \in DOMAIN s : m < n => ~InPosition(s[n], s[m])
    IN  [n \in DOMAIN sorted |->
            [c \in DOMAIN sorted[n] \ {"position"} |-> sorted[n][c]]]

\* The fields a caller gives: lines in the order of their positions, no
\* others than the columns.
Fields(t, row) ==
    IF t = "journal_entries" THEN [row EXCEPT !.lines = Sorted(@)] ELSE row

ToRow(t, record) ==
    IF t # "journal_entries" THEN record
    ELSE [record EXCEPT !.lines =
              {Joined(record.lines[n], [position |-> n - 1]) : n \in DOMAIN record.lines}]

\* UTCDateTime and WholeHundredths; a fraction is left for the check to see.
ColumnResult(column, value) ==
    IF value = Null THEN Null
    ELSE CASE column.type = "time" -> InUtc(value)
           [] column.type = "amount" /\ value.halves % 2 = 0 -> Integral(value)
           [] OTHER -> value

Results(t, row) == [c \in DOMAIN row |-> ColumnResult(Declared[t][c], row[c])]

\* Slip: extensions are spread over the columns.
ExtensionsLast(t, row) ==
    LET values == Results(t, row) IN
    IF t # "audit_events" /\ row.extensions = "core"
    THEN [values EXCEPT !.updated_at = [@ EXCEPT !.at = @ + 1]]
    ELSE values

\* Raised, when an extension has the name of a core field.
domain_values(t, row) ==
    IF t # "audit_events" /\ row.extensions = "core" THEN Raised ELSE Results(t, row)

\* Slip: the newest line first.
FromRowUnsorted(t, row) ==
    LET values == domain_values(t, row) IN
    IF values = Raised THEN Raised
    ELSE IF t # "journal_entries" THEN Validated(t, values)
    ELSE LET lines == {Results("journal_lines", line) : line \in values.lines} IN
         Validated(t, [values EXCEPT !.lines = Reverse(Sorted(lines))])

FromRow(t, row) ==
    LET values == domain_values(t, row) IN
    IF values = Raised THEN Raised
    ELSE IF t # "journal_entries" THEN Validated(t, values)
    ELSE LET lines == {Results("journal_lines", line) : line \in values.lines} IN
         Validated(t, [values EXCEPT !.lines = Sorted(lines)])

RowInit ==
    /\ database \in Databases
    /\ table \in Tables
    /\ given = Nothing
    /\ by \in {"mapper", "sql"}
    /\ stored = Nothing
    /\ result = Nothing

\* The constraints answer, and the columns keep what they make of the row.
Stored(db, t, row) ==
    IF row # Raised /\ Accepts(db, "migrated", t, row) THEN InColumns(db, Migrated, t, row)
    ELSE Nothing

Row(t, fields) ==
    LET record == Validated(t, Fields(t, fields)) IN
    IF record = Raised THEN Raised ELSE ToRow(t, record)

Extension(t, row) == IF t = "audit_events" THEN "none" ELSE row.extensions

Write ==
    /\ given = Nothing
    /\ \E row \in Rows[table] :
           /\ given' = row
           /\ \/ by = "mapper" /\ Extension(table, row) \in {"none", "declared"}
                 /\ stored' = Stored(database, table, Row(table, row))
              \/ by = "sql" /\ stored' = Stored(database, table, row)
    /\ UNCHANGED <<database, table, by, result>>

Read ==
    /\ stored # Nothing /\ result = Nothing
    /\ result' = FromRow(table, stored)
    /\ UNCHANGED <<database, table, given, by, stored>>

RowNext == Write \/ Read

RowSpec == RowInit /\ [][RowNext]_rowVars

-----------------------------------------------------------------------------
\* No text is wider than its column, and amounts are integers.
RowPortable(name, row) ==
    \A c \in DOMAIN row :
        LET column == Declared[name][c] IN
        row[c] # Null =>
            /\ IsText(column) => row[c].len <= column.limit
            /\ column.type = "amount" => row[c].form = "integer"

Portable(t, row) ==
    /\ RowPortable(t, row)
    /\ t = "journal_entries" =>
           \A line \in row.lines : RowPortable("journal_lines", line)

(* A row written by hand is taken by the database the migration made just  *)
(* if the constraints of models.py, spelled apart and for each dialect,    *)
(* let it through; and, where its texts are within their widths and its    *)
(* amounts integers, just if the other dialect's let it through: the two   *)
(* sources and the two pattern languages refuse the same rows.             *)
ChecksAgree ==
    given # Nothing /\ by = "sql" =>
        \A db \in Databases :
            db = database \/ Portable(table, given) =>
                (stored # Nothing <=> Accepts(db, "declared", table, given))

(* A record that the domain models let through is accepted by the schema, *)
(* by both databases, and comes back as it was: nothing fails only when it *)
(* is flushed, its times are in UTC and its lines in order.                *)
RoundTrip ==
    LET record == Validated(table, Fields(table, given)) IN
    given # Nothing /\ by = "mapper" /\ record # Raised =>
        /\ stored # Nothing
        /\ result \in {Nothing, record}

(* Whatever rows were written by hand, a read raises, or returns a record  *)
(* with what the columns say, which the database would take again.         *)
ReadsRaiseOrValid ==
    result \notin {Nothing, Raised} =>
        /\ Accepts(database, "migrated", table, ToRow(table, result))
        /\ \A c \in DOMAIN result \ {"lines"} :
               result[c] = Normal(Declared[table][c], stored[c])

(* A stored line has a whole number of hundredths, the one that was given: *)
(* of a row written by hand, in any form of number, a fraction is refused, *)
(* neither stored nor rounded.                                             *)
AmountsExact ==
    stored # Nothing /\ table = "journal_entries" =>
        /\ \A line \in stored.lines : line.amount.halves % 2 = 0
        /\ by = "sql" =>
               {<<line.position, line.amount.halves>> : line \in stored.lines}
                   = {<<line.position, line.amount.halves>> : line \in given.lines}
=============================================================================
