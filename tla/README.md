# Lumbago in TLA+

Lumbago (`src/`) is a Python library for double-entry bookkeeping: accounts,
journals, balanced journal entries, an append-only audit log, and *units of
work* in which an application reads and changes them. This directory holds TLA+
models of its core logic, TLC configurations that check them, and TLAPS proofs
about the models. Paths below are relative to `src/src/lumbago/` unless they
start with `docs/` or `tests/` (`src/docs/`, `src/tests/`).

## 1. Inventory

| Component | Source | State it keeps | Operations | What makes it correct |
|---|---|---|---|---|
| Accounting records | `models/accounting.py`, `audit.py`, `base.py` | immutable values | validation | an entry has two lines or more, its own line ids, and balances per currency; times are in UTC and in order |
| Money | `models/money.py` | none | decimal to hundredths and back | exact for every accepted amount |
| Unit-of-work contract | `persistence/unit_of_work.py`, `repositories/base.py` | none | enter, exit, commit, rollback, `atomic`, four repositories | commit publishes everything or nothing; a failed block leaves no trace |
| Memory store | `persistence/memory.py`, `repositories/memory.py`, `repositories/audit.py` | `_state`, `_in_use`; per unit: `_used`, `_entered`, `_active`, its repositories; per running block: a dump | the contract's | the contract, one unit at a time, references, unique codes and line ids |
| Accounting service | `services/entries.py` | none | create, update, delete of accounts and journals; create of entries | active accounts, used records stay, every deletion audited |
| Code-checking services | `services/accounting.py`, `services/crud.py` | an audit log of its own by default | CRUD; deletion with an event | codes unique but for case; the logs tell which deletions were made |
| PostgreSQL store | `persistence/sqlalchemy/` | the database; per unit: session, `_used`, `_active` | the contract's | the contract for a unit alone; with others, a whole ledger after every commit |
| SQLite store | the same, with `engine.py` | the file; per unit: session, flags, the write reservation | the contract's | the contract, with units of several processes that wait, fail and die |
| Migrations | `persistence/sqlalchemy/migrations/`, `__init__.py` | tables, schema version | `migrate`, Alembic's command | all tables of a version or none, also when processes migrate at startup together |
| Row mappers, column types, constraints | `persistence/sqlalchemy/mappers.py`, `base.py`, `models.py` | none | record to row and back | round trips; models, mappers and migration agree |
| Projection and CSV | `exports/` | none | `project_postings`, `export_postings_csv` | references resolve, order is deterministic |
| Exceptions | `exceptions.py` | none | none | |

How they interact. A store makes units of work. `AccountingService` is given a
unit, wraps each of its operations in `uow.atomic()` and calls the unit's
repositories, some of them through `AccountService` and `JournalService`, which
add a check on codes. Applications may also call the repositories themselves.
The memory store copies its state into the unit's repositories on entry and
back on commit. The SQL unit maps the same calls to statements and savepoints
of one database transaction. Exports only read.

What is hard here. The library starts no thread and sends no message; all
concurrency is between *units*: two memory units whose calls interleave on one
store, any number of database transactions, processes that migrate at startup,
an exporter beside running workflows. Failures are exceptions at any call,
caught by the caller at any level, a transaction aborted by the database, a
connection lost between two calls or under COMMIT, a process that dies, a
clock that steps back. The rules for what a record may be are written down
three times, in the models, in the SQL models and in the migration. The
hazards, each with its line, are in `PROJECT.json`; every one has a property.

## 2. Modules

| Module | What it is |
|---|---|
| `Ledger` | the data all stores share: record types, entry validation, what each operation tests and writes, and what it means for a ledger to be whole (`Integrity`), to balance line by line (`BooksClose`), to keep history (`KeepsHistory`) and to audit what vanishes (`AuditedStep`, `VanishedAudited`) |
| `UnitOfWork` | abstract specification: the transaction contract |
| `MemoryUnitOfWork` | the memory store with the service on top; refines `UnitOfWork` |
| `PostgresUnitOfWork` | the SQL store over PostgreSQL, concurrent units; a unit alone refines `UnitOfWork` |
| `SqliteUnitOfWork` | the SQL store over a SQLite file; refines `UnitOfWork` |
| `Postings` | projection and CSV export beside committing workflows |
| `CrudServices` | the services without a unit of work, their logs and times |
| `Migrations` | concurrent upgrades and downgrades of the schema |
| `SchemaRows` | one record or row through validation, mapping, column types and constraints |
| `Money` | the conversions of `models/money.py`, and an amount on its way through records, copies and rows |
| `MCMemoryUnitOfWork`, `MCPostgresUnitOfWork`, `MCSqliteUnitOfWork`, `MCPostings`, `MCCrudServices`, `MCMigrations`, `MCSchemaRows`, `MCMoney` | instances for TLC |
| `LedgerProofs` | lemmas: which write keeps a ledger whole, which step keeps history and audits, and that entries of a whole ledger cancel out in each currency |
| `MemoryUnitOfWorkProofs` | the inductive invariants of the memory store and seven theorems, the refinement among them |
| `MoneyProofs` | three theorems about the conversions and the way of an amount |
| `PostingsProofs` | four theorems about the projection and the file |
| `SqliteUnitOfWorkProofs` | the inductive invariant of the SQLite units and four theorems, the refinement among them |
| `PostgresUnitOfWorkProofs` | the inductive invariants of the PostgreSQL units and nine theorems |
| `CrudServicesProofs` | four theorems about the services, their logs and the order of records |
| `SchemaProofs` | two theorems about overlapping migrations and four about the rows of the schema |

Definitions commented `Slip:` are deliberate mistakes, each written just before
the definition it would replace. No specification uses them; they exist so that
one can check that each property notices the mistake.

### Ledger

A ledger is a record of four functions from identifiers to a record or
`Absent`, like `Snapshot` in `memory.py:26-31`. `CaseFold` stands for
`str.casefold`. `ValidEntry` is the model validator of `JournalEntry`
(`models/accounting.py:180-213`), which every store runs again on what it is
given. `MayX` is what an operation tests before it writes, `PutX` what it
writes. Updates of accounts and journals replace the whole record, which
covers partial updates, except over PostgreSQL, where the changed fields matter.

### MemoryUnitOfWork

| Model | Code |
|---|---|
| `state`, `in_use` | `InMemoryStore._state`, `_in_use` |
| `used`, `entered`, `active` | the flags of `InMemoryUnitOfWork` |
| `repos[s]` | the dictionaries of its repositories and its audit list |
| `frames[s]` | the local `before` of each running `atomic()` generator, outermost first |
| `deleting[s]` | a service deletion between `repository.delete` and `audit_events.append`, with the event it built |
| `NewScope`, `Enter`, `Exit`, `Commit`, `Rollback` | `unit_of_work()`, `__enter__`, `__exit__`, `commit`, `rollback` |
| `AtomicBegin`, `AtomicEnd`, `AtomicFail` | `atomic()` of the caller: entry, normal end, exception |
| `CreateAccount` to `PostEntry` | the service's operations, also those of the repositories where they agree |
| `CreateEntry`, `RemoveAccount`, `RemoveJournal`, `AppendEvent` | direct use of the repositories (only if `ServicesOnly` is false) |
| `DeleteAccount`, `DeleteJournal`, `FinishDeletion`, `FailDeletion` | the two writes of a service deletion, or an exception around the second |

Calls that raise before they write leave the state as it is and are not steps.
A service operation that writes once does so as its last act, so its own atomic
block is not visible and is not modelled; deletions write twice and push a
frame. `Exit` can occur at any time, also for scopes that never entered.

### PostgresUnitOfWork

One step is one statement, or several that no other unit can tell apart.

| Model | Code or server |
|---|---|
| `tx[u]` | `_used`, `_active`, and the state of the transaction at the server |
| `own[u]` | what the unit reads: the snapshot of its first statement and its own writes |
| `wrote[u]`, `stale[u]` | rows it wrote; rows that commits since its snapshot wrote |
| `holds[u]` | rows selected `FOR UPDATE` |
| `sent[u]` | the savepoints of the caller's running `atomic()` blocks, outermost first: what the unit read, had written and had locked |
| `unsent[u]` | the number of inner blocks whose savepoint was not needed yet |
| `call[u]` | the running call, the set of rows it still has to lock (`NextRow` is their order), and the locks at its savepoint |
| `Overlay`, `Merged(u)` | the rows a unit has written, over the database: what its commit publishes |
| `Alive(v)`, `Versions` | units that may still commit, and the versions of a row they may leave |
| `told[u]` | whether `commit()` returned or raised |
| `StartCall` | a call of the service (`service = TRUE`) or of a repository begins; the first takes the snapshot |
| `LockRow` | `_get_row`, `_require_reference` |
| `Create`, `Update`, `Delete`, `Read` | the flush of the call, or its end |
| `Fail` | an exception; the savepoint of the call, if it has one, gives back its locks |
| `Abort` | a database error outside the savepoint of the call: the transaction is aborted, back to the innermost savepoint of the blocks |
| `AtomicBegin`, `AtomicEnd`, `AtomicFail` | `atomic()` of the caller: entry, normal end with RELEASE, exception with ROLLBACK TO |
| `Disconnect` | the connection fails between two statements; the unit is "lost" |
| `Commit`, `CommitFails`, `CommitAborted`, `Leave` | `commit()` with its three outcomes; `rollback()` and `__exit__` |

What the server does is modelled from how the code relies on it, and marked
external in the map: REPEATABLE READ snapshots; a `FOR UPDATE` that waits for
the holder of the row and fails if the row has a newer version; unique indexes
that wait for an unfinished unit with the same key; `ON DELETE RESTRICT`, which
looks at the newest entries; the choice of a deadlock victim; locks released by
a rollback to a savepoint; COMMIT of an aborted transaction, which rolls back
without an error; and the versions of a row that a savepoint may bring back,
which keep their keys until the unit ends, also in an aborted transaction.
SQLAlchemy sends a savepoint with the first statement in its block, so that
several may be sent at once or none (`StartCall`). A version that is written and
replaced within one block holds no key in the model; the server would let
another unit wait for it. A unit is `Deadlocked` if it waits for itself through
others. The definition asks for the sets closed under waiting, not for a
transitive closure of a matrix (`TransitiveClosure` of the community modules),
because the provers know no functions of two arguments; TLC found the two equal
in every state of both runs. Not modelled: the limits of the connection pool,
lock timeouts, and a server that notices late that a client is gone (a commit
whose answer is lost is).

### SqliteUnitOfWork

| Model | Code or SQLite |
|---|---|
| `db`, `reading` | the file; another connection reads it |
| `reserved` | connections with a transaction: the write reservation |
| `stage[u]` | `_used`, `_active`, and the statement under way |
| `work[u]` | what the transaction reads |
| `sent[u]`, `unsent[u]` | the savepoints of the running blocks, and how many inner blocks have not needed theirs yet |
| `FirstStatement`, `Reserve`, `BusyTimeout` | `_begin_sqlite`: BEGIN IMMEDIATE waits, and succeeds or raises after the timeout of `_configure_sqlite` |
| `AskCommit`, `Publish`, `CommitFails`, `CommitRolledBack`, `CommitNothing` | `commit()`: COMMIT waits for readers and succeeds; or fails because they outlast the timeout, and leaves the transaction with the connection; or fails because the file cannot be written, and SQLite rolls back; a unit that sent nothing |
| `Rollback`, `Leave` | `rollback()`, `__exit__`, which closes the session; the slot goes to a later unit |
| `Crash` | the process dies; a COMMIT under way has happened or not |
| `AtomicBegin`, `SendSavepoint`, `AtomicEnd`, `AtomicFail` | `atomic()` of the caller |
| `CreateAccount` to `DeleteJournal` | the service, each operation in its own savepoint |
| `CreateEntry`, `RemoveAccount`, `RemoveJournal`, `AppendEvent` | the repositories; foreign keys restrain deletions (`Restricted`) |

One unit at a time has the reservation, so what an operation reads is what it
writes to, and each operation is one step. Not modelled: one in-memory database
shared by simultaneous units (one connection for all), which the documents rule
out; and a full disk or an I/O error in the middle of a statement before COMMIT,
after which SQLite may end the whole transaction and its savepoints, so that a
call that raises would change more than nothing.

### Postings

`unit` is the snapshot that the exporter's unit of work reads, taken with its
first statement; `list` holds the collections as they were listed, `listed_in`
the unit they were listed in. `List` is `repository.list()`, `NextUnit` a new
unit of work of the exporter, `Project` is `project_postings` over entries in
any order, `ExportCsv` is `export_postings_csv` on rows in any order. Beside
them the service's operations commit, one at a time: a longer workflow would
only hide ledgers between its operations. `sorted(key=...)` is any arrangement
without inversions (`SortedEntries`, `SortedRows`). Names, descriptions and
metadata are copied and left out, and the quoting of the file is the `csv`
module's.

### CrudServices

`records` is the dictionary of an `InMemoryRepository` in the order of
insertion, `log` the logs (`"shared"`, or one of each service), `gone` a history
of the deletions and what each call answered. `Create`, `Update`, `Delete` are
the services' calls, `SetClock` moves the clock in either direction. `Delete`
removes, and then appends or raises (`crud.py:56-61`).

### Migrations

A migrator is one call of `migrate()` or of the Alembic command. `Plan` is the
list of CREATE or DROP statements between the stored version and its target,
`Execute` one of them, `done` what its transaction has sent, `Commit`, `Raise`
and `Fail` its end. On SQLite a migration begins only when no other runs; on
PostgreSQL a statement waits for an unfinished transaction that has sent the
same one, and then fails. Alembic looks again before it creates its own table
(`Found`).

### SchemaRows

The schema is written down twice, and so it is here. `Declared` has the columns of
`models.py` and `Migrated` those of `0001_initial.py`; `DeclaredChecks`
(`code_checks`, `AccountChecks`, `EntryChecks`, `LineChecks`) transcribes the
CHECKs of the one and `MigratedChecks` (`code_constraints`, `line_constraints`)
those of the other, expression by expression and for each dialect: GLOB patterns
for SQLite (`GlobsCodeOnly`, `GlobsStart`, `GlobsUpperOnly`), regular expressions
for PostgreSQL (`MatchesCode`, `MatchesCurrency`). `Write` takes the fields of a
record through `Validated` and `ToRow`, or a row written by hand, and stores
what the columns keep of it (`InColumns`) if the migrated constraints accept it
(`Accepts`), under the rules of either database: SQLite ignores widths and keeps
a number in the form it came in, PostgreSQL drops blanks beyond the width and
keeps every digit; what depends on the database takes it as a parameter (`db`).
`Read` is `FromRow`. A row has every column of its table, each empty (`Null`) or
of the kind its column takes (`WellFormed`), and an entry has its lines as a set
of rows with whole numbers as positions; beyond that, anything may be written.
The identifier of a line is never empty, being its primary key. A text is its
length and the kind of its characters. NUL characters, at which SQLite's `length()` stops, are left out;
identifiers, metadata and snapshots pass through unchanged.

### Money

`to_minor_units` and `from_minor_units` are translated digit by digit (`Shift`,
`CutOff`, `Number` are the local variables and slices of the code; `PowerOfTen`
is a recursive function and `Number` a fold, so that they can be reasoned
about). `Construct` is the validation of `Money`, `Copy` the revalidation by a
repository, `Store` and `Fetch` the amounts of `entry_to_row` and
`entry_from_row`. How `Decimal` splits, compares and prints numbers is external.

## 3. Properties

Memory store:

- `TypeOK`; `LedgerIntegrity`: every ledger in the store is whole, including
  half-done deletions and snapshots that may be put back.
- `BooksBalance`: in each currency the debits and credits of every entry held or
  committed cancel out. `LedgerIntegrity` asks this with the validator's own
  totals (`ValidEntry`), which may be wrong together with it; here the lines are
  added with signs, apart from them.
- `ExclusiveScope`: one unit at a time, and the claim says so.
- `HistoryKept`: commits never alter or lose a committed entry or event.
- `DeletionsAudited`: with the service only, what a commit makes disappear has
  a new event.
- `ContractKept`: refinement of `UnitOfWork`.

PostgreSQL store:

- `TypeOK`; `DatabaseWhole`: the committed ledger is whole although every check
  ran on a snapshot.
- `NoLostUpdate`: nobody overwrites a version it has not read. Checked with
  blocks, where a row locked in a block that failed is free for another unit
  while the first keeps its snapshot.
- `PostedToActive`: the check for inactive accounts holds until the commit.
- `NoDeadlockOfSingleCalls`: the order of locks makes single calls deadlock-free.
- `DeletionsAuditedExactly`: the commit of a unit of one call adds one event for
  each record it removes, with the record as it was just before, when records
  are deleted by the service and the audit repository is left to it.
- `CarefulCommitsStored`: callers who make every call in an atomic block can
  trust a `commit()` that returns; for others see the disagreements below.
- `ContractKeptAlone`: until another unit enters, every step is one of
  `UnitOfWork`, late and nested savepoints included.
- `CommittedHistoryStays`, and `CallsFinish` (liveness).

SQLite store:

- `TypeOK`; `StoreWhole`: the file, transactions and savepoints hold whole
  ledgers, also for callers of the repositories. Proved; no run checks it apart
  from `ContractKept`, in which every change of a transaction makes a whole ledger.
- `ContractKept`: refinement of `UnitOfWork`, through crashes, timeouts and
  failed commits.
- `FailedCommitsFinal`: after a failed `commit()` the unit publishes nothing.
- `WaitingEnds` (liveness): every wait and every reservation ends.

Postings:

- `TypeOK`; `EntriesFirstResolve`: an exporter that lists entries before
  accounts and journals, or all in one unit, never meets a missing reference.
- `RowsExact`: each listed line has one row, each row its line, in the
  documented order.
- `FileFollowsProjection`: the two sort keys, coded apart, agree.

Services without a unit of work:

- `TypeOK`, with times in order; `CodesStayUnique`. Only valid records are given
  to the services: `create` compares the code as given
  (`services/accounting.py:39`) before the repository strips its copy
  (`repositories/memory.py:41`), so a record built past the validators is not
  covered.
- `LogsExact`: a deletion whose call returned is told by the right log
  (`Belongs`), once, in order and as it was; one that raised is told by none.
  The property places each log in the history of deletions (`gone`).
- `OrderKept`: two records that stay keep their places relative to each other.

Migrations: `SchemaWhole`, all tables of the stored version or none;
`ReferencesExist`, no foreign key to a missing table at any statement;
`MigrationsEnd` (liveness).

Schema:

- `ChecksAgree`: a database takes a row just if the CHECKs as the models spell
  them let it through, and, for rows that both dialects can hold (`Portable`:
  texts within their widths, amounts that are integers), just if those of the
  other dialect do. The repository's comparison of metadata does not look at
  CHECKs.
- `RoundTrip`: what the domain models accept is accepted by both databases and
  comes back as it was.
- `ReadsRaiseOrValid`: rows written by hand are read as what the columns say,
  or raise. The columns of the lines are compared by `RoundTrip` only.
- `AmountsExact`: every stored line has a whole number of hundredths, and a row
  written by hand the amounts it was given: a fraction is refused, neither stored
  nor rounded.

Money: `TypeOK` (what a caller reads is not negative and has two places, a row
holds a hundredth or more), `AmountExact`, the amount is the given one wherever it has
been, and `RefusedRightly`, no whole number of hundredths in range is refused;
both are stated with scaled integers, without the conversions.

### Runs and bounds

| Run | Instance | Distinct states |
|---|---|---|
| `memory_scopes` | 2 scopes, 2 accounts, codes `CASH`/`cash`, 2 entry ids that share line ids, 6 drafts, service and direct calls, no caller blocks | 314 thousand |
| `memory_atomic` | 1 scope, 1 account, 2 event ids, caller blocks 2 deep (3 with the deletion's) | 330 thousand |
| `postgres_services` | 3 units, 3 calls in all, 2 accounts, 2 entries in opposite directions in 2 journals, updates, deletions, a direct retrieval | 230 thousand, symmetric units |
| `postgres_repositories` | 2 units, one of them careful, 3 calls in all, codes that differ in case, direct calls, blocks 2 deep, with `FairSpec` | 239 thousand |
| `sqlite_units` | 2 units in turn without end, 1 account, 1 journal, 1 entry, 1 event, direct calls, caller blocks 1 deep, with `FairSpec` | 381 thousand |
| `postings` | 3 entries, two of one date and the last dated first, 1 account, 1 journal, exports over up to 3 units | 59 thousand |
| `crud_services` | 2 services, one with the shared log, 2 records, 3 codes, 2 times, 2 deletions | 957 thousand |
| `migrations` | 4 calls, upgrades or downgrades, either database | 11 thousand |
| `schema_rows` | every table, rows that differ from a usual one in two columns at most, lengths at their limits | 58 thousand |
| `money_exact` | decimals of 1 to 4 digits 0, 1, 9, exponents -4 to 1, either sign; maximum 9.99 | 2 thousand |
| `postgres_aborted`, `postgres_lost_reply` | as `postgres_repositories`, without blocks | violations |

Two scopes are enough for the claim, since all a scope learns about the others
is `_in_use`; the proofs remove the bound. Two accounts are the fewest for a
code collision and for a lock order, two entries for shared line ids, two
currencies for an entry that balances only in the sum (`MixedCurrencies`). The
drafts include an unbalanced entry, one with a repeated line id, and entries
with both sides on one account. Two event ids let an event be added inside a
block that is undone and another one after it. Blocks two deep let an inner
block fail inside an outer one that succeeds or fails later. With three units
one can commit between the snapshot and the lock of another while a third
waits; three calls let two units with one and two calls deadlock. `MaxCalls`
bounds the calls of all units and `MaxDepth` the caller's blocks; the number of
units is bounded because a unit is used once. The PostgreSQL instances start
from ledgers the program can reach: one or two open accounts, with two journals
or none.

SQLite needs one code, since collisions are checked in the other instances
and one unit at a time is at work; its units are replaced by new ones for ever,
so two are enough for a competitor that always comes first. Three units of an
exporter can list each collection in a unit of its own. Four migrations can
bring the schema up and down twice, or meet two on each side. The rules for a
row relate two columns at most, the times or a code and its width, so rows with
two unusual columns reach every conflict; lengths are the real limits, one less
and one more, and the largest amount is 3 instead of 999999999999999999 because
the code only compares it.

Decimals of four digits reach both sides of the maximum (9.99, 9.990, 9.991,
10.00, 1E1), cut-off digits that are zero or not, and numbers whose digits are
all cut off.

`CHECK_DEADLOCK FALSE` is set in the money and schema runs, where one record is
followed to its end, in the migrations run, where each call is made once, and
in the PostgreSQL runs because all units end there; a deadlock of the database
is the property `NoDeadlockOfSingleCalls`, and a call or a migration that never
ends would violate `CallsFinish` or `MigrationsEnd`. Elsewhere there is always
something left to do.

### Fairness

`PostgresUnitOfWork!FairSpec` assumes that a statement that can proceed returns
or raises (`WF` of `CallStep`, also of the deadlock victim, which the server
chooses after its timeout) and that the with statement of a unit ends (`WF` of
`End`): `__exit__` always closes the session. It does not assume that callers
begin calls, enter or commit. A caller that waits for another unit inside its
own with statement is outside this assumption. Since `MaxCalls` bounds the
competitors, nothing is said about starvation by endless traffic.

`SqliteUnitOfWork!FairSpec` assumes that BEGIN IMMEDIATE succeeds or times out,
that COMMIT succeeds or fails, and that with statements end. Here competitors
are endless, and the busy timeout is what ends a wait.

`Migrations!FairSpec` assumes that a migration that can send its next statement
does. Each call is made once; against endless competitors a waiting migration
could starve.

### Disagreements between documents and code

- `postgres_aborted`: `update`, `delete` and `retrieve` of `SqlRepository`
  retrieve the record before their savepoint (`repositories.py:141,168,121-124`).
  If that statement fails with a serialization failure or a deadlock, the
  transaction is aborted. A caller that catches the error and commits sees
  `commit()` return normally while nothing is stored.
  `docs/persistence.md:79-86` promises a savepoint for each repository mutation
  and reports of failed commits. Callers who wrap direct calls in
  `uow.atomic()` are safe (`CarefulCommitsStored`).
- `postgres_lost_reply`: `commit()` translates every driver error to "the
  workflow was not committed" (`repositories.py:61-64`), also one raised after
  the server applied COMMIT.

## 4. Proofs

All theorems hold for every value of the constants that satisfies the named
assumptions of the modules, which say that constants have the types the code
gives them: `Absent` is no record and `NoCall` no event; drafts and requests are
typed, valid or not; bounds are natural numbers; accounts and entries have
identifiers that can be ordered, as UUIDs are, and there are finitely many
entries; dates are integers; careful units are units; the first ledger of the
database is whole; the shared log is no service; decimals have a digit or more,
and a bound on their places; `Null` is no value of a column, and rows are well
formed. No theorem assumes anything of a behaviour beyond `Spec`, so fairness
plays no part.

### Theorems

| Module | Theorem | States |
|---|---|---|
| `MemoryUnitOfWorkProofs` | `TypeCorrect` | `Spec => []TypeOK` |
| | `LedgersStayWhole` | `Spec => []LedgerIntegrity` |
| | `BooksStayBalanced` | `Spec => []BooksBalance` |
| | `ScopesExclude` | `Spec => []ExclusiveScope` |
| | `CommittedHistoryKept` | `Spec => HistoryKept` |
| | `CommittedDeletionsAudited` | `Spec => DeletionsAudited` |
| | `MemoryKeepsContract` | `Spec => ContractKept` |
| `SqliteUnitOfWorkProofs` | `TypeCorrect` | `Spec => []TypeOK` |
| | `StoreStaysWhole` | `Spec => []StoreWhole` |
| | `FailedCommitsStayFailed` | `Spec => FailedCommitsFinal` |
| | `SqliteKeepsContract` | `Spec => ContractKept` |
| `PostgresUnitOfWorkProofs` | `TypeCorrect` | `Spec => []TypeOK` |
| | `DatabaseStaysWhole` | `Spec => []DatabaseWhole` |
| | `NothingOverwritten` | `Spec => []NoLostUpdate` |
| | `CarefulWorkStored` | `Spec => []CarefulCommitsStored` |
| | `HistoryStays` | `Spec => CommittedHistoryStays` |
| | `PostedOnlyToActive` | `Spec => PostedToActive` |
| | `DeletionsRecorded` | `Spec => DeletionsAuditedExactly` |
| | `SingleCallsNeverStuck` | `Spec => []NoDeadlockOfSingleCalls` |
| | `LoneUnitsKeepContract` | `Spec => ContractKeptAlone` |
| `CrudServicesProofs` | `TypeCorrect` | `Spec => []TypeOK` |
| | `CodesUnique` | `Spec => []CodesStayUnique` |
| | `LogsComplete` | `Spec => []LogsExact` |
| | `OrderStays` | `Spec => OrderKept` |
| `SchemaProofs` | `SchemaStaysWhole` | `Spec => []SchemaWhole` |
| | `ReferencesStay` | `Spec => []ReferencesExist` |
| | `ChecksStayAgreed` | `RowSpec => []ChecksAgree` |
| | `RecordsComeBack` | `RowSpec => []RoundTrip` |
| | `ReadsStayValid` | `RowSpec => []ReadsRaiseOrValid` |
| | `AmountsStayAsWritten` | `RowSpec => []AmountsExact` |
| `MoneyProofs` | `TypeCorrect` | `Spec => []TypeOK` |
| | `AmountsStayExact` | `Spec => []AmountExact` |
| | `RefusalsStayRight` | `Spec => []RefusedRightly` |
| `PostingsProofs` | `ProjectionResolves` | `Spec => []EntriesFirstResolve` |
| | `TypeCorrect` | `Spec => []TypeOK` |
| | `RowsStayExact` | `Spec => []RowsExact` |
| | `FileFollows` | `Spec => []FileFollowsProjection` |

`LedgerProofs` has the lemmas all stores share: each write keeps a ledger whole
under the condition its operation tests, and which steps keep history and audit.
It also shows that the remainder of an entry, added up line by line with signs,
is the difference of the validator's totals (`RemainderIs`). The library's fold
takes the elements of each set in an order of its own; so `SumsExist` and
`SumsAgree` show what it computes, `SumTakesAny` that any element may be taken
first, each from a smallest subset for which it would fail (`SmallestSet`, the
library's well-founded order of finite sets).

### Memory store

1. `WholeInv`: every ledger anywhere in the state is typed and whole, and a
   running deletion has a frame. `LedgerIntegrity` alone is not inductive: a
   failing block puts back a frame, so frames must be whole too, and what it
   pops must exist.
2. `ExclusiveScope` is inductive given `WholeInv`; `NestedInv` adds that blocks
   and deletions only exist in scopes that are entered.
3. `HalfInv`: between the two writes of a deletion the top frame is the working
   ledger with the record still in it, and the remembered event describes that
   record. `FollowsInv`: what an active scope would commit, and every snapshot
   it may put back, keeps the history of the committed ledger and has an event
   for all that is missing. It needs exclusive scopes: the committed ledger
   does not change under an open scope. A commit then satisfies both action
   properties.

The refinement maps `committed` to `state`, `open` to "some scope is
active", and `txn` and `savepoints` to the working ledger and the frames of
that scope. During a deletion the mapped ledger is the snapshot, so the two
writes become one `Work` step when the event is appended, and nothing if the
deletion fails. Blocks that end after their scope has committed or rolled back
are stutters. The proof rests on `WorkInv`, the conjunction of the above.

### SQLite store

`WholeInv` says that the file, each transaction and each savepoint are whole
ledgers; `ReservedInv` that at most one unit has the reservation, in the stages
in which it may, that savepoints exist only with it, and that a unit whose
commit failed is done. So the one open transaction is `txn` of the contract,
and the rest is a step-by-step refinement: `Reserve` is `Begin`, an operation is
`Work`, a savepoint sent is `AtomicBegin`; a crash under COMMIT is `Commit` or
`Abandon`; waiting, blocks that never needed a savepoint and units that leave
after their commit are stutters.

### PostgreSQL store

What a unit may still commit is a *version*: a ledger it reads, rows it has
written and rows it has locked. A unit has its present version (`Latest`), the
one at the beginning of its call (`Began`) and one for each savepoint it may go
back to. `UnitInv` says of them:

- `Sound`: with the database as it is, rows neither written nor outdated are
  read as they are; what is locked exists and is not outdated; what existed is
  locked before it is written; entries and events are only added; journals and
  accounts of added entries are locked and, by the service, active or changed
  by the unit; and what a commit would publish is whole.
- `Compatible`: versions of two units have no written or locked row in common
  and share no unique key, so that either may be committed first and leaves the
  other sound (`BothCommitted`, `SoundCommit`).
- `LocalInv`: savepoints are nested, a call has locked what is no longer on its
  list, and each stage has what it may have.

Any weaker invariant fails at a rollback to a savepoint, which brings back an
old version after other units have committed: so each version has to stay sound
on its own. `DatabaseWhole`, `NoLostUpdate`, `CarefulCommitsStored`, history and
`PostedToActive` follow from it.

The proof corrected the model in one place: a commit must outdate rows also for
an aborted unit that a savepoint can revive (`Publish` looks at `Alive`), and
keys of such a unit stay taken. It corrected one property: a repository call
that adds an audit event of its own falsified an earlier
`DeletionsAuditedExactly`.

`DeletionsRecorded` adds `OneCall`: a unit of one call has written nothing, or
one record (`Added`), or has removed a record of the database and added its event
(`Removed`), and no other unit can commit a change to that record meanwhile.

`SingleCallsNeverStuck` adds `FirstCallInv`: a unit in its first call has
written nothing and holds only rows that come before those it still locks. Whom
it waits for is then past its locks or holds a later row (`Behind`, a strict
order), so nobody is reached from itself.

`LoneUnitsKeepContract` adds `AloneInv`: while no other unit has entered,
nothing is outdated, so that the unit is never aborted, and what it reads is what
it would commit. Savepoints sent late hold the ledger their blocks began with
(`StartCallStutters`), and a failing block goes back to it (`InnermostEnds`).

### Induction over numbers

The prover cannot instantiate the library's induction theorems, but it knows
that a set of numbers that is not empty has a least element
(`NatLessThanWellFounded`, `WFMin`). So an induction is about a set: if `T`
contains zero and the successor of each of its members, it has every number
(`NumbersUpTo` and its like in `MoneyProofs`). Whatever is to be shown for every
length is said to hold of the lengths in a set, and the set shown to be closed.

### Services, migrations, projection

`CrudServicesProofs` has `ServicesInv`: types, unique codes and identifiers, and
for each log an increasing function (`Placing`) into the deletions so far; each
deletion extends the one of its log by one place and leaves the others. Removal
and replacement in a sequence are lemmas of their own (`WithoutOne`,
`WithOther`).

Part 1 of `SchemaProofs` has `MigrationInv`: a running migrator has sent a
beginning of its plan and has the rest to send; at most one has sent a statement
of the revision, because the first one of another is the same statement, and
waits, or the opposite one, and is refused; and the stored version is still the
one it planned for. `SchemaWhole` alone is not inductive: it says nothing of
what unfinished transactions will commit.

`PostingsProofs` holds for any number of units, entries and lines.
`EntriesFirstResolve` speaks of the moment of the projection only, so `ListInv`
carries it there: what a unit reads has been committed, and the entries in it
are still committed as they were (`KeepsHistory`, which each workflow keeps by
the lemmas of `LedgerProofs`); hence the listed entries are part of every ledger
read later, and since those are whole, their accounts and journals are there.

`RowsInv` adds, of the rows, that they are what the documents say of the
collections as listed. `EntriesSorted`: an arrangement of finitely many entries
without inversions has each of them once, in the order of dates and identifiers,
which is strict. `FlattenSeqFlattens`, by induction over the number of
sequences: the rows of the entries, joined, are those of the first entry, then
those of the second. So each line has its row and the rows are strictly ordered
(`ProjectionExact`); and a strictly ordered sequence is the only arrangement of
its elements without inversions (`ArrangementIsUnique`: the places of the one in
the other increase, so they are the identity). Hence the file.

### Money

`Number` is a fold, which the library defines by a recursive function chosen for
the set at hand. `FoldExists` and its neighbours show that a function with that
equation exists and what it returns: a digit more is ten times the number, and
the digit. By induction over digits, what digits from the m-th on add is less
than a power of ten, and nothing only if they are zeros (`CutOff` drops just
those); and `DigitsOf` writes down the digits of the number. So what is accepted
is converted exactly and fits, and what is refused is no whole number of
hundredths in range, for any number of digits and any exponent. `MoneyInv` says
of the state that the record or row holds the number of hundredths of the given
decimal: `AmountExact` speaks of one place at a time, and a step needs the others.

### Schema

`SchemaProofs` extends both `Migrations` and `SchemaRows`, whose specification is
therefore called `RowSpec`. Its Part 2 repeats the lemmas of `PostingsProofs`
about arrangements, the rest is about rows:

1. *Settled* values are those the models leave: stripped texts, currencies in
   upper case, times in UTC, amounts as integers. Normalising makes any value
   settled and leaves settled ones alone (`NormalSettles`, `SettledStays`); both
   databases keep them but for the zone of a time and the form of an amount,
   which the column types give back (`KeptAndBack`).
2. A valid record is accepted, check by check and column by column, for each
   table and for every line of an entry (`ValidAccepted`). This is where limits,
   character classes and the order of times of validators and CHECKs meet.
3. Finitely many lines can be arranged by position (`Arranged`), and lines with
   their places as positions come back in their places (`SortedBack`); so a
   valid record is read as it was (`ReadBack`).
4. Whatever a row holds, what is read is given to the models, with types they
   can look at (`ReadFields`); if they let it through it is valid, and by 2 the
   database would take it again (`ReadIs`).

`SchemaInv` only remembers how `stored` and `result` came about. `ChecksAgree`
has two halves. Of one database: the columns are the same (`SameColumns`) and the
two spellings of the CHECKs equivalent, table by table (`ChecksAre`), so both
schemas accept the same rows (`SchemasAgree`). Of two: the columns of either
keep a portable row but for times and the form of amounts (`PortableKept`), and
the patterns of the dialects agree on it once it is neither empty nor too long,
which the CHECKs on lengths see to (`PortablePasses`, `PortableAccepts`).
`AmountsExact` rests on `amount_whole`: with NUMERIC on PostgreSQL nothing else
refuses a fraction.

The proofs corrected the model in three places, none of which TLC could notice:
alternatives of a `CASE` overlapped, so that the language leaves open which is
meant; the markers for no row and for an exception were model values that a row
might have equalled; and nothing said that a line has an identifier, without
which a record could be valid for the models and refused by the primary key.

### Only checked by TLC

- `CallsFinish`, `WaitingEnds` and `MigrationsEnd`: liveness under fairness is
  beyond the prover.
- The properties of the two runs that expect a violation, which do not hold.

## 5. Plan

Done: all modules above, in the order memory store, PostgreSQL store, money,
SQLite store, projection, services, migrations, schema, and the proofs of every
safety property and action property the runs check. What is left to TLC is liveness.

Not modelled: several units on one in-memory SQLite database, connection pool
limits, lock timeouts of PostgreSQL, NUL characters in texts, indexes, CSV
quoting (the `csv` module's) and exception texts.
