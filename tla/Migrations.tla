------------------------------ MODULE Migrations ------------------------------
(***************************************************************************)
(* SqlAlchemyStore.migrate and the Alembic command over the one packaged   *)
(* revision (persistence/sqlalchemy/migrations): several processes that    *)
(* upgrade or downgrade one database at once, fail at any statement, or    *)
(* die.  Each runs its statements, and the change of the stored version,   *)
(* in one transaction.  SQLite gives the first of them the write           *)
(* reservation; on PostgreSQL they overlap, and one that creates or drops  *)
(* what an unfinished other has created or dropped waits for its outcome.  *)
(*                                                                         *)
(* Indexes are created with their tables and are left out; columns and     *)
(* checks are in SchemaRows.                                               *)
(***************************************************************************)
EXTENDS SequencesExt

CONSTANT Migrators    \* calls of migrate, or of the Alembic command

VARIABLES
    dialect,
    tables,    \* the committed tables
    at_head,   \* whether alembic_version names the revision
    task,      \* what each migrator is doing
    todo,      \* statements it has still to send
    done       \* statements it has sent

vars == <<dialect, tables, at_head, task, todo, done>>

VersionTable == "alembic_version"

AccountingTables ==
    {"accounts", "journals", "journal_entries", "journal_lines", "audit_events"}

\* The foreign keys the tables are created with.
References(table) ==
    CASE table = "journal_entries" -> {"journals"}
      [] table = "journal_lines" -> {"journal_entries", "accounts"}
      [] OTHER -> {}

Init ==
    /\ dialect \in {"sqlite", "postgresql"}
    /\ tables = {}
    /\ at_head = FALSE
    /\ task = [m \in Migrators |-> "none"]
    /\ todo = [m \in Migrators |-> <<>>]
    /\ done = [m \in Migrators |-> {}]

-----------------------------------------------------------------------------
Each(op, names) == [n \in DOMAIN names |-> [op |-> op, table |-> names[n]]]

\* Slip: an entry is created before the journal it belongs to.
upgrade_entries_first ==
    Each("create", <<"accounts", "journal_entries", "journals", "journal_lines", "audit_events">>)

upgrade ==
    Each("create", <<"accounts", "journals", "journal_entries", "journal_lines", "audit_events">>)

downgrade ==
    Each("drop", <<"audit_events", "journal_lines", "journal_entries", "journals", "accounts">>)

\* Alembic makes sure of its own table, then runs what lies between the
\* stored version and the target.
Plan(t) ==
    (IF VersionTable \in tables THEN <<>> ELSE Each("create", <<VersionTable>>))
        \o CASE t = "upgrade" /\ ~at_head -> upgrade
             [] t = "downgrade" /\ at_head -> downgrade
             [] OTHER -> <<>>

Running(m) == task[m] \in {"upgrade", "downgrade"}

\* The transaction begins, which on SQLite is BEGIN IMMEDIATE.
Start(m) ==
    \E t \in {"upgrade", "downgrade"} :
        /\ task[m] = "none"
        /\ dialect = "sqlite" => \A other \in Migrators : ~Running(other)
        /\ task' = [task EXCEPT ![m] = t]
        /\ todo' = [todo EXCEPT ![m] = Plan(t)]
        /\ UNCHANGED <<dialect, tables, at_head, done>>

Named(op, m) == {s.table : s \in {statement \in done[m] : statement.op = op}}

\* What the transaction of m sees.
View(m) == (tables \cup Named("create", m)) \ Named("drop", m)

Asked(m) == Head(todo[m])

Waits(m) == \E other \in Migrators \ {m} : Asked(m) \in done[other]

\* "already exists" or "does not exist"
Refused(m) == (Asked(m).op = "create") = (Asked(m).table \in tables)

\* Slip: the driver commits each statement that changes the schema.
ExecuteAtOnce(m) ==
    /\ todo[m] # <<>> /\ ~Waits(m) /\ ~Refused(m)
    /\ tables' = IF Asked(m).op = "create" THEN tables \cup {Asked(m).table}
                 ELSE tables \ {Asked(m).table}
    /\ todo' = [todo EXCEPT ![m] = Tail(@)]
    /\ UNCHANGED <<dialect, at_head, task, done>>

Execute(m) ==
    /\ todo[m] # <<>> /\ ~Waits(m) /\ ~Refused(m)
    /\ done' = [done EXCEPT ![m] = @ \cup {Asked(m)}]
    /\ todo' = [todo EXCEPT ![m] = Tail(@)]
    /\ UNCHANGED <<dialect, tables, at_head, task>>

\* Alembic looks again before it creates its own table, and may find it.
Found(m) ==
    /\ todo[m] # <<>> /\ Asked(m).table = VersionTable /\ VersionTable \in tables
    /\ todo' = [todo EXCEPT ![m] = Tail(@)]
    /\ UNCHANGED <<dialect, tables, at_head, task, done>>

End(m) ==
    /\ task' = [task EXCEPT ![m] = "over"]
    /\ todo' = [todo EXCEPT ![m] = <<>>]
    /\ done' = [done EXCEPT ![m] = {}]
    /\ UNCHANGED dialect

\* The new version is stored in the same transaction.
Commit(m) ==
    /\ Running(m) /\ todo[m] = <<>>
    /\ tables' = View(m)
    /\ at_head' = IF \E s \in done[m] : s.table # VersionTable THEN task[m] = "upgrade"
                  ELSE at_head
    /\ End(m)

\* Slip: the connection is kept when a statement fails.
RaiseOpen(m) ==
    /\ todo[m] # <<>> /\ ~Waits(m) /\ Refused(m)
    /\ UNCHANGED vars

\* The statement is refused: the transaction is rolled back.
Raise(m) ==
    /\ todo[m] # <<>> /\ ~Waits(m) /\ Refused(m)
    /\ End(m)
    /\ UNCHANGED <<tables, at_head>>

\* The connection fails or the process dies, anywhere but after the commit.
Fail(m) ==
    /\ Running(m)
    /\ End(m)
    /\ UNCHANGED <<tables, at_head>>

Runs(m) == Execute(m) \/ Found(m) \/ Raise(m) \/ Commit(m)

Next == \E m \in Migrators : Start(m) \/ Runs(m) \/ Fail(m)

Spec == Init /\ [][Next]_vars

(* A migrator that has begun goes on; nothing in it waits but statements.  *)
FairSpec == Spec /\ \A m \in Migrators : WF_vars(Runs(m))

-----------------------------------------------------------------------------
(* Whatever fails, dies or overlaps, the database has all the tables of    *)
(* the version it claims or none: no half-migrated schema is ever met by a *)
(* unit of work, and migrating again at head is safe.                      *)
SchemaWhole == tables \ {VersionTable} = IF at_head THEN AccountingTables ELSE {}

(* No statement of an upgrade or a downgrade leaves a foreign key to a     *)
(* table that is not there, or not any more.                               *)
ReferencesExist ==
    \A m \in Migrators : Running(m) =>
        \A table \in View(m) : References(table) \subseteq View(m)

(* Every migration ends, whichever others it meets: upgrades create in one *)
(* order, downgrades drop in one, and no two wait for each other.          *)
MigrationsEnd == \A m \in Migrators : Running(m) ~> task[m] = "over"
=============================================================================
