------------------------- MODULE PostgresUnitOfWork -------------------------
(***************************************************************************)
(* SqlAlchemyUnitOfWork and SqlRepository over a PostgreSQL engine         *)
(* (lumbago/persistence/sqlalchemy), at the granularity of the statements  *)
(* they send.  Units run side by side.  A unit reads the snapshot its      *)
(* first statement took, in which it also sees its own writes; a row it    *)
(* selects FOR UPDATE is locked to its end, and cannot be locked any more  *)
(* once a later commit has written it (REPEATABLE READ).                   *)
(*                                                                         *)
(* A call locks the rows on its list one at a time and then writes or      *)
(* fails.  The second write of a service deletion, the audit event, cannot *)
(* be told from the first by other units and is in the same step.  Failed  *)
(* calls are caught by their caller, who goes on, or leaves.               *)
(***************************************************************************)
EXTENDS Ledger, FiniteSets, SequencesExt

CONSTANTS
    Units,
    Requests,        \* the calls callers make
    MaxCalls,        \* bound on the calls of all units together
    MaxDepth,        \* bound on nested atomic blocks of the caller
    Careful,         \* units whose callers make every call in an atomic block
    InitialLedgers,  \* what the database may hold at first
    NoCall           \* the unit is not in a call

(* Requests for one record: by AccountingService in a savepoint of its     *)
(* own, or by the repository itself.  An update brings the changed fields. *)
AccountChanges == Account \cup [code : Codes] \cup [active : BOOLEAN]

Request ==
    [op : {"create"}, table : {"accounts"}, id : AccountIds, record : Account, service : BOOLEAN]
    \cup [op : {"update"}, table : {"accounts"}, id : AccountIds, record : AccountChanges, service : BOOLEAN]
    \cup [op : {"create", "update"}, table : {"journals"}, id : JournalIds, record : Journal, service : BOOLEAN]
    \cup [op : {"create"}, table : {"entries"}, id : EntryIds, record : JournalEntry, service : BOOLEAN]
    \cup [op : {"create"}, table : {"audit"}, id : EventIds, record : AuditEvent, service : {FALSE}]
    \cup [op : {"delete"}, table : {"accounts"}, id : AccountIds, service : BOOLEAN]
    \cup [op : {"delete"}, table : {"journals"}, id : JournalIds, service : BOOLEAN]
    \cup [op : {"retrieve"}, table : {"accounts"}, id : AccountIds, service : {FALSE}]
    \cup [op : {"retrieve"}, table : {"journals"}, id : JournalIds, service : {FALSE}]
    \cup [op : {"list"}, table : {"accounts", "journals", "entries", "audit"}, service : {FALSE}]

ASSUME RequestsAssumption == Requests \subseteq Request
ASSUME MaxCallsAssumption == MaxCalls \in Nat
ASSUME MaxDepthAssumption == MaxDepth \in Nat
ASSUME CarefulAssumption == Careful \subseteq Units
ASSUME AccountIdsAssumption == AccountIds \subseteq Nat  \* UUIDs compare as integers
ASSUME InitialLedgersAssumption ==
    InitialLedgers \subseteq {L \in Ledgers : Integrity(L)}

VARIABLES
    db,     \* the committed ledger
    tx,     \* the unit and its transaction
    own,    \* what the unit reads: its snapshot and its own writes
    wrote,  \* rows it has written
    stale,  \* rows written by commits since its snapshot
    holds,  \* rows it has locked
    call,   \* the call under way: its request, the rows still to be locked
            \* and the locks held when it began
    sent,   \* the savepoints of its atomic blocks, outermost first
    unsent, \* blocks inside those whose savepoint was not needed yet
    made,   \* calls begun
    told    \* what commit() answered

vars == <<db, tx, own, wrote, stale, holds, call, sent, unsent, made, told>>

Rows == ({"accounts"} \X AccountIds) \cup ({"journals"} \X JournalIds)
            \cup ({"entries"} \X EntryIds) \cup ({"audit"} \X EventIds)

Row(c) == <<c.table, c.id>>

TypeOK ==
    /\ db \in Ledgers
    /\ tx \in [Units -> {"new", "entered", "open", "aborted", "lost", "committed", "rolled back"}]
    /\ own \in [Units -> Ledgers]
    /\ wrote \in [Units -> SUBSET Rows]
    /\ stale \in [Units -> SUBSET Rows]
    /\ holds \in [Units -> SUBSET Rows]
    /\ \A u \in Units : call[u] # NoCall =>
          /\ call[u].request \in Requests
          /\ call[u].todo \subseteq Rows
          /\ call[u].saved \subseteq holds[u]
    /\ \A u \in Units :
          sent[u] \in Seq([own : Ledgers, wrote : SUBSET wrote[u], holds : SUBSET holds[u]])
    /\ unsent \in [Units -> Nat]
    /\ made \in [Units -> Nat]
    /\ told \in [Units -> {"nothing", "committed", "failed"}]

Init ==
    /\ db \in InitialLedgers
    /\ tx = [u \in Units |-> "new"]
    /\ own = [u \in Units |-> EmptyLedger]
    /\ wrote = [u \in Units |-> {}]
    /\ stale = [u \in Units |-> {}]
    /\ holds = [u \in Units |-> {}]
    /\ call = [u \in Units |-> NoCall]
    /\ sent = [u \in Units |-> <<>>]
    /\ unsent = [u \in Units |-> 0]
    /\ made = [u \in Units |-> 0]
    /\ told = [u \in Units |-> "nothing"]

-----------------------------------------------------------------------------
(* What a call locks, and when it may not go on.                           *)

Put(L, table, id, record) == [L EXCEPT ![table] = [@ EXCEPT ![id] = record]]

AccountRow(a) == <<"accounts", a>>

PostingRows(entry) ==
    {<<"journals", entry.journal_id>>} \cup {AccountRow(a) : a \in AccountsOf(entry)}

\* Rows request c locks when its unit reads L.  The repository looks for a
\* record with the new identifier before it locks, the service after.
Locks(L, c) ==
    CASE c.op \in {"update", "delete", "retrieve"} -> {Row(c)}
      [] /\ c.op = "create" /\ c.table = "entries"
         /\ c.service \/ L.entries[c.id] = Absent -> PostingRows(c.record)
      [] OTHER -> {}

InCall(u) == call[u] # NoCall
Idle(u) == ~InCall(u)
Asked(u) == call[u].request
Todo(u) == call[u].todo
Locking(u) == InCall(u) /\ Todo(u) # {}
Ready(u) == InCall(u) /\ Todo(u) = {}

\* Slip: accounts locked in the order the lines name them.
NextRowByLine(u) ==
    LET entry == Asked(u).record
        inOrder == IF Asked(u).table # "entries" THEN <<Row(Asked(u))>>
                   ELSE <<<<"journals", entry.journal_id>>>>
                            \o [n \in DOMAIN entry.lines |-> AccountRow(entry.lines[n].account_id)]
    IN SelectSeq(inOrder, LAMBDA row : row \in Todo(u))[1]

\* The journal first, then the accounts in the order of their identifiers.
ComesBefore(row, other) ==
    \/ row[1] = "journals" /\ other[1] = "accounts"
    \/ row[1] = "accounts" /\ other[1] = "accounts" /\ row[2] < other[2]

NextRow(u) ==
    CHOOSE row \in Todo(u) : \A other \in Todo(u) \ {row} : ComesBefore(row, other)

Missing(u) == LET row == NextRow(u) IN own[u][row[1]][row[2]] = Absent

\* Slip: the engine left at READ COMMITTED, the newest version is locked.
NeverChanged(u) == FALSE

\* The row to lock has a newer version than the snapshot shows.
ChangedSince(u) == NextRow(u) \in stale[u] \ wrote[u]

\* create_entry has locked an account and found it inactive.
FoundInactive(u) ==
    /\ Asked(u).table = "entries" /\ Asked(u).service
    /\ \E a \in AccountsOf(Asked(u).record) :
          /\ AccountRow(a) \in holds[u] \ Todo(u)
          /\ ~own[u].accounts[a].active

\* Ledger D with these rows as they are in L.
Overlay(D, L, rows) ==
    [table \in DOMAIN D |->
        [id \in DOMAIN D[table] |->
            IF <<table, id>> \in rows THEN L[table][id] ELSE D[table][id]]]

\* The ledger as it will be if u commits now.
Merged(u) == Overlay(db, own[u], wrote[u])

\* The record a create or an update wants to store.
Candidate(u) ==
    LET c == Asked(u)
        existing == own[u][c.table][c.id] IN
    IF c.op = "create" THEN c.record
    ELSE [field \in DOMAIN existing |->
            IF field \in DOMAIN c.record THEN c.record[field] ELSE existing[field]]

\* Two records of a table that its unique constraints keep apart.
SameKey(table, record, other) ==
    \/ table \in {"accounts", "journals"} /\ CaseFold[record.code] = CaseFold[other.code]
    \/ table = "entries" /\ LineIdsOf(record) \cap LineIdsOf(other) # {}

UsedBy(L, c) ==
    \/ c.table = "accounts" /\ AccountUsed(L, c.id)
    \/ c.table = "journals" /\ JournalUsed(L, c.id)

\* The code refuses the call for what its unit reads.
Refused(u) ==
    LET c == Asked(u)
        L == own[u] IN
    \/ FoundInactive(u)
    \/ /\ Ready(u) /\ c.op = "create" /\ c.table # "audit"
       /\ L[c.table][c.id] # Absent
    \/ /\ Ready(u) /\ c.op = "create" /\ c.table = "entries"
       /\ \E e \in Present(L.entries) : SameKey("entries", L.entries[e], c.record)
    \/ /\ Ready(u) /\ c.op \in {"create", "update"} /\ c.table # "entries" /\ c.service
       /\ CodeTaken(L[c.table], c.id, Candidate(u).code)
    \/ /\ Ready(u) /\ c.op = "delete" /\ c.service
       /\ UsedBy(L, c)

\* Slip: the foreign keys are not declared, or not enforced.
NotRestricted(u) == FALSE

\* ON DELETE RESTRICT looks at the newest entries, not at the snapshot.
Restricted(u) == Asked(u).op = "delete" /\ UsedBy(Merged(u), Asked(u))

\* Slip: the audit table has no primary key.
KeyTakenButForEvents(u) ==
    LET c == Asked(u)
        rows == Merged(u)[c.table] IN
    /\ c.op \in {"create", "update"} /\ c.table # "audit"
    /\ \/ c.op = "create" /\ rows[c.id] # Absent
       \/ \E id \in Present(rows) \ {c.id} : SameKey(c.table, rows[id], Candidate(u))

\* A unique constraint is violated by what is committed or written by u.
KeyTaken(u) ==
    LET c == Asked(u)
        rows == Merged(u)[c.table] IN
    /\ c.op \in {"create", "update"}
    /\ \/ c.op = "create" /\ rows[c.id] # Absent
       \/ \E id \in Present(rows) \ {c.id} : SameKey(c.table, rows[id], Candidate(u))

\* The transaction may still be committed: as it is, or when a block has
\* gone back to its savepoint.
Alive(v) == tx[v] = "open" \/ (tx[v] = "aborted" /\ sent[v] # <<>>)

\* Slip: versions that a savepoint may bring back are not looked at.
NewestVersions(v, table, id) == {own[v][table][id], db[table][id]} \ {Absent}

\* What a row may be when v ends.
Versions(v, table, id) ==
    ({own[v][table][id], db[table][id]}
        \cup {saved.own[table][id] : saved \in Range(sent[v])}) \ {Absent}

\* The unfinished unit v has written a row on which the unique constraints
\* of the record depend: the outcome is not known before v ends.
KeyHeldBy(u, v) ==
    LET c == Asked(u) IN
    /\ c.op \in {"create", "update"}
    /\ Alive(v)
    /\ \E row \in wrote[v] :
          /\ row[1] = c.table
          /\ \/ row[2] = c.id
             \/ \E version \in Versions(v, c.table, row[2]) :
                    SameKey(c.table, version, Candidate(u))

WaitsFor(u, v) ==
    /\ InCall(u) /\ u # v /\ ~Refused(u)
    /\ \/ Locking(u) /\ ~Missing(u) /\ ~ChangedSince(u) /\ NextRow(u) \in holds[v]
       \/ Ready(u) /\ KeyHeldBy(u, v)

Waits(u) == \E v \in Units : WaitsFor(u, v)

\* u waits for itself through others: it is in every set that has all those
\* whom u, or a unit of the set, waits for.
Deadlocked(u) ==
    LET waits == {p \in Units \X Units : WaitsFor(p[1], p[2])} IN
    \A S \in SUBSET Units :
        (\A p \in waits : p[1] \in S \cup {u} => p[2] \in S) => u \in S

-----------------------------------------------------------------------------
(* The unit.                                                               *)

Enter(u) ==
    /\ tx[u] = "new"
    /\ tx' = [tx EXCEPT ![u] = "entered"]
    /\ UNCHANGED <<db, own, wrote, stale, holds, call, sent, unsent, made, told>>

\* What is left when the transaction is over, on either side.
Finish(u, outcome, answer) ==
    /\ tx' = [tx EXCEPT ![u] = outcome]
    /\ told' = [told EXCEPT ![u] = answer]
    /\ own' = [own EXCEPT ![u] = EmptyLedger]
    /\ holds' = [holds EXCEPT ![u] = {}]
    /\ sent' = [sent EXCEPT ![u] = <<>>]
    /\ unsent' = [unsent EXCEPT ![u] = 0]
    /\ UNCHANGED <<wrote, call, made>>

Publish(u) ==
    /\ db' = Merged(u)
    /\ stale' = [v \in Units |-> IF v = u THEN {}
                                 ELSE IF Alive(v) THEN stale[v] \cup wrote[u]
                                 ELSE stale[v]]

Drop(u) ==
    /\ stale' = [stale EXCEPT ![u] = {}]
    /\ UNCHANGED db

Commit(u) ==
    /\ tx[u] \in {"entered", "open"} /\ Idle(u)
    /\ Publish(u)
    /\ Finish(u, "committed", "committed")

\* The connection fails under COMMIT, before or after the server applied it.
CommitFails(u) ==
    /\ tx[u] = "open" /\ Idle(u)
    /\ \/ Publish(u) /\ Finish(u, "committed", "failed")
       \/ Drop(u) /\ Finish(u, "rolled back", "failed")

\* The connection fails before COMMIT, in a call or between two.  Later calls
\* and blocks fail and change nothing.
Disconnect(u) ==
    /\ tx[u] \in {"open", "aborted"}
    /\ Drop(u)
    /\ tx' = [tx EXCEPT ![u] = "lost"]
    /\ own' = [own EXCEPT ![u] = EmptyLedger]
    /\ holds' = [holds EXCEPT ![u] = {}]
    /\ call' = [call EXCEPT ![u] = NoCall]
    /\ sent' = [sent EXCEPT ![u] = <<>>]
    /\ unsent' = [unsent EXCEPT ![u] = 0]
    /\ UNCHANGED <<wrote, made, told>>

\* COMMIT of an aborted transaction rolls back, and raises nothing; RELEASE
\* of a savepoint, which goes before it in a block, raises, and so does
\* commit() on a lost connection.
CommitAborted(u) ==
    /\ tx[u] \in {"aborted", "lost"}
    /\ Drop(u)
    /\ Finish(u, "rolled back",
              IF tx[u] = "aborted" /\ sent[u] = <<>> THEN "committed" ELSE "failed")

\* Slip: the session is not closed, its connection keeps the transaction.
LeaveOpen(u) ==
    /\ tx[u] \in {"entered", "open", "aborted", "lost"} /\ Idle(u)
    /\ tx' = [tx EXCEPT ![u] = "rolled back"]
    /\ UNCHANGED <<db, own, wrote, stale, holds, call, sent, unsent, made, told>>

\* rollback(), or the end of the with statement.
Leave(u) ==
    /\ tx[u] \in {"entered", "open", "aborted", "lost"} /\ Idle(u)
    /\ Drop(u)
    /\ Finish(u, "rolled back", "nothing")

-----------------------------------------------------------------------------
(* Atomic blocks of the caller.  A block's savepoint is sent with the first *)
(* statement in it.                                                        *)

Blocks(u) == Len(sent[u]) + unsent[u]

AtomicBegin(u) ==
    /\ tx[u] \in {"entered", "open", "aborted"} /\ Idle(u) /\ Blocks(u) < MaxDepth
    /\ unsent' = [unsent EXCEPT ![u] = @ + 1]
    /\ UNCHANGED <<db, tx, own, wrote, stale, holds, call, sent, made, told>>

\* What is left of an aborted transaction, or of a block rolled back.
Restore(u, saved) ==
    /\ own' = [own EXCEPT ![u] = saved.own]
    /\ wrote' = [wrote EXCEPT ![u] = saved.wrote]
    /\ holds' = [holds EXCEPT ![u] = saved.holds]

\* Slip: back to where the outermost block began.
SavedFirst(u) == Head(sent[u])

Saved(u) == Last(sent[u])

\* The innermost block ends without its savepoint, never sent or released.
CloseUnsent(u) ==
    /\ Idle(u) /\ unsent[u] > 0
    /\ unsent' = [unsent EXCEPT ![u] = @ - 1]
    /\ UNCHANGED sent

CloseSent(u) ==
    /\ Idle(u) /\ unsent[u] = 0 /\ sent[u] # <<>>
    /\ sent' = [sent EXCEPT ![u] = Front(@)]
    /\ UNCHANGED unsent

\* ROLLBACK TO the savepoint revives an aborted transaction.
AtomicFail(u) ==
    /\ \/ CloseUnsent(u) /\ UNCHANGED <<tx, own, wrote, holds>>
       \/ /\ CloseSent(u)
          /\ tx' = [tx EXCEPT ![u] = "open"]
          /\ Restore(u, Saved(u))
    /\ UNCHANGED <<db, stale, call, made, told>>

\* Slip: the error of RELEASE SAVEPOINT is not noticed.
AtomicEndUnnoticed(u) ==
    /\ CloseUnsent(u) \/ CloseSent(u)
    /\ UNCHANGED <<db, tx, own, wrote, stale, holds, call, made, told>>

\* RELEASE SAVEPOINT, which an aborted transaction refuses: the block then
\* ends by AtomicFail.
AtomicEnd(u) ==
    /\ CloseUnsent(u) \/ (CloseSent(u) /\ tx[u] # "aborted")
    /\ UNCHANGED <<db, tx, own, wrote, stale, holds, call, made, told>>

-----------------------------------------------------------------------------
(* Calls.  In an aborted transaction every call fails and changes nothing. *)

StartCall(u) ==
    \E c \in Requests :
        LET L == IF tx[u] = "entered" THEN db ELSE own[u]
            saved == [own |-> L, wrote |-> wrote[u], holds |-> holds[u]] IN
        /\ tx[u] \in {"entered", "open"} /\ Idle(u)
        /\ SumFunctionOnSet(made, Units) < MaxCalls
        /\ u \in Careful => Blocks(u) > 0
        /\ c.op = "create" /\ c.table = "entries" => ValidEntry(c.id, c.record)
        /\ tx' = [tx EXCEPT ![u] = "open"]
        /\ sent' = [sent EXCEPT ![u] = @ \o [n \in 1..unsent[u] |-> saved]]
        /\ unsent' = [unsent EXCEPT ![u] = 0]
        /\ own' = [own EXCEPT ![u] = L]
        /\ call' = [call EXCEPT ![u] =
              [request |-> c, todo |-> Locks(L, c), saved |-> holds[u]]]
        /\ made' = [made EXCEPT ![u] = @ + 1]
        /\ UNCHANGED <<db, wrote, stale, holds, told>>

\* Slip: the row is read without FOR UPDATE.
ReadOnly(u) == holds[u]

RowLocked(u) == holds[u] \cup {NextRow(u)}

LockRow(u) ==
    /\ Locking(u) /\ ~Refused(u) /\ ~Waits(u)
    /\ ~Missing(u) /\ ~ChangedSince(u)
    /\ holds' = [holds EXCEPT ![u] = RowLocked(u)]
    /\ call' = [call EXCEPT ![u].todo = @ \ {NextRow(u)}]
    /\ UNCHANGED <<db, tx, own, wrote, stale, sent, unsent, made, told>>

Return(u) == call' = [call EXCEPT ![u] = NoCall]

Write(u, rows, L) ==
    /\ ~Refused(u) /\ ~Waits(u) /\ ~KeyTaken(u) /\ ~Restricted(u)
    /\ own' = [own EXCEPT ![u] = L]
    /\ wrote' = [wrote EXCEPT ![u] = @ \cup rows]
    /\ Return(u)
    /\ UNCHANGED <<db, tx, stale, holds, sent, unsent, made, told>>

Save(u, op) ==
    /\ Ready(u) /\ Asked(u).op = op
    /\ Write(u, {Row(Asked(u))}, Put(own[u], Asked(u).table, Asked(u).id, Candidate(u)))

Create(u) == Save(u, "create")
Update(u) == Save(u, "update")

\* Identifiers of new events are random and never met before.
Fresh(ev) ==
    /\ db.audit[ev] = Absent
    /\ \A v \in Units : <<"audit", ev>> \notin wrote[v]

\* Slip: the event of an account is built after its row is gone.
DeletedLate(L, c) ==
    IF c.table = "accounts" THEN AccountDeletedLate(L, c.id) ELSE JournalDeleted(L, c.id)

Deleted(L, c) ==
    IF c.table = "accounts" THEN AccountDeleted(L, c.id) ELSE JournalDeleted(L, c.id)

Delete(u) ==
    /\ Ready(u) /\ Asked(u).op = "delete"
    /\ LET c == Asked(u)
           L == Put(own[u], c.table, c.id, Absent) IN
       \/ ~c.service /\ Write(u, {Row(c)}, L)
       \/ /\ c.service
          /\ \E ev \in EventIds :
                /\ Fresh(ev)
                /\ Write(u, {Row(c), <<"audit", ev>>}, PutEvent(L, ev, Deleted(own[u], c)))

\* retrieve, which has locked its row, and list, which only reads.
Read(u) ==
    /\ Ready(u) /\ Asked(u).op \in {"retrieve", "list"}
    /\ Return(u)
    /\ UNCHANGED <<db, tx, own, wrote, stale, holds, sent, unsent, made, told>>

\* The database refuses the statement under way.
DatabaseError(u) ==
    /\ InCall(u) /\ ~Refused(u)
    /\ \/ Deadlocked(u)
       \/ Locking(u) /\ ~Missing(u) /\ ChangedSince(u)
       \/ Ready(u) /\ ~Waits(u) /\ (KeyTaken(u) \/ Restricted(u))

\* The savepoint of the whole call; update and delete of the repository
\* open theirs after they have retrieved, and locked, the record.
WholeCallSaved(u) == Asked(u).service \/ Asked(u).op = "create"

\* Rolling back to the savepoint releases what was locked since.
Fail(u) ==
    /\ InCall(u)
    /\ \/ Refused(u)
       \/ Locking(u) /\ Missing(u)
       \/ DatabaseError(u) /\ (WholeCallSaved(u) \/ Ready(u))
    /\ holds' = [holds EXCEPT ![u] = IF WholeCallSaved(u) THEN call[u].saved ELSE @]
    /\ Return(u)
    /\ UNCHANGED <<db, tx, own, wrote, stale, sent, unsent, made, told>>

\* An error outside the savepoint of a call aborts the transaction, or what
\* it did since the innermost savepoint of the caller's blocks.
Abort(u) ==
    /\ Locking(u) /\ ~WholeCallSaved(u) /\ DatabaseError(u)
    /\ tx' = [tx EXCEPT ![u] = "aborted"]
    /\ \/ sent[u] = <<>> /\ holds' = [holds EXCEPT ![u] = {}] /\ UNCHANGED <<own, wrote>>
       \/ sent[u] # <<>> /\ Restore(u, Saved(u))
    /\ Return(u)
    /\ UNCHANGED <<db, stale, sent, unsent, made, told>>

-----------------------------------------------------------------------------
CallStep(u) ==
    \/ LockRow(u) \/ Create(u) \/ Update(u) \/ Delete(u) \/ Read(u)
    \/ Fail(u) \/ Abort(u)

AtomicStep(u) == AtomicBegin(u) \/ AtomicEnd(u) \/ AtomicFail(u)

End(u) == Commit(u) \/ CommitFails(u) \/ CommitAborted(u) \/ Leave(u)

Next == \E u \in Units : Enter(u) \/ StartCall(u) \/ CallStep(u) \/ AtomicStep(u) \/ Disconnect(u) \/ End(u)

Spec == Init /\ [][Next]_vars

(* Statements return or raise, and the with statement of a unit ends: its  *)
(* caller does not wait for other units within it.                         *)
FairSpec == Spec /\ \A u \in Units : WF_vars(CallStep(u)) /\ WF_vars(End(u))

-----------------------------------------------------------------------------
(* The contract, as unit u sees it.  A block that has sent no savepoint    *)
(* began with the ledger as it still is.                                   *)

Alone(u) == \A v \in Units \ {u} : tx[v] = "new"
Current(u) == IF tx[u] = "open" THEN own[u] ELSE db

C(u) == INSTANCE UnitOfWork WITH
        ServicesOnly <- \A c \in Requests : c.service,
        committed <- db,
        open <- tx[u] \in {"entered", "open"},
        txn <- Current(u),
        savepoints <- [n \in 1..Blocks(u) |->
            IF n > Len(sent[u]) THEN Current(u) ELSE sent[u][n].own]

-----------------------------------------------------------------------------
(* The database holds a whole ledger after every commit, however units     *)
(* that checked older snapshots overlap.                                   *)
DatabaseWhole == Integrity(db)

(* No unit overwrites a version it has not read: a row it has written and  *)
(* somebody else wrote since its snapshot is gone from the database.       *)
NoLostUpdate ==
    \A u \in Units : tx[u] = "open" =>
        \A row \in wrote[u] \cap stale[u] : db[row[1]][row[2]] = Absent

(* Units that have made one call each are never in a deadlock, however many *)
(* rows they hold and wait for: postings lock in one order.                *)
NoDeadlockOfSingleCalls ==
    (\A u \in Units : made[u] <= 1) => ~\E u \in Units : Deadlocked(u)

Commits(u) == tx[u] # "committed" /\ tx'[u] = "committed"

PostingsByService ==
    \A c \in Requests : c.op = "create" /\ c.table = "entries" => c.service

(* An entry posted through the service is committed only while its         *)
(* accounts are active, but for accounts its own unit has changed: a       *)
(* deactivation committed meanwhile is not overlooked.                     *)
PostedToActive ==
    [][\A u \in Units : Commits(u) /\ PostingsByService =>
          \A e \in Present(db'.entries) \ Present(db.entries) :
              \A a \in AccountsOf(db'.entries[e]) :
                  \/ AccountRow(a) \in wrote[u]
                  \/ db.accounts[a] # Absent /\ db.accounts[a].active]_vars

(* Nothing committed is altered or lost later: entries and audit events.   *)
CommittedHistoryStays == [][KeepsHistory(db, db')]_vars

\* Records are removed, and events added, by the service's deletions only.
DeletionsByService ==
    \A c \in Requests :
        /\ c.op = "delete" => c.service
        /\ c.op = "create" => c.table # "audit"

(* The commit of a unit that has made one call adds exactly one event for  *)
(* each record it removes, with the record as it was just before, when the *)
(* service deletes.                                                        *)
DeletionsAuditedExactly ==
    [][\A u \in Units : Commits(u) /\ made[u] <= 1 /\ DeletionsByService =>
          AuditedStep(db, db')]_vars

(* Every call returns or raises: no row is locked for ever, and those who  *)
(* wait for each other do not stay stuck.                                  *)
CallsFinish == \A u \in Units : InCall(u) ~> Idle(u)

(* The writes whose calls returned normally are stored when commit()       *)
(* returns normally.                                                       *)
CommitMeansCommitted ==
    \A u \in Units : told[u] = "committed" /\ wrote[u] # {} => tx[u] = "committed"

(* They are for callers who make every call in an atomic block.            *)
CarefulCommitsStored ==
    \A u \in Careful : told[u] = "committed" /\ wrote[u] # {} => tx[u] = "committed"

(* A commit() that raises says that the workflow was not committed.        *)
ErrorMeansNotCommitted == \A u \in Units : told[u] = "failed" => tx[u] # "committed"

(* A unit keeps the transaction contract while no other has entered: what  *)
(* a block did is undone whole when it fails, wherever its savepoint was   *)
(* sent, and what comes after it goes on from there.                       *)
ContractKeptAlone ==
    [][\A u \in Units : Alone(u)' =>
          C(u)!ContractNext \/ UNCHANGED C(u)!contractVars]_vars
=============================================================================
