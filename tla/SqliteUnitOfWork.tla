-------------------------- MODULE SqliteUnitOfWork --------------------------
(***************************************************************************)
(* SqlAlchemyUnitOfWork over a file-backed SQLite database.  A unit begins *)
(* its transaction with its first statement, by BEGIN IMMEDIATE: one unit  *)
(* at a time holds the write reservation, the others wait up to the busy   *)
(* timeout, and what an operation checks is what it then writes.  BEGIN    *)
(* and SAVEPOINT are sent with the first statement that needs them.        *)
(*                                                                         *)
(* Processes may die at any point; the journal file makes a COMMIT under   *)
(* way happen or not.  Calls of an operation that raise change nothing:    *)
(* their savepoint is rolled back, so they are no steps.  Left out are the *)
(* errors, a full disk or one of the device, on which SQLite itself rolls  *)
(* back the whole transaction in the middle of a statement, savepoints and *)
(* all; of a COMMIT that meets them, both outcomes are here.               *)
(***************************************************************************)
EXTENDS Ledger, SequencesExt

CONSTANTS
    Units,         \* slots for the units of work of all processes
    Drafts,        \* journal entries callers present, valid or not
    MaxDepth,      \* bound on nested atomic blocks of the caller
    ServicesOnly   \* callers use AccountingService only

ASSUME DraftsAssumption == Drafts \subseteq JournalEntry
ASSUME MaxDepthAssumption == MaxDepth \in Nat
ASSUME ServicesOnlyAssumption == ServicesOnly \in BOOLEAN

VARIABLES
    db,        \* the committed ledger
    reserved,  \* units with a transaction, which holds the reservation
    stage,     \* where each unit is
    work,      \* the ledger of its transaction
    sent,      \* the savepoints of its atomic blocks, outermost first
    unsent,    \* inner blocks that have not needed theirs yet
    told,      \* what commit() answered
    reading    \* another connection is reading the file

vars == <<db, reserved, stage, work, sent, unsent, told, reading>>

Stages == {"new", "active", "waiting", "committing", "done"}

TypeOK ==
    /\ db \in Ledgers
    /\ reserved \in SUBSET Units
    /\ stage \in [Units -> Stages]
    /\ work \in [Units -> Ledgers]
    /\ sent \in [Units -> Seq(Ledgers)]
    /\ unsent \in [Units -> Nat]
    /\ told \in [Units -> {"nothing", "committed", "failed"}]
    /\ reading \in BOOLEAN

Init ==
    /\ db = EmptyLedger
    /\ reserved = {}
    /\ stage = [u \in Units |-> "new"]
    /\ work = [u \in Units |-> EmptyLedger]
    /\ sent = [u \in Units |-> <<>>]
    /\ unsent = [u \in Units |-> 0]
    /\ told = [u \in Units |-> "nothing"]
    /\ reading = FALSE

-----------------------------------------------------------------------------
(* The unit and its reservation.                                           *)

Move(u, s) == stage' = [stage EXCEPT ![u] = s]

Enter(u) ==
    /\ stage[u] = "new"
    /\ Move(u, "active")
    /\ UNCHANGED <<db, reserved, work, sent, unsent, told, reading>>

\* The first statement of the unit, a read as well as a write.
FirstStatement(u) ==
    /\ stage[u] = "active" /\ u \notin reserved
    /\ Move(u, "waiting")
    /\ UNCHANGED <<db, reserved, work, sent, unsent, told, reading>>

\* Slip: the driver's deferred BEGIN reserves nothing.
Unhindered == TRUE

ReservationFree == reserved = {}

Reserve(u) ==
    /\ stage[u] = "waiting" /\ ReservationFree
    /\ reserved' = reserved \cup {u}
    /\ work' = [work EXCEPT ![u] = db]
    /\ Move(u, "active")
    /\ UNCHANGED <<db, sent, unsent, told, reading>>

\* The busy timeout: the call raises StorageError, the unit goes on without
\* a transaction.
BusyTimeout(u) ==
    /\ stage[u] = "waiting" /\ ~ReservationFree
    /\ Move(u, "active")
    /\ UNCHANGED <<db, reserved, work, sent, unsent, told, reading>>

\* The transaction is over and its connection has let go.
Release(u) ==
    /\ reserved' = reserved \ {u}
    /\ work' = [work EXCEPT ![u] = EmptyLedger]
    /\ sent' = [sent EXCEPT ![u] = <<>>]
    /\ unsent' = [unsent EXCEPT ![u] = 0]

\* commit() has sent COMMIT, which needs the file to itself.
AskCommit(u) ==
    /\ stage[u] = "active" /\ u \in reserved
    /\ Move(u, "committing")
    /\ UNCHANGED <<db, reserved, work, sent, unsent, told, reading>>

\* commit() of a unit that never sent a statement.
CommitNothing(u) ==
    /\ stage[u] = "active" /\ u \notin reserved
    /\ Move(u, "done")
    /\ Release(u)
    /\ told' = [told EXCEPT ![u] = "committed"]
    /\ UNCHANGED <<db, reading>>

Publish(u) ==
    /\ stage[u] = "committing" /\ ~reading
    /\ db' = work[u]
    /\ Release(u)
    /\ Move(u, "done")
    /\ told' = [told EXCEPT ![u] = "committed"]
    /\ UNCHANGED reading

\* Slip: the scope stays usable after a failed commit.
CommitFailsOpen(u) ==
    /\ stage[u] = "committing"
    /\ Move(u, "active")
    /\ told' = [told EXCEPT ![u] = "failed"]
    /\ UNCHANGED <<db, reserved, work, sent, unsent, reading>>

\* Readers outlast the timeout.  The scope is closed, but its connection
\* keeps the transaction and the reservation.
CommitFails(u) ==
    /\ stage[u] = "committing"
    /\ Move(u, "done")
    /\ told' = [told EXCEPT ![u] = "failed"]
    /\ UNCHANGED <<db, reserved, work, sent, unsent, reading>>

\* The disk is full: SQLite has rolled the transaction back.
CommitRolledBack(u) ==
    /\ stage[u] = "committing"
    /\ Release(u)
    /\ Move(u, "done")
    /\ told' = [told EXCEPT ![u] = "failed"]
    /\ UNCHANGED <<db, reading>>

Rollback(u) ==
    /\ stage[u] = "active"
    /\ Move(u, "done")
    /\ Release(u)
    /\ UNCHANGED <<db, told, reading>>

\* Slip: the session is dropped without being closed.
LeaveOpen(u) ==
    /\ stage[u] \in {"active", "done"}
    /\ Move(u, "new")
    /\ told' = [told EXCEPT ![u] = "nothing"]
    /\ sent' = [sent EXCEPT ![u] = <<>>]
    /\ unsent' = [unsent EXCEPT ![u] = 0]
    /\ UNCHANGED <<db, reserved, work, reading>>

\* The end of the with statement, and the slot taken by the next unit.
Leave(u) ==
    /\ stage[u] \in {"active", "done"}
    /\ Move(u, "new")
    /\ Release(u)
    /\ told' = [told EXCEPT ![u] = "nothing"]
    /\ UNCHANGED <<db, reading>>

\* The process dies; the file is as before or after the COMMIT under way.
Crash(u) ==
    /\ stage[u] # "new"
    /\ \/ UNCHANGED db
       \/ stage[u] = "committing" /\ db' = work[u]
    /\ Move(u, "new")
    /\ Release(u)
    /\ told' = [told EXCEPT ![u] = "nothing"]
    /\ UNCHANGED reading

\* A COMMIT that waits for readers keeps new ones out.
ReadElsewhere ==
    /\ reading \/ \A u \in Units : stage[u] # "committing"
    /\ reading' = ~reading
    /\ UNCHANGED <<db, reserved, stage, work, sent, unsent, told>>

-----------------------------------------------------------------------------
(* Atomic blocks.                                                          *)

AtomicBegin(u) ==
    /\ stage[u] = "active" /\ Len(sent[u]) + unsent[u] < MaxDepth
    /\ unsent' = [unsent EXCEPT ![u] = @ + 1]
    /\ UNCHANGED <<db, reserved, stage, work, sent, told, reading>>

\* Before a statement the savepoints of all open blocks, outermost first.
SendSavepoint(u) ==
    /\ stage[u] = "active" /\ u \in reserved /\ unsent[u] > 0
    /\ sent' = [sent EXCEPT ![u] = Append(@, work[u])]
    /\ unsent' = [unsent EXCEPT ![u] = @ - 1]
    /\ UNCHANGED <<db, reserved, stage, work, told, reading>>

\* The innermost block is over.
Close(u) ==
    /\ stage[u] = "active"
    /\ \/ /\ unsent[u] > 0
          /\ unsent' = [unsent EXCEPT ![u] = @ - 1]
          /\ UNCHANGED sent
       \/ /\ unsent[u] = 0 /\ sent[u] # <<>>
          /\ sent' = [sent EXCEPT ![u] = Front(@)]
          /\ UNCHANGED unsent
    /\ UNCHANGED <<db, reserved, stage, told, reading>>

AtomicEnd(u) == Close(u) /\ UNCHANGED work

SavedLast(u) == IF unsent[u] > 0 THEN work[u] ELSE Last(sent[u])

AtomicFail(u) == Close(u) /\ work' = [work EXCEPT ![u] = SavedLast(u)]

-----------------------------------------------------------------------------
(* Operations, each within a savepoint of its own.                         *)

Operating(u) ==
    stage[u] = "active" /\ u \in reserved /\ unsent[u] = 0

Write(u, L) ==
    /\ Operating(u)
    /\ work' = [work EXCEPT ![u] = L]
    /\ UNCHANGED <<db, reserved, stage, sent, unsent, told, reading>>

CreateAccount(u) == \E a \in AccountIds, record \in Account :
    MayCreateAccount(work[u], a, record) /\ Write(u, PutAccount(work[u], a, record))

UpdateAccount(u) == \E a \in AccountIds, record \in Account :
    MayUpdateAccount(work[u], a, record) /\ Write(u, PutAccount(work[u], a, record))

CreateJournal(u) == \E j \in JournalIds, record \in Journal :
    MayCreateJournal(work[u], j, record) /\ Write(u, PutJournal(work[u], j, record))

UpdateJournal(u) == \E j \in JournalIds, record \in Journal :
    MayUpdateJournal(work[u], j, record) /\ Write(u, PutJournal(work[u], j, record))

PostEntry(u) == \E e \in EntryIds, draft \in Drafts :
    MayPostEntry(work[u], e, draft) /\ Write(u, PutEntry(work[u], e, draft))

DeleteAccount(u) == \E a \in AccountIds, ev \in EventIds :
    /\ MayDeleteAccount(work[u], a) /\ MayAppend(work[u], ev)
    /\ Write(u, PutEvent(PutAccount(work[u], a, Absent), ev, AccountDeleted(work[u], a)))

DeleteJournal(u) == \E j \in JournalIds, ev \in EventIds :
    /\ MayDeleteJournal(work[u], j) /\ MayAppend(work[u], ev)
    /\ Write(u, PutEvent(PutJournal(work[u], j, Absent), ev, JournalDeleted(work[u], j)))

\* The statement that would lead to L is refused by a foreign key.
Restricted(L) == ~ReferencesResolve(L)

\* The repositories used without the service.
CreateEntry(u) == \E e \in EntryIds, draft \in Drafts :
    ~ServicesOnly /\ MayCreateEntry(work[u], e, draft) /\ Write(u, PutEntry(work[u], e, draft))

DeleteRow(u, L) == ~ServicesOnly /\ ~Restricted(L) /\ Write(u, L)

RemoveAccount(u) == \E a \in Present(work[u].accounts) :
    DeleteRow(u, PutAccount(work[u], a, Absent))

RemoveJournal(u) == \E j \in Present(work[u].journals) :
    DeleteRow(u, PutJournal(work[u], j, Absent))

AppendEvent(u) == \E ev \in EventIds, event \in AuditEvent :
    ~ServicesOnly /\ MayAppend(work[u], ev) /\ Write(u, PutEvent(work[u], ev, event))

-----------------------------------------------------------------------------
Begins(u) == Reserve(u) \/ BusyTimeout(u)

Settles(u) == Publish(u) \/ CommitFails(u) \/ CommitRolledBack(u)

UnitStep(u) ==
    \/ Enter(u) \/ FirstStatement(u) \/ Begins(u)
    \/ AskCommit(u) \/ CommitNothing(u) \/ Settles(u)
    \/ Rollback(u) \/ Leave(u) \/ Crash(u)

AtomicStep(u) == AtomicBegin(u) \/ SendSavepoint(u) \/ AtomicEnd(u) \/ AtomicFail(u)

Operation(u) ==
    \/ CreateAccount(u) \/ UpdateAccount(u) \/ CreateJournal(u) \/ UpdateJournal(u)
    \/ PostEntry(u) \/ DeleteAccount(u) \/ DeleteJournal(u)
    \/ CreateEntry(u) \/ RemoveAccount(u) \/ RemoveJournal(u) \/ AppendEvent(u)

Next ==
    \/ \E u \in Units : UnitStep(u) \/ AtomicStep(u) \/ Operation(u)
    \/ ReadElsewhere

Spec == Init /\ [][Next]_vars

(* Statements return or raise, and the with statement of a unit ends.      *)
FairSpec ==
    Spec /\ \A u \in Units : WF_vars(Begins(u)) /\ WF_vars(Settles(u)) /\ WF_vars(Leave(u))

-----------------------------------------------------------------------------
(* The contract this implements: a unit is open from its reservation to    *)
(* the answer of its commit.                                               *)

OpenUnits == {u \in reserved : stage[u] \in {"active", "committing"}}
Open == OpenUnits # {}
Current == CHOOSE u \in OpenUnits : TRUE
Txn == IF Open THEN work[Current] ELSE db
Savepoints == IF Open THEN sent[Current] ELSE <<>>

C == INSTANCE UnitOfWork WITH
        committed <- db, open <- Open, txn <- Txn, savepoints <- Savepoints

-----------------------------------------------------------------------------
(* The database file, every transaction on it and every savepoint hold     *)
(* whole ledgers, for direct callers of the repositories too, whose        *)
(* deletions only the foreign keys restrain.                               *)
StoreWhole ==
    /\ Integrity(db)
    /\ \A u \in reserved :
          /\ Integrity(work[u])
          /\ \A n \in DOMAIN sent[u] : Integrity(sent[u][n])

(* Units on one file, their late transactions, lazily sent savepoints,     *)
(* crashes and failed commits included, keep the transaction contract.     *)
ContractKept == C!Contract

(* A commit() that raised has the last word: the unit publishes nothing    *)
(* later, whatever its caller tries before the scope ends.                 *)
FailedCommitsFinal ==
    [][\A u \in Units : told[u] = "failed" =>
          told'[u] # "committed" /\ (stage'[u] = "done" \/ db' = db)]_vars

(* Nobody keeps the reservation for ever: a commit that failed, which does *)
(* not give it up, is followed by the end of the scope, which does.  And   *)
(* no first statement waits for ever, however many units pass it by.       *)
WaitingEnds ==
    \A u \in Units :
        /\ u \in reserved ~> u \notin reserved
        /\ stage[u] = "waiting" ~> stage[u] # "waiting"
=============================================================================
