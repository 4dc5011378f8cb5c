-------------------------- MODULE MemoryUnitOfWork --------------------------
(***************************************************************************)
(* InMemoryStore and its units of work (lumbago/persistence/memory.py),    *)
(* driven by AccountingService and, unless ServicesOnly, by direct use of  *)
(* the repositories.                                                       *)
(*                                                                         *)
(* A scope is a slot for one InMemoryUnitOfWork object.  Calls of          *)
(* different scopes may come in any order; the calls on one scope are      *)
(* sequential, and its atomic blocks and service calls nest as with        *)
(* statements do.  A call that raises before it writes changes nothing and *)
(* is not a step.  A service deletion writes twice, so it takes two steps, *)
(* either of which may be followed by an exception instead.                *)
(***************************************************************************)
EXTENDS Ledger

CONSTANTS
    Scopes,
    Drafts,        \* journal entries callers present, valid or not
    MaxDepth,      \* bound on nested atomic blocks opened by the caller
    NoCall,        \* no service call is under way
    ServicesOnly

ASSUME DraftsAssumption == Drafts \subseteq JournalEntry
ASSUME MaxDepthAssumption == MaxDepth \in Nat
ASSUME NoCallAssumption == NoCall \notin AuditEvent
ASSUME ServicesOnlyAssumption == ServicesOnly \in BOOLEAN

VARIABLES
    state,     \* InMemoryStore._state, the committed ledger
    in_use,    \* InMemoryStore._in_use, the claim of the open scope
    used,      \* InMemoryUnitOfWork._used, per scope
    entered,   \* InMemoryUnitOfWork._entered
    active,    \* InMemoryUnitOfWork._active
    repos,     \* the records its four repositories hold
    frames,    \* the snapshots of its running atomic blocks, outermost first
    deleting   \* the event a running service deletion has yet to append

flags == <<in_use, used, entered, active>>
vars == <<state, in_use, used, entered, active, repos, frames, deleting>>

TypeOK ==
    /\ state \in Ledgers
    /\ in_use \in BOOLEAN
    /\ used \in [Scopes -> BOOLEAN]
    /\ entered \in [Scopes -> BOOLEAN]
    /\ active \in [Scopes -> BOOLEAN]
    /\ repos \in [Scopes -> Ledgers]
    /\ frames \in [Scopes -> Seq(Ledgers)]
    /\ deleting \in [Scopes -> AuditEvent \cup {NoCall}]

Init ==
    /\ state = EmptyLedger
    /\ in_use = FALSE
    /\ used = [s \in Scopes |-> FALSE]
    /\ entered = [s \in Scopes |-> FALSE]
    /\ active = [s \in Scopes |-> FALSE]
    /\ repos = [s \in Scopes |-> EmptyLedger]
    /\ frames = [s \in Scopes |-> <<>>]
    /\ deleting = [s \in Scopes |-> NoCall]

-----------------------------------------------------------------------------
(* The scope itself.                                                       *)

\* InMemoryStore.unit_of_work makes a new object; the slot of one that has
\* been left is taken again.
NewScope(s) ==
    /\ used[s] /\ ~entered[s]
    /\ used' = [used EXCEPT ![s] = FALSE]
    /\ UNCHANGED <<state, in_use, entered, active, repos, frames, deleting>>

\* Slip: only reuse of the object is refused.
MayEnterBeside(s) == ~used[s]

MayEnter(s) == ~(used[s] \/ in_use)

Enter(s) ==
    /\ MayEnter(s)
    /\ in_use' = TRUE
    /\ used' = [used EXCEPT ![s] = TRUE]
    /\ entered' = [entered EXCEPT ![s] = TRUE]
    /\ active' = [active EXCEPT ![s] = TRUE]
    /\ repos' = [repos EXCEPT ![s] = state]
    /\ UNCHANGED <<state, frames, deleting>>

\* The control is with the caller, outside every service call.
Idle(s) == deleting[s] = NoCall

\* Slip: every exit gives the claim back.
NoClaimAfterExit(s) == FALSE

\* Only a scope that was entered gives the claim back.
ClaimAfterExit(s) == in_use /\ ~entered[s]

Exit(s) ==
    /\ Idle(s) /\ frames[s] = <<>>
    /\ in_use' = ClaimAfterExit(s)
    /\ entered' = [entered EXCEPT ![s] = FALSE]
    /\ active' = [active EXCEPT ![s] = FALSE]
    /\ repos' = [repos EXCEPT ![s] = EmptyLedger]
    /\ UNCHANGED <<state, used, frames, deleting>>

Commit(s) ==
    /\ active[s] /\ Idle(s)
    /\ state' = repos[s]
    /\ active' = [active EXCEPT ![s] = FALSE]
    /\ UNCHANGED <<in_use, used, entered, repos, frames, deleting>>

Rollback(s) ==
    /\ active[s] /\ Idle(s)
    /\ active' = [active EXCEPT ![s] = FALSE]
    /\ UNCHANGED <<state, in_use, used, entered, repos, frames, deleting>>

-----------------------------------------------------------------------------
(* Atomic blocks.  A block may commit or roll back the scope it runs in;   *)
(* its end, and the reload when it fails, do not ask whether the scope is  *)
(* still active.                                                           *)

Push(stack, L) == Append(stack, L)
Pop(stack) == SubSeq(stack, 1, Len(stack) - 1)
Top(stack) == stack[Len(stack)]

\* Slip: the audit log is not reloaded.
LoadRecordsOnly(L, snapshot) == [snapshot EXCEPT !.audit = L.audit]

\* Slip: nothing is reloaded.
LoadNothing(L, snapshot) == L

\* _load: all four collections come from the snapshot.
Load(L, snapshot) == snapshot

AtomicBegin(s) ==
    /\ active[s] /\ Idle(s)
    /\ Len(frames[s]) < MaxDepth
    /\ frames' = [frames EXCEPT ![s] = Push(@, repos[s])]
    /\ UNCHANGED <<state, flags, repos, deleting>>

AtomicEnd(s) ==
    /\ Idle(s) /\ frames[s] # <<>>
    /\ frames' = [frames EXCEPT ![s] = Pop(@)]
    /\ UNCHANGED <<state, flags, repos, deleting>>

AtomicFail(s) ==
    /\ Idle(s) /\ frames[s] # <<>>
    /\ repos' = [repos EXCEPT ![s] = Load(@, Top(frames[s]))]
    /\ frames' = [frames EXCEPT ![s] = Pop(@)]
    /\ UNCHANGED <<state, flags, deleting>>

-----------------------------------------------------------------------------
(* Operations that write once.  Service and repository agree on all of     *)
(* them but the creation of entries and the deletions.                     *)

Write(s, L) ==
    /\ repos' = [repos EXCEPT ![s] = L]
    /\ UNCHANGED <<state, flags, frames, deleting>>

Working(s) == active[s] /\ Idle(s)

CreateAccount(s) ==
    \E a \in AccountIds, record \in Account :
        /\ Working(s) /\ MayCreateAccount(repos[s], a, record)
        /\ Write(s, PutAccount(repos[s], a, record))

UpdateAccount(s) ==
    \E a \in AccountIds, record \in Account :
        /\ Working(s) /\ MayUpdateAccount(repos[s], a, record)
        /\ Write(s, PutAccount(repos[s], a, record))

CreateJournal(s) ==
    \E j \in JournalIds, record \in Journal :
        /\ Working(s) /\ MayCreateJournal(repos[s], j, record)
        /\ Write(s, PutJournal(repos[s], j, record))

UpdateJournal(s) ==
    \E j \in JournalIds, record \in Journal :
        /\ Working(s) /\ MayUpdateJournal(repos[s], j, record)
        /\ Write(s, PutJournal(repos[s], j, record))

PostEntry(s) ==
    \E e \in EntryIds, draft \in Drafts :
        /\ Working(s) /\ MayPostEntry(repos[s], e, draft)
        /\ Write(s, PutEntry(repos[s], e, draft))

\* journal_entries.create called by the caller itself.
CreateEntry(s) ==
    \E e \in EntryIds, draft \in Drafts :
        /\ ~ServicesOnly
        /\ Working(s) /\ MayCreateEntry(repos[s], e, draft)
        /\ Write(s, PutEntry(repos[s], e, draft))

\* accounts.delete, journals.delete and audit_events.append, likewise.
RemoveAccount(s) ==
    \E a \in AccountIds :
        /\ ~ServicesOnly
        /\ Working(s) /\ MayDeleteAccount(repos[s], a)
        /\ Write(s, PutAccount(repos[s], a, Absent))

RemoveJournal(s) ==
    \E j \in JournalIds :
        /\ ~ServicesOnly
        /\ Working(s) /\ MayDeleteJournal(repos[s], j)
        /\ Write(s, PutJournal(repos[s], j, Absent))

AppendEvent(s) ==
    \E ev \in EventIds, event \in AuditEvent :
        /\ ~ServicesOnly
        /\ Working(s) /\ MayAppend(repos[s], ev)
        /\ Write(s, PutEvent(repos[s], ev, event))

-----------------------------------------------------------------------------
(* AccountingService.delete_account and delete_journal: inside an atomic   *)
(* block, delete the record, then append its event.                        *)

StartDeletion(s, event, L) ==
    /\ deleting' = [deleting EXCEPT ![s] = event]
    /\ frames' = [frames EXCEPT ![s] = Push(@, repos[s])]
    /\ repos' = [repos EXCEPT ![s] = L]
    /\ UNCHANGED <<state, flags>>

DeleteAccount(s) ==
    \E a \in AccountIds :
        /\ Working(s) /\ MayDeleteAccount(repos[s], a)
        /\ StartDeletion(s, AccountDeleted(repos[s], a),
                         PutAccount(repos[s], a, Absent))

DeleteJournal(s) ==
    \E j \in JournalIds :
        /\ Working(s) /\ MayDeleteJournal(repos[s], j)
        /\ StartDeletion(s, JournalDeleted(repos[s], j),
                         PutJournal(repos[s], j, Absent))

FinishDeletion(s) ==
    \E ev \in EventIds :
        /\ ~Idle(s) /\ MayAppend(repos[s], ev)
        /\ repos' = [repos EXCEPT ![s] = PutEvent(@, ev, deleting[s])]
        /\ frames' = [frames EXCEPT ![s] = Pop(@)]
        /\ deleting' = [deleting EXCEPT ![s] = NoCall]
        /\ UNCHANGED <<state, flags>>

\* An exception between the two writes, from the second or after it.
FailDeletion(s) ==
    /\ ~Idle(s)
    /\ repos' = [repos EXCEPT ![s] = Load(@, Top(frames[s]))]
    /\ frames' = [frames EXCEPT ![s] = Pop(@)]
    /\ deleting' = [deleting EXCEPT ![s] = NoCall]
    /\ UNCHANGED <<state, flags>>

-----------------------------------------------------------------------------
ScopeStep(s) == NewScope(s) \/ Enter(s) \/ Exit(s) \/ Commit(s) \/ Rollback(s)

AtomicStep(s) == AtomicBegin(s) \/ AtomicEnd(s) \/ AtomicFail(s)

Operation(s) ==
    \/ CreateAccount(s) \/ UpdateAccount(s)
    \/ CreateJournal(s) \/ UpdateJournal(s)
    \/ PostEntry(s)
    \/ CreateEntry(s) \/ RemoveAccount(s) \/ RemoveJournal(s) \/ AppendEvent(s)

DeletionStep(s) ==
    DeleteAccount(s) \/ DeleteJournal(s) \/ FinishDeletion(s) \/ FailDeletion(s)

Next == \E s \in Scopes :
    ScopeStep(s) \/ AtomicStep(s) \/ Operation(s) \/ DeletionStep(s)

Spec == Init /\ [][Next]_vars

-----------------------------------------------------------------------------
(* The contract this implements.  While a service deletion is half done    *)
(* its own snapshot is the ledger the caller last saw.                     *)

Open == \E s \in Scopes : active[s]
Current == CHOOSE s \in Scopes : active[s]

Txn ==
    IF ~Open THEN state
    ELSE IF Idle(Current) THEN repos[Current] ELSE Top(frames[Current])

Savepoints ==
    IF ~Open THEN <<>>
    ELSE IF Idle(Current) THEN frames[Current] ELSE Pop(frames[Current])

C == INSTANCE UnitOfWork WITH committed <- state, open <- Open,
                              txn <- Txn, savepoints <- Savepoints

-----------------------------------------------------------------------------
(* Every ledger in the store is whole: the committed one, the one each     *)
(* scope works on, half-way through a deletion too, and each snapshot a    *)
(* failing block would put back.  No sequence of legal calls leaves an     *)
(* entry unbalanced, a reference dangling or two codes equal but for case. *)
LedgerIntegrity ==
    /\ Integrity(state)
    /\ \A s \in Scopes :
          /\ Integrity(repos[s])
          /\ \A n \in DOMAIN frames[s] : Integrity(frames[s][n])

(* No entry moves value from one currency to another or makes any: in each *)
(* currency the debits and the credits of every entry a scope holds or has *)
(* committed cancel out, counted apart from the totals the validator keeps *)
(* in its buckets, whichever entries callers present.                      *)
BooksBalance == BooksClose(state) /\ \A s \in Scopes : BooksClose(repos[s])

(* The claim on the store is up exactly while some scope is entered, and   *)
(* no two scopes are: leaving a scope that failed to enter, or leaving one *)
(* twice, never lets a second unit of work in beside the first.            *)
ExclusiveScope ==
    /\ in_use <=> \E s \in Scopes : entered[s]
    /\ \A s, t \in Scopes : entered[s] /\ entered[t] => s = t
    /\ \A s \in Scopes : active[s] => entered[s]

(* What is committed stays: no later unit of work, whatever it does or     *)
(* undoes, alters or loses a committed entry or audit event.               *)
HistoryKept == [][KeepsHistory(state, state')]_vars

(* When callers keep to AccountingService, a commit that makes an account  *)
(* or a journal disappear brings a new audit event for it, whatever blocks *)
(* failed and whatever deletions were interrupted on the way.              *)
DeletionsAudited == [][ServicesOnly => VanishedAudited(state, state')]_vars

(* The memory store implements the transaction contract of UnitOfWork.tla. *)
ContractKept == C!Contract
=============================================================================
