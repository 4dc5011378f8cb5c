------------------------ MODULE SqliteUnitOfWorkProofs ------------------------
(***************************************************************************)
(* Units of work over a SQLite file admit one transaction at a time, keep  *)
(* the file whole, publish nothing after a failed commit and implement the *)
(* contract of UnitOfWork.tla, for any number of units, records and nested *)
(* blocks, through timeouts, failed commits and crashes.                   *)
(***************************************************************************)
EXTENDS SqliteUnitOfWork, LedgerProofs

-----------------------------------------------------------------------------
(* Part 1: the inductive invariant.                                        *)

WholeInv ==
    /\ db \in WholeLedgers
    /\ reserved \in SUBSET Units
    /\ stage \in [Units -> Stages]
    /\ work \in [Units -> WholeLedgers]
    /\ sent \in [Units -> Seq(WholeLedgers)]
    /\ unsent \in [Units -> Nat]
    /\ told \in [Units -> {"nothing", "committed", "failed"}]
    /\ reading \in BOOLEAN

(* One unit has the reservation, in the stages in which it has begun its   *)
(* transaction; savepoints exist within a transaction only; a unit whose   *)
(* commit failed is done.                                                  *)
ReservedInv ==
    /\ \A u, v \in reserved : u = v
    /\ \A u \in Units :
          /\ stage[u] \in {"new", "waiting"} => u \notin reserved
          /\ stage[u] = "committing" => u \in reserved
          /\ u \notin reserved => sent[u] = <<>>
          /\ told[u] = "failed" => stage[u] = "done"

UnitInv == WholeInv /\ ReservedInv

(* The invariant implies what the run checks.                              *)
LEMMA UnitInvImplies == UnitInv => TypeOK /\ StoreWhole
<1> SUFFICES ASSUME UnitInv
             PROVE  TypeOK /\ StoreWhole
  OBVIOUS
<1>1. \A L \in WholeLedgers : L \in Ledgers /\ Integrity(L)
  BY DEF WholeLedgers
<1>2. \A u \in Units : sent[u] \in Seq(Ledgers)
  BY <1>1 DEF UnitInv, WholeInv
<1>3. TypeOK
  BY <1>1, <1>2 DEF UnitInv, WholeInv, TypeOK
<1>4. \A u \in Units : \A n \in DOMAIN sent[u] : sent[u][n] \in WholeLedgers
  BY DEF UnitInv, WholeInv
<1>5. StoreWhole
  BY <1>1, <1>4 DEF UnitInv, WholeInv, StoreWhole
<1> QED
  BY <1>3, <1>5

(* A savepoint sent last is the one a block goes back to.                  *)
LEMMA SavepointFacts ==
    ASSUME NEW S, NEW saved \in Seq(S), saved # <<>>
    PROVE  /\ Last(saved) \in S
           /\ Front(saved) \in Seq(S)
           /\ Last(saved) = saved[Len(saved)]
           /\ Front(saved) = SubSeq(saved, 1, Len(saved) - 1)
BY DEF Last, Front

LEMMA UnitInvInit == Init => UnitInv
<1> SUFFICES ASSUME Init
             PROVE  UnitInv
  OBVIOUS
<1>1. sent \in [Units -> Seq(WholeLedgers)] /\ unsent \in [Units -> Nat]
  BY DEF Init
<1>2. WholeInv
  BY <1>1, EmptyLedgerWhole DEF Init, WholeInv, Stages
<1>3. ReservedInv
  BY DEF Init, ReservedInv
<1> QED
  BY <1>2, <1>3 DEF UnitInv

(* A foreign key that lets the deletion of an account through finds no     *)
(* entry that uses it.                                                     *)
LEMMA RestrictedAccount ==
    ASSUME NEW L \in WholeLedgers, NEW a \in Present(L.accounts),
           ~Restricted(PutAccount(L, a, Absent))
    PROVE  a \in AccountIds /\ MayDeleteAccount(L, a)
<1> DEFINE M == PutAccount(L, a, Absent)
<1>1. L \in Ledgers /\ a \in AccountIds
  BY DEF WholeLedgers, Ledgers, Present
<1>2. M.entries = L.entries /\ M.accounts[a] = Absent
  BY <1>1 DEF Ledgers, PutAccount
<1>3. ReferencesResolve(M)
  BY DEF Restricted
<1>4. ~AccountUsed(L, a)
  BY <1>2, <1>3 DEF ReferencesResolve, AccountUsed
<1> QED
  BY <1>1, <1>4 DEF MayDeleteAccount, Present

(* The same for journals.                                                  *)
LEMMA RestrictedJournal ==
    ASSUME NEW L \in WholeLedgers, NEW j \in Present(L.journals),
           ~Restricted(PutJournal(L, j, Absent))
    PROVE  j \in JournalIds /\ MayDeleteJournal(L, j)
<1> DEFINE M == PutJournal(L, j, Absent)
<1>1. L \in Ledgers /\ j \in JournalIds
  BY DEF WholeLedgers, Ledgers, Present
<1>2. M.entries = L.entries /\ M.journals[j] = Absent
  BY <1>1 DEF Ledgers, PutJournal
<1>3. ReferencesResolve(M)
  BY DEF Restricted
<1>4. ~JournalUsed(L, j)
  BY <1>2, <1>3 DEF ReferencesResolve, JournalUsed
<1> QED
  BY <1>1, <1>4 DEF MayDeleteJournal, Present

(* What an operation writes is whole, keeps history and, by the service,   *)
(* is audited in the same step.                                            *)
LEMMA OperationStep ==
    ASSUME UnitInv, NEW u \in Units, Operation(u)
    PROVE  \E L \in WholeLedgers :
              /\ Write(u, L)
              /\ KeepsHistory(work[u], L)
              /\ ServicesOnly => AuditedStep(work[u], L)
<1> work[u] \in WholeLedgers /\ work[u] \in Ledgers
  BY DEF UnitInv, WholeInv, WholeLedgers
<1> USE DEF ServiceStep
<1>1. CASE CreateAccount(u)
  BY <1>1, PutAccountWhole, PutAccountStep DEF CreateAccount, MayCreateAccount
<1>2. CASE UpdateAccount(u)
  BY <1>2, PutAccountWhole, PutAccountStep DEF UpdateAccount, MayUpdateAccount
<1>3. CASE CreateJournal(u)
  BY <1>3, PutJournalWhole, PutJournalStep DEF CreateJournal, MayCreateJournal
<1>4. CASE UpdateJournal(u)
  BY <1>4, PutJournalWhole, PutJournalStep DEF UpdateJournal, MayUpdateJournal
<1>5. CASE PostEntry(u)
  BY <1>5, PutEntryWhole, PutEntryStep, DraftsAssumption
     DEF PostEntry, MayPostEntry, MayCreateEntry
<1>6. CASE CreateEntry(u)
  BY <1>6, PutEntryWhole, PutEntryStep, DraftsAssumption DEF CreateEntry, MayCreateEntry
<1>7. CASE DeleteAccount(u)
  <2>1. PICK a \in AccountIds, ev \in EventIds :
            /\ MayDeleteAccount(work[u], a) /\ MayAppend(work[u], ev)
            /\ Write(u, PutEvent(PutAccount(work[u], a, Absent), ev,
                                 AccountDeleted(work[u], a)))
    BY <1>7 DEF DeleteAccount
  <2>2. AccountDeleted(work[u], a) \in AuditEvent
    BY <2>1 DEF AccountDeleted, AuditEvent, MayDeleteAccount, Ledgers, OrAbsent
  <2>3. PutEvent(PutAccount(work[u], a, Absent), ev, AccountDeleted(work[u], a))
            \in WholeLedgers
    BY <2>1, <2>2, RemoveAccountWhole, PutEventWhole
  <2> QED
    BY <2>1, <2>3, DeleteAccountStep DEF MayDeleteAccount, MayAppend
<1>8. CASE DeleteJournal(u)
  <2>1. PICK j \in JournalIds, ev \in EventIds :
            /\ MayDeleteJournal(work[u], j) /\ MayAppend(work[u], ev)
            /\ Write(u, PutEvent(PutJournal(work[u], j, Absent), ev,
                                 JournalDeleted(work[u], j)))
    BY <1>8 DEF DeleteJournal
  <2>2. JournalDeleted(work[u], j) \in AuditEvent
    BY <2>1 DEF JournalDeleted, AuditEvent, MayDeleteJournal, Ledgers, OrAbsent
  <2>3. PutEvent(PutJournal(work[u], j, Absent), ev, JournalDeleted(work[u], j))
            \in WholeLedgers
    BY <2>1, <2>2, RemoveJournalWhole, PutEventWhole
  <2> QED
    BY <2>1, <2>3, DeleteJournalStep DEF MayDeleteJournal, MayAppend
<1>9. CASE RemoveAccount(u)
  BY <1>9, RestrictedAccount, RemoveAccountWhole, RemovalHistory
     DEF RemoveAccount, DeleteRow
<1>10. CASE RemoveJournal(u)
  BY <1>10, RestrictedJournal, RemoveJournalWhole, RemovalHistory
     DEF RemoveJournal, DeleteRow
<1>11. CASE AppendEvent(u)
  BY <1>11, PutEventWhole, PutEventHistory DEF AppendEvent
<1> QED
  BY <1>1, <1>2, <1>3, <1>4, <1>5, <1>6, <1>7, <1>8, <1>9, <1>10, <1>11
     DEF Operation

(* Entering, beginning, committing and leaving keep the invariant.         *)
LEMMA UnitStepInv ==
    ASSUME UnitInv, NEW u \in Units, UnitStep(u)
    PROVE  UnitInv'
<1> USE DEF UnitInv, WholeInv, ReservedInv, Stages, Move
<1>1. CASE Enter(u)
  BY <1>1 DEF Enter
<1>2. CASE FirstStatement(u)
  BY <1>2 DEF FirstStatement
<1>3. CASE Reserve(u)
  BY <1>3 DEF Reserve, ReservationFree
<1>4. CASE BusyTimeout(u)
  BY <1>4 DEF BusyTimeout
<1>5. CASE AskCommit(u)
  BY <1>5 DEF AskCommit
<1>6. CASE CommitFails(u)
  BY <1>6 DEF CommitFails
<1>7. ASSUME Release(u)
      PROVE  /\ reserved' \in SUBSET Units /\ u \notin reserved'
             /\ work' \in [Units -> WholeLedgers]
             /\ sent' \in [Units -> Seq(WholeLedgers)]
             /\ unsent' \in [Units -> Nat]
  BY <1>7, EmptyLedgerWhole DEF Release
<1>8. CASE CommitNothing(u)
  BY <1>7, <1>8 DEF CommitNothing, Release
<1>9. CASE Publish(u)
  BY <1>7, <1>9 DEF Publish, Release
<1>10. CASE Rollback(u)
  BY <1>7, <1>10 DEF Rollback, Release
<1>11. CASE Leave(u)
  BY <1>7, <1>11 DEF Leave, Release
<1>12. CASE Crash(u)
  BY <1>7, <1>12 DEF Crash, Release
<1>13. CASE CommitRolledBack(u)
  BY <1>7, <1>13 DEF CommitRolledBack, Release
<1> QED
  BY <1>1, <1>2, <1>3, <1>4, <1>5, <1>6, <1>8, <1>9, <1>10, <1>11, <1>12, <1>13
     DEF UnitStep, Begins, Settles

(* So do the blocks of a caller.                                           *)
LEMMA AtomicStepInv ==
    ASSUME UnitInv, NEW u \in Units, AtomicStep(u)
    PROVE  UnitInv'
<1> USE DEF UnitInv, WholeInv, ReservedInv
<1>1. CASE AtomicBegin(u)
  BY <1>1 DEF AtomicBegin
<1>2. CASE SendSavepoint(u)
  BY <1>2 DEF SendSavepoint
<1>3. ASSUME Close(u)
      PROVE  sent' \in [Units -> Seq(WholeLedgers)] /\ unsent' \in [Units -> Nat]
  <2>1. CASE unsent[u] > 0
    BY <1>3, <2>1 DEF Close
  <2>2. CASE ~(unsent[u] > 0)
    <3>1. sent[u] \in Seq(WholeLedgers) /\ sent[u] # <<>>
      BY <1>3, <2>2 DEF Close
    <3>2. Front(sent[u]) \in Seq(WholeLedgers)
      BY <3>1, SavepointFacts
    <3> QED
      BY <1>3, <2>2, <3>2 DEF Close
  <2> QED
    BY <2>1, <2>2
<1>4. CASE AtomicEnd(u)
  BY <1>3, <1>4 DEF AtomicEnd, Close
<1>5. CASE AtomicFail(u)
  <2>1. SavedLast(u) \in WholeLedgers
    BY <1>5, SavepointFacts DEF AtomicFail, Close, SavedLast
  <2> QED
    BY <1>3, <1>5, <2>1 DEF AtomicFail, Close
<1> QED
  BY <1>1, <1>2, <1>4, <1>5 DEF AtomicStep

LEMMA UnitInvNext == UnitInv /\ [Next]_vars => UnitInv'
<1> SUFFICES ASSUME UnitInv, [Next]_vars
             PROVE  UnitInv'
  OBVIOUS
<1>1. CASE UNCHANGED vars
  BY <1>1 DEF vars, UnitInv, WholeInv, ReservedInv
<1>2. CASE ReadElsewhere
  BY <1>2 DEF ReadElsewhere, UnitInv, WholeInv, ReservedInv
<1>3. ASSUME NEW u \in Units, Operation(u)
      PROVE  UnitInv'
  <2>1. PICK L \in WholeLedgers : Write(u, L)
    BY <1>3, OperationStep
  <2> QED
    BY <2>1 DEF Write, UnitInv, WholeInv, ReservedInv
<1> QED
  BY <1>1, <1>2, <1>3, UnitStepInv, AtomicStepInv DEF Next

LEMMA UnitInvAlways == Spec => []UnitInv
BY UnitInvInit, UnitInvNext, PTL DEF Spec

(* Every variable keeps its type: __enter__ to __exit__ of any number of   *)
(* units, crashes included.                                                *)
THEOREM TypeCorrect == Spec => []TypeOK
BY UnitInvAlways, UnitInvImplies, PTL

(* The file, each transaction and each savepoint hold whole ledgers.       *)
THEOREM StoreStaysWhole == Spec => []StoreWhole
BY UnitInvAlways, UnitInvImplies, PTL

-----------------------------------------------------------------------------
(* Part 2: a failed commit is final.                                       *)

(* A unit whose commit failed is done, so that no step of its own can      *)
(* publish; the steps of others leave it done.                             *)
LEMMA FailedStep ==
    ASSUME UnitInv, [Next]_vars, NEW u \in Units, told[u] = "failed"
    PROVE  told'[u] # "committed" /\ (stage'[u] = "done" \/ db' = db)
<1> stage[u] = "done"
  BY DEF UnitInv, ReservedInv
<1> USE DEF UnitInv, WholeInv, Move
<1>1. CASE UNCHANGED vars
  BY <1>1 DEF vars
<1>2. CASE ReadElsewhere
  BY <1>2 DEF ReadElsewhere
<1>3. ASSUME NEW v \in Units, UnitStep(v)
      PROVE  told'[u] # "committed" /\ (stage'[u] = "done" \/ db' = db)
  BY <1>3 DEF UnitStep, Begins, Settles, Enter, FirstStatement, Reserve, BusyTimeout,
              AskCommit, CommitNothing, Publish, CommitFails, CommitRolledBack, Rollback,
              Leave, Crash
<1>4. ASSUME NEW v \in Units, AtomicStep(v)
      PROVE  UNCHANGED <<told, db>>
  BY <1>4 DEF AtomicStep, AtomicBegin, SendSavepoint, AtomicEnd, AtomicFail, Close
<1>5. ASSUME NEW v \in Units, Operation(v)
      PROVE  UNCHANGED <<told, db>>
  BY <1>5, OperationStep DEF Write
<1> QED
  BY <1>1, <1>2, <1>3, <1>4, <1>5 DEF Next

(* After commit() has raised, its unit publishes nothing any more.         *)
THEOREM FailedCommitsStayFailed == Spec => FailedCommitsFinal
<1>1. UnitInv /\ [Next]_vars =>
        [\A u \in Units : told[u] = "failed" =>
            told'[u] # "committed" /\ (stage'[u] = "done" \/ db' = db)]_vars
  BY FailedStep
<1> QED
  BY <1>1, UnitInvAlways, PTL DEF Spec, FailedCommitsFinal

-----------------------------------------------------------------------------
(* Part 3: the refinement of UnitOfWork.  First, the contract speaks of    *)
(* the same ledgers and the same steps of work.                            *)

(* The two readings of the sums over an entry's lines agree.               *)
LEMMA SameTotal ==
    ASSUME NEW entry, NEW currency, NEW side
    PROVE  C!Total(entry, currency, side) = Total(entry, currency, side)
BY DEF C!Total, Total, C!SumFunctionOnSet, SumFunctionOnSet, C!FoldFunctionOnSet,
       FoldFunctionOnSet, C!MapThenFoldSet, MapThenFoldSet

(* So do the two readings of what a valid entry is.                        *)
LEMMA SameValidEntry ==
    ASSUME NEW id, NEW entry
    PROVE  C!ValidEntry(id, entry) <=> ValidEntry(id, entry)
BY SameTotal DEF C!ValidEntry, ValidEntry, C!UniqueLineIds, UniqueLineIds,
                 C!Balanced, Balanced

(* A whole ledger is one the contract accepts.                             *)
LEMMA SameLedgers ==
    ASSUME NEW L \in WholeLedgers
    PROVE  L \in C!Ledgers /\ C!Integrity(L)
<1>1. C!Ledgers = Ledgers
  BY DEF C!Ledgers, Ledgers, C!OrAbsent, OrAbsent, C!Account, Account, C!Journal,
         Journal, C!JournalEntry, JournalEntry, C!JournalLine, JournalLine,
         C!AuditEvent, AuditEvent
<1>2. C!Integrity(L) <=> Integrity(L)
  BY SameValidEntry
     DEF C!Integrity, Integrity, C!ReferencesResolve, ReferencesResolve,
         C!CodesUnique, CodesUnique, C!LinesUnique, LinesUnique, C!EntriesValid,
         EntriesValid, C!Present, Present, C!AccountsOf, AccountsOf, C!LineIdsOf,
         LineIdsOf
<1> QED
  BY <1>1, <1>2 DEF WholeLedgers

(* And its steps of work are those of the lemmas of LedgerProofs.          *)
LEMMA SameSteps ==
    ASSUME NEW L, NEW M
    PROVE  /\ C!KeepsHistory(L, M) <=> KeepsHistory(L, M)
           /\ C!AuditedStep(L, M) <=> AuditedStep(L, M)
BY DEF C!KeepsHistory, KeepsHistory, C!AuditedStep, AuditedStep, C!NewEvents,
       NewEvents, C!Vanished, Vanished, C!Present, Present, C!AccountDeleted,
       AccountDeleted, C!JournalDeleted, JournalDeleted

(* The mapping reads the one unit with an open transaction.                *)
LEMMA Mapping ==
    ASSUME ReservedInv
    PROVE  /\ \A u \in OpenUnits : Open /\ Txn = work[u] /\ Savepoints = sent[u]
           /\ OpenUnits = {} => ~Open /\ Txn = db /\ Savepoints = <<>>
BY DEF ReservedInv, OpenUnits, Open, Txn, Savepoints, Current

(* The same of the state a step leads to.                                  *)
LEMMA MappingAfter ==
    ASSUME ReservedInv'
    PROVE  /\ \A u \in OpenUnits' : Open' /\ Txn' = work'[u] /\ Savepoints' = sent'[u]
           /\ OpenUnits' = {} => ~Open' /\ Txn' = db' /\ Savepoints' = <<>>
BY DEF ReservedInv, OpenUnits, Open, Txn, Savepoints, Current

(* What no open transaction shows is a stutter: waiting for the            *)
(* reservation, a session that is left after its commit.                   *)
LEMMA Stutter ==
    ASSUME UnitInv, UnitInv', db' = db, OpenUnits' = OpenUnits,
           \A u \in OpenUnits : work'[u] = work[u] /\ sent'[u] = sent[u]
    PROVE  UNCHANGED C!contractVars
<1>1. CASE OpenUnits = {}
  BY <1>1, Mapping, MappingAfter DEF UnitInv, C!contractVars, Open
<1>2. CASE OpenUnits # {}
  BY <1>2, Mapping, MappingAfter DEF UnitInv, C!contractVars, Open
<1> QED
  BY <1>1, <1>2

(* A transaction that ends without a commit is abandoned.                  *)
LEMMA AbandonRefines ==
    ASSUME UnitInv, UnitInv', NEW u \in OpenUnits, OpenUnits' = {}, db' = db
    PROVE  C!ContractNext
<1>1. C!Abandon
  BY Mapping, MappingAfter DEF UnitInv, C!Abandon
<1> QED
  BY <1>1 DEF C!ContractNext

(* One that has published its ledger is committed, even if its process     *)
(* died before it learned of it.                                           *)
LEMMA CommitRefines ==
    ASSUME UnitInv, UnitInv', NEW u \in OpenUnits, OpenUnits' = {}, db' = work[u]
    PROVE  C!ContractNext
<1>1. C!Commit
  BY Mapping, MappingAfter DEF UnitInv, C!Commit
<1> QED
  BY <1>1 DEF C!ContractNext

(* Units that have left hold no reservation, and nobody else did before.   *)
LEMMA ReleaseCloses ==
    ASSUME UnitInv, NEW u \in Units, Release(u), NEW s, Move(u, s)
    PROVE  OpenUnits' = OpenUnits \ {u} /\ (u \in OpenUnits => OpenUnits' = {})
<1> USE DEF UnitInv, WholeInv, ReservedInv
<1>1. /\ reserved' = reserved \ {u}
      /\ \A v \in Units \ {u} : stage'[v] = stage[v]
  BY DEF Release, Move
<1>2. OpenUnits' = OpenUnits \ {u}
  BY <1>1 DEF OpenUnits
<1> QED
  BY <1>2 DEF OpenUnits

LEMMA UnitStepRefines ==
    ASSUME UnitInv, UnitInv', NEW u \in Units, UnitStep(u)
    PROVE  C!ContractNext \/ UNCHANGED C!contractVars
<1> USE DEF UnitInv, WholeInv, ReservedInv, Move
<1>1. CASE Enter(u) \/ FirstStatement(u) \/ BusyTimeout(u) \/ AskCommit(u)
  <2>1. OpenUnits' = OpenUnits
    BY <1>1 DEF OpenUnits, Enter, FirstStatement, BusyTimeout, AskCommit
  <2> QED
    BY <1>1, <2>1, Stutter DEF Enter, FirstStatement, BusyTimeout, AskCommit
<1>2. CASE Reserve(u)
  <2>1. OpenUnits = {}
    BY <1>2 DEF Reserve, ReservationFree, OpenUnits
  <2>2. u \in OpenUnits' /\ work'[u] = db /\ sent'[u] = <<>> /\ db' = db
    BY <1>2 DEF Reserve, ReservationFree, OpenUnits
  <2>3. C!Begin
    BY <2>1, <2>2, Mapping, MappingAfter DEF C!Begin
  <2> QED
    BY <2>3 DEF C!ContractNext
<1>3. CASE CommitFails(u)
  <2>1. u \in OpenUnits /\ OpenUnits' = {}
    BY <1>3 DEF CommitFails, OpenUnits
  <2> QED
    BY <1>3, <2>1, AbandonRefines DEF CommitFails
<1>4. ASSUME db' = db, Release(u), NEW s, Move(u, s)
      PROVE  C!ContractNext \/ UNCHANGED C!contractVars
  <2>1. CASE u \in OpenUnits
    BY <1>4, <2>1, ReleaseCloses, AbandonRefines
  <2>2. CASE u \notin OpenUnits
    <3>1. OpenUnits' = OpenUnits \ {u}
      BY <1>4, ReleaseCloses
    <3>2. OpenUnits' = OpenUnits
      BY <2>2, <3>1
    <3>3. \A v \in OpenUnits : work'[v] = work[v] /\ sent'[v] = sent[v]
      BY <1>4, <2>2 DEF Release, OpenUnits
    <3> QED
      BY <1>4, <3>2, <3>3, Stutter
  <2> QED
    BY <2>1, <2>2
<1>5. ASSUME stage[u] = "committing", db' = work[u], Release(u), NEW s, Move(u, s)
      PROVE  C!ContractNext
  <2>1. u \in OpenUnits
    BY <1>5 DEF OpenUnits
  <2> QED
    BY <1>5, <2>1, ReleaseCloses, CommitRefines
<1>6. CASE CommitNothing(u)
  BY <1>4, <1>6 DEF CommitNothing
<1>7. CASE Publish(u)
  BY <1>5, <1>7 DEF Publish
<1>8. CASE Rollback(u)
  BY <1>4, <1>8 DEF Rollback
<1>9. CASE Leave(u)
  BY <1>4, <1>9 DEF Leave
<1>10. CASE Crash(u)
  BY <1>4, <1>5, <1>10 DEF Crash
<1>11. CASE CommitRolledBack(u)
  BY <1>4, <1>11 DEF CommitRolledBack
<1> QED
  BY <1>1, <1>2, <1>3, <1>6, <1>7, <1>8, <1>9, <1>10, <1>11 DEF UnitStep, Begins, Settles

(* The contract's block begins when its savepoint is sent; a block that    *)
(* never needed one shows nothing.                                         *)
LEMMA AtomicRefines ==
    ASSUME UnitInv, UnitInv', NEW u \in Units, AtomicStep(u)
    PROVE  C!ContractNext \/ UNCHANGED C!contractVars
<1> USE DEF UnitInv, WholeInv, ReservedInv
<1>1. OpenUnits' = OpenUnits /\ db' = db
  BY DEF AtomicStep, AtomicBegin, SendSavepoint, AtomicEnd, AtomicFail, Close, OpenUnits
<1>2. CASE AtomicBegin(u)
  BY <1>1, <1>2, Stutter DEF AtomicBegin
<1>3. CASE SendSavepoint(u)
  <2>1. u \in OpenUnits
    BY <1>3 DEF SendSavepoint, OpenUnits
  <2>2. work' = work /\ sent'[u] = Append(sent[u], work[u])
    BY <1>3 DEF SendSavepoint
  <2>3. C!AtomicBegin
    BY <1>1, <2>1, <2>2, Mapping, MappingAfter DEF C!AtomicBegin, Open
  <2> QED
    BY <2>3 DEF C!ContractNext
<1>4. CASE AtomicEnd(u) \/ AtomicFail(u)
  <2>1. CASE unsent[u] > 0
    <3>1. work' = work /\ sent' = sent
      BY <1>4, <2>1 DEF AtomicEnd, AtomicFail, Close, SavedLast
    <3> QED
      BY <1>1, <3>1, Stutter
  <2>2. CASE ~(unsent[u] > 0)
    <3>1. u \in OpenUnits /\ sent[u] # <<>>
      BY <1>4, <2>2 DEF AtomicEnd, AtomicFail, Close, OpenUnits
    <3>2. sent'[u] = SubSeq(sent[u], 1, Len(sent[u]) - 1)
      BY <1>4, <2>2 DEF AtomicEnd, AtomicFail, Close, Front
    <3>3. CASE AtomicEnd(u)
      <4>1. C!AtomicEnd
        BY <1>1, <3>1, <3>2, <3>3, Mapping, MappingAfter
           DEF C!AtomicEnd, AtomicEnd, Open
      <4> QED
        BY <4>1 DEF C!ContractNext
    <3>4. CASE AtomicFail(u)
      <4>1. work'[u] = sent[u][Len(sent[u])]
        BY <2>2, <3>4 DEF AtomicFail, SavedLast, Last
      <4>2. C!AtomicFail
        BY <1>1, <3>1, <3>2, <4>1, Mapping, MappingAfter
           DEF C!AtomicFail, Open
      <4> QED
        BY <4>2 DEF C!ContractNext
    <3> QED
      BY <1>4, <3>3, <3>4
  <2> QED
    BY <2>1, <2>2
<1> QED
  BY <1>2, <1>3, <1>4 DEF AtomicStep

(* Each operation, on the ledger of the one open unit, is Work.            *)
LEMMA OperationRefines ==
    ASSUME UnitInv, UnitInv', NEW u \in Units, Operation(u)
    PROVE  C!ContractNext
<1>1. PICK L \in WholeLedgers :
          /\ Write(u, L)
          /\ KeepsHistory(work[u], L)
          /\ ServicesOnly => AuditedStep(work[u], L)
  BY OperationStep
<1>2. /\ u \in OpenUnits /\ OpenUnits' = OpenUnits
      /\ work'[u] = L /\ sent' = sent /\ db' = db
  BY <1>1 DEF Write, Operating, OpenUnits, UnitInv, WholeInv
<1>3. C!Work
  BY <1>1, <1>2, Mapping, MappingAfter, SameLedgers, SameSteps
     DEF UnitInv, C!Work, Open
<1> QED
  BY <1>3 DEF C!ContractNext

(* Units of work over SQLite implement the contract: whatever times out,   *)
(* fails or dies, callers see one unit at a time, atomic blocks without a  *)
(* trace of what failed, and commits that publish all or nothing.          *)
THEOREM SqliteKeepsContract == Spec => ContractKept
<1>1. Init => C!ContractInit
  BY DEF Init, C!ContractInit, Open, Txn, Savepoints, OpenUnits, C!EmptyLedger,
         EmptyLedger
<1>2. UnitInv /\ UnitInv' /\ [Next]_vars => [C!ContractNext]_C!contractVars
  <2> SUFFICES ASSUME UnitInv, UnitInv', [Next]_vars
               PROVE  C!ContractNext \/ UNCHANGED C!contractVars
    OBVIOUS
  <2>1. CASE UNCHANGED vars
    BY <2>1, Stutter DEF vars, OpenUnits
  <2>2. CASE ReadElsewhere
    BY <2>2, Stutter DEF ReadElsewhere, OpenUnits
  <2> QED
    BY <2>1, <2>2, UnitStepRefines, AtomicRefines, OperationRefines DEF Next
<1> QED
  BY <1>1, <1>2, UnitInvAlways, PTL DEF Spec, ContractKept, C!Contract
=============================================================================
