----------------------- MODULE MemoryUnitOfWorkProofs -----------------------
(***************************************************************************)
(* The memory store keeps every ledger whole, admits one unit of work at a *)
(* time, never loses committed history, audits every deletion, and         *)
(* implements the contract of UnitOfWork.tla, for any number of scopes,    *)
(* records and nested blocks.                                              *)
(***************************************************************************)
EXTENDS MemoryUnitOfWork, LedgerProofs

-----------------------------------------------------------------------------
(* Part 1: the inductive invariant behind type correctness and integrity.  *)

WholeInv ==
    /\ state \in WholeLedgers
    /\ in_use \in BOOLEAN
    /\ used \in [Scopes -> BOOLEAN]
    /\ entered \in [Scopes -> BOOLEAN]
    /\ active \in [Scopes -> BOOLEAN]
    /\ repos \in [Scopes -> WholeLedgers]
    /\ frames \in [Scopes -> Seq(WholeLedgers)]
    /\ deleting \in [Scopes -> AuditEvent \cup {NoCall}]
    /\ \A s \in Scopes : ~Idle(s) => frames[s] # <<>>

(* A snapshot pushed on a stack of ledgers is its top, and popping it      *)
(* gives the stack back.                                                   *)
LEMMA PushFacts ==
    ASSUME NEW S, NEW stack \in Seq(S), NEW L \in S
    PROVE  /\ Push(stack, L) \in Seq(S)
           /\ Push(stack, L) # <<>>
           /\ Top(Push(stack, L)) = L
           /\ Pop(Push(stack, L)) = stack
           /\ DOMAIN Push(stack, L) = 1 .. Len(stack) + 1
           /\ \A n \in DOMAIN stack : Push(stack, L)[n] = stack[n]
<1>1. /\ Push(stack, L) \in Seq(S)
      /\ Push(stack, L) # <<>>
      /\ Top(Push(stack, L)) = L
      /\ DOMAIN Push(stack, L) = 1 .. Len(stack) + 1
      /\ \A n \in DOMAIN stack : Push(stack, L)[n] = stack[n]
  BY DEF Push, Top
<1>2. /\ Pop(Push(stack, L)) \in Seq(S)
      /\ Len(Pop(Push(stack, L))) = Len(stack)
      /\ \A n \in 1 .. Len(stack) : Pop(Push(stack, L))[n] = stack[n]
  BY DEF Push, Pop
<1> QED
  BY <1>1, <1>2

(* The top of a stack that is not empty, and what lies below it.           *)
LEMMA PopFacts ==
    ASSUME NEW S, NEW stack \in Seq(S), stack # <<>>
    PROVE  /\ Top(stack) \in S
           /\ Len(stack) \in DOMAIN stack
           /\ Pop(stack) \in Seq(S)
           /\ DOMAIN Pop(stack) \subseteq DOMAIN stack
           /\ \A n \in DOMAIN Pop(stack) : Pop(stack)[n] = stack[n]
BY DEF Top, Pop

(* The invariant implies what the runs check. *)
LEMMA WholeInvImplies == WholeInv => TypeOK /\ LedgerIntegrity
<1> SUFFICES ASSUME WholeInv
             PROVE  TypeOK /\ LedgerIntegrity
  OBVIOUS
<1>1. \A L \in WholeLedgers : L \in Ledgers /\ Integrity(L)
  BY DEF WholeLedgers
<1>2. \A s \in Scopes : frames[s] \in Seq(Ledgers)
  BY <1>1 DEF WholeInv
<1>3. TypeOK
  BY <1>1, <1>2 DEF WholeInv, TypeOK
<1>4. \A s \in Scopes : \A n \in DOMAIN frames[s] : frames[s][n] \in WholeLedgers
  BY DEF WholeInv
<1>5. LedgerIntegrity
  BY <1>1, <1>4 DEF WholeInv, LedgerIntegrity
<1> QED
  BY <1>3, <1>5

(* Every operation that writes once keeps the ledger of its scope whole.   *)
LEMMA OperationWhole ==
    ASSUME NEW s \in Scopes, WholeInv, Operation(s)
    PROVE  \E L \in WholeLedgers : Working(s) /\ Write(s, L)
<1> repos[s] \in WholeLedgers
  BY DEF WholeInv
<1>1. CASE CreateAccount(s)
  BY <1>1, PutAccountWhole DEF CreateAccount, MayCreateAccount
<1>2. CASE UpdateAccount(s)
  BY <1>2, PutAccountWhole DEF UpdateAccount, MayUpdateAccount
<1>3. CASE CreateJournal(s)
  BY <1>3, PutJournalWhole DEF CreateJournal, MayCreateJournal
<1>4. CASE UpdateJournal(s)
  BY <1>4, PutJournalWhole DEF UpdateJournal, MayUpdateJournal
<1>5. CASE PostEntry(s)
  BY <1>5, PutEntryWhole, DraftsAssumption DEF PostEntry, MayPostEntry
<1>6. CASE CreateEntry(s)
  BY <1>6, PutEntryWhole, DraftsAssumption DEF CreateEntry
<1>7. CASE RemoveAccount(s)
  BY <1>7, RemoveAccountWhole DEF RemoveAccount
<1>8. CASE RemoveJournal(s)
  BY <1>8, RemoveJournalWhole DEF RemoveJournal
<1>9. CASE AppendEvent(s)
  BY <1>9, PutEventWhole DEF AppendEvent
<1> QED
  BY <1>1, <1>2, <1>3, <1>4, <1>5, <1>6, <1>7, <1>8, <1>9 DEF Operation

(* A deletion starts by pushing the ledger it will restore if it fails.    *)
LEMMA DeletionWhole ==
    ASSUME NEW s \in Scopes, WholeInv, DeleteAccount(s) \/ DeleteJournal(s)
    PROVE  \E L \in WholeLedgers, event \in AuditEvent :
               Working(s) /\ StartDeletion(s, event, L)
<1> repos[s] \in WholeLedgers /\ repos[s] \in Ledgers
  BY DEF WholeInv, WholeLedgers
<1>1. CASE DeleteAccount(s)
  <2>1. PICK a \in AccountIds :
            /\ Working(s) /\ MayDeleteAccount(repos[s], a)
            /\ StartDeletion(s, AccountDeleted(repos[s], a),
                             PutAccount(repos[s], a, Absent))
    BY <1>1 DEF DeleteAccount
  <2>2. AccountDeleted(repos[s], a) \in AuditEvent
    BY <2>1 DEF AccountDeleted, AuditEvent, MayDeleteAccount, Ledgers, OrAbsent
  <2> QED
    BY <2>1, <2>2, RemoveAccountWhole
<1>2. CASE DeleteJournal(s)
  <2>1. PICK j \in JournalIds :
            /\ Working(s) /\ MayDeleteJournal(repos[s], j)
            /\ StartDeletion(s, JournalDeleted(repos[s], j),
                             PutJournal(repos[s], j, Absent))
    BY <1>2 DEF DeleteJournal
  <2>2. JournalDeleted(repos[s], j) \in AuditEvent
    BY <2>1 DEF JournalDeleted, AuditEvent, MayDeleteJournal, Ledgers, OrAbsent
  <2> QED
    BY <2>1, <2>2, RemoveJournalWhole
<1> QED
  BY <1>1, <1>2

(* The empty store satisfies the invariant. *)
LEMMA WholeInvInit == Init => WholeInv
<1> SUFFICES ASSUME Init
             PROVE  WholeInv
  OBVIOUS
<1>1. state \in WholeLedgers /\ repos \in [Scopes -> WholeLedgers]
  BY EmptyLedgerWhole DEF Init
<1>2. frames \in [Scopes -> Seq(WholeLedgers)]
  BY DEF Init
<1>3. deleting \in [Scopes -> AuditEvent \cup {NoCall}]
  BY DEF Init
<1>4. \A s \in Scopes : Idle(s)
  BY DEF Init, Idle
<1> QED
  BY <1>1, <1>2, <1>3, <1>4 DEF Init, WholeInv

(* Every step keeps the invariant. *)
LEMMA WholeInvStep == WholeInv /\ [Next]_vars => WholeInv'
<1> SUFFICES ASSUME WholeInv, [Next]_vars
             PROVE  WholeInv'
  OBVIOUS
<1>1. ASSUME NEW s \in Scopes, ScopeStep(s)
      PROVE  WholeInv'
  <2>1. CASE NewScope(s)
    BY <2>1 DEF NewScope, WholeInv, Idle
  <2>2. CASE Enter(s)
    BY <2>2 DEF Enter, WholeInv, Idle
  <2>3. CASE Exit(s)
    BY <2>3, EmptyLedgerWhole DEF Exit, ClaimAfterExit, WholeInv, Idle
  <2>4. CASE Commit(s)
    BY <2>4 DEF Commit, WholeInv, Idle
  <2>5. CASE Rollback(s)
    BY <2>5 DEF Rollback, WholeInv, Idle
  <2> QED
    BY <1>1, <2>1, <2>2, <2>3, <2>4, <2>5 DEF ScopeStep
<1>2. ASSUME NEW s \in Scopes, AtomicStep(s)
      PROVE  WholeInv'
  <2>1. frames[s] \in Seq(WholeLedgers) /\ repos[s] \in WholeLedgers
    BY DEF WholeInv
  <2>2. CASE AtomicBegin(s)
    <3>1. Push(frames[s], repos[s]) \in Seq(WholeLedgers)
      BY <2>1, PushFacts
    <3> QED
      BY <2>2, <3>1 DEF AtomicBegin, WholeInv, flags, Idle
  <2>3. CASE AtomicEnd(s) \/ AtomicFail(s)
    <3>1. Pop(frames[s]) \in Seq(WholeLedgers) /\ Top(frames[s]) \in WholeLedgers
      BY <2>1, <2>3, PopFacts DEF AtomicEnd, AtomicFail
    <3> QED
      BY <2>3, <3>1 DEF AtomicEnd, AtomicFail, Load, WholeInv, flags, Idle
  <2> QED
    BY <1>2, <2>2, <2>3 DEF AtomicStep
<1>3. ASSUME NEW s \in Scopes, Operation(s)
      PROVE  WholeInv'
  <2>1. PICK L \in WholeLedgers : Write(s, L)
    BY <1>3, OperationWhole
  <2> QED
    BY <2>1 DEF Write, WholeInv, flags, Idle
<1>4. ASSUME NEW s \in Scopes, DeletionStep(s)
      PROVE  WholeInv'
  <2>1. frames[s] \in Seq(WholeLedgers) /\ repos[s] \in WholeLedgers
    BY DEF WholeInv
  <2>2. CASE DeleteAccount(s) \/ DeleteJournal(s)
    <3>1. PICK L \in WholeLedgers, event \in AuditEvent : StartDeletion(s, event, L)
      BY <2>2, DeletionWhole
    <3>2. Push(frames[s], repos[s]) \in Seq(WholeLedgers)
      BY <2>1, PushFacts
    <3>3. Push(frames[s], repos[s]) # <<>>
      BY <2>1 DEF Push
    <3> QED
      BY <3>1, <3>2, <3>3 DEF StartDeletion, WholeInv, flags, Idle
  <2>3. CASE FinishDeletion(s) \/ FailDeletion(s)
    <3>1. ~Idle(s) /\ frames[s] # <<>>
      BY <2>3 DEF FinishDeletion, FailDeletion, WholeInv
    <3>2. Pop(frames[s]) \in Seq(WholeLedgers) /\ Top(frames[s]) \in WholeLedgers
      BY <2>1, <3>1, PopFacts
    <3>3. \A ev \in EventIds : PutEvent(repos[s], ev, deleting[s]) \in WholeLedgers
      BY <2>1, <3>1, PutEventWhole DEF WholeInv, Idle
    <3> QED
      BY <2>3, <3>2, <3>3 DEF FinishDeletion, FailDeletion, Load, WholeInv, flags, Idle
  <2> QED
    BY <1>4, <2>2, <2>3 DEF DeletionStep
<1>5. CASE UNCHANGED vars
  BY <1>5 DEF vars, WholeInv, Idle
<1> QED
  BY <1>1, <1>2, <1>3, <1>4, <1>5 DEF Next

(* Every variable keeps its type: the store, its claim and the flags, the  *)
(* repositories and the stack of snapshots of every InMemoryUnitOfWork.    *)
THEOREM TypeCorrect == Spec => []TypeOK
<1>1. Spec => []WholeInv
  BY WholeInvInit, WholeInvStep, PTL DEF Spec
<1> QED
  BY <1>1, WholeInvImplies, PTL

(* Every ledger of the store is whole in every state: entries balanced and *)
(* complete, references resolved, codes and line identifiers unique.       *)
THEOREM LedgersStayWhole == Spec => []LedgerIntegrity
<1>1. Spec => []WholeInv
  BY WholeInvInit, WholeInvStep, PTL DEF Spec
<1> QED
  BY <1>1, WholeInvImplies, PTL

(* Whatever drafts callers present, debits and credits cancel out in each  *)
(* currency in every entry, counted line by line with signs: the totals    *)
(* the validator keeps per currency and side are the right ones.           *)
THEOREM BooksStayBalanced == Spec => []BooksBalance
<1>1. WholeInv => BooksBalance
  BY WholeBooksClose DEF WholeInv, BooksBalance
<1> QED
  BY <1>1, WholeInvInit, WholeInvStep, PTL DEF Spec

-----------------------------------------------------------------------------
(* Part 2: the claim.  ExclusiveScope is inductive beside the types of the *)
(* flags; with it, blocks and deletions only live in scopes that have not  *)
(* been left.                                                              *)

NestedInv ==
    \A s \in Scopes :
        /\ frames[s] # <<>> => entered[s]
        /\ ~Idle(s) => active[s]

(* A write to the repositories leaves the flags alone.                     *)
LEMMA OperationFlags ==
    ASSUME NEW s \in Scopes, Operation(s) \/ AtomicStep(s) \/ DeletionStep(s)
    PROVE  UNCHANGED <<state, flags>>
BY DEF Operation, AtomicStep, DeletionStep, CreateAccount, UpdateAccount, CreateJournal,
       UpdateJournal, PostEntry, CreateEntry, RemoveAccount, RemoveJournal, AppendEvent,
       Write, AtomicBegin, AtomicEnd, AtomicFail, DeleteAccount, DeleteJournal,
       StartDeletion, FinishDeletion, FailDeletion

(* __enter__ refuses while the claim is up and __exit__ gives it back only *)
(* for the scope that took it, so every step keeps scopes exclusive.       *)
LEMMA ExclusiveStep ==
    WholeInv /\ ExclusiveScope /\ [Next]_vars => ExclusiveScope'
<1> SUFFICES ASSUME WholeInv, ExclusiveScope, [Next]_vars
             PROVE  ExclusiveScope'
  OBVIOUS
<1> USE DEF WholeInv, ExclusiveScope
<1>1. ASSUME NEW s \in Scopes, ScopeStep(s)
      PROVE  ExclusiveScope'
  <2>1. CASE NewScope(s)
    BY <2>1 DEF NewScope
  <2>2. CASE Enter(s)
    BY <2>2 DEF Enter, MayEnter
  <2>3. CASE Exit(s)
    BY <2>3 DEF Exit, ClaimAfterExit
  <2>4. CASE Commit(s)
    BY <2>4 DEF Commit
  <2>5. CASE Rollback(s)
    BY <2>5 DEF Rollback
  <2> QED
    BY <1>1, <2>1, <2>2, <2>3, <2>4, <2>5 DEF ScopeStep
<1>2. ASSUME NEW s \in Scopes, Operation(s) \/ AtomicStep(s) \/ DeletionStep(s)
      PROVE  ExclusiveScope'
  BY <1>2, OperationFlags DEF flags
<1>3. CASE UNCHANGED vars
  BY <1>3 DEF vars
<1> QED
  BY <1>1, <1>2, <1>3 DEF Next

(* Blocks and running deletions exist only in scopes that were entered:    *)
(* every step keeps frames and half-done deletions where they belong.      *)
LEMMA NestedStep ==
    WholeInv /\ ExclusiveScope /\ NestedInv /\ [Next]_vars => NestedInv'
<1> SUFFICES ASSUME WholeInv, ExclusiveScope, NestedInv, [Next]_vars
             PROVE  NestedInv'
  OBVIOUS
<1> USE DEF WholeInv, ExclusiveScope, NestedInv, Idle
<1>1. ASSUME NEW s \in Scopes, ScopeStep(s)
      PROVE  NestedInv'
  <2>1. CASE NewScope(s)
    BY <2>1 DEF NewScope
  <2>2. CASE Enter(s)
    BY <2>2 DEF Enter, MayEnter
  <2>3. CASE Exit(s)
    BY <2>3 DEF Exit
  <2>4. CASE Commit(s)
    BY <2>4 DEF Commit
  <2>5. CASE Rollback(s)
    BY <2>5 DEF Rollback
  <2> QED
    BY <1>1, <2>1, <2>2, <2>3, <2>4, <2>5 DEF ScopeStep
<1>2. ASSUME NEW s \in Scopes, AtomicStep(s)
      PROVE  NestedInv'
  BY <1>2 DEF AtomicStep, AtomicBegin, AtomicEnd, AtomicFail, flags
<1>3. ASSUME NEW s \in Scopes, Operation(s)
      PROVE  NestedInv'
  <2>1. PICK L \in WholeLedgers : Write(s, L)
    BY <1>3, OperationWhole
  <2> QED
    BY <2>1 DEF Write, flags
<1>4. ASSUME NEW s \in Scopes, DeletionStep(s)
      PROVE  NestedInv'
  <2>1. CASE DeleteAccount(s) \/ DeleteJournal(s)
    <3>1. PICK L \in WholeLedgers, event \in AuditEvent :
              Working(s) /\ StartDeletion(s, event, L)
      BY <2>1, DeletionWhole
    <3> QED
      BY <3>1 DEF StartDeletion, Working, flags
  <2>2. CASE FinishDeletion(s) \/ FailDeletion(s)
    BY <2>2 DEF FinishDeletion, FailDeletion, flags
  <2> QED
    BY <1>4, <2>1, <2>2 DEF DeletionStep
<1>5. CASE UNCHANGED vars
  BY <1>5 DEF vars
<1> QED
  BY <1>1, <1>2, <1>3, <1>4, <1>5 DEF Next

(* The first two parts together.                                           *)
ScopeInv == WholeInv /\ ExclusiveScope /\ NestedInv

(* The three invariants about scopes hold together in every state.         *)
LEMMA ScopeInvAlways == Spec => []ScopeInv
<1>1. Init => ScopeInv
  BY WholeInvInit DEF Init, ScopeInv, ExclusiveScope, NestedInv, Idle
<1>2. ScopeInv /\ [Next]_vars => ScopeInv'
  BY WholeInvStep, ExclusiveStep, NestedStep DEF ScopeInv
<1> QED
  BY <1>1, <1>2, PTL DEF Spec

(* At most one scope holds the store and InMemoryStore._in_use says so,    *)
(* whatever the order of entries, failed entries and repeated exits.       *)
THEOREM ScopesExclude == Spec => []ExclusiveScope
BY ScopeInvAlways, PTL DEF ScopeInv

-----------------------------------------------------------------------------
(* Part 3: committed history and audited deletions.                        *)

(* A ledger a unit of work may commit on top of S.                         *)
Follows(S, L) == KeepsHistory(S, L) /\ (ServicesOnly => VanishedAudited(S, L))

(* The record is gone from M, and event says what it was in L.             *)
HalfDeleted(L, M, event) ==
    \/ \E a \in AccountIds : /\ L.accounts[a] # Absent
                             /\ event = AccountDeleted(L, a)
                             /\ M = PutAccount(L, a, Absent)
    \/ \E j \in JournalIds : /\ L.journals[j] # Absent
                             /\ event = JournalDeleted(L, j)
                             /\ M = PutJournal(L, j, Absent)

HalfInv ==
    \A s \in Scopes : ~Idle(s) => HalfDeleted(Top(frames[s]), repos[s], deleting[s])

FollowsInv ==
    \A s \in Scopes : active[s] =>
        /\ Idle(s) => Follows(state, repos[s])
        /\ \A n \in DOMAIN frames[s] : Follows(state, frames[s][n])

(* An operation that writes once is a step the contract allows.            *)
LEMMA OperationStep ==
    ASSUME NEW s \in Scopes, WholeInv, Operation(s)
    PROVE  \E L \in WholeLedgers :
               /\ Working(s) /\ Write(s, L)
               /\ KeepsHistory(repos[s], L)
               /\ ServicesOnly => AuditedStep(repos[s], L)
<1>1. repos[s] \in WholeLedgers /\ repos[s] \in Ledgers
  BY DEF WholeInv, WholeLedgers
<1>2. CASE CreateAccount(s) \/ UpdateAccount(s)
  <2>1. PICK a \in AccountIds, record \in Account :
            /\ Working(s) /\ ~CodeTaken(repos[s].accounts, a, record.code)
            /\ Write(s, PutAccount(repos[s], a, record))
    BY <1>2 DEF CreateAccount, UpdateAccount, MayCreateAccount, MayUpdateAccount
  <2> QED
    BY <1>1, <2>1, PutAccountWhole, PutAccountStep DEF ServiceStep
<1>3. CASE CreateJournal(s) \/ UpdateJournal(s)
  <2>1. PICK j \in JournalIds, record \in Journal :
            /\ Working(s) /\ ~CodeTaken(repos[s].journals, j, record.code)
            /\ Write(s, PutJournal(repos[s], j, record))
    BY <1>3 DEF CreateJournal, UpdateJournal, MayCreateJournal, MayUpdateJournal
  <2> QED
    BY <1>1, <2>1, PutJournalWhole, PutJournalStep DEF ServiceStep
<1>4. CASE PostEntry(s) \/ CreateEntry(s)
  <2>1. PICK e \in EntryIds, draft \in Drafts :
            /\ Working(s) /\ MayCreateEntry(repos[s], e, draft)
            /\ Write(s, PutEntry(repos[s], e, draft))
    BY <1>4 DEF PostEntry, CreateEntry, MayPostEntry
  <2>2. repos[s].entries[e] = Absent
    BY <2>1 DEF MayCreateEntry
  <2> QED
    BY <1>1, <2>1, <2>2, DraftsAssumption, PutEntryWhole, PutEntryStep DEF ServiceStep
<1>5. CASE RemoveAccount(s)
  BY <1>1, <1>5, RemoveAccountWhole, RemovalHistory DEF RemoveAccount
<1>6. CASE RemoveJournal(s)
  BY <1>1, <1>6, RemoveJournalWhole, RemovalHistory DEF RemoveJournal
<1>7. CASE AppendEvent(s)
  BY <1>1, <1>7, PutEventWhole, PutEventHistory DEF AppendEvent
<1> QED
  BY <1>2, <1>3, <1>4, <1>5, <1>6, <1>7 DEF Operation

(* The two writes of a deletion make one such step, from the snapshot the  *)
(* deletion began with.                                                    *)
LEMMA FinishStep ==
    ASSUME NEW s \in Scopes, WholeInv, HalfInv, FinishDeletion(s)
    PROVE  \E L \in WholeLedgers :
               /\ repos' = [repos EXCEPT ![s] = L]
               /\ ServiceStep(Top(frames[s]), L)
<1> DEFINE before == Top(frames[s])
<1>1. PICK ev \in EventIds :
          /\ ~Idle(s) /\ MayAppend(repos[s], ev)
          /\ repos' = [repos EXCEPT ![s] = PutEvent(@, ev, deleting[s])]
  BY DEF FinishDeletion
<1>2. /\ repos[s] \in WholeLedgers
      /\ deleting[s] \in AuditEvent
      /\ before \in Ledgers
  BY <1>1, PopFacts DEF WholeInv, WholeLedgers, Idle
<1>3. PutEvent(repos[s], ev, deleting[s]) \in WholeLedgers
  BY <1>2, PutEventWhole
<1>4. HalfDeleted(before, repos[s], deleting[s])
  BY <1>1 DEF HalfInv
<1>5. before.audit[ev] = Absent
  BY <1>1, <1>2, <1>4 DEF HalfDeleted, MayAppend, PutAccount, PutJournal, Ledgers
<1>6. ServiceStep(before, PutEvent(repos[s], ev, deleting[s]))
  BY <1>2, <1>4, <1>5, DeleteAccountStep, DeleteJournalStep DEF HalfDeleted
<1> QED
  BY <1>1, <1>2, <1>3, <1>6 DEF WholeInv

(* What the running deletion remembers stays right.                        *)
LEMMA HalfStep == ScopeInv /\ HalfInv /\ [Next]_vars => HalfInv'
<1> SUFFICES ASSUME ScopeInv, HalfInv, [Next]_vars
             PROVE  HalfInv'
  OBVIOUS
<1> USE DEF ScopeInv, WholeInv, HalfInv, Idle
<1>1. ASSUME NEW s \in Scopes, ScopeStep(s)
      PROVE  HalfInv'
  <2>1. CASE NewScope(s)
    BY <2>1 DEF NewScope
  <2>2. CASE Enter(s)
    BY <2>2 DEF Enter, MayEnter, ExclusiveScope, NestedInv
  <2>3. CASE Exit(s)
    BY <2>3 DEF Exit
  <2>4. CASE Commit(s)
    BY <2>4 DEF Commit
  <2>5. CASE Rollback(s)
    BY <2>5 DEF Rollback
  <2> QED
    BY <1>1, <2>1, <2>2, <2>3, <2>4, <2>5 DEF ScopeStep
<1>2. ASSUME NEW s \in Scopes, AtomicStep(s)
      PROVE  HalfInv'
  BY <1>2 DEF AtomicStep, AtomicBegin, AtomicEnd, AtomicFail, flags
<1>3. ASSUME NEW s \in Scopes, Operation(s)
      PROVE  HalfInv'
  <2>1. PICK L \in WholeLedgers : Working(s) /\ Write(s, L)
    BY <1>3, OperationWhole
  <2> QED
    BY <2>1 DEF Write, Working, flags
<1>4. ASSUME NEW s \in Scopes, DeleteAccount(s) \/ DeleteJournal(s)
      PROVE  HalfInv'
  <2>1. PICK L, event :
            /\ HalfDeleted(repos[s], L, event)
            /\ StartDeletion(s, event, L)
    BY <1>4 DEF DeleteAccount, DeleteJournal, HalfDeleted, MayDeleteAccount, MayDeleteJournal
  <2>2. Top(Push(frames[s], repos[s])) = repos[s]
    BY PushFacts
  <2> QED
    BY <2>1, <2>2 DEF StartDeletion
<1>5. ASSUME NEW s \in Scopes, FinishDeletion(s) \/ FailDeletion(s)
      PROVE  HalfInv'
  BY <1>5 DEF FinishDeletion, FailDeletion
<1>6. CASE UNCHANGED vars
  BY <1>6 DEF vars
<1> QED
  BY <1>1, <1>2, <1>3, <1>4, <1>5, <1>6 DEF Next, DeletionStep

(* Following is kept by the steps the contract allows.                     *)
LEMMA FollowsWork ==
    ASSUME NEW S \in Ledgers, NEW L \in Ledgers, NEW M \in Ledgers, Follows(S, L),
           KeepsHistory(L, M), ServicesOnly => AuditedStep(L, M)
    PROVE  Follows(S, M)
BY KeepsHistoryTransitive, VanishedAuditedStep DEF Follows, ServiceStep

(* What a scope would commit, and what its blocks would put back, goes on  *)
(* following the committed ledger in every step.                           *)
LEMMA FollowsStep == ScopeInv /\ HalfInv /\ FollowsInv /\ [Next]_vars => FollowsInv'
<1> SUFFICES ASSUME ScopeInv, HalfInv, FollowsInv, [Next]_vars
             PROVE  FollowsInv'
  OBVIOUS
<1> USE DEF ScopeInv, WholeInv, FollowsInv, Idle
<1>0. WholeLedgers \subseteq Ledgers
  BY DEF WholeLedgers
<1>1. ASSUME NEW s \in Scopes, ScopeStep(s)
      PROVE  FollowsInv'
  <2>1. CASE NewScope(s)
    BY <2>1 DEF NewScope
  <2>2. CASE Enter(s)
    <3>1. Follows(state, state)
      BY KeepsHistoryReflexive DEF Follows, VanishedAudited, Vanished
    <3>2. frames[s] = <<>>
      BY <2>2 DEF Enter, MayEnter, ExclusiveScope, NestedInv
    <3> QED
      BY <2>2, <3>1, <3>2 DEF Enter
  <2>3. CASE Exit(s)
    BY <2>3 DEF Exit
  <2>4. CASE Commit(s)
    BY <2>4 DEF Commit, ExclusiveScope
  <2>5. CASE Rollback(s)
    BY <2>5 DEF Rollback
  <2> QED
    BY <1>1, <2>1, <2>2, <2>3, <2>4, <2>5 DEF ScopeStep
<1>2. ASSUME NEW s \in Scopes, AtomicStep(s)
      PROVE  FollowsInv'
  <2>1. CASE AtomicBegin(s)
    <3>1. \A n \in DOMAIN Push(frames[s], repos[s]) :
              \/ n \in DOMAIN frames[s] /\ Push(frames[s], repos[s])[n] = frames[s][n]
              \/ Push(frames[s], repos[s])[n] = repos[s]
      BY DEF Push
    <3> QED
      BY <2>1, <3>1 DEF AtomicBegin, flags
  <2>2. CASE AtomicEnd(s) \/ AtomicFail(s)
    <3>1. frames[s] \in Seq(WholeLedgers) /\ frames[s] # <<>>
      BY <2>2 DEF AtomicEnd, AtomicFail
    <3>2. Len(frames[s]) \in DOMAIN frames[s]
      BY <3>1, PopFacts
    <3>3. \A n \in DOMAIN Pop(frames[s]) :
              n \in DOMAIN frames[s] /\ Pop(frames[s])[n] = frames[s][n]
      BY <3>1, PopFacts
    <3>4. active[s] => Follows(state, Top(frames[s]))
      BY <3>2 DEF Top
    <3> QED
      BY <2>2, <3>3, <3>4 DEF AtomicEnd, AtomicFail, Load, flags
  <2> QED
    BY <1>2, <2>1, <2>2 DEF AtomicStep
<1>3. ASSUME NEW s \in Scopes, Operation(s)
      PROVE  FollowsInv'
  <2>1. PICK L \in WholeLedgers :
            /\ Working(s) /\ Write(s, L)
            /\ KeepsHistory(repos[s], L)
            /\ ServicesOnly => AuditedStep(repos[s], L)
    BY <1>3, OperationStep
  <2>2. Follows(state, L)
    BY <1>0, <2>1, FollowsWork DEF Working
  <2> QED
    BY <2>1, <2>2 DEF Write, flags
<1>4. ASSUME NEW s \in Scopes, DeleteAccount(s) \/ DeleteJournal(s)
      PROVE  FollowsInv'
  <2>1. PICK L \in WholeLedgers, event \in AuditEvent :
            Working(s) /\ StartDeletion(s, event, L)
    BY <1>4, DeletionWhole
  <2>2. event # NoCall
    BY NoCallAssumption
  <2>3. \A n \in DOMAIN Push(frames[s], repos[s]) :
            \/ n \in DOMAIN frames[s] /\ Push(frames[s], repos[s])[n] = frames[s][n]
            \/ Push(frames[s], repos[s])[n] = repos[s]
    BY DEF Push
  <2> QED
    BY <2>1, <2>2, <2>3 DEF StartDeletion, Working, flags
<1>5. ASSUME NEW s \in Scopes, FinishDeletion(s) \/ FailDeletion(s)
      PROVE  FollowsInv'
  <2>1. /\ ~Idle(s) /\ active[s] /\ frames[s] # <<>>
        /\ frames' = [frames EXCEPT ![s] = Pop(@)]
        /\ deleting' = [deleting EXCEPT ![s] = NoCall]
        /\ UNCHANGED <<state, flags>>
    BY <1>5 DEF FinishDeletion, FailDeletion, NestedInv
  <2>2. \A n \in DOMAIN Pop(frames[s]) :
            n \in DOMAIN frames[s] /\ Pop(frames[s])[n] = frames[s][n]
    BY <2>1, PopFacts
  <2>3. Top(frames[s]) \in WholeLedgers /\ Follows(state, Top(frames[s]))
    BY <2>1, PopFacts DEF Top
  <2>4. \E L : repos' = [repos EXCEPT ![s] = L] /\ Follows(state, L)
    <3>1. CASE FinishDeletion(s)
      BY <1>0, <2>3, <3>1, FinishStep, FollowsWork DEF ServiceStep
    <3>2. CASE FailDeletion(s)
      BY <2>3, <3>2 DEF FailDeletion, Load
    <3> QED
      BY <1>5, <3>1, <3>2
  <2> QED
    BY <2>1, <2>2, <2>4 DEF flags
<1>6. CASE UNCHANGED vars
  BY <1>6 DEF vars
<1> QED
  BY <1>1, <1>2, <1>3, <1>4, <1>5, <1>6 DEF Next, DeletionStep

WorkInv == ScopeInv /\ HalfInv /\ FollowsInv

(* The whole strengthening, scopes, half-done deletions and what follows   *)
(* the committed ledger, holds in every state.                             *)
LEMMA WorkInvAlways == Spec => []WorkInv
<1>1. Init => WorkInv
  BY WholeInvInit
     DEF Init, WorkInv, ScopeInv, ExclusiveScope, NestedInv, HalfInv, FollowsInv, Idle
<1>2. WorkInv /\ [Next]_vars => WorkInv'
  BY WholeInvStep, ExclusiveStep, NestedStep, HalfStep, FollowsStep DEF WorkInv, ScopeInv
<1> QED
  BY <1>1, <1>2, PTL DEF Spec

(* The committed ledger changes only to one that follows it.               *)
LEMMA CommitFollows == WorkInv /\ [Next]_vars => Follows(state, state')
<1> SUFFICES ASSUME WorkInv, [Next]_vars
             PROVE  Follows(state, state')
  OBVIOUS
<1>1. Follows(state, state)
  BY KeepsHistoryReflexive DEF Follows, VanishedAudited, Vanished
<1>2. ASSUME NEW s \in Scopes, Commit(s)
      PROVE  Follows(state, state')
  BY <1>2 DEF Commit, WorkInv, FollowsInv
<1>3. ASSUME NEW s \in Scopes, ScopeStep(s), ~Commit(s)
      PROVE  state' = state
  BY <1>3 DEF ScopeStep, NewScope, Enter, Exit, Rollback
<1>4. ASSUME NEW s \in Scopes, Operation(s) \/ AtomicStep(s) \/ DeletionStep(s)
      PROVE  state' = state
  BY <1>4, OperationFlags
<1>5. CASE UNCHANGED vars
  BY <1>1, <1>5 DEF vars
<1> QED
  BY <1>1, <1>2, <1>3, <1>4, <1>5 DEF Next

(* No commit of InMemoryUnitOfWork, after whatever overlapping attempts,   *)
(* failed blocks and direct writes, alters or loses an entry or an event.  *)
THEOREM CommittedHistoryKept == Spec => HistoryKept
<1>1. WorkInv /\ [Next]_vars => [KeepsHistory(state, state')]_vars
  BY CommitFollows DEF Follows
<1> QED
  BY <1>1, WorkInvAlways, PTL DEF Spec, HistoryKept

(* With AccountingService only, each account or journal that a commit      *)
(* makes disappear has a new audit event, though any deletion may fail     *)
(* between its two writes and any block around it be undone.               *)
THEOREM CommittedDeletionsAudited == Spec => DeletionsAudited
<1>1. WorkInv /\ [Next]_vars => [ServicesOnly => VanishedAudited(state, state')]_vars
  BY CommitFollows DEF Follows
<1> QED
  BY <1>1, WorkInvAlways, PTL DEF Spec, DeletionsAudited

-----------------------------------------------------------------------------
(* Part 4: the memory store implements the contract of UnitOfWork.tla.     *)
(* What the caller of a scope sees is its repositories, or, while a        *)
(* deletion is half done, the snapshot the deletion would go back to.      *)

(* The two readings of the sums over an entry's lines agree.               *)
LEMMA SameTotal ==
    ASSUME NEW entry, NEW currency, NEW side
    PROVE  C!Total(entry, currency, side) = Total(entry, currency, side)
BY DEF C!Total, Total, C!SumFunctionOnSet, SumFunctionOnSet, C!FoldFunctionOnSet,
       FoldFunctionOnSet, C!MapThenFoldSet, MapThenFoldSet

(* So do the two readings of what a valid entry is.                        *)
LEMMA SameValidEntry ==
    ASSUME NEW id, NEW entry
    PROVE  C!ValidEntry(id, entry) <=> ValidEntry(id, entry)
BY SameTotal DEF C!ValidEntry, ValidEntry, C!UniqueLineIds, UniqueLineIds,
                 C!Balanced, Balanced

(* A whole ledger is one the contract accepts.                             *)
LEMMA SameLedgers ==
    ASSUME NEW L \in WholeLedgers
    PROVE  L \in C!Ledgers /\ C!Integrity(L)
<1>1. C!Ledgers = Ledgers
  BY DEF C!Ledgers, Ledgers, C!OrAbsent, OrAbsent, C!Account, Account, C!Journal,
         Journal, C!JournalEntry, JournalEntry, C!JournalLine, JournalLine,
         C!AuditEvent, AuditEvent
<1>2. C!Integrity(L) <=> Integrity(L)
  BY SameValidEntry
     DEF C!Integrity, Integrity, C!ReferencesResolve, ReferencesResolve,
         C!CodesUnique, CodesUnique, C!LinesUnique, LinesUnique, C!EntriesValid,
         EntriesValid, C!Present, Present, C!AccountsOf, AccountsOf, C!LineIdsOf,
         LineIdsOf
<1> QED
  BY <1>1, <1>2 DEF WholeLedgers

(* And its steps of work are those of the lemmas of LedgerProofs.          *)
LEMMA SameSteps ==
    ASSUME NEW L, NEW M
    PROVE  /\ C!KeepsHistory(L, M) <=> KeepsHistory(L, M)
           /\ C!AuditedStep(L, M) <=> AuditedStep(L, M)
BY DEF C!KeepsHistory, KeepsHistory, C!AuditedStep, AuditedStep, C!NewEvents,
       NewEvents, C!Vanished, Vanished, C!Present, Present, C!AccountDeleted,
       AccountDeleted, C!JournalDeleted, JournalDeleted

-----------------------------------------------------------------------------
(* The refinement mapping at the open scope.                               *)

View(s) == IF Idle(s) THEN repos[s] ELSE Top(frames[s])
Blocks(s) == IF Idle(s) THEN frames[s] ELSE Pop(frames[s])

(* The mapping reads the one active scope, before a step and after it.     *)
LEMMA Mapping ==
    ASSUME ExclusiveScope
    PROVE  /\ \A s \in Scopes : active[s] =>
                  Open /\ Txn = View(s) /\ Savepoints = Blocks(s)
           /\ (\A s \in Scopes : ~active[s]) =>
                  ~Open /\ Txn = state /\ Savepoints = <<>>
BY DEF ExclusiveScope, Open, Txn, Savepoints, Current, View, Blocks

(* The same of the state a step leads to.                                  *)
LEMMA MappingAfter ==
    ASSUME ExclusiveScope'
    PROVE  /\ \A s \in Scopes : active'[s] =>
                  Open' /\ Txn' = View(s)' /\ Savepoints' = Blocks(s)'
           /\ (\A s \in Scopes : ~active'[s]) =>
                  ~Open' /\ Txn' = state' /\ Savepoints' = <<>>
BY DEF ExclusiveScope, Open, Txn, Savepoints, Current, View, Blocks

(* A step that leaves what the open scope shows alone is a stutter.        *)
LEMMA Stutter ==
    ASSUME ScopeInv, ExclusiveScope', state' = state, active' = active,
           \A s \in Scopes : active[s] =>
               View(s)' = View(s) /\ Blocks(s)' = Blocks(s)
    PROVE  UNCHANGED C!contractVars
<1>1. CASE \E s \in Scopes : active[s]
  BY <1>1, Mapping, MappingAfter DEF ScopeInv, C!contractVars, Open
<1>2. CASE \A s \in Scopes : ~active[s]
  BY <1>2, Mapping, MappingAfter DEF ScopeInv, C!contractVars, Open
<1> QED
  BY <1>1, <1>2

-----------------------------------------------------------------------------
(* Entering, leaving, committing and rolling back.                         *)
LEMMA ScopeRefines ==
    ASSUME WorkInv, WorkInv', NEW s \in Scopes, ScopeStep(s)
    PROVE  C!ContractNext \/ UNCHANGED C!contractVars
<1> USE DEF WorkInv, ScopeInv, WholeInv, Idle
<1>1. CASE NewScope(s)
  BY <1>1, Stutter DEF NewScope, View, Blocks
<1>2. CASE Enter(s)
  <2>1. \A t \in Scopes : ~active[t]
    BY <1>2 DEF Enter, MayEnter, ExclusiveScope
  <2>2. Idle(s) /\ frames[s] = <<>>
    BY <1>2 DEF Enter, MayEnter, ExclusiveScope, NestedInv
  <2>3. ~Open /\ Txn = state /\ Savepoints = <<>>
    BY <2>1, Mapping
  <2>4. active'[s] /\ View(s)' = state /\ Blocks(s)' = <<>> /\ state' = state
    BY <1>2, <2>2 DEF Enter, View, Blocks
  <2>5. Open' /\ Txn' = state /\ Savepoints' = <<>>
    BY <2>4, MappingAfter
  <2>6. C!Begin
    BY <2>3, <2>4, <2>5 DEF C!Begin, Open
  <2> QED
    BY <2>6 DEF C!ContractNext
<1>3. CASE Exit(s) /\ active[s]
  <2>1. Open
    BY <1>3, Mapping
  <2>2. state' = state /\ \A t \in Scopes : ~active'[t]
    BY <1>3 DEF Exit, ExclusiveScope
  <2>3. ~Open' /\ Txn' = state /\ Savepoints' = <<>>
    BY <2>2, MappingAfter
  <2>4. C!Abandon
    BY <2>1, <2>2, <2>3 DEF C!Abandon, Open
  <2> QED
    BY <2>4 DEF C!ContractNext
<1>4. CASE Exit(s) /\ ~active[s]
  <2>1. state' = state /\ active' = active
    BY <1>4 DEF Exit
  <2>2. \A t \in Scopes : active[t] => View(t)' = View(t) /\ Blocks(t)' = Blocks(t)
    BY <1>4 DEF Exit, View, Blocks
  <2> QED
    BY <2>1, <2>2, Stutter
<1>5. CASE Commit(s)
  <2>1. Open /\ Txn = repos[s]
    BY <1>5, Mapping DEF Commit, View
  <2>2. state' = repos[s] /\ \A t \in Scopes : ~active'[t]
    BY <1>5 DEF Commit, ExclusiveScope
  <2>3. ~Open' /\ Txn' = repos[s] /\ Savepoints' = <<>>
    BY <2>2, MappingAfter
  <2>4. C!Commit
    BY <2>1, <2>2, <2>3 DEF C!Commit, Open
  <2> QED
    BY <2>4 DEF C!ContractNext
<1>6. CASE Rollback(s)
  <2>1. Open
    BY <1>6, Mapping DEF Rollback
  <2>2. state' = state /\ \A t \in Scopes : ~active'[t]
    BY <1>6 DEF Rollback, ExclusiveScope
  <2>3. ~Open' /\ Txn' = state /\ Savepoints' = <<>>
    BY <2>2, MappingAfter
  <2>4. C!Abandon
    BY <2>1, <2>2, <2>3 DEF C!Abandon, Open
  <2> QED
    BY <2>4 DEF C!ContractNext
<1> QED
  BY <1>1, <1>2, <1>3, <1>4, <1>5, <1>6 DEF ScopeStep

(* A write by the open scope that the lemmas of LedgerProofs allow is Work. *)
LEMMA WorkRefines ==
    ASSUME WorkInv, WorkInv', NEW s \in Scopes, active[s],
           UNCHANGED <<state, flags>>,
           NEW L \in WholeLedgers, View(s)' = L, Blocks(s)' = Blocks(s),
           KeepsHistory(View(s), L), ServicesOnly => AuditedStep(View(s), L)
    PROVE  C!ContractNext
<1>1. Open /\ Txn = View(s) /\ Savepoints = Blocks(s)
  BY Mapping DEF WorkInv, ScopeInv
<1>2. Open' /\ Txn' = L /\ Savepoints' = Blocks(s)
  BY MappingAfter DEF WorkInv, ScopeInv, flags
<1>3. C!Work
  BY <1>1, <1>2, SameLedgers, SameSteps DEF C!Work, Open
<1> QED
  BY <1>3 DEF C!ContractNext

(* Blocks that begin, end or fail in a scope that is still active are the  *)
(* contract's; in one that has committed or rolled back they show nothing. *)
LEMMA AtomicRefines ==
    ASSUME WorkInv, WorkInv', NEW s \in Scopes, AtomicStep(s)
    PROVE  C!ContractNext \/ UNCHANGED C!contractVars
<1> USE DEF WorkInv, ScopeInv, WholeInv
<1>1. Idle(s) /\ Idle(s)' /\ UNCHANGED <<state, active>>
  BY DEF AtomicStep, AtomicBegin, AtomicEnd, AtomicFail, flags, Idle
<1>2. CASE ~active[s]
  <2>1. \A t \in Scopes : active[t] => View(t)' = View(t) /\ Blocks(t)' = Blocks(t)
    BY <1>2 DEF AtomicStep, AtomicBegin, AtomicEnd, AtomicFail, View, Blocks, Idle
  <2> QED
    BY <1>1, <2>1, Stutter
<1>3. CASE active[s]
  <2>1. Open /\ Txn = repos[s] /\ Savepoints = frames[s]
    BY <1>1, <1>3, Mapping DEF View, Blocks
  <2>2. Open' /\ Txn' = repos'[s] /\ Savepoints' = frames'[s]
    BY <1>1, <1>3, MappingAfter DEF View, Blocks
  <2>3. CASE AtomicBegin(s)
    <3>1. repos' = repos /\ frames'[s] = Push(frames[s], repos[s])
      BY <2>3 DEF AtomicBegin
    <3>2. C!AtomicBegin
      BY <1>1, <2>1, <2>2, <3>1 DEF C!AtomicBegin, Push, Open
    <3> QED
      BY <3>2 DEF C!ContractNext
  <2>4. CASE AtomicEnd(s)
    <3>1. repos' = repos /\ frames[s] # <<>> /\ frames'[s] = Pop(frames[s])
      BY <2>4 DEF AtomicEnd
    <3>2. C!AtomicEnd
      BY <1>1, <2>1, <2>2, <3>1 DEF C!AtomicEnd, Pop, Open
    <3> QED
      BY <3>2 DEF C!ContractNext
  <2>5. CASE AtomicFail(s)
    <3>1. /\ frames[s] # <<>>
          /\ repos'[s] = Top(frames[s])
          /\ frames'[s] = Pop(frames[s])
      BY <2>5 DEF AtomicFail, Load
    <3>2. C!AtomicFail
      BY <1>1, <2>1, <2>2, <3>1 DEF C!AtomicFail, Pop, Top, Open
    <3> QED
      BY <3>2 DEF C!ContractNext
  <2> QED
    BY <2>3, <2>4, <2>5 DEF AtomicStep
<1> QED
  BY <1>2, <1>3

(* An operation that writes once is Work.                                  *)
LEMMA OperationRefines ==
    ASSUME WorkInv, WorkInv', NEW s \in Scopes, Operation(s)
    PROVE  C!ContractNext
<1>1. PICK L \in WholeLedgers :
          /\ Working(s) /\ Write(s, L)
          /\ KeepsHistory(repos[s], L)
          /\ ServicesOnly => AuditedStep(repos[s], L)
  BY OperationStep DEF WorkInv, ScopeInv
<1>2. /\ active[s] /\ View(s) = repos[s] /\ Blocks(s) = frames[s]
      /\ View(s)' = L /\ Blocks(s)' = frames[s]
      /\ UNCHANGED <<state, flags>>
  BY <1>1 DEF Working, Write, View, Blocks, Idle, WorkInv, ScopeInv, WholeInv
<1> QED
  BY <1>1, <1>2, WorkRefines

(* A deletion shows nothing until its event is appended; then it is Work.  *)
LEMMA DeletionRefines ==
    ASSUME WorkInv, WorkInv', NEW s \in Scopes, DeletionStep(s)
    PROVE  C!ContractNext \/ UNCHANGED C!contractVars
<1> USE DEF WorkInv, ScopeInv, WholeInv
<1>1. CASE DeleteAccount(s) \/ DeleteJournal(s)
  <2>1. PICK L \in WholeLedgers, event \in AuditEvent :
            Working(s) /\ StartDeletion(s, event, L)
    BY <1>1, DeletionWhole
  <2>2. event # NoCall
    BY NoCallAssumption
  <2>3. /\ Top(Push(frames[s], repos[s])) = repos[s]
        /\ Pop(Push(frames[s], repos[s])) = frames[s]
    BY PushFacts
  <2>4. View(s)' = View(s) /\ Blocks(s)' = Blocks(s)
    BY <2>1, <2>2, <2>3 DEF StartDeletion, Working, View, Blocks, Idle
  <2>5. \A t \in Scopes \ {s} : View(t)' = View(t) /\ Blocks(t)' = Blocks(t)
    BY <2>1 DEF StartDeletion, View, Blocks, Idle
  <2> QED
    BY <2>1, <2>4, <2>5, Stutter DEF StartDeletion, flags
<1>2. CASE FinishDeletion(s)
  <2>1. PICK L \in WholeLedgers :
            repos' = [repos EXCEPT ![s] = L] /\ ServiceStep(Top(frames[s]), L)
    BY <1>2, FinishStep
  <2>2. /\ active[s] /\ ~Idle(s) /\ Idle(s)'
        /\ frames'[s] = Pop(frames[s])
        /\ UNCHANGED <<state, flags>>
    BY <1>2 DEF FinishDeletion, NestedInv, Idle
  <2>3. View(s) = Top(frames[s]) /\ View(s)' = L /\ Blocks(s)' = Blocks(s)
    BY <2>1, <2>2 DEF View, Blocks
  <2> QED
    BY <2>1, <2>2, <2>3, WorkRefines DEF ServiceStep
<1>3. CASE FailDeletion(s)
  <2>1. View(s)' = View(s) /\ Blocks(s)' = Blocks(s)
    BY <1>3 DEF FailDeletion, Load, View, Blocks, Idle
  <2>2. \A t \in Scopes \ {s} : View(t)' = View(t) /\ Blocks(t)' = Blocks(t)
    BY <1>3 DEF FailDeletion, View, Blocks, Idle
  <2> QED
    BY <1>3, <2>1, <2>2, Stutter DEF FailDeletion, flags
<1> QED
  BY <1>1, <1>2, <1>3 DEF DeletionStep

(* The memory store implements the contract: one unit of work at a time,   *)
(* atomic blocks that fail without a trace, deletions audited in the step  *)
(* that makes them, and commits that publish the whole unit at once.       *)
THEOREM MemoryKeepsContract == Spec => ContractKept
<1>1. Init => C!ContractInit
  BY DEF Init, C!ContractInit, Open, Txn, Savepoints, C!EmptyLedger, EmptyLedger
<1>2. WorkInv /\ WorkInv' /\ [Next]_vars => [C!ContractNext]_C!contractVars
  <2> SUFFICES ASSUME WorkInv, WorkInv', [Next]_vars
               PROVE  C!ContractNext \/ UNCHANGED C!contractVars
    OBVIOUS
  <2>1. CASE UNCHANGED vars
    BY <2>1 DEF vars, C!contractVars, Open, Txn, Savepoints, Current, Idle
  <2> QED
    BY <2>1, ScopeRefines, AtomicRefines, OperationRefines, DeletionRefines DEF Next
<1> QED
  BY <1>1, <1>2, WorkInvAlways, PTL DEF Spec, ContractKept, C!Contract
=============================================================================
