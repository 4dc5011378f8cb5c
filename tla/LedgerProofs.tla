---------------------------- MODULE LedgerProofs ----------------------------
(***************************************************************************)
(* Each operation, under the condition it tests, turns a whole ledger into *)
(* a whole ledger, and keeps posted entries and audit events.  Entries of  *)
(* whole ledgers cancel out in each currency.                              *)
(***************************************************************************)
EXTENDS Ledger, TLAPS, FiniteSetTheorems

WholeLedgers == {L \in Ledgers : Integrity(L)}

(* The empty store is whole. *)
LEMMA EmptyLedgerWhole == EmptyLedger \in WholeLedgers
BY DEF EmptyLedger, WholeLedgers, Ledgers, OrAbsent, Integrity, ReferencesResolve,
       CodesUnique, LinesUnique, EntriesValid, Present

(* Storing an account under a free code keeps the ledger whole: create and *)
(* update of accounts, whose only condition this is.                       *)
LEMMA PutAccountWhole ==
    ASSUME NEW L \in WholeLedgers, NEW a \in AccountIds, NEW record \in Account,
           ~CodeTaken(L.accounts, a, record.code)
    PROVE  PutAccount(L, a, record) \in WholeLedgers
<1> DEFINE M == PutAccount(L, a, record)
<1>1. L \in Ledgers /\ Integrity(L)
  BY DEF WholeLedgers
<1>2. M \in Ledgers
  BY <1>1 DEF Ledgers, PutAccount, OrAbsent
<1>3. record # Absent
  BY AbsentAssumption
<1>4. /\ M.journals = L.journals
      /\ M.entries = L.entries
      /\ M.accounts = [L.accounts EXCEPT ![a] = record]
      /\ DOMAIN L.accounts = AccountIds
  BY <1>1 DEF Ledgers, PutAccount
<1>5. \A b : M.accounts[b] = Absent => L.accounts[b] = Absent
  BY <1>3, <1>4
<1>6. ReferencesResolve(M)
  BY <1>1, <1>4, <1>5 DEF ReferencesResolve, Present, Integrity
<1>7. CodesUnique(M.accounts)
  BY <1>1, <1>3, <1>4 DEF CodesUnique, Present, Integrity, CodeTaken
<1>8. CodesUnique(M.journals) /\ LinesUnique(M) /\ EntriesValid(M)
  BY <1>1, <1>4 DEF Integrity, LinesUnique, EntriesValid
<1> QED
  BY <1>2, <1>6, <1>7, <1>8 DEF Integrity, WholeLedgers

(* The same for journals. *)
LEMMA PutJournalWhole ==
    ASSUME NEW L \in WholeLedgers, NEW j \in JournalIds, NEW record \in Journal,
           ~CodeTaken(L.journals, j, record.code)
    PROVE  PutJournal(L, j, record) \in WholeLedgers
<1> DEFINE M == PutJournal(L, j, record)
<1>1. L \in Ledgers /\ Integrity(L)
  BY DEF WholeLedgers
<1>2. M \in Ledgers
  BY <1>1 DEF Ledgers, PutJournal, OrAbsent
<1>3. record # Absent
  BY AbsentAssumption
<1>4. /\ M.accounts = L.accounts
      /\ M.entries = L.entries
      /\ M.journals = [L.journals EXCEPT ![j] = record]
      /\ DOMAIN L.journals = JournalIds
  BY <1>1 DEF Ledgers, PutJournal
<1>5. \A k : M.journals[k] = Absent => L.journals[k] = Absent
  BY <1>3, <1>4
<1>6. ReferencesResolve(M)
  BY <1>1, <1>4, <1>5 DEF ReferencesResolve, Present, Integrity
<1>7. CodesUnique(M.journals)
  BY <1>1, <1>3, <1>4 DEF CodesUnique, Present, Integrity, CodeTaken
<1>8. CodesUnique(M.accounts) /\ LinesUnique(M) /\ EntriesValid(M)
  BY <1>1, <1>4 DEF Integrity, LinesUnique, EntriesValid
<1> QED
  BY <1>2, <1>6, <1>7, <1>8 DEF Integrity, WholeLedgers

(* Removing an account no entry uses leaves no dangling line. *)
LEMMA RemoveAccountWhole ==
    ASSUME NEW L \in WholeLedgers, NEW a \in AccountIds, MayDeleteAccount(L, a)
    PROVE  PutAccount(L, a, Absent) \in WholeLedgers
<1> DEFINE M == PutAccount(L, a, Absent)
<1>1. L \in Ledgers /\ Integrity(L)
  BY DEF WholeLedgers
<1>2. M \in Ledgers
  BY <1>1 DEF Ledgers, PutAccount, OrAbsent
<1>3. /\ M.journals = L.journals
      /\ M.entries = L.entries
      /\ M.accounts = [L.accounts EXCEPT ![a] = Absent]
      /\ DOMAIN L.accounts = AccountIds
  BY <1>1 DEF Ledgers, PutAccount
<1>4. ReferencesResolve(M)
  BY <1>1, <1>3 DEF ReferencesResolve, Present, Integrity, MayDeleteAccount, AccountUsed
<1>5. CodesUnique(M.accounts)
  BY <1>1, <1>3 DEF CodesUnique, Present, Integrity
<1>6. CodesUnique(M.journals) /\ LinesUnique(M) /\ EntriesValid(M)
  BY <1>1, <1>3 DEF Integrity, LinesUnique, EntriesValid
<1> QED
  BY <1>2, <1>4, <1>5, <1>6 DEF Integrity, WholeLedgers

(* Removing an empty journal leaves no entry without its journal. *)
LEMMA RemoveJournalWhole ==
    ASSUME NEW L \in WholeLedgers, NEW j \in JournalIds, MayDeleteJournal(L, j)
    PROVE  PutJournal(L, j, Absent) \in WholeLedgers
<1> DEFINE M == PutJournal(L, j, Absent)
<1>1. L \in Ledgers /\ Integrity(L)
  BY DEF WholeLedgers
<1>2. M \in Ledgers
  BY <1>1 DEF Ledgers, PutJournal, OrAbsent
<1>3. /\ M.accounts = L.accounts
      /\ M.entries = L.entries
      /\ M.journals = [L.journals EXCEPT ![j] = Absent]
      /\ DOMAIN L.journals = JournalIds
  BY <1>1 DEF Ledgers, PutJournal
<1>4. ReferencesResolve(M)
  BY <1>1, <1>3 DEF ReferencesResolve, Present, Integrity, MayDeleteJournal, JournalUsed
<1>5. CodesUnique(M.journals)
  BY <1>1, <1>3 DEF CodesUnique, Present, Integrity
<1>6. CodesUnique(M.accounts) /\ LinesUnique(M) /\ EntriesValid(M)
  BY <1>1, <1>3 DEF Integrity, LinesUnique, EntriesValid
<1> QED
  BY <1>2, <1>4, <1>5, <1>6 DEF Integrity, WholeLedgers

(* Storing an entry that passed the repository's checks keeps the ledger   *)
(* whole.                                                                  *)
LEMMA PutEntryWhole ==
    ASSUME NEW L \in WholeLedgers, NEW e \in EntryIds, NEW entry \in JournalEntry,
           MayCreateEntry(L, e, entry)
    PROVE  PutEntry(L, e, entry) \in WholeLedgers
<1> DEFINE M == PutEntry(L, e, entry)
<1>1. L \in Ledgers /\ Integrity(L)
  BY DEF WholeLedgers
<1>2. M \in Ledgers
  BY <1>1 DEF Ledgers, PutEntry, OrAbsent
<1>3. /\ M.accounts = L.accounts
      /\ M.journals = L.journals
      /\ M.entries = [L.entries EXCEPT ![e] = entry]
      /\ DOMAIN L.entries = EntryIds
  BY <1>1 DEF Ledgers, PutEntry
<1>4. /\ ValidEntry(e, entry)
      /\ L.journals[entry.journal_id] # Absent
      /\ \A a \in AccountsOf(entry) : L.accounts[a] # Absent
      /\ \A other \in Present(L.entries) :
            LineIdsOf(L.entries[other]) \cap LineIdsOf(entry) = {}
  BY DEF MayCreateEntry
<1>5. \A f \in Present(M.entries) \ {e} :
          f \in Present(L.entries) /\ M.entries[f] = L.entries[f]
  BY <1>3 DEF Present
<1>6. M.entries[e] = entry
  BY <1>3
<1>7. ReferencesResolve(M)
  BY <1>1, <1>3, <1>4, <1>5, <1>6 DEF ReferencesResolve, Integrity
<1>8. LinesUnique(M)
  BY <1>1, <1>4, <1>5, <1>6 DEF LinesUnique, Integrity
<1>9. EntriesValid(M)
  BY <1>1, <1>4, <1>5, <1>6 DEF EntriesValid, Integrity
<1>10. CodesUnique(M.accounts) /\ CodesUnique(M.journals)
  BY <1>1, <1>3 DEF Integrity
<1> QED
  BY <1>2, <1>7, <1>8, <1>9, <1>10 DEF Integrity, WholeLedgers

(* Integrity does not depend on the audit log. *)
LEMMA PutEventWhole ==
    ASSUME NEW L \in WholeLedgers, NEW ev \in EventIds, NEW event \in AuditEvent
    PROVE  PutEvent(L, ev, event) \in WholeLedgers
<1> DEFINE M == PutEvent(L, ev, event)
<1>1. L \in Ledgers /\ Integrity(L)
  BY DEF WholeLedgers
<1>2. M \in Ledgers
  BY <1>1 DEF Ledgers, PutEvent, OrAbsent
<1>3. M.accounts = L.accounts /\ M.journals = L.journals /\ M.entries = L.entries
  BY <1>1 DEF Ledgers, PutEvent
<1>4. Integrity(M)
  BY <1>1, <1>3 DEF Integrity, ReferencesResolve, LinesUnique, EntriesValid
<1> QED
  BY <1>2, <1>4 DEF WholeLedgers

-----------------------------------------------------------------------------
(* Keeping history is reflexive and transitive. *)
LEMMA KeepsHistoryReflexive == \A L : KeepsHistory(L, L)
BY DEF KeepsHistory

(* What two operations keep one after the other is kept by both.           *)
LEMMA KeepsHistoryTransitive ==
    ASSUME NEW L \in Ledgers, NEW M \in Ledgers, NEW N \in Ledgers,
           KeepsHistory(L, M), KeepsHistory(M, N)
    PROVE  KeepsHistory(L, N)
BY DEF KeepsHistory, Present, Ledgers

(* What the contract asks of a step of work done through the services. *)
ServiceStep(L, M) == KeepsHistory(L, M) /\ AuditedStep(L, M)

(* Creating or updating an account makes nothing vanish, adds no event and *)
(* touches no entry: a step the service may take in one write.             *)
LEMMA PutAccountStep ==
    ASSUME NEW L \in Ledgers, NEW a \in AccountIds, NEW record \in Account
    PROVE  ServiceStep(L, PutAccount(L, a, record))
<1> DEFINE M == PutAccount(L, a, record)
<1>1. /\ M.journals = L.journals /\ M.entries = L.entries /\ M.audit = L.audit
      /\ M.accounts = [L.accounts EXCEPT ![a] = record]
      /\ DOMAIN L.accounts = AccountIds
  BY DEF Ledgers, PutAccount
<1>2. Vanished(L.accounts, M.accounts) = {}
  BY <1>1, AbsentAssumption DEF Vanished, Present
<1>3. Vanished(L.journals, M.journals) = {} /\ NewEvents(L, M) = {}
  BY <1>1 DEF Vanished, NewEvents
<1> QED
  BY <1>1, <1>2, <1>3 DEF ServiceStep, KeepsHistory, AuditedStep

(* The same for creating or updating a journal.                            *)
LEMMA PutJournalStep ==
    ASSUME NEW L \in Ledgers, NEW j \in JournalIds, NEW record \in Journal
    PROVE  ServiceStep(L, PutJournal(L, j, record))
<1> DEFINE M == PutJournal(L, j, record)
<1>1. /\ M.accounts = L.accounts /\ M.entries = L.entries /\ M.audit = L.audit
      /\ M.journals = [L.journals EXCEPT ![j] = record]
      /\ DOMAIN L.journals = JournalIds
  BY DEF Ledgers, PutJournal
<1>2. Vanished(L.journals, M.journals) = {}
  BY <1>1, AbsentAssumption DEF Vanished, Present
<1>3. Vanished(L.accounts, M.accounts) = {} /\ NewEvents(L, M) = {}
  BY <1>1 DEF Vanished, NewEvents
<1> QED
  BY <1>1, <1>2, <1>3 DEF ServiceStep, KeepsHistory, AuditedStep

(* Posting an entry whose identifier is free alters no earlier entry.      *)
LEMMA PutEntryStep ==
    ASSUME NEW L \in Ledgers, NEW e \in EntryIds, NEW entry, L.entries[e] = Absent
    PROVE  ServiceStep(L, PutEntry(L, e, entry))
<1> DEFINE M == PutEntry(L, e, entry)
<1>1. /\ M.accounts = L.accounts /\ M.journals = L.journals /\ M.audit = L.audit
      /\ M.entries = [L.entries EXCEPT ![e] = entry]
  BY DEF Ledgers, PutEntry
<1>2. KeepsHistory(L, M)
  BY <1>1 DEF KeepsHistory, Present
<1>3. /\ Vanished(L.accounts, M.accounts) = {}
      /\ Vanished(L.journals, M.journals) = {}
      /\ NewEvents(L, M) = {}
  BY <1>1 DEF Vanished, NewEvents
<1> QED
  BY <1>2, <1>3 DEF ServiceStep, AuditedStep

(* Appending under a free identifier, and removing an account or journal,  *)
(* touch no entry and no earlier event.                                    *)
LEMMA PutEventHistory ==
    ASSUME NEW L \in Ledgers, NEW ev \in EventIds, NEW event, MayAppend(L, ev)
    PROVE  KeepsHistory(L, PutEvent(L, ev, event))
BY DEF Ledgers, PutEvent, KeepsHistory, Present, MayAppend

(* Removing an account or a journal alone touches neither entries nor      *)
(* events: accounts.delete and journals.delete keep history, unaudited.    *)
LEMMA RemovalHistory ==
    ASSUME NEW L \in Ledgers
    PROVE  /\ \A a \in AccountIds : KeepsHistory(L, PutAccount(L, a, Absent))
           /\ \A j \in JournalIds : KeepsHistory(L, PutJournal(L, j, Absent))
BY DEF Ledgers, PutAccount, PutJournal, KeepsHistory

(* A deletion and the appending of its event make one audited step.        *)
LEMMA DeleteAccountStep ==
    ASSUME NEW L \in Ledgers, NEW a \in AccountIds, NEW ev \in EventIds,
           L.accounts[a] # Absent, L.audit[ev] = Absent
    PROVE  ServiceStep(L, PutEvent(PutAccount(L, a, Absent), ev, AccountDeleted(L, a)))
<1> DEFINE event == AccountDeleted(L, a)
           M == PutEvent(PutAccount(L, a, Absent), ev, event)
<1>1. /\ M.journals = L.journals /\ M.entries = L.entries
      /\ M.accounts = [L.accounts EXCEPT ![a] = Absent]
      /\ M.audit = [L.audit EXCEPT ![ev] = event]
      /\ DOMAIN L.accounts = AccountIds /\ DOMAIN L.audit = EventIds
  BY DEF Ledgers, PutAccount, PutEvent
<1>2. event # Absent
  <2>1. event \in AuditEvent
    BY DEF AccountDeleted, AuditEvent, Ledgers, OrAbsent
  <2> QED
    BY <2>1, AbsentAssumption
<1>3. KeepsHistory(L, M)
  BY <1>1 DEF KeepsHistory, Present
<1>4. Vanished(L.accounts, M.accounts) = {a}
  BY <1>1 DEF Vanished, Present
<1>5. Vanished(L.journals, M.journals) = {}
  BY <1>1 DEF Vanished
<1>6. Present(M.audit) \ Present(L.audit) = {ev}
  BY <1>1, <1>2 DEF Present
<1>7. NewEvents(L, M) = {event}
  BY <1>1, <1>6 DEF NewEvents
<1> QED
  BY <1>3, <1>4, <1>5, <1>7 DEF ServiceStep, AuditedStep

(* The same for delete_journal.                                            *)
LEMMA DeleteJournalStep ==
    ASSUME NEW L \in Ledgers, NEW j \in JournalIds, NEW ev \in EventIds,
           L.journals[j] # Absent, L.audit[ev] = Absent
    PROVE  ServiceStep(L, PutEvent(PutJournal(L, j, Absent), ev, JournalDeleted(L, j)))
<1> DEFINE event == JournalDeleted(L, j)
           M == PutEvent(PutJournal(L, j, Absent), ev, event)
<1>1. /\ M.accounts = L.accounts /\ M.entries = L.entries
      /\ M.journals = [L.journals EXCEPT ![j] = Absent]
      /\ M.audit = [L.audit EXCEPT ![ev] = event]
      /\ DOMAIN L.journals = JournalIds /\ DOMAIN L.audit = EventIds
  BY DEF Ledgers, PutJournal, PutEvent
<1>2. event # Absent
  <2>1. event \in AuditEvent
    BY DEF JournalDeleted, AuditEvent, Ledgers, OrAbsent
  <2> QED
    BY <2>1, AbsentAssumption
<1>3. KeepsHistory(L, M)
  BY <1>1 DEF KeepsHistory, Present
<1>4. Vanished(L.journals, M.journals) = {j}
  BY <1>1 DEF Vanished, Present
<1>5. Vanished(L.accounts, M.accounts) = {}
  BY <1>1 DEF Vanished
<1>6. Present(M.audit) \ Present(L.audit) = {ev}
  BY <1>1, <1>2 DEF Present
<1>7. NewEvents(L, M) = {event}
  BY <1>1, <1>6 DEF NewEvents
<1> QED
  BY <1>3, <1>4, <1>5, <1>7 DEF ServiceStep, AuditedStep

(* Audited steps compose: if everything that vanished since S has its      *)
(* event in L, an audited step from L keeps it so.                         *)
LEMMA VanishedAuditedStep ==
    ASSUME NEW S \in Ledgers, NEW L \in Ledgers, NEW M \in Ledgers,
           KeepsHistory(S, L), VanishedAudited(S, L), ServiceStep(L, M)
    PROVE  VanishedAudited(S, M)
<1>1. KeepsHistory(L, M) /\ AuditedStep(L, M)
  BY DEF ServiceStep
<1>2. NewEvents(S, L) \subseteq NewEvents(S, M)
  BY <1>1 DEF NewEvents, KeepsHistory, Present, Ledgers
<1>3. NewEvents(L, M) \subseteq NewEvents(S, M)
  BY DEF NewEvents, KeepsHistory, Present, Ledgers
<1>4. ASSUME NEW a \in Vanished(S.accounts, M.accounts)
      PROVE  \E event \in NewEvents(S, M) :
                 event.record_type = "Account" /\ event.record_id = a
  <2>1. CASE a \in Vanished(S.accounts, L.accounts)
    BY <1>2, <2>1 DEF VanishedAudited
  <2>2. CASE a \in Vanished(L.accounts, M.accounts)
    <3>1. AccountDeleted(L, a) \in NewEvents(S, M)
      BY <1>1, <1>3, <2>2 DEF AuditedStep
    <3> QED
      BY <3>1 DEF AccountDeleted
  <2> QED
    BY <1>4, <2>1, <2>2 DEF Vanished
<1>5. ASSUME NEW j \in Vanished(S.journals, M.journals)
      PROVE  \E event \in NewEvents(S, M) :
                 event.record_type = "Journal" /\ event.record_id = j
  <2>1. CASE j \in Vanished(S.journals, L.journals)
    BY <1>2, <2>1 DEF VanishedAudited
  <2>2. CASE j \in Vanished(L.journals, M.journals)
    <3>1. JournalDeleted(L, j) \in NewEvents(S, M)
      BY <1>1, <1>3, <2>2 DEF AuditedStep
    <3> QED
      BY <3>1 DEF JournalDeleted
  <2> QED
    BY <1>5, <2>1, <2>2 DEF Vanished
<1> QED
  BY <1>4, <1>5 DEF VanishedAudited

-----------------------------------------------------------------------------
(* Entries that balance, bucket by bucket, cancel out line by line.  The   *)
(* library adds the elements of each set in an order of its own, so sums   *)
(* over different sets are related only once no order matters.             *)

(* Among the subsets of a finite set, a nonempty collection has a      *)
(* smallest member.                                                        *)
LEMMA SmallestSet ==
    ASSUME NEW D, IsFiniteSet(D), NEW C \in SUBSET SUBSET D, C # {}
    PROVE  \E s \in C : \A t \in SUBSET s : t \in C => t = s
<1> DEFINE R == StrictSubsetOrdering(D)
<1>1. IsWellFoundedOn(R, FiniteSubsetsOf(D))
  BY FS_StrictSubsetOrderingWellFounded
<1>2. FiniteSubsetsOf(D) = SUBSET D
  BY FS_FiniteSubsetsOfFinite
<1>3. \A s, t \in SUBSET D : t \subseteq s /\ t # s => <<t, s>> \in R
  BY DEF StrictSubsetOrdering
<1> HIDE DEF R
<1>4. PICK s \in C : \A t \in C : ~(<<t, s>> \in R)
  BY <1>1, <1>2, WFMin
<1>5. ASSUME NEW t \in SUBSET s, t \in C
      PROVE  t = s
  BY <1>3, <1>4, <1>5
<1> QED
  BY <1>5

\* The element the library's folds take first, and h as the sums of f over the
\* subsets of S, in that order.
First(t) == CHOOSE x \in t : TRUE

Sums(h, f, S) ==
    \A t \in SUBSET S :
        h[t] = IF t = {} THEN 0 ELSE f[First(t)] + h[t \ {First(t)}]

(* A set that is not empty has it.                                         *)
LEMMA FirstIn ==
    ASSUME NEW t, t # {}
    PROVE  First(t) \in t
BY DEF First

(* There is only one such h.                                               *)
LEMMA SumsAgree ==
    ASSUME NEW S, IsFiniteSet(S), NEW f, NEW g, NEW h, Sums(g, f, S), Sums(h, f, S)
    PROVE  \A t \in SUBSET S : g[t] = h[t]
<1> DEFINE C == {t \in SUBSET S : g[t] # h[t]}
<1> SUFFICES ASSUME C # {}
             PROVE  FALSE
  OBVIOUS
<1>1. PICK s \in C : \A t \in SUBSET s : t \in C => t = s
  <2> HIDE DEF C
  <2>1. C \in SUBSET SUBSET S
    BY DEF C
  <2> QED
    BY <2>1, SmallestSet
<1>2. s # {}
  BY DEF Sums
<1>3. First(s) \in s
  BY <1>2, FirstIn
<1>4. g[s \ {First(s)}] = h[s \ {First(s)}]
  BY <1>1, <1>3
<1>5. /\ g[s] = f[First(s)] + g[s \ {First(s)}]
      /\ h[s] = f[First(s)] + h[s \ {First(s)}]
  BY <1>2 DEF Sums
<1> QED
  BY <1>4, <1>5

(* And there is one.                                                       *)
LEMMA SumsExist ==
    ASSUME NEW D, IsFiniteSet(D), NEW f \in [D -> Int]
    PROVE  \E h \in [SUBSET D -> Int] : Sums(h, f, D)
<1> DEFINE Good(h, S) == h \in [SUBSET S -> Int] /\ Sums(h, f, S)
           C == {S \in SUBSET D : ~\E h : Good(h, S)}
<1> SUFFICES ASSUME C # {}
             PROVE  FALSE
  OBVIOUS
<1>1. PICK S \in C : \A t \in SUBSET S : t \in C => t = S
  <2> HIDE DEF C
  <2>1. C \in SUBSET SUBSET D
    BY DEF C
  <2> QED
    BY <2>1, SmallestSet
<1>2. S # {}
  <2>1. ASSUME S = {}
        PROVE  Good([t \in SUBSET S |-> 0], S)
    BY <2>1 DEF Sums
  <2> QED
    BY <2>1
<1> DEFINE below(t) == CHOOSE h : Good(h, t)
           x == First(S)
           rest == below(S \ {x})[S \ {x}]
           h == [t \in SUBSET S |-> IF t = S THEN f[x] + rest ELSE below(t)[t]]
<1>3. ASSUME NEW t \in SUBSET S, t # S
      PROVE  Good(below(t), t)
  <2>1. \E g : Good(g, t)
    BY <1>1, <1>3
  <2> HIDE DEF Good
  <2> QED
    BY <2>1
<1>4. \A t \in SUBSET S : IsFiniteSet(t)
  BY FS_Subset
<1>5. x \in S /\ f[x] \in Int
  BY <1>2, FirstIn
<1> HIDE DEF below, x
<1>6. rest \in Int
  <2> DEFINE u == S \ {x}
  <2>1. u \in SUBSET S /\ u # S
    BY <1>5
  <2> HIDE DEF u
  <2>2. below(u) \in [SUBSET u -> Int]
    BY <1>3, <2>1
  <2>3. below(u)[u] \in Int
    BY <2>2
  <2> QED
    BY <2>3 DEF u
<1>7. h \in [SUBSET S -> Int]
  <2>1. ASSUME NEW t \in SUBSET S, t # S
        PROVE  below(t)[t] \in Int
    BY <1>3, <2>1
  <2> HIDE DEF rest
  <2> QED
    BY <1>5, <1>6, <2>1
<1>8. ASSUME NEW t \in SUBSET S
      PROVE  h[t] = IF t = {} THEN 0 ELSE f[First(t)] + h[t \ {First(t)}]
  <2>1. CASE t = S
    <3>1. h[S \ {x}] = rest
      BY <1>5
    <3>2. h[S] = f[x] + rest
      OBVIOUS
    <3> HIDE DEF h, rest
    <3> QED
      BY <1>2, <2>1, <3>1, <3>2 DEF x
  <2>2. CASE t # S /\ t = {}
    <3>1. h[t] = below(t)[t]
      BY <2>2
    <3>2. below(t)[t] = 0
      BY <1>3, <2>2 DEF Sums
    <3> QED
      BY <2>2, <3>1, <3>2
  <2>3. CASE t # S /\ t # {}
    <3> DEFINE y == First(t)
               u == t \ {y}
    <3>1. y \in t
      BY <2>3, FirstIn
    <3> HIDE DEF y
    <3>2. u \in SUBSET t /\ u \in SUBSET S /\ u # S /\ t \in SUBSET S
      BY <2>3, <3>1
    <3>3. h[t] = below(t)[t] /\ h[u] = below(u)[u]
      BY <2>3, <3>2
    <3>4. Sums(below(t), f, t) /\ Sums(below(u), f, u)
      BY <1>3, <2>3, <3>2
    <3>5. Sums(below(t), f, u)
      <4> HIDE DEF u
      <4> QED
        BY <3>2, <3>4 DEF Sums
    <3>6. below(t)[u] = below(u)[u]
      <4> HIDE DEF u
      <4> QED
        BY <1>4, <3>2, <3>4, <3>5, SumsAgree
    <3>7. below(t)[t] = f[y] + below(t)[u]
      <4>1. t \in SUBSET t
        OBVIOUS
      <4>2. below(t)[t] = f[First(t)] + below(t)[t \ {First(t)}]
        BY <2>3, <3>4, <4>1 DEF Sums
      <4> QED
        BY <4>2 DEF y
    <3> HIDE DEF h
    <3>8. h[t] = f[y] + h[u]
      BY <3>3, <3>6, <3>7
    <3> QED
      BY <2>3, <3>8 DEF y
  <2> QED
    BY <2>1, <2>2, <2>3
<1>9. Good(h, S)
  <2> HIDE DEF h
  <2> QED
    BY <1>7, <1>8 DEF Sums
<1> QED
  <2> HIDE DEF h, Good
  <2>1. \E g : Good(g, S)
    BY <1>9
  <2> QED
    BY <1>1, <2>1

\* Any element may be taken first.
AnyFirst(h, f, D) ==
    \A s \in SUBSET D : \A y \in s : h[s] = f[y] + h[s \ {y}]

(* The order does not matter.                                              *)
LEMMA SumTakesAny ==
    ASSUME NEW D, IsFiniteSet(D), NEW f \in [D -> Int],
           NEW h \in [SUBSET D -> Int], Sums(h, f, D)
    PROVE  AnyFirst(h, f, D)
<1> DEFINE Bad(s) == \E y \in s : h[s] # f[y] + h[s \ {y}]
           C == {s \in SUBSET D : Bad(s)}
<1> SUFFICES ASSUME C # {}
             PROVE  FALSE
  BY DEF AnyFirst
<1>1. PICK s \in C : \A t \in SUBSET s : t \in C => t = s
  <2> HIDE DEF C
  <2>1. C \in SUBSET SUBSET D
    BY DEF C
  <2> QED
    BY <2>1, SmallestSet
<1>2. PICK y \in s : h[s] # f[y] + h[s \ {y}]
  OBVIOUS
<1> DEFINE x == First(s)
<1>3. x \in s
  BY <1>2, FirstIn
<1>4. h[s] = f[x] + h[s \ {x}]
  BY <1>2 DEF Sums
<1> HIDE DEF x
<1>5. x # y
  BY <1>2, <1>4
<1>6. /\ y \in s \ {x} /\ s \ {x} \in SUBSET D /\ s \ {x} # s
      /\ x \in s \ {y} /\ s \ {y} \in SUBSET D /\ s \ {y} # s
  BY <1>2, <1>3, <1>5
<1> DEFINE u == s \ {x}
           v == s \ {y}
<1>7. ~Bad(u) /\ ~Bad(v)
  <2>1. u \in SUBSET s /\ v \in SUBSET s /\ u \notin C /\ v \notin C
    <3> HIDE DEF C
    <3> QED
      BY <1>1, <1>6
  <2> HIDE DEF Bad, u, v
  <2> QED
    BY <2>1, <1>6 DEF u, v
<1>8. h[u] = f[y] + h[u \ {y}] /\ h[v] = f[x] + h[v \ {x}]
  BY <1>6, <1>7
<1>9. u \ {y} = v \ {x}
  OBVIOUS
<1>10. f[x] \in Int /\ f[y] \in Int /\ h[v \ {x}] \in Int
  <2>1. v \ {x} \in SUBSET D /\ x \in D /\ y \in D
    BY <1>6
  <2> HIDE DEF v
  <2> QED
    BY <2>1
<1> HIDE DEF u, v
<1>11. h[s] = f[x] + h[u] /\ h[s] # f[y] + h[v]
  BY <1>2, <1>4 DEF u, v
<1>12. h[u \ {y}] = h[v \ {x}]
  BY <1>9
<1> HIDE DEF C
<1>13. h[s] = f[x] + (f[y] + h[v \ {x}]) /\ h[s] # f[y] + (f[x] + h[v \ {x}])
  BY <1>8, <1>11, <1>12, Zenon
<1> QED
  BY <1>10, <1>13

(* The library's sum over a subset of D is such an h.                      *)
LEMMA SumIs ==
    ASSUME NEW D, IsFiniteSet(D), NEW f \in [D -> Int],
           NEW h \in [SUBSET D -> Int], Sums(h, f, D), NEW S \in SUBSET D
    PROVE  SumFunctionOnSet(f, S) = h[S]
<1> DEFINE Iter(F) == F = [s \in SUBSET S |->
                              IF s = {} THEN 0
                              ELSE LET x == CHOOSE y \in s : TRUE IN f[x] + F[s \ {x}]]
           iter == CHOOSE F : Iter(F)
           G == [s \in SUBSET S |-> h[s]]
<1>1. Iter(G)
  <2>1. ASSUME NEW s \in SUBSET S
        PROVE  G[s] = IF s = {} THEN 0 ELSE f[First(s)] + G[s \ {First(s)}]
    BY DEF Sums
  <2> HIDE DEF G
  <2>2. G = [s \in SUBSET S |-> IF s = {} THEN 0 ELSE f[First(s)] + G[s \ {First(s)}]]
    <3>1. G = [s \in SUBSET S |-> G[s]]
      BY DEF G
    <3> QED
      BY <2>1, <3>1
  <2> QED
    BY <2>2 DEF First
<1>2. Iter(iter)
  BY <1>1
<1>3. SumFunctionOnSet(f, S) = iter[S]
  BY DEF SumFunctionOnSet, FoldFunctionOnSet, MapThenFoldSet
<1>4. Sums(iter, f, S)
  <2> HIDE DEF iter
  <2> QED
    BY <1>2 DEF Sums, First
<1>5. Sums(h, f, S)
  BY DEF Sums
<1>6. IsFiniteSet(S)
  BY FS_Subset
<1> HIDE DEF iter
<1> QED
  BY <1>3, <1>4, <1>5, <1>6, SumsAgree

\* The sums of f over the subsets of D, in whatever order.
SumsUp(h, f, D) ==
    /\ h[{}] = 0
    /\ AnyFirst(h, f, D)
    /\ \A s \in SUBSET D : SumFunctionOnSet(f, s) = h[s]

(* They exist.                                                             *)
LEMMA SumsOf ==
    ASSUME NEW D, IsFiniteSet(D), NEW f \in [D -> Int]
    PROVE  \E h \in [SUBSET D -> Int] : SumsUp(h, f, D)
<1>1. PICK h \in [SUBSET D -> Int] : Sums(h, f, D)
  BY SumsExist
<1>2. h[{}] = 0
  BY <1>1 DEF Sums
<1>3. AnyFirst(h, f, D)
  BY <1>1, SumTakesAny
<1>4. \A s \in SUBSET D : SumFunctionOnSet(f, s) = h[s]
  BY <1>1, SumIs
<1> QED
  BY <1>2, <1>3, <1>4 DEF SumsUp

(* The remainder of an entry is the difference of the validator's totals.  *)
LEMMA RemainderIs ==
    ASSUME NEW entry \in JournalEntry, NEW currency \in Currencies
    PROVE  /\ Total(entry, currency, "debit") \in Int
           /\ Total(entry, currency, "credit") \in Int
           /\ Remainder(entry, currency)
                  = Total(entry, currency, "debit") - Total(entry, currency, "credit")
<1> DEFINE D == DOMAIN entry.lines
           units == [n \in D |-> entry.lines[n].minor_units]
           posted == [n \in D |-> Posted(entry.lines[n], currency)]
           debits == {n \in D : /\ entry.lines[n].currency = currency
                                /\ entry.lines[n].side = "debit"}
           credits == {n \in D : /\ entry.lines[n].currency = currency
                                 /\ entry.lines[n].side = "credit"}
<1>1. entry.lines \in Seq(JournalLine)
  BY DEF JournalEntry
<1>2. IsFiniteSet(D)
  <2>1. D = 1..Len(entry.lines) /\ Len(entry.lines) \in Nat
    BY <1>1
  <2> QED
    BY <2>1, FS_Interval
<1>3. \A n \in D : entry.lines[n] \in JournalLine
  BY <1>1
<1>4. units \in [D -> Int] /\ posted \in [D -> Int]
  BY <1>3 DEF JournalLine, Posted
<1>5. \A n \in D : posted[n] = IF n \in debits THEN units[n]
                               ELSE IF n \in credits THEN -units[n] ELSE 0
  BY <1>3 DEF JournalLine, Posted
<1>6. debits \in SUBSET D /\ credits \in SUBSET D /\ debits \cap credits = {}
  OBVIOUS
<1>7. /\ Total(entry, currency, "debit") = SumFunctionOnSet(units, debits)
      /\ Total(entry, currency, "credit") = SumFunctionOnSet(units, credits)
      /\ Remainder(entry, currency) = SumFunctionOnSet(posted, D)
  BY DEF Total, Remainder, SumFunction
<1> HIDE DEF D, units, posted, debits, credits
<1>8. PICK p \in [SUBSET D -> Int] : SumsUp(p, posted, D)
  BY <1>2, <1>4, SumsOf
<1>9. PICK h \in [SUBSET D -> Int] : SumsUp(h, units, D)
  BY <1>2, <1>4, SumsOf
<1>10. /\ SumFunctionOnSet(posted, D) = p[D]
       /\ SumFunctionOnSet(units, debits) = h[debits]
       /\ SumFunctionOnSet(units, credits) = h[credits]
  <2>1. D \in SUBSET D
    OBVIOUS
  <2> QED
    BY <1>6, <1>8, <1>9, <2>1 DEF SumsUp
<1> DEFINE Apart(s) == p[s] = h[s \cap debits] - h[s \cap credits]
           C == {s \in SUBSET D : ~Apart(s)}
<1>12. C = {}
  <2> SUFFICES ASSUME C # {}
               PROVE  FALSE
    OBVIOUS
  <2>1. PICK s \in C : \A t \in SUBSET s : t \in C => t = s
    <3> HIDE DEF C
    <3>1. C \in SUBSET SUBSET D
      BY DEF C
    <3> QED
      BY <1>2, <3>1, SmallestSet
  <2>2. s # {}
    <3>1. {} \in SUBSET D /\ p[{}] = 0 /\ h[{}] = 0
      BY <1>8, <1>9 DEF SumsUp
    <3>2. {} \cap debits = {} /\ {} \cap credits = {}
      OBVIOUS
    <3>3. Apart({})
      BY <3>1, <3>2
    <3> HIDE DEF Apart
    <3> QED
      BY <3>3
  <2>3. PICK y \in s : TRUE
    BY <2>2
  <2> DEFINE rest == s \ {y}
             d == s \cap debits
             c == s \cap credits
  <2>4. s \in SUBSET D /\ y \in D /\ rest \in SUBSET s /\ rest \in SUBSET D /\ rest # s
    OBVIOUS
  <2>5. d \in SUBSET D /\ c \in SUBSET D
    BY <1>6
  <2>6. Apart(rest)
    <3>1. rest \notin C
      <4> HIDE DEF C, rest
      <4> QED
        BY <2>1, <2>4
    <3> HIDE DEF Apart, rest
    <3> QED
      BY <2>4, <3>1
  <2>7. ~Apart(s)
    OBVIOUS
  <2>8. p[s] = posted[y] + p[rest]
    BY <1>8, <2>4 DEF SumsUp, AnyFirst
  <2>9. p[rest] = h[rest \cap debits] - h[rest \cap credits]
    BY <2>6
  <2>10. p[s] # h[d] - h[c]
    BY <2>7
  <2>11. /\ h[d] \in Int /\ h[c] \in Int /\ units[y] \in Int
         /\ h[d \ {y}] \in Int /\ h[c \ {y}] \in Int
    <3> HIDE DEF d, c
    <3>1. d \ {y} \in SUBSET D /\ c \ {y} \in SUBSET D
      BY <2>5
    <3> QED
      BY <1>4, <2>4, <2>5, <3>1
  <2>12. rest \cap debits = d \ {y} /\ rest \cap credits = c \ {y}
    OBVIOUS
  <2>13. p[rest] = h[d \ {y}] - h[c \ {y}]
    BY <2>9, <2>12
  <2>14. CASE y \in debits
    <3>1. posted[y] = units[y]
      BY <1>5, <2>4, <2>14
    <3>2. y \in d /\ c \ {y} = c
      BY <1>6, <2>14
    <3>3. h[d] = units[y] + h[d \ {y}]
      <4> HIDE DEF d
      <4> QED
        BY <1>9, <2>5, <3>2 DEF SumsUp, AnyFirst
    <3>4. h[c \ {y}] = h[c]
      BY <3>2
    <3> HIDE DEF d, c, rest
    <3> QED
      BY <2>8, <2>10, <2>11, <2>13, <3>1, <3>3, <3>4
  <2>15. CASE y \in credits
    <3>1. posted[y] = -units[y]
      BY <1>5, <1>6, <2>4, <2>15
    <3>2. y \in c /\ d \ {y} = d
      BY <1>6, <2>15
    <3>3. h[c] = units[y] + h[c \ {y}]
      <4> HIDE DEF c
      <4> QED
        BY <1>9, <2>5, <3>2 DEF SumsUp, AnyFirst
    <3>4. h[d \ {y}] = h[d]
      BY <3>2
    <3> HIDE DEF d, c, rest
    <3> QED
      BY <2>8, <2>10, <2>11, <2>13, <3>1, <3>3, <3>4
  <2>16. CASE y \notin debits /\ y \notin credits
    <3>1. posted[y] = 0
      BY <1>5, <2>4, <2>16
    <3>2. d \ {y} = d /\ c \ {y} = c
      BY <2>16
    <3>3. h[d \ {y}] = h[d] /\ h[c \ {y}] = h[c]
      BY <3>2
    <3> HIDE DEF d, c, rest
    <3> QED
      BY <2>8, <2>10, <2>11, <2>13, <3>1, <3>3
  <2> QED
    BY <2>14, <2>15, <2>16
<1>13. Apart(D)
  <2> HIDE DEF Apart
  <2>1. D \in SUBSET D
    OBVIOUS
  <2> QED
    BY <1>12, <2>1
<1>14. D \cap debits = debits /\ D \cap credits = credits
  BY <1>6
<1>15. h[debits] \in Int /\ h[credits] \in Int
  BY <1>6
<1>16. p[D] = h[debits] - h[credits]
  <2> HIDE DEF C
  <2>1. p[D] = h[D \cap debits] - h[D \cap credits]
    BY <1>13
  <2> QED
    BY <1>14, <2>1
<1> HIDE DEF Apart, C
<1> QED
  BY <1>7, <1>10, <1>15, <1>16

(* So in a whole ledger every entry cancels out.                           *)
LEMMA WholeBooksClose ==
    ASSUME NEW L \in WholeLedgers
    PROVE  BooksClose(L)
<1> SUFFICES ASSUME NEW e \in Present(L.entries), NEW currency \in Currencies
             PROVE  Remainder(L.entries[e], currency) = 0
  BY DEF BooksClose
<1>1. L.entries[e] \in JournalEntry
  BY DEF WholeLedgers, Ledgers, OrAbsent, Present
<1>2. Total(L.entries[e], currency, "debit") = Total(L.entries[e], currency, "credit")
  BY DEF WholeLedgers, Integrity, EntriesValid, ValidEntry, Balanced
<1> QED
  BY <1>1, <1>2, RemainderIs
=============================================================================
