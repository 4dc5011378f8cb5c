----------------------- MODULE PostgresUnitOfWorkProofs -----------------------
(***************************************************************************)
(* Units of work that run side by side on PostgreSQL keep the committed    *)
(* ledger whole, overwrite nothing they have not read, post to active      *)
(* accounts only and never alter history, for any number of units, calls,  *)
(* records and nested blocks.                                              *)
(*                                                                         *)
(* What a unit may still commit is a version: the ledger it reads, the     *)
(* rows it has written and the rows it has locked.  A unit has the version *)
(* it works on, the one at the start of its call and those of its          *)
(* savepoints.  The invariant says of each version that it is sound with   *)
(* the database as it is, and of two units' versions that they may be      *)
(* committed in either order.                                              *)
(***************************************************************************)
EXTENDS PostgresUnitOfWork, LedgerProofs, SequenceTheorems,
        WellFoundedInduction

-----------------------------------------------------------------------------
(* Part 1: rows of ledgers.                                                *)

Cell(L, row) == L[row[1]][row[2]]

(* A row is the name of a table and an identifier.                         *)
LEMMA RowOf ==
    ASSUME NEW row \in Rows
    PROVE  /\ row[1] \in {"accounts", "journals", "entries", "audit"}
           /\ row[1] = "accounts" => \E a \in AccountIds : row = <<"accounts", a>>
           /\ row[1] = "journals" => \E j \in JournalIds : row = <<"journals", j>>
           /\ row[1] = "entries" => \E e \in EntryIds : row = <<"entries", e>>
           /\ row[1] = "audit" => \E ev \in EventIds : row = <<"audit", ev>>
BY DEF Rows

(* A ledger overlaid with typed rows is a ledger.                          *)
LEMMA OverlayFields ==
    ASSUME NEW D \in Ledgers, NEW L \in Ledgers, NEW rows \in SUBSET Rows
    PROVE  /\ Overlay(D, L, rows).accounts =
                  [a \in AccountIds |->
                      IF <<"accounts", a>> \in rows THEN L.accounts[a] ELSE D.accounts[a]]
           /\ Overlay(D, L, rows).journals =
                  [j \in JournalIds |->
                      IF <<"journals", j>> \in rows THEN L.journals[j] ELSE D.journals[j]]
           /\ Overlay(D, L, rows).entries =
                  [e \in EntryIds |->
                      IF <<"entries", e>> \in rows THEN L.entries[e] ELSE D.entries[e]]
           /\ Overlay(D, L, rows).audit =
                  [ev \in EventIds |->
                      IF <<"audit", ev>> \in rows THEN L.audit[ev] ELSE D.audit[ev]]
           /\ Overlay(D, L, rows) \in Ledgers
<1>1. DOMAIN Overlay(D, L, rows) = {"accounts", "journals", "entries", "audit"}
  BY DEF Ledgers, Overlay
<1> QED
  BY <1>1 DEF Ledgers, Overlay

(* Row by row.                                                             *)
LEMMA OverlayCell ==
    ASSUME NEW D \in Ledgers, NEW L \in Ledgers, NEW rows \in SUBSET Rows, NEW row \in Rows
    PROVE  Cell(Overlay(D, L, rows), row) =
               IF row \in rows THEN Cell(L, row) ELSE Cell(D, row)
BY DEF Overlay, Cell, Rows, Ledgers

(* Nothing overlaid, nothing changed.                                      *)
LEMMA OverlayNothing ==
    ASSUME NEW D \in Ledgers, NEW L \in Ledgers
    PROVE  Overlay(D, L, {}) = D
BY DEF Ledgers, Overlay

(* Storing a record changes one row.                                       *)
LEMMA PutCell ==
    ASSUME NEW L \in Ledgers, NEW row \in Rows, NEW record, NEW other \in Rows
    PROVE  Cell(Put(L, row[1], row[2], record), other) =
               IF other = row THEN record ELSE Cell(L, other)
BY DEF Put, Cell, Rows, Ledgers

(* Ledgers with the same rows are the same.                                *)
LEMMA SameCells ==
    ASSUME NEW L \in Ledgers, NEW M \in Ledgers,
           \A row \in Rows : Cell(L, row) = Cell(M, row)
    PROVE  L = M
<1>1. ASSUME NEW a \in AccountIds
      PROVE  L.accounts[a] = M.accounts[a]
  <2> <<"accounts", a>> \in Rows
    BY DEF Rows
  <2> QED
    BY DEF Cell
<1>2. ASSUME NEW j \in JournalIds
      PROVE  L.journals[j] = M.journals[j]
  <2> <<"journals", j>> \in Rows
    BY DEF Rows
  <2> QED
    BY DEF Cell
<1>3. ASSUME NEW e \in EntryIds
      PROVE  L.entries[e] = M.entries[e]
  <2> <<"entries", e>> \in Rows
    BY DEF Rows
  <2> QED
    BY DEF Cell
<1>4. ASSUME NEW ev \in EventIds
      PROVE  L.audit[ev] = M.audit[ev]
  <2> <<"audit", ev>> \in Rows
    BY DEF Rows
  <2> QED
    BY DEF Cell
<1> QED
  BY <1>1, <1>2, <1>3, <1>4 DEF Ledgers

(* A record that fits one ledger fits another.                             *)
LEMMA PutFits ==
    ASSUME NEW L \in Ledgers, NEW M \in Ledgers, NEW row \in Rows, NEW record,
           Put(L, row[1], row[2], record) \in Ledgers
    PROVE  Put(M, row[1], row[2], record) \in Ledgers
<1>1. CASE row[1] = "accounts"
  BY <1>1 DEF Put, Rows, Ledgers
<1>2. CASE row[1] = "journals"
  BY <1>2 DEF Put, Rows, Ledgers
<1>3. CASE row[1] = "entries"
  BY <1>3 DEF Put, Rows, Ledgers
<1>4. CASE row[1] = "audit"
  BY <1>4 DEF Put, Rows, Ledgers
<1> QED
  BY <1>1, <1>2, <1>3, <1>4 DEF Rows

(* Storing a record in the version and committing it comes to storing it   *)
(* in what would have been committed.                                      *)
LEMMA OverlayPut ==
    ASSUME NEW D \in Ledgers, NEW L \in Ledgers, NEW rows \in SUBSET Rows,
           NEW row \in Rows, NEW record,
           Put(L, row[1], row[2], record) \in Ledgers
    PROVE  Overlay(D, Put(L, row[1], row[2], record), rows \cup {row}) =
               Put(Overlay(D, L, rows), row[1], row[2], record)
<1> DEFINE M == Put(L, row[1], row[2], record)
           after == Overlay(D, M, rows \cup {row})
           stored == Put(Overlay(D, L, rows), row[1], row[2], record)
<1>1. after \in Ledgers /\ Overlay(D, L, rows) \in Ledgers
  BY OverlayFields
<1>2. stored \in Ledgers
  BY <1>1, PutFits
<1>3. ASSUME NEW other \in Rows
      PROVE  Cell(after, other) = Cell(stored, other)
  BY <1>1, OverlayCell, PutCell
<1> QED
  BY <1>1, <1>2, <1>3, SameCells
(* An entry of the right type posts to rows.                               *)
LEMMA PostingRowsType ==
    ASSUME NEW entry \in JournalEntry
    PROVE  PostingRows(entry) \subseteq Rows /\ AccountsOf(entry) \subseteq AccountIds
<1>1. entry.journal_id \in JournalIds /\ entry.lines \in Seq(JournalLine)
  BY DEF JournalEntry
<1>2. \A n \in DOMAIN entry.lines : entry.lines[n] \in JournalLine
  BY <1>1
<1>3. AccountsOf(entry) \subseteq AccountIds
  BY <1>2 DEF AccountsOf, JournalLine
<1> QED
  BY <1>1, <1>3 DEF PostingRows, AccountRow, Rows

(* In a whole ledger the journal and the accounts of an entry exist.       *)
LEMMA PostedRowsResolve ==
    ASSUME NEW L \in WholeLedgers, NEW e \in EntryIds, L.entries[e] # Absent,
           NEW row \in PostingRows(L.entries[e])
    PROVE  Cell(L, row) # Absent
<1>1. /\ L.journals[L.entries[e].journal_id] # Absent
      /\ \A a \in AccountsOf(L.entries[e]) : L.accounts[a] # Absent
  BY DEF WholeLedgers, Ledgers, Integrity, ReferencesResolve, Present
<1>2. CASE row = <<"journals", L.entries[e].journal_id>>
  BY <1>1, <1>2 DEF Cell
<1>3. ASSUME NEW a \in AccountsOf(L.entries[e]), row = AccountRow(a)
      PROVE  Cell(L, row) # Absent
  BY <1>1, <1>3 DEF Cell, AccountRow
<1> QED
  BY <1>2, <1>3 DEF PostingRows

(* The unique constraints, read off a whole ledger.                        *)
LEMMA KeysDiffer ==
    ASSUME NEW L \in WholeLedgers, NEW x \in Rows, NEW y \in Rows, x # y, x[1] = y[1],
           Cell(L, x) # Absent, Cell(L, y) # Absent
    PROVE  ~SameKey(x[1], Cell(L, x), Cell(L, y))
<1>1. L \in Ledgers /\ CodesUnique(L.accounts) /\ CodesUnique(L.journals) /\ LinesUnique(L)
  BY DEF WholeLedgers, Integrity
<1>2. CASE x[1] = "accounts"
  <2>1. PICK a \in AccountIds, b \in AccountIds : x = <<"accounts", a>> /\ y = <<"accounts", b>>
    BY <1>2, RowOf
  <2>2. Cell(L, x) = L.accounts[a] /\ Cell(L, y) = L.accounts[b]
    BY <2>1 DEF Cell
  <2>3. a \in Present(L.accounts) /\ b \in Present(L.accounts) /\ a # b
    BY <1>1, <2>1, <2>2 DEF Present, Ledgers
  <2>4. ~SameKey("accounts", L.accounts[a], L.accounts[b])
    BY <1>1, <2>3 DEF SameKey, CodesUnique
  <2> QED
    BY <2>1, <2>2, <2>4
<1>3. CASE x[1] = "journals"
  <2>1. PICK a \in JournalIds, b \in JournalIds : x = <<"journals", a>> /\ y = <<"journals", b>>
    BY <1>3, RowOf
  <2>2. Cell(L, x) = L.journals[a] /\ Cell(L, y) = L.journals[b]
    BY <2>1 DEF Cell
  <2>3. a \in Present(L.journals) /\ b \in Present(L.journals) /\ a # b
    BY <1>1, <2>1, <2>2 DEF Present, Ledgers
  <2>4. ~SameKey("journals", L.journals[a], L.journals[b])
    BY <1>1, <2>3 DEF SameKey, CodesUnique
  <2> QED
    BY <2>1, <2>2, <2>4
<1>4. CASE x[1] = "entries"
  <2>1. PICK e \in EntryIds, f \in EntryIds : x = <<"entries", e>> /\ y = <<"entries", f>>
    BY <1>4, RowOf
  <2>2. Cell(L, x) = L.entries[e] /\ Cell(L, y) = L.entries[f]
    BY <2>1 DEF Cell
  <2>3. e \in Present(L.entries) /\ f \in Present(L.entries) /\ e # f
    BY <1>1, <2>1, <2>2 DEF Present, Ledgers
  <2>4. ~SameKey("entries", L.entries[e], L.entries[f])
    BY <1>1, <2>3 DEF SameKey, LinesUnique
  <2> QED
    BY <2>1, <2>2, <2>4
<1>5. CASE x[1] = "audit"
  BY <1>5 DEF SameKey
<1> QED
  BY <1>2, <1>3, <1>4, <1>5 DEF Rows

(* And the other way round.                                                *)
LEMMA WholeFromKeys ==
    ASSUME NEW L \in Ledgers, ReferencesResolve(L), EntriesValid(L),
           \A x, y \in Rows :
              x # y /\ x[1] = y[1] /\ Cell(L, x) # Absent /\ Cell(L, y) # Absent
              => ~SameKey(x[1], Cell(L, x), Cell(L, y))
    PROVE  L \in WholeLedgers
<1>1. CodesUnique(L.accounts)
  <2> SUFFICES ASSUME NEW a \in AccountIds, NEW b \in AccountIds,
                      L.accounts[a] # Absent, L.accounts[b] # Absent,
                      CaseFold[L.accounts[a].code] = CaseFold[L.accounts[b].code], a # b
               PROVE  FALSE
    BY DEF CodesUnique, Present, Ledgers
  <2> <<"accounts", a>> \in Rows /\ <<"accounts", b>> \in Rows
    BY DEF Rows
  <2> QED
    BY DEF Cell, SameKey
<1>2. CodesUnique(L.journals)
  <2> SUFFICES ASSUME NEW a \in JournalIds, NEW b \in JournalIds,
                      L.journals[a] # Absent, L.journals[b] # Absent,
                      CaseFold[L.journals[a].code] = CaseFold[L.journals[b].code], a # b
               PROVE  FALSE
    BY DEF CodesUnique, Present, Ledgers
  <2> <<"journals", a>> \in Rows /\ <<"journals", b>> \in Rows
    BY DEF Rows
  <2> QED
    BY DEF Cell, SameKey
<1>3. LinesUnique(L)
  <2> SUFFICES ASSUME NEW e \in EntryIds, NEW f \in EntryIds,
                      L.entries[e] # Absent, L.entries[f] # Absent, e # f
               PROVE  LineIdsOf(L.entries[e]) \cap LineIdsOf(L.entries[f]) = {}
    BY DEF LinesUnique, Present, Ledgers
  <2> <<"entries", e>> \in Rows /\ <<"entries", f>> \in Rows
    BY DEF Rows
  <2> QED
    BY DEF Cell, SameKey
<1> QED
  BY <1>1, <1>2, <1>3 DEF WholeLedgers, Integrity

-----------------------------------------------------------------------------
(* Part 2: sound and compatible versions.                                  *)

Version == [own : Ledgers, wrote : SUBSET Rows, holds : SUBSET Rows]

(* D is the database and old the rows committed since the snapshot.        *)

\* A row neither written nor outdated is read as it is.
ReadsCurrent(D, old, s) ==
    \A row \in Rows \ (s.wrote \cup old) : Cell(s.own, row) = Cell(D, row)

\* What is locked is not outdated, and exists.
LocksCurrent(D, old, s) ==
    \A row \in s.holds : row \in s.wrote \/ (row \notin old /\ Cell(D, row) # Absent)

\* What was there is locked before it is written, and not outdated.
WritesLocked(D, old, s) ==
    \A row \in s.wrote : Cell(D, row) # Absent => row \in s.holds /\ row \notin old

\* Entries and events are only added.
AddsHistory(D, s) ==
    \A row \in s.wrote : row[1] \in {"entries", "audit"} => Cell(D, row) = Absent

\* The journal and the accounts of an entry that was added are locked.
PostsToLocked(s) ==
    \A e \in EntryIds : <<"entries", e>> \in s.wrote =>
        /\ s.own.entries[e] # Absent
        /\ \A row \in PostingRows(s.own.entries[e]) :
              row \in s.holds /\ Cell(s.own, row) # Absent

\* By the service, they were active or have been changed since.
PostsToActive(s) ==
    PostingsByService =>
        \A e \in EntryIds : <<"entries", e>> \in s.wrote =>
            \A a \in AccountsOf(s.own.entries[e]) :
                AccountRow(a) \in s.wrote \/ s.own.accounts[a].active

Sound(D, old, s) ==
    /\ ReadsCurrent(D, old, s)
    /\ LocksCurrent(D, old, s)
    /\ WritesLocked(D, old, s)
    /\ AddsHistory(D, s)
    /\ PostsToLocked(s)
    /\ PostsToActive(s)
    /\ Overlay(D, s.own, s.wrote) \in WholeLedgers

\* Records two versions have written do not share a key.
Apart(s, t) ==
    \A x, y \in Rows :
        /\ x \in s.wrote /\ y \in t.wrote /\ x[1] = y[1]
        /\ Cell(s.own, x) # Absent /\ Cell(t.own, y) # Absent
        => ~SameKey(x[1], Cell(s.own, x), Cell(t.own, y))

Compatible(s, t) ==
    /\ s.wrote \cap t.wrote = {}
    /\ s.holds \cap t.holds = {}
    /\ s.holds \cap t.wrote = {}
    /\ s.wrote \cap t.holds = {}
    /\ Apart(s, t)

(* Nobody comes first.                                                     *)
LEMMA CompatibleSymmetric ==
    ASSUME NEW s, NEW t, Compatible(s, t)
    PROVE  Compatible(t, s)
<1>1. \A table, record, other : SameKey(table, record, other) => SameKey(table, other, record)
  BY DEF SameKey
<1> QED
  BY <1>1 DEF Compatible, Apart

(* A unit that begins to read.                                             *)
LEMMA SoundSnapshot ==
    ASSUME NEW D \in WholeLedgers
    PROVE  Sound(D, {}, [own |-> D, wrote |-> {}, holds |-> {}])
BY OverlayNothing
   DEF Sound, ReadsCurrent, LocksCurrent, WritesLocked, AddsHistory, PostsToLocked,
       PostsToActive, WholeLedgers

(* Locking a row that exists and is not outdated, or is the version's own. *)
LEMMA SoundLock ==
    ASSUME NEW D \in WholeLedgers, NEW old \in SUBSET Rows, NEW s \in Version,
           Sound(D, old, s),
           NEW row \in Rows, Cell(s.own, row) # Absent, row \notin old \ s.wrote
    PROVE  Sound(D, old, [own |-> s.own, wrote |-> s.wrote, holds |-> s.holds \cup {row}])
<1> DEFINE t == [own |-> s.own, wrote |-> s.wrote, holds |-> s.holds \cup {row}]
<1>1. LocksCurrent(D, old, t)
  BY DEF Sound, LocksCurrent, ReadsCurrent
<1>2. WritesLocked(D, old, t)
  BY DEF Sound, WritesLocked
<1>3. PostsToLocked(t)
  BY DEF Sound, PostsToLocked
<1>4. ReadsCurrent(D, old, t) /\ AddsHistory(D, t) /\ PostsToActive(t)
  BY DEF Sound, ReadsCurrent, AddsHistory, PostsToActive
<1> QED
  BY <1>1, <1>2, <1>3, <1>4 DEF Sound

(* Nobody else has written it either.                                      *)
LEMMA CompatibleLock ==
    ASSUME NEW D \in WholeLedgers, NEW old \in SUBSET Rows, NEW older \in SUBSET Rows,
           NEW s \in Version, NEW t \in Version,
           Sound(D, old, s), Sound(D, older, t), Compatible(s, t),
           NEW row \in Rows, Cell(s.own, row) # Absent, row \notin old \ s.wrote,
           row \notin t.holds
    PROVE  Compatible([own |-> s.own, wrote |-> s.wrote, holds |-> s.holds \cup {row}], t)
<1>1. row \notin t.wrote
  <2> SUFFICES ASSUME row \in t.wrote
               PROVE  FALSE
    OBVIOUS
  <2>1. row \notin s.wrote
    BY DEF Compatible
  <2>2. Cell(D, row) # Absent
    BY <2>1 DEF Sound, ReadsCurrent
  <2> QED
    BY <2>2 DEF Sound, WritesLocked
<1> QED
  BY <1>1 DEF Compatible, Apart
-----------------------------------------------------------------------------
(* Part 3: writing a row.                                                  *)

Written(s, row, record) ==
    [own |-> Put(s.own, row[1], row[2], record),
     wrote |-> s.wrote \cup {row},
     holds |-> s.holds]

(* A write that is locked if the row exists, posts to locked rows and      *)
(* would leave a whole ledger if committed, keeps a version sound.         *)
LEMMA SoundWrite ==
    ASSUME NEW D \in WholeLedgers, NEW old \in SUBSET Rows, NEW s \in Version,
           Sound(D, old, s),
           NEW row \in Rows, NEW record,
           Put(s.own, row[1], row[2], record) \in Ledgers,
           Cell(D, row) # Absent => row \in s.holds,
           row[1] \in {"entries", "audit"} => Cell(D, row) = Absent,
           row[1] = "entries" =>
               /\ record # Absent
               /\ \A other \in PostingRows(record) :
                     other \in s.holds /\ Cell(s.own, other) # Absent
               /\ PostingsByService =>
                     \A a \in AccountsOf(record) : s.own.accounts[a].active,
           Put(Overlay(D, s.own, s.wrote), row[1], row[2], record) \in WholeLedgers
    PROVE  Written(s, row, record) \in Version /\ Sound(D, old, Written(s, row, record))
<1> DEFINE t == Written(s, row, record)
<1>1. /\ t \in Version
      /\ t.own = Put(s.own, row[1], row[2], record)
      /\ t.wrote = s.wrote \cup {row}
      /\ t.holds = s.holds
  BY DEF Written, Version
<1> HIDE DEF t
<1>2. D \in Ledgers
  BY DEF WholeLedgers
<1>3. \A other \in Rows : Cell(t.own, other) = IF other = row THEN record ELSE Cell(s.own, other)
  BY <1>1, PutCell DEF Version
<1>4. ReadsCurrent(D, old, t)
  BY <1>1, <1>3 DEF Sound, ReadsCurrent
<1>5. LocksCurrent(D, old, t)
  BY <1>1 DEF Sound, LocksCurrent
<1>6. WritesLocked(D, old, t)
  BY <1>1 DEF Sound, WritesLocked, LocksCurrent
<1>7. AddsHistory(D, t)
  BY <1>1 DEF Sound, AddsHistory
<1>8. Overlay(D, t.own, t.wrote) \in WholeLedgers
  BY <1>1, <1>2, OverlayPut DEF Version
<1>9. \A e \in EntryIds :
        t.own.entries[e] = IF row = <<"entries", e>> THEN record ELSE s.own.entries[e]
  <2> SUFFICES ASSUME NEW e \in EntryIds
               PROVE  t.own.entries[e] =
                          IF row = <<"entries", e>> THEN record ELSE s.own.entries[e]
    OBVIOUS
  <2> <<"entries", e>> \in Rows
    BY DEF Rows
  <2> QED
    BY <1>3 DEF Cell
<1>10. PostsToLocked(t)
  <2> SUFFICES ASSUME NEW e \in EntryIds, <<"entries", e>> \in t.wrote
               PROVE  /\ t.own.entries[e] # Absent
                      /\ \A other \in PostingRows(t.own.entries[e]) :
                            other \in t.holds /\ Cell(t.own, other) # Absent
    BY DEF PostsToLocked
  <2> <<"entries", e>> \in Rows
    BY DEF Rows
  <2>1. /\ t.own.entries[e] # Absent
        /\ \A other \in PostingRows(t.own.entries[e]) :
              other \in s.holds /\ Cell(s.own, other) # Absent
    BY <1>1, <1>9 DEF Sound, PostsToLocked
  <2>2. ASSUME NEW other \in PostingRows(t.own.entries[e])
        PROVE  Cell(t.own, other) # Absent
    <3> DEFINE M == Overlay(D, t.own, t.wrote)
    <3> t.own \in Ledgers /\ t.wrote \in SUBSET Rows
      BY <1>1 DEF Version
    <3>1. M.entries[e] = t.own.entries[e]
      <4>1. Cell(M, <<"entries", e>>) = Cell(t.own, <<"entries", e>>)
        BY <1>2, OverlayCell
      <4> QED
        BY <4>1 DEF Cell
    <3>2. other \in Rows
      BY <2>1 DEF Version
    <3>3. Cell(M, other) # Absent
      BY <1>8, <2>1, <3>1, PostedRowsResolve
    <3> QED
      BY <1>1, <1>2, <1>3, <2>1, <3>2, <3>3, OverlayCell DEF Version
  <2> QED
    BY <1>1, <2>1, <2>2
<1>11. PostsToActive(t)
  <2> SUFFICES ASSUME PostingsByService,
                      NEW e \in EntryIds, <<"entries", e>> \in t.wrote,
                      NEW a \in AccountsOf(t.own.entries[e])
               PROVE  AccountRow(a) \in t.wrote \/ t.own.accounts[a].active
    BY DEF PostsToActive
  <2>1. AccountRow(a) \in s.wrote \/ s.own.accounts[a].active
    <3>1. CASE row = <<"entries", e>>
      <4> row[1] = "entries" /\ t.own.entries[e] = record
        BY <1>9, <3>1
      <4> QED
        OBVIOUS
    <3>2. CASE row # <<"entries", e>>
      <4> <<"entries", e>> \in s.wrote /\ t.own.entries[e] = s.own.entries[e]
        BY <1>1, <1>9, <3>2
      <4> QED
        BY DEF Sound, PostsToActive
    <3> QED
      BY <3>1, <3>2
  <2>2. AccountRow(a) \in Rows
    <3>1. AccountRow(a) \in PostingRows(t.own.entries[e])
      BY DEF PostingRows
    <3>2. AccountRow(a) \in t.holds
      BY <1>10, <3>1 DEF PostsToLocked
    <3> QED
      BY <1>1, <3>2 DEF Version
  <2>3. AccountRow(a) # row => t.own.accounts[a] = s.own.accounts[a]
    BY <1>3, <2>2 DEF AccountRow, Cell
  <2> QED
    BY <1>1, <2>1, <2>3
<1> QED
  BY <1>1, <1>4, <1>5, <1>6, <1>7, <1>8, <1>10, <1>11 DEF Sound, t

(* And compatible with the versions of a unit that has not written the row *)
(* nor a record of the same key.                                           *)
LEMMA CompatibleWrite ==
    ASSUME NEW D \in WholeLedgers, NEW old \in SUBSET Rows, NEW s \in Version, NEW t \in Version,
           Sound(D, old, t), Compatible(s, t),
           NEW row \in Rows, NEW record,
           Put(s.own, row[1], row[2], record) \in Ledgers,
           Cell(D, row) # Absent => row \in s.holds,
           row \notin t.wrote,
           record # Absent =>
               \A other \in t.wrote :
                   other[1] = row[1] /\ Cell(t.own, other) # Absent
                   => ~SameKey(row[1], record, Cell(t.own, other))
    PROVE  Compatible(Written(s, row, record), t)
<1> DEFINE w == Written(s, row, record)
<1>1. /\ w.own = Put(s.own, row[1], row[2], record)
      /\ w.wrote = s.wrote \cup {row}
      /\ w.holds = s.holds
  BY DEF Written
<1>2. \A other \in Rows : Cell(w.own, other) = IF other = row THEN record ELSE Cell(s.own, other)
  BY <1>1, PutCell DEF Version
<1>3. row \notin t.holds
  BY DEF Sound, LocksCurrent, Compatible
<1> HIDE DEF w
<1>4. ASSUME NEW x \in Rows, NEW y \in Rows, x \in w.wrote, y \in t.wrote, x[1] = y[1],
             Cell(w.own, x) # Absent, Cell(t.own, y) # Absent
      PROVE  ~SameKey(x[1], Cell(w.own, x), Cell(t.own, y))
  <2>1. CASE x = row
    <3>1. Cell(w.own, x) = record
      BY <1>2, <2>1
    <3> QED
      BY <1>4, <2>1, <3>1
  <2>2. CASE x # row
    <3>1. Cell(w.own, x) = Cell(s.own, x)
      BY <1>2, <2>2
    <3>2. x \in s.wrote
      BY <1>1, <1>4, <2>2
    <3> QED
      BY <1>4, <3>1, <3>2 DEF Compatible, Apart
  <2> QED
    BY <2>1, <2>2
<1>5. Apart(w, t)
  BY <1>4 DEF Apart
<1> QED
  BY <1>1, <1>3, <1>5 DEF Compatible, w
-----------------------------------------------------------------------------
(* Part 4: the commit of another unit.                                     *)

(* Two sound and compatible versions may both be committed: what they      *)
(* leave is whole.                                                         *)
LEMMA BothCommitted ==
    ASSUME NEW D \in WholeLedgers, NEW old \in SUBSET Rows, NEW older \in SUBSET Rows,
           NEW s \in Version, NEW t \in Version,
           Sound(D, old, s), Sound(D, older, t), Compatible(s, t)
    PROVE  Overlay(Overlay(D, t.own, t.wrote), s.own, s.wrote) \in WholeLedgers
<1> DEFINE A == Overlay(D, s.own, s.wrote)
           B == Overlay(D, t.own, t.wrote)
           N == Overlay(B, s.own, s.wrote)
<1>1. /\ s.own \in Ledgers /\ s.wrote \in SUBSET Rows /\ s.holds \in SUBSET Rows
      /\ t.own \in Ledgers /\ t.wrote \in SUBSET Rows /\ t.holds \in SUBSET Rows
      /\ D \in Ledgers
  BY DEF Version, WholeLedgers
<1>2. A \in WholeLedgers /\ B \in WholeLedgers /\ A \in Ledgers /\ B \in Ledgers
  BY DEF Sound, WholeLedgers
<1>3. N \in Ledgers
  BY <1>1, <1>2, OverlayFields
<1>4. ASSUME NEW row \in Rows
      PROVE  /\ row \in s.wrote => Cell(N, row) = Cell(s.own, row) /\ Cell(N, row) = Cell(A, row)
             /\ row \in t.wrote => Cell(N, row) = Cell(t.own, row) /\ Cell(N, row) = Cell(B, row)
             /\ row \notin s.wrote => Cell(N, row) = Cell(B, row)
             /\ row \notin t.wrote => Cell(N, row) = Cell(A, row)
  BY <1>1, <1>2, OverlayCell DEF Compatible
<1> HIDE DEF A, B, N
<1>5. ASSUME NEW e \in EntryIds, N.entries[e] # Absent
      PROVE  /\ N.entries[e] = A.entries[e] \/ N.entries[e] = B.entries[e]
             /\ \A row \in PostingRows(N.entries[e]) : row \in Rows => Cell(N, row) # Absent
  <2> <<"entries", e>> \in Rows
    BY DEF Rows
  <2>1. CASE <<"entries", e>> \in s.wrote
    <3>1. N.entries[e] = s.own.entries[e] /\ N.entries[e] = A.entries[e]
      BY <1>4, <2>1 DEF Cell
    <3>2. ASSUME NEW row \in PostingRows(N.entries[e]), row \in Rows
          PROVE  Cell(N, row) # Absent
      <4>1. row \notin t.wrote
        BY <2>1, <3>1 DEF Sound, PostsToLocked, Compatible
      <4> QED
        BY <1>2, <1>4, <1>5, <3>1, <3>2, <4>1, PostedRowsResolve
    <3> QED
      BY <3>1, <3>2
  <2>2. CASE <<"entries", e>> \in t.wrote
    <3>1. N.entries[e] = t.own.entries[e] /\ N.entries[e] = B.entries[e]
      BY <1>4, <2>2 DEF Cell
    <3>2. ASSUME NEW row \in PostingRows(N.entries[e]), row \in Rows
          PROVE  Cell(N, row) # Absent
      <4>1. row \notin s.wrote
        BY <2>2, <3>1 DEF Sound, PostsToLocked, Compatible
      <4> QED
        BY <1>2, <1>4, <1>5, <3>1, <3>2, <4>1, PostedRowsResolve
    <3> QED
      BY <3>1, <3>2
  <2>3. CASE <<"entries", e>> \notin s.wrote \cup t.wrote
    <3>1. N.entries[e] = A.entries[e] /\ N.entries[e] = B.entries[e]
      BY <1>4, <2>3 DEF Cell
    <3>2. ASSUME NEW row \in PostingRows(N.entries[e]), row \in Rows
          PROVE  Cell(N, row) # Absent
      BY <1>2, <1>4, <1>5, <3>1, <3>2, PostedRowsResolve
    <3> QED
      BY <3>1, <3>2
  <2> QED
    BY <2>1, <2>2, <2>3
<1>6. ReferencesResolve(N)
  <2> SUFFICES ASSUME NEW e \in EntryIds, N.entries[e] # Absent
               PROVE  /\ N.journals[N.entries[e].journal_id] # Absent
                      /\ \A a \in AccountsOf(N.entries[e]) : N.accounts[a] # Absent
    BY <1>3 DEF ReferencesResolve, Present, Ledgers
  <2>1. N.entries[e] \in JournalEntry
    BY <1>3 DEF Ledgers, OrAbsent
  <2>2. PostingRows(N.entries[e]) \subseteq Rows
    BY <2>1, PostingRowsType
  <2>3. N.journals[N.entries[e].journal_id] # Absent
    <3>1. <<"journals", N.entries[e].journal_id>> \in PostingRows(N.entries[e]) \cap Rows
      BY <2>2 DEF PostingRows
    <3> QED
      BY <1>5, <3>1 DEF Cell
  <2>4. ASSUME NEW a \in AccountsOf(N.entries[e])
        PROVE  N.accounts[a] # Absent
    <3>1. AccountRow(a) \in PostingRows(N.entries[e]) \cap Rows
      BY <2>2 DEF PostingRows
    <3> QED
      BY <1>5, <3>1 DEF Cell, AccountRow
  <2> QED
    BY <2>3, <2>4
<1>7. ASSUME NEW x \in Rows, NEW y \in Rows, x # y /\ x[1] = y[1],
             Cell(N, x) # Absent /\ Cell(N, y) # Absent
      PROVE  ~SameKey(x[1], Cell(N, x), Cell(N, y))
  <2>1. CASE x \notin t.wrote /\ y \notin t.wrote
    BY <1>2, <1>4, <1>7, <2>1, KeysDiffer
  <2>2. CASE x \notin s.wrote /\ y \notin s.wrote
    BY <1>2, <1>4, <1>7, <2>2, KeysDiffer
  <2>3. CASE x \in s.wrote /\ y \in t.wrote
    BY <1>4, <1>7, <2>3 DEF Compatible, Apart
  <2>4. CASE x \in t.wrote /\ y \in s.wrote
    BY <1>4, <1>7, <2>4, CompatibleSymmetric DEF Compatible, Apart
  <2> QED
    BY <2>1, <2>2, <2>3, <2>4 DEF Compatible
<1>8. EntriesValid(N)
  <2> SUFFICES ASSUME NEW e \in EntryIds, N.entries[e] # Absent
               PROVE  ValidEntry(e, N.entries[e])
    BY <1>3 DEF EntriesValid, Present, Ledgers
  <2>1. \A L \in {A, B} : L.entries[e] # Absent => ValidEntry(e, L.entries[e])
    BY <1>2 DEF WholeLedgers, Integrity, EntriesValid, Present, Ledgers
  <2> QED
    BY <1>5, <2>1
<1> QED
  BY <1>3, <1>6, <1>7, <1>8, WholeFromKeys DEF N, B

(* A version stays sound when a compatible one is committed, whose rows    *)
(* are outdated from then on.                                              *)
LEMMA SoundCommit ==
    ASSUME NEW D \in WholeLedgers, NEW old \in SUBSET Rows, NEW older \in SUBSET Rows,
           NEW s \in Version, NEW t \in Version,
           Sound(D, old, s), Sound(D, older, t), Compatible(s, t)
    PROVE  Sound(Overlay(D, t.own, t.wrote), old \cup t.wrote, s)
<1> DEFINE M == Overlay(D, t.own, t.wrote)
<1>1. \A row \in Rows \ t.wrote : Cell(M, row) = Cell(D, row)
  BY OverlayCell DEF Version, WholeLedgers
<1>2. s.wrote \subseteq Rows /\ s.holds \subseteq Rows
  BY DEF Version
<1>3. Overlay(M, s.own, s.wrote) \in WholeLedgers
  BY BothCommitted
<1> HIDE DEF M
<1>4. ReadsCurrent(M, old \cup t.wrote, s)
  BY <1>1 DEF Sound, ReadsCurrent
<1>5. LocksCurrent(M, old \cup t.wrote, s)
  BY <1>1, <1>2 DEF Sound, LocksCurrent, Compatible
<1>6. WritesLocked(M, old \cup t.wrote, s)
  BY <1>1, <1>2 DEF Sound, WritesLocked, Compatible
<1>7. AddsHistory(M, s)
  BY <1>1, <1>2 DEF Sound, AddsHistory, Compatible
<1> QED
  BY <1>3, <1>4, <1>5, <1>6, <1>7 DEF Sound, M

-----------------------------------------------------------------------------
(* Part 5: the inductive invariant.                                        *)

Latest(u) == [own |-> own[u], wrote |-> wrote[u], holds |-> holds[u]]

\* As the unit was when its call began, and will be if it fails.
Began(u) == [own |-> own[u], wrote |-> wrote[u], holds |-> call[u].saved]

Versioned(u) ==
    Range(sent[u]) \cup {Latest(u)} \cup (IF InCall(u) THEN {Began(u)} ELSE {})

Stages == {"new", "entered", "open", "aborted", "lost", "committed", "rolled back"}
Calls == [request : Requests, todo : SUBSET Rows, saved : SUBSET Rows]

TypeInv ==
    /\ db \in WholeLedgers
    /\ tx \in [Units -> Stages]
    /\ own \in [Units -> Ledgers]
    /\ wrote \in [Units -> SUBSET Rows]
    /\ stale \in [Units -> SUBSET Rows]
    /\ holds \in [Units -> SUBSET Rows]
    /\ call \in [Units -> Calls \cup {NoCall}]
    /\ sent \in [Units -> Seq(Version)]
    /\ unsent \in [Units -> Nat]
    /\ made \in [Units -> Nat]
    /\ told \in [Units -> {"nothing", "committed", "failed"}]

\* The version at n has written and locked no more than the one given.
NoMore(u, n, rows, locks) ==
    sent[u][n].wrote \subseteq rows /\ sent[u][n].holds \subseteq locks

(* Savepoints only grow inwards, and a call keeps what they have locked.   *)
Nested(u) ==
    \A n \in DOMAIN sent[u] :
        /\ NoMore(u, n, wrote[u], holds[u])
        /\ InCall(u) => NoMore(u, n, wrote[u], call[u].saved)
        /\ \A m \in n..Len(sent[u]) : NoMore(u, n, sent[u][m].wrote, sent[u][m].holds)

(* A call goes on in an open transaction, with every savepoint sent.  What *)
(* it was to lock and has, exists.                                         *)
CallSound(u) ==
    InCall(u) =>
        /\ tx[u] = "open" /\ unsent[u] = 0
        /\ call[u].saved \subseteq holds[u]
        /\ Todo(u) \subseteq Locks(own[u], Asked(u))
        /\ \A row \in Locks(own[u], Asked(u)) \ Todo(u) :
              row \in holds[u] /\ Cell(own[u], row) # Absent
        /\ Asked(u).op = "create" /\ Asked(u).table = "entries" =>
              ValidEntry(Asked(u).id, Asked(u).record)
        /\ u \in Careful => sent[u] # <<>>

(* Before its first statement a unit has nothing; savepoints and answers   *)
(* belong to stages; a careful unit can go back when it is aborted.        *)
StageSound(u) ==
    /\ tx[u] \in {"new", "entered"} =>
          wrote[u] = {} /\ stale[u] = {} /\ holds[u] = {} /\ sent[u] = <<>>
    /\ sent[u] # <<>> => tx[u] \in {"open", "aborted"}
    /\ told[u] # "nothing" => tx[u] \in {"committed", "rolled back"}
    /\ u \in Careful /\ tx[u] = "aborted" => sent[u] # <<>>
    /\ u \in Careful /\ told[u] = "committed" /\ wrote[u] # {} => tx[u] = "committed"

LocalInv(u) == Nested(u) /\ CallSound(u) /\ StageSound(u)

(* What may still be committed is sound ...                                *)
SoundInv(u) == Alive(u) => \A s \in Versioned(u) : Sound(db, stale[u], s)

(* ... and compatible with what others may still commit.                   *)
PairInv(u, v) ==
    Alive(u) /\ Alive(v) =>
        \A s \in Versioned(u), t \in Versioned(v) : Compatible(s, t)

UnitInv ==
    /\ TypeInv
    /\ \A u \in Units : LocalInv(u) /\ SoundInv(u)
    /\ \A u, v \in Units : u # v => PairInv(u, v)

(* A sequence has the type its elements have.                              *)
LEMMA SeqRetyped ==
    ASSUME NEW S, NEW T, NEW seq \in Seq(S), \A n \in DOMAIN seq : seq[n] \in T
    PROVE  seq \in Seq(T)
BY LenProperties, SeqDef

(* Versions are typed.                                                     *)
LEMMA VersionedType ==
    TypeInv => \A u \in Units : Versioned(u) \subseteq Version /\ Latest(u) \in Version
<1> SUFFICES ASSUME TypeInv, NEW u \in Units
             PROVE  Versioned(u) \subseteq Version /\ Latest(u) \in Version
  OBVIOUS
<1>1. Latest(u) \in Version
  BY DEF TypeInv, Latest, Version
<1>2. InCall(u) => Began(u) \in Version
  BY DEF TypeInv, Began, Version, InCall, Calls
<1>3. Range(sent[u]) \subseteq Version
  BY DEF TypeInv, Range
<1> QED
  BY <1>1, <1>2, <1>3 DEF Versioned

(* The invariant implies what the runs check of every state.               *)
LEMMA UnitInvImplies ==
    UnitInv => TypeOK /\ DatabaseWhole /\ NoLostUpdate /\ CarefulCommitsStored
<1> SUFFICES ASSUME UnitInv
             PROVE  TypeOK /\ DatabaseWhole /\ NoLostUpdate /\ CarefulCommitsStored
  OBVIOUS
<1>1. db \in Ledgers /\ Integrity(db)
  BY DEF UnitInv, TypeInv, WholeLedgers
<1>2. ASSUME NEW u \in Units
      PROVE  sent[u] \in Seq([own : Ledgers, wrote : SUBSET wrote[u], holds : SUBSET holds[u]])
  <2>1. sent[u] \in Seq(Version)
    BY DEF UnitInv, TypeInv
  <2>2. \A n \in DOMAIN sent[u] : sent[u][n] \in Version
    BY <2>1
  <2>3. \A n \in DOMAIN sent[u] :
          sent[u][n] \in [own : Ledgers, wrote : SUBSET wrote[u], holds : SUBSET holds[u]]
    BY <2>2 DEF UnitInv, LocalInv, Nested, NoMore, Version
  <2> QED
    BY <2>1, <2>3, SeqRetyped
<1>3. ASSUME NEW u \in Units, call[u] # NoCall
      PROVE  /\ call[u].request \in Requests
             /\ call[u].todo \subseteq Rows
             /\ call[u].saved \subseteq holds[u]
  BY <1>3 DEF UnitInv, TypeInv, Calls, LocalInv, CallSound, InCall
<1>4. TypeOK
  BY <1>1, <1>2, <1>3 DEF UnitInv, TypeInv, TypeOK, Stages
<1>5. NoLostUpdate
  <2> SUFFICES ASSUME NEW u \in Units, tx[u] = "open", NEW row \in wrote[u] \cap stale[u]
               PROVE  db[row[1]][row[2]] = Absent
    BY DEF NoLostUpdate
  <2>1. Sound(db, stale[u], Latest(u))
    BY DEF UnitInv, SoundInv, Alive, Versioned
  <2> QED
    BY <2>1 DEF Sound, WritesLocked, Latest, Cell
<1>6. CarefulCommitsStored
  BY CarefulAssumption DEF UnitInv, LocalInv, StageSound, CarefulCommitsStored
<1> QED
  BY <1>1, <1>4, <1>5, <1>6 DEF DatabaseWhole

LEMMA UnitInvInit == Init => UnitInv
<1> SUFFICES ASSUME Init
             PROVE  UnitInv
  OBVIOUS
<1>1. db \in WholeLedgers
  BY InitialLedgersAssumption DEF Init, WholeLedgers
<1>2. EmptyLedger \in Ledgers
  BY EmptyLedgerWhole DEF WholeLedgers
<1>3. TypeInv
  BY <1>1, <1>2 DEF Init, TypeInv, Stages
<1>4. \A u \in Units : LocalInv(u)
  BY DEF Init, LocalInv, Nested, CallSound, StageSound, InCall
<1>5. \A u \in Units : ~Alive(u)
  BY DEF Init, Alive
<1> QED
  BY <1>3, <1>4, <1>5 DEF UnitInv, SoundInv, PairInv

-----------------------------------------------------------------------------
(* Part 6: steps that change one unit and not the database.                *)

Untouched(v) ==
    /\ tx'[v] = tx[v] /\ own'[v] = own[v] /\ wrote'[v] = wrote[v]
    /\ stale'[v] = stale[v] /\ holds'[v] = holds[v] /\ call'[v] = call[v]
    /\ sent'[v] = sent[v] /\ unsent'[v] = unsent[v] /\ told'[v] = told[v]

(* A unit that is not touched is as sound as it was.                       *)
LEMMA UntouchedUnit ==
    ASSUME NEW v \in Units, Untouched(v)
    PROVE  /\ LocalInv(v) => LocalInv(v)'
           /\ Versioned(v)' = Versioned(v)
           /\ Alive(v)' <=> Alive(v)
<1> USE DEF Untouched
<1>1. InCall(v)' <=> InCall(v)
  BY DEF InCall
<1>2. Versioned(v)' = Versioned(v)
  BY <1>1 DEF Versioned, Latest, Began
<1>3. Nested(v) => Nested(v)'
  BY <1>1 DEF Nested, NoMore
<1>4. CallSound(v) => CallSound(v)'
  BY <1>1 DEF CallSound, Todo, Asked
<1>5. StageSound(v) => StageSound(v)'
  BY DEF StageSound
<1> QED
  BY <1>2, <1>3, <1>4, <1>5 DEF LocalInv, Alive

(* What is to be shown of the unit that takes a step.                      *)
LEMMA OneUnitStep ==
    ASSUME UnitInv, TypeInv', db' = db, NEW u \in Units,
           \A v \in Units \ {u} : Untouched(v),
           LocalInv(u)', SoundInv(u)',
           \A v \in Units \ {u} : Alive(u)' /\ Alive(v) =>
               \A s \in Versioned(u)', t \in Versioned(v) : Compatible(s, t)
    PROVE  UnitInv'
<1>1. ASSUME NEW v \in Units
      PROVE  LocalInv(v)' /\ SoundInv(v)'
  <2>1. CASE v = u
    BY <2>1
  <2>2. CASE v # u
    BY <2>2, UntouchedUnit DEF UnitInv, SoundInv, Untouched
  <2> QED
    BY <2>1, <2>2
<1>2. ASSUME NEW v \in Units, NEW w \in Units, v # w
      PROVE  PairInv(v, w)'
  <2>1. CASE v = u
    BY <1>2, <2>1, UntouchedUnit DEF PairInv
  <2>2. CASE w = u
    BY <1>2, <2>2, UntouchedUnit, CompatibleSymmetric DEF PairInv
  <2>3. CASE v # u /\ w # u
    BY <1>2, <2>3, UntouchedUnit DEF UnitInv, PairInv
  <2> QED
    BY <2>1, <2>2, <2>3
<1> QED
  BY <1>1, <1>2 DEF UnitInv

(* A step after which the unit can commit nothing but what it could before. *)
LEMMA NothingNew ==
    ASSUME UnitInv, TypeInv', db' = db, NEW u \in Units,
           \A v \in Units \ {u} : Untouched(v),
           LocalInv(u)',
           Alive(u)' => /\ Alive(u) /\ stale'[u] = stale[u]
                        /\ Versioned(u)' \subseteq Versioned(u)
    PROVE  UnitInv'
<1>1. SoundInv(u)'
  BY DEF UnitInv, SoundInv
<1>2. ASSUME NEW v \in Units \ {u}, Alive(u)', Alive(v),
             NEW s \in Versioned(u)', NEW t \in Versioned(v)
      PROVE  Compatible(s, t)
  BY <1>2 DEF UnitInv, PairInv
<1> QED
  BY <1>1, <1>2, OneUnitStep

(* The innermost savepoint, and the others.                                *)
LEMMA SavepointFacts ==
    ASSUME NEW S, NEW saved \in Seq(S), saved # <<>>
    PROVE  /\ Last(saved) \in S
           /\ Front(saved) \in Seq(S)
           /\ Len(saved) \in DOMAIN saved /\ Last(saved) = saved[Len(saved)]
           /\ Len(Front(saved)) = Len(saved) - 1
           /\ DOMAIN Front(saved) \subseteq DOMAIN saved
           /\ \A n \in DOMAIN Front(saved) : Front(saved)[n] = saved[n]
<1>1. Len(saved) \in Nat \ {0} /\ DOMAIN saved = 1..Len(saved)
  BY EmptySeq, LenProperties
<1>2. Front(saved) = SubSeq(saved, 1, Len(saved) - 1) /\ Last(saved) = saved[Len(saved)]
  BY DEF Front, Last
<1>3. /\ Front(saved) \in Seq(S) /\ Len(Front(saved)) = Len(saved) - 1
      /\ \A n \in 1..(Len(saved) - 1) : Front(saved)[n] = saved[n]
  BY <1>1, <1>2
<1>4. DOMAIN Front(saved) = 1..(Len(saved) - 1)
  BY <1>3, LenProperties
<1> QED
  BY <1>1, <1>2, <1>3, <1>4

(* __enter__, and the begin of a caller's block.                           *)
LEMMA EnterInv ==
    ASSUME UnitInv, NEW u \in Units, Enter(u)
    PROVE  UnitInv'
<1> TypeInv /\ LocalInv(u)
  BY DEF UnitInv
<1>1. TypeInv'
  BY DEF Enter, TypeInv, Stages
<1>2. \A v \in Units \ {u} : Untouched(v)
  BY DEF Enter, Untouched, TypeInv
<1>3. tx'[u] = "entered"
  BY DEF Enter, TypeInv
<1>4. LocalInv(u)'
  BY <1>3 DEF Enter, LocalInv, Nested, NoMore, CallSound, StageSound, InCall, Todo, Asked
<1>5. ~Alive(u)'
  BY <1>3, <1>4 DEF Alive, LocalInv, StageSound
<1> QED
  BY <1>1, <1>2, <1>4, <1>5, NothingNew DEF Enter

LEMMA AtomicBeginInv ==
    ASSUME UnitInv, NEW u \in Units, AtomicBegin(u)
    PROVE  UnitInv'
<1> TypeInv /\ LocalInv(u)
  BY DEF UnitInv
<1>1. TypeInv'
  BY DEF AtomicBegin, TypeInv
<1>2. \A v \in Units \ {u} : Untouched(v)
  BY DEF AtomicBegin, Untouched, TypeInv
<1>3. ~InCall(u) /\ ~InCall(u)'
  BY DEF AtomicBegin, Idle, InCall
<1>4. LocalInv(u)'
  BY <1>3 DEF AtomicBegin, LocalInv, Nested, NoMore, CallSound, StageSound
<1>5. (Alive(u)' <=> Alive(u)) /\ Versioned(u)' = Versioned(u)
  BY <1>3 DEF AtomicBegin, Alive, Versioned, Latest, Began
<1> QED
  BY <1>1, <1>2, <1>4, <1>5, NothingNew DEF AtomicBegin

(* The end of a block whose savepoint was not sent.                        *)
LEMMA CloseUnsentInv ==
    ASSUME UnitInv, NEW u \in Units, CloseUnsent(u),
           UNCHANGED <<db, tx, own, wrote, stale, holds, call, made, told>>
    PROVE  UnitInv'
<1> TypeInv /\ LocalInv(u)
  BY DEF UnitInv
<1>1. TypeInv'
  BY DEF CloseUnsent, TypeInv
<1>2. \A v \in Units \ {u} : Untouched(v)
  BY DEF CloseUnsent, Untouched, TypeInv
<1>3. ~InCall(u) /\ ~InCall(u)'
  BY DEF CloseUnsent, Idle, InCall
<1>4. LocalInv(u)'
  BY <1>3 DEF CloseUnsent, LocalInv, Nested, NoMore, CallSound, StageSound
<1>5. (Alive(u)' <=> Alive(u)) /\ Versioned(u)' = Versioned(u)
  BY <1>3 DEF CloseUnsent, Alive, Versioned, Latest, Began
<1> QED
  BY <1>1, <1>2, <1>4, <1>5, NothingNew

(* Without its innermost savepoint, the others are nested as they were.    *)
LEMMA FrontNested ==
    ASSUME TypeInv, NEW u \in Units, Nested(u), sent[u] # <<>>
    PROVE  /\ \A n \in DOMAIN Front(sent[u]) :
                /\ sent[u][n].wrote \subseteq Saved(u).wrote
                /\ sent[u][n].holds \subseteq Saved(u).holds
           /\ \A n \in DOMAIN Front(sent[u]) : \A m \in n..Len(Front(sent[u])) :
                m \in n..Len(sent[u]) /\ m \in DOMAIN Front(sent[u])
<1> sent[u] \in Seq(Version)
  BY DEF TypeInv
<1>1. \A n \in DOMAIN sent[u] : Len(sent[u]) \in n..Len(sent[u])
  OBVIOUS
<1>2. \A n \in DOMAIN Front(sent[u]) : NoMore(u, n, Saved(u).wrote, Saved(u).holds)
  BY <1>1, SavepointFacts DEF Nested, Saved
<1>3. Len(Front(sent[u])) = Len(sent[u]) - 1 /\ Front(sent[u]) \in Seq(Version)
  BY SavepointFacts
<1>4. ASSUME NEW n \in DOMAIN Front(sent[u]), NEW m \in n..Len(Front(sent[u]))
      PROVE  m \in n..Len(sent[u]) /\ m \in DOMAIN Front(sent[u])
  BY <1>3
<1> QED
  BY <1>2, <1>4 DEF NoMore

(* RELEASE SAVEPOINT.                                                      *)
LEMMA ReleaseInv ==
    ASSUME UnitInv, NEW u \in Units, CloseSent(u), tx[u] # "aborted",
           UNCHANGED <<db, tx, own, wrote, stale, holds, call, made, told>>
    PROVE  UnitInv'
<1> TypeInv /\ LocalInv(u)
  BY DEF UnitInv
<1>1. /\ sent[u] \in Seq(Version) /\ sent[u] # <<>> /\ unsent' = unsent
      /\ sent' = [sent EXCEPT ![u] = Front(sent[u])]
      /\ sent'[u] = Front(sent[u])
  BY DEF CloseSent, TypeInv
<1>2. TypeInv'
  BY <1>1, SavepointFacts DEF TypeInv
<1>3. \A v \in Units \ {u} : Untouched(v)
  BY <1>1 DEF Untouched, TypeInv
<1>4. ~InCall(u) /\ ~InCall(u)'
  BY DEF CloseSent, Idle, InCall
<1>5. Nested(u)'
  <2>1. \A n \in DOMAIN sent'[u] : n \in DOMAIN Front(sent[u]) /\ sent'[u][n] = sent[u][n]
    BY <1>1, SavepointFacts
  <2> SUFFICES ASSUME NEW n \in DOMAIN sent'[u]
               PROVE  /\ sent'[u][n].wrote \subseteq wrote'[u]
                      /\ sent'[u][n].holds \subseteq holds'[u]
                      /\ \A m \in n..Len(sent'[u]) :
                            /\ sent'[u][n].wrote \subseteq sent'[u][m].wrote
                            /\ sent'[u][n].holds \subseteq sent'[u][m].holds
    BY <1>4 DEF Nested, NoMore
  <2>2. n \in DOMAIN sent[u] /\ \A m \in n..Len(sent'[u]) : m \in n..Len(sent[u])
    BY <1>1, <2>1, SavepointFacts, FrontNested DEF LocalInv
  <2>3. \A m \in n..Len(sent'[u]) : sent'[u][m] = sent[u][m]
    BY <1>1, <2>1, FrontNested DEF LocalInv
  <2>4. sent'[u][n].wrote \subseteq wrote'[u] /\ sent'[u][n].holds \subseteq holds'[u]
    BY <1>1, <2>1, <2>2, FrontNested DEF LocalInv, Nested, NoMore
  <2> QED
    BY <2>1, <2>2, <2>3, <2>4 DEF LocalInv, Nested, NoMore
<1>6. tx'[u] = "open"
  BY <1>1 DEF LocalInv, StageSound
<1>7. LocalInv(u)'
  BY <1>4, <1>5, <1>6 DEF LocalInv, CallSound, StageSound
<1>8. Alive(u) /\ Versioned(u)' \subseteq Versioned(u)
  <2>1. Range(Front(sent[u])) \subseteq Range(sent[u])
    BY <1>1, SavepointFacts DEF Range
  <2> QED
    BY <1>1, <1>4, <1>6, <2>1 DEF Alive, Versioned, Latest, Began
<1> QED
  BY <1>2, <1>3, <1>7, <1>8, NothingNew

(* ROLLBACK TO SAVEPOINT: the unit has the version of its savepoint again. *)
LEMMA RestoreInv ==
    ASSUME UnitInv, NEW u \in Units, CloseSent(u), Restore(u, Saved(u)),
           tx' = [tx EXCEPT ![u] = "open"], UNCHANGED <<db, stale, call, made, told>>
    PROVE  UnitInv'
<1> TypeInv /\ LocalInv(u)
  BY DEF UnitInv
<1>1. /\ sent[u] \in Seq(Version) /\ sent[u] # <<>> /\ unsent' = unsent
      /\ sent' = [sent EXCEPT ![u] = Front(sent[u])]
      /\ sent'[u] = Front(sent[u])
  BY DEF CloseSent, TypeInv
<1>2. Saved(u) \in Version /\ Saved(u) \in Range(sent[u])
  BY <1>1, SavepointFacts DEF Saved, Range
<1>3. /\ own'[u] = Saved(u).own /\ wrote'[u] = Saved(u).wrote /\ holds'[u] = Saved(u).holds
      /\ tx'[u] = "open"
  BY DEF Restore, TypeInv
<1>4. TypeInv'
  BY <1>1, <1>2, SavepointFacts DEF TypeInv, Restore, Version, Stages
<1>5. \A v \in Units \ {u} : Untouched(v)
  BY <1>1 DEF Untouched, TypeInv, Restore
<1>6. ~InCall(u) /\ ~InCall(u)'
  BY DEF CloseSent, Idle, InCall
<1>7. Nested(u)'
  <2>1. \A n \in DOMAIN sent'[u] : n \in DOMAIN Front(sent[u]) /\ sent'[u][n] = sent[u][n]
    BY <1>1, SavepointFacts
  <2> SUFFICES ASSUME NEW n \in DOMAIN sent'[u]
               PROVE  /\ sent'[u][n].wrote \subseteq wrote'[u]
                      /\ sent'[u][n].holds \subseteq holds'[u]
                      /\ \A m \in n..Len(sent'[u]) :
                            /\ sent'[u][n].wrote \subseteq sent'[u][m].wrote
                            /\ sent'[u][n].holds \subseteq sent'[u][m].holds
    BY <1>6 DEF Nested, NoMore
  <2>2. n \in DOMAIN sent[u] /\ \A m \in n..Len(sent'[u]) : m \in n..Len(sent[u])
    BY <1>1, <2>1, SavepointFacts, FrontNested DEF LocalInv
  <2>3. \A m \in n..Len(sent'[u]) : sent'[u][m] = sent[u][m]
    BY <1>1, <2>1, FrontNested DEF LocalInv
  <2>4. sent'[u][n].wrote \subseteq wrote'[u] /\ sent'[u][n].holds \subseteq holds'[u]
    BY <1>3, <1>1, <2>1, <2>2, FrontNested DEF LocalInv, Nested, NoMore
  <2> QED
    BY <2>1, <2>2, <2>3, <2>4 DEF LocalInv, Nested, NoMore
<1>8. LocalInv(u)'
  BY <1>1, <1>3, <1>6, <1>7 DEF LocalInv, CallSound, StageSound
<1>9. Alive(u)
  BY <1>1 DEF LocalInv, StageSound, Alive
<1>10. Versioned(u)' \subseteq Versioned(u)
  <2>1. Range(Front(sent[u])) \subseteq Range(sent[u])
    BY <1>1, SavepointFacts DEF Range
  <2>2. Latest(u)' = Saved(u)
    BY <1>2, <1>3 DEF Latest, Version
  <2> QED
    BY <1>1, <1>2, <1>6, <2>1, <2>2 DEF Versioned
<1> QED
  BY <1>4, <1>5, <1>8, <1>9, <1>10, NothingNew

(* The ends of a caller's block.                                           *)
LEMMA AtomicStepInv ==
    ASSUME UnitInv, NEW u \in Units, AtomicStep(u)
    PROVE  UnitInv'
<1>1. CASE AtomicEnd(u)
  BY <1>1, CloseUnsentInv, ReleaseInv DEF AtomicEnd
<1>2. CASE AtomicFail(u)
  BY <1>2, CloseUnsentInv, RestoreInv DEF AtomicFail
<1> QED
  BY <1>1, <1>2, AtomicBeginInv DEF AtomicStep

-----------------------------------------------------------------------------
(* Part 7: the end of a unit that is not committed.                        *)

LEMMA FinishType ==
    ASSUME TypeInv, NEW u \in Units, NEW outcome \in Stages,
           NEW answer \in {"nothing", "committed", "failed"}, Finish(u, outcome, answer)
    PROVE  /\ tx' \in [Units -> Stages] /\ tx'[u] = outcome
           /\ told' \in [Units -> {"nothing", "committed", "failed"}] /\ told'[u] = answer
           /\ own' \in [Units -> Ledgers]
           /\ holds' \in [Units -> SUBSET Rows]
           /\ sent' \in [Units -> Seq(Version)] /\ sent'[u] = <<>>
           /\ unsent' \in [Units -> Nat]
           /\ wrote' = wrote /\ call' = call /\ made' = made
           /\ \A v \in Units \ {u} :
                 /\ tx'[v] = tx[v] /\ told'[v] = told[v] /\ own'[v] = own[v]
                 /\ holds'[v] = holds[v] /\ sent'[v] = sent[v] /\ unsent'[v] = unsent[v]
<1> EmptyLedger \in Ledgers
  BY EmptyLedgerWhole DEF WholeLedgers
<1> QED
  BY DEF Finish, TypeInv

(* Rolling back leaves nothing to commit.                                  *)
LEMMA RolledBackInv ==
    ASSUME UnitInv, NEW u \in Units, NEW answer \in {"nothing", "committed", "failed"},
           Idle(u), Drop(u), Finish(u, "rolled back", answer),
           u \in Careful /\ answer = "committed" => wrote[u] = {}
    PROVE  UnitInv'
<1> TypeInv /\ LocalInv(u)
  BY DEF UnitInv
<1>1. /\ tx'[u] = "rolled back" /\ told'[u] = answer /\ sent'[u] = <<>>
      /\ wrote' = wrote /\ call' = call
  BY FinishType DEF Stages
<1>2. TypeInv'
  BY FinishType DEF Stages, TypeInv, Drop
<1>3. ASSUME NEW v \in Units \ {u}
      PROVE  Untouched(v)
  <2>1. /\ tx'[v] = tx[v] /\ told'[v] = told[v] /\ own'[v] = own[v]
        /\ holds'[v] = holds[v] /\ sent'[v] = sent[v] /\ unsent'[v] = unsent[v]
    BY FinishType DEF Stages
  <2>2. stale'[v] = stale[v]
    BY DEF Drop, TypeInv
  <2> QED
    BY <1>1, <2>1, <2>2 DEF Untouched
<1>4. sent'[u] = <<>> /\ call'[u] = NoCall
  BY <1>1 DEF Idle, InCall
<1>5. LocalInv(u)'
  <2>1. Nested(u)'
    <3>1. DOMAIN sent'[u] = {}
      BY <1>4, EmptySeq, LenProperties
    <3> QED
      BY <3>1 DEF Nested
  <2>2. CallSound(u)'
    BY <1>4 DEF CallSound, InCall
  <2>3. u \in Careful /\ told'[u] = "committed" => wrote'[u] = {}
    BY <1>1
  <2>4. StageSound(u)'
    BY <1>1, <2>3 DEF StageSound
  <2> QED
    BY <2>1, <2>2, <2>4 DEF LocalInv
<1>6. ~Alive(u)'
  BY <1>1 DEF Alive
<1> QED
  BY <1>2, <1>3, <1>5, <1>6, NothingNew DEF Drop

(* rollback(), the end of the with statement, and commit() of a            *)
(* transaction that cannot be committed.                                   *)
LEMMA LeaveInv ==
    ASSUME UnitInv, NEW u \in Units, Leave(u)
    PROVE  UnitInv'
BY RolledBackInv DEF Leave

LEMMA CommitAbortedInv ==
    ASSUME UnitInv, NEW u \in Units, CommitAborted(u)
    PROVE  UnitInv'
<1> DEFINE answer == IF tx[u] = "aborted" /\ sent[u] = <<>> THEN "committed" ELSE "failed"
<1>1. Drop(u) /\ Finish(u, "rolled back", answer) /\ tx[u] \in {"aborted", "lost"}
  BY DEF CommitAborted
<1>2. Idle(u)
  BY <1>1 DEF UnitInv, LocalInv, CallSound, Idle
<1>3. u \in Careful => answer # "committed"
  BY DEF UnitInv, LocalInv, StageSound
<1> QED
  BY <1>1, <1>2, <1>3, RolledBackInv

(* A lost connection.                                                      *)
LEMMA DisconnectInv ==
    ASSUME UnitInv, NEW u \in Units, Disconnect(u)
    PROVE  UnitInv'
<1> TypeInv /\ LocalInv(u)
  BY DEF UnitInv
<1> EmptyLedger \in Ledgers
  BY EmptyLedgerWhole DEF WholeLedgers
<1>1. TypeInv'
  <2>1. /\ tx' \in [Units -> Stages]
        /\ own' \in [Units -> Ledgers]
        /\ stale' \in [Units -> SUBSET Rows]
        /\ holds' \in [Units -> SUBSET Rows]
    BY DEF Disconnect, Drop, TypeInv, Stages
  <2>2. call' \in [Units -> Calls \cup {NoCall}]
    BY DEF Disconnect, TypeInv
  <2>3. sent' \in [Units -> Seq(Version)] /\ unsent' \in [Units -> Nat]
    BY DEF Disconnect, TypeInv
  <2>4. UNCHANGED <<db, wrote, made, told>>
    BY DEF Disconnect, Drop
  <2> QED
    BY <2>1, <2>2, <2>3, <2>4 DEF TypeInv
<1>2. \A v \in Units \ {u} : Untouched(v)
  BY DEF Disconnect, Drop, Untouched, TypeInv
<1>3. /\ tx'[u] = "lost" /\ told'[u] = told[u] /\ sent'[u] = <<>> /\ call'[u] = NoCall
      /\ tx[u] \in {"open", "aborted"}
  BY DEF Disconnect, TypeInv
<1>4. LocalInv(u)'
  <2>1. Nested(u)' /\ CallSound(u)'
    BY <1>3 DEF Nested, CallSound, InCall
  <2>2. StageSound(u)'
    BY <1>3 DEF LocalInv, StageSound
  <2> QED
    BY <2>1, <2>2 DEF LocalInv
<1>5. ~Alive(u)'
  BY <1>3 DEF Alive
<1> QED
  BY <1>1, <1>2, <1>4, <1>5, NothingNew DEF Disconnect, Drop

-----------------------------------------------------------------------------
(* Part 8: calls that end without a write.                                 *)

(* What a call under way may rely on.                                      *)
LEMMA CallFacts ==
    ASSUME UnitInv, NEW u \in Units, InCall(u)
    PROVE  /\ tx[u] = "open" /\ unsent[u] = 0 /\ Alive(u)
           /\ call[u] \in Calls /\ Asked(u) \in Requests /\ Todo(u) \subseteq Rows
           /\ told[u] = "nothing"
           /\ Latest(u) \in Versioned(u) /\ Began(u) \in Versioned(u)
<1>1. call[u] \in Calls
  BY DEF UnitInv, TypeInv, InCall
<1>2. tx[u] = "open" /\ unsent[u] = 0
  BY DEF UnitInv, LocalInv, CallSound
<1>3. told[u] = "nothing"
  BY <1>2 DEF UnitInv, LocalInv, StageSound
<1> QED
  BY <1>1, <1>2, <1>3 DEF Calls, Asked, Todo, Alive, Versioned

LEMMA ReturnType ==
    ASSUME TypeInv, NEW u \in Units, Return(u)
    PROVE  /\ call' \in [Units -> Calls \cup {NoCall}]
           /\ call'[u] = NoCall /\ ~InCall(u)'
           /\ \A v \in Units \ {u} : call'[v] = call[v]
BY DEF TypeInv, Return, InCall

(* A call that only reads.                                                 *)
LEMMA ReadInv ==
    ASSUME UnitInv, NEW u \in Units, Read(u)
    PROVE  UnitInv'
<1> TypeInv /\ LocalInv(u)
  BY DEF UnitInv
<1> Return(u) /\ UNCHANGED <<db, tx, own, wrote, stale, holds, sent, unsent, made, told>>
  BY DEF Read
<1>1. TypeInv'
  BY ReturnType DEF TypeInv
<1>2. \A v \in Units \ {u} : Untouched(v)
  BY ReturnType DEF Untouched
<1>3. InCall(u) /\ ~InCall(u)'
  BY ReturnType DEF Read, Ready
<1>4. LocalInv(u)'
  BY <1>3 DEF LocalInv, Nested, NoMore, CallSound, StageSound
<1>5. (Alive(u)' <=> Alive(u)) /\ Versioned(u)' \subseteq Versioned(u)
  BY <1>3 DEF Alive, Versioned, Latest, Began
<1> QED
  BY <1>1, <1>2, <1>4, <1>5, NothingNew

(* A call that fails gives up at most the locks it took.                   *)
LEMMA FailInv ==
    ASSUME UnitInv, NEW u \in Units, Fail(u)
    PROVE  UnitInv'
<1> TypeInv /\ LocalInv(u)
  BY DEF UnitInv
<1> /\ InCall(u) /\ Return(u)
    /\ UNCHANGED <<db, tx, own, wrote, stale, sent, unsent, made, told>>
    /\ holds' = [holds EXCEPT ![u] = IF WholeCallSaved(u) THEN call[u].saved ELSE @]
  BY DEF Fail
<1>1. call[u].saved \in SUBSET Rows /\ call[u].saved \subseteq holds[u]
  BY CallFacts DEF Calls, LocalInv, CallSound
<1>2. /\ holds' \in [Units -> SUBSET Rows]
      /\ holds'[u] = holds[u] \/ holds'[u] = call[u].saved
      /\ \A v \in Units \ {u} : holds'[v] = holds[v]
  BY <1>1 DEF TypeInv
<1>3. TypeInv'
  BY <1>2, ReturnType DEF TypeInv
<1>4. \A v \in Units \ {u} : Untouched(v)
  BY <1>2, ReturnType DEF Untouched
<1>5. ~InCall(u)'
  BY ReturnType
<1>6. LocalInv(u)'
  <2>1. Nested(u)'
    BY <1>2, <1>5 DEF LocalInv, Nested, NoMore
  <2>2. CallSound(u)'
    BY <1>5 DEF CallSound
  <2>3. StageSound(u)'
    BY CallFacts DEF StageSound
  <2> QED
    BY <2>1, <2>2, <2>3 DEF LocalInv
<1>7. Alive(u) /\ Versioned(u)' \subseteq Versioned(u)
  <2>1. Latest(u)' = Latest(u) \/ Latest(u)' = Began(u)
    BY <1>2 DEF Latest, Began
  <2> QED
    BY <1>5, <2>1, CallFacts DEF Versioned
<1> QED
  BY <1>3, <1>4, <1>6, <1>7, NothingNew

(* An error outside any savepoint of the call: the unit goes back to its   *)
(* innermost savepoint, or can only be rolled back.                        *)
LEMMA AbortInv ==
    ASSUME UnitInv, NEW u \in Units, Abort(u)
    PROVE  UnitInv'
<1> TypeInv /\ LocalInv(u)
  BY DEF UnitInv
<1> /\ InCall(u) /\ Return(u) /\ tx' = [tx EXCEPT ![u] = "aborted"]
    /\ UNCHANGED <<db, stale, sent, unsent, made, told>>
  BY DEF Abort, Locking
<1> sent[u] \in Seq(Version)
  BY DEF TypeInv
<1>1. /\ tx' \in [Units -> Stages] /\ tx'[u] = "aborted"
      /\ \A v \in Units \ {u} : tx'[v] = tx[v]
  BY DEF TypeInv, Stages
<1>2. ~InCall(u)' /\ told[u] = "nothing"
  BY ReturnType, CallFacts
<1>3. CallSound(u)' /\ StageSound(u)'
  BY <1>1, <1>2, CallFacts DEF LocalInv, CallSound, StageSound
<1>4. CASE sent[u] = <<>> /\ holds' = [holds EXCEPT ![u] = {}] /\ UNCHANGED <<own, wrote>>
  <2>1. TypeInv'
    BY <1>1, <1>4, ReturnType DEF TypeInv
  <2>2. \A v \in Units \ {u} : Untouched(v)
    BY <1>1, <1>4, ReturnType DEF Untouched, TypeInv
  <2>3. Nested(u)'
    <3>1. DOMAIN sent'[u] = {}
      BY <1>4, EmptySeq, LenProperties
    <3> QED
      BY <3>1 DEF Nested
  <2>4. ~Alive(u)'
    BY <1>1, <1>4 DEF Alive
  <2> QED
    BY <1>3, <2>1, <2>2, <2>3, <2>4, NothingNew DEF LocalInv
<1>5. CASE sent[u] # <<>> /\ Restore(u, Saved(u))
  <2>1. Saved(u) \in Version /\ Saved(u) \in Range(sent[u])
    BY <1>5, SavepointFacts DEF Saved, Range
  <2>2. own'[u] = Saved(u).own /\ wrote'[u] = Saved(u).wrote /\ holds'[u] = Saved(u).holds
    BY <1>5 DEF Restore, TypeInv
  <2>3. TypeInv'
    BY <1>1, <1>5, <2>1, ReturnType DEF TypeInv, Restore, Version
  <2>4. \A v \in Units \ {u} : Untouched(v)
    BY <1>1, <1>5, ReturnType DEF Untouched, TypeInv, Restore
  <2>5. Nested(u)'
    <3>1. \A n \in DOMAIN sent[u] : Len(sent[u]) \in n..Len(sent[u])
      OBVIOUS
    <3>2. \A n \in DOMAIN sent[u] :
            sent[u][n].wrote \subseteq Saved(u).wrote /\ sent[u][n].holds \subseteq Saved(u).holds
      <4>1. Saved(u) = sent[u][Len(sent[u])]
        BY <1>5, SavepointFacts DEF Saved
      <4>2. \A n \in DOMAIN sent[u] : NoMore(u, n, Saved(u).wrote, Saved(u).holds)
        BY <3>1, <4>1 DEF LocalInv, Nested
      <4> QED
        BY <4>2 DEF NoMore
    <3> QED
      BY <1>2, <2>2, <3>2 DEF LocalInv, Nested, NoMore
  <2>6. Latest(u)' = Saved(u)
    BY <2>1, <2>2 DEF Latest, Version
  <2>7. Alive(u) /\ Versioned(u)' \subseteq Versioned(u)
    BY <1>2, <2>1, <2>6, CallFacts DEF Versioned
  <2> QED
    BY <1>3, <2>3, <2>4, <2>5, <2>7, NothingNew DEF LocalInv
<1> QED
  BY <1>4, <1>5 DEF Abort

-----------------------------------------------------------------------------
(* Part 9: what a call brings, and the rows it locks.                      *)

(* Requests are typed.                                                     *)
LEMMA RequestFacts ==
    ASSUME NEW c \in Requests
    PROVE  /\ c.op \in {"update", "delete", "retrieve"} =>
                 c.table \in {"accounts", "journals"} /\ Row(c) \in Rows
           /\ c.op = "create" => Row(c) \in Rows
           /\ c.op \in {"create", "update"} /\ c.table = "journals" => c.record \in Journal
           /\ c.op = "create" /\ c.table = "accounts" => c.record \in Account
           /\ c.op = "update" /\ c.table = "accounts" => c.record \in AccountChanges
           /\ c.op = "create" /\ c.table = "entries" => c.record \in JournalEntry
           /\ c.op = "create" /\ c.table = "audit" => c.record \in AuditEvent
<1>1. c \in Request
  BY RequestsAssumption
<1>2. c.op \in {"update", "delete", "retrieve"} =>
          \/ c.table = "accounts" /\ c.id \in AccountIds
          \/ c.table = "journals" /\ c.id \in JournalIds
  BY <1>1 DEF Request
<1>3. ASSUME c.op = "create"
      PROVE  \/ c.table = "accounts" /\ c.id \in AccountIds /\ c.record \in Account
             \/ c.table = "journals" /\ c.id \in JournalIds /\ c.record \in Journal
             \/ c.table = "entries" /\ c.id \in EntryIds /\ c.record \in JournalEntry
             \/ c.table = "audit" /\ c.id \in EventIds /\ c.record \in AuditEvent
  <2>1. \/ c \in [op : {"create"}, table : {"accounts"}, id : AccountIds, record : Account,
                  service : BOOLEAN]
        \/ c \in [op : {"create", "update"}, table : {"journals"}, id : JournalIds,
                  record : Journal, service : BOOLEAN]
        \/ c \in [op : {"create"}, table : {"entries"}, id : EntryIds, record : JournalEntry,
                  service : BOOLEAN]
        \/ c \in [op : {"create"}, table : {"audit"}, id : EventIds, record : AuditEvent,
                  service : {FALSE}]
    BY <1>1, <1>3 DEF Request
  <2> QED
    BY <2>1
<1>4. c.op = "update" =>
          \/ c.table = "accounts" /\ c.record \in AccountChanges
          \/ c.table = "journals" /\ c.record \in Journal
  BY <1>1 DEF Request
<1> QED
  BY <1>2, <1>3, <1>4 DEF Row, Rows

(* What a call locks are rows.                                             *)
LEMMA LocksType ==
    ASSUME NEW c \in Requests, NEW L
    PROVE  Locks(L, c) \subseteq Rows
<1>1. CASE c.op \in {"update", "delete", "retrieve"}
  BY <1>1, RequestFacts DEF Locks
<1>2. CASE /\ c.op = "create" /\ c.table = "entries"
           /\ c.service \/ L.entries[c.id] = Absent
  <2>1. c.record \in JournalEntry
    BY <1>2, RequestFacts
  <2> QED
    BY <1>2, <2>1, PostingRowsType DEF Locks
<1> QED
  BY <1>1, <1>2 DEF Locks

(* A nonempty set of account identifiers has a least element.              *)
LEMMA LeastAccount ==
    ASSUME NEW S \in SUBSET AccountIds, S # {}
    PROVE  \E a \in S : \A b \in S : a <= b
<1> DEFINE R == OpToRel(<, Nat)
<1>1. S \subseteq Nat
  BY AccountIdsAssumption
<1>2. IsWellFoundedOn(R, Nat)
  BY NatLessThanWellFounded
<1>3. \A x, y \in Nat : x < y => <<x, y>> \in R
  BY DEF OpToRel
<1> HIDE DEF R
<1>4. PICK a \in S : \A b \in S : ~(<<b, a>> \in R)
  BY <1>1, <1>2, WFMin
<1>5. ASSUME NEW b \in S
      PROVE  a <= b
  <2>1. a \in Nat /\ b \in Nat
    BY <1>1
  <2>2. ~(b < a)
    BY <1>3, <1>4, <2>1
  <2> QED
    BY <2>1, <2>2
<1> QED
  BY <1>5

(* The rows left to lock have a first one.                                 *)
LEMMA NextRowFirst ==
    ASSUME UnitInv, NEW u \in Units, Locking(u)
    PROVE  /\ NextRow(u) \in Todo(u)
           /\ \A other \in Todo(u) \ {NextRow(u)} : ComesBefore(NextRow(u), other)
<1> DEFINE c == Asked(u)
<1>1. Todo(u) \subseteq Locks(own[u], c) /\ Todo(u) # {} /\ c \in Requests
  BY CallFacts DEF UnitInv, LocalInv, CallSound, Locking
<1> HIDE DEF c
<1> SUFFICES \E row \in Todo(u) : \A other \in Todo(u) \ {row} : ComesBefore(row, other)
  BY DEF NextRow
<1>2. CASE Locks(own[u], c) \subseteq {Row(c)}
  BY <1>1, <1>2
<1>3. CASE Locks(own[u], c) = PostingRows(c.record) /\ c.record \in JournalEntry
  <2> DEFINE journal == <<"journals", c.record.journal_id>>
             S == {a \in AccountsOf(c.record) : AccountRow(a) \in Todo(u)}
  <2>1. \A row \in Todo(u) : row = journal \/ \E a \in S : row = AccountRow(a)
    BY <1>1, <1>3 DEF PostingRows
  <2>2. CASE journal \in Todo(u)
    <3>1. ASSUME NEW other \in Todo(u) \ {journal}
          PROVE  ComesBefore(journal, other)
      <4>1. PICK a \in S : other = AccountRow(a)
        BY <2>1
      <4>2. journal[1] = "journals" /\ other[1] = "accounts"
        BY <4>1 DEF AccountRow
      <4> QED
        BY <4>2 DEF ComesBefore
    <3> QED
      BY <2>2, <3>1
  <2>3. CASE journal \notin Todo(u)
    <3>1. S \subseteq AccountIds /\ S # {}
      BY <1>1, <1>3, <2>1, <2>3, PostingRowsType
    <3>2. PICK a \in S : \A b \in S : a <= b
      BY <3>1, LeastAccount
    <3>3. ASSUME NEW other \in Todo(u) \ {AccountRow(a)}
          PROVE  ComesBefore(AccountRow(a), other)
      <4>1. PICK b \in S : other = AccountRow(b)
        BY <2>1, <2>3
      <4>2. a # b /\ a <= b /\ a \in Nat /\ b \in Nat
        BY <3>1, <3>2, <3>3, <4>1, AccountIdsAssumption
      <4> QED
        BY <4>1, <4>2 DEF ComesBefore, AccountRow
    <3> QED
      BY <3>2, <3>3
  <2> QED
    BY <2>2, <2>3
<1> QED
  BY <1>1, <1>2, <1>3, RequestFacts DEF Locks

(* A version has written and locked no more than its unit.                 *)
LEMMA VersionWithin ==
    ASSUME UnitInv, NEW u \in Units, NEW s \in Versioned(u)
    PROVE  s.wrote \subseteq wrote[u] /\ s.holds \subseteq holds[u]
<1>1. \A n \in DOMAIN sent[u] :
        sent[u][n].wrote \subseteq wrote[u] /\ sent[u][n].holds \subseteq holds[u]
  BY DEF UnitInv, LocalInv, Nested, NoMore
<1>2. InCall(u) => call[u].saved \subseteq holds[u]
  BY DEF UnitInv, LocalInv, CallSound
<1> QED
  BY <1>1, <1>2 DEF Versioned, Range, Latest, Began

-----------------------------------------------------------------------------
(* Part 10: calls begin, and lock.                                         *)

\* The sequence old, followed by k times the version.
Followed(old, version, k, new) ==
    /\ new \in Seq(Version)
    /\ Len(new) = Len(old) + k
    /\ DOMAIN new = 1..(Len(old) + k)
    /\ \A n \in 1..Len(old) : new[n] = old[n]
    /\ \A n \in 1..(Len(old) + k) : n > Len(old) => new[n] = version

(* The savepoints of the blocks around a call are sent with it.            *)
LEMMA SentBefore ==
    ASSUME NEW old \in Seq(Version), NEW version \in Version, NEW k \in Nat
    PROVE  Followed(old, version, k, old \o [n \in 1..k |-> version])
<1> DEFINE more == [n \in 1..k |-> version]
           new == old \o more
<1>1. more \in Seq(Version) /\ Len(more) = k /\ \A n \in 1..k : more[n] = version
  OBVIOUS
<1>2. Len(old) \in Nat
  BY LenProperties
<1> HIDE DEF more
<1>3. /\ new \in Seq(Version) /\ Len(new) = Len(old) + k
      /\ \A n \in 1..(Len(old) + k) : new[n] = IF n <= Len(old) THEN old[n] ELSE more[n - Len(old)]
  BY <1>1, ConcatProperties
<1> HIDE DEF new
<1>4. DOMAIN new = 1..(Len(old) + k)
  BY <1>3, LenProperties
<1>5. ASSUME NEW n \in 1..Len(old)
      PROVE  new[n] = old[n]
  BY <1>2, <1>3
<1>6. ASSUME NEW n \in 1..(Len(old) + k), n > Len(old)
      PROVE  new[n] = version
  <2>1. n - Len(old) \in 1..k
    BY <1>2, <1>6
  <2> QED
    BY <1>1, <1>2, <1>3, <1>6, <2>1
<1>7. Followed(old, version, k, new)
  BY <1>3, <1>4, <1>5, <1>6 DEF Followed
<1> QED
  BY <1>7 DEF new, more

(* A call begins; before the first statement the unit takes its snapshot.  *)
LEMMA StartCallInv ==
    ASSUME UnitInv, NEW u \in Units, StartCall(u)
    PROVE  UnitInv'
<1> TypeInv /\ LocalInv(u)
  BY DEF UnitInv
<1> DEFINE L == IF tx[u] = "entered" THEN db ELSE own[u]
           saved == [own |-> L, wrote |-> wrote[u], holds |-> holds[u]]
           more == [n \in 1..unsent[u] |-> saved]
<1>1. PICK c \in Requests :
        /\ tx[u] \in {"entered", "open"} /\ Idle(u)
        /\ u \in Careful => Blocks(u) > 0
        /\ c.op = "create" /\ c.table = "entries" => ValidEntry(c.id, c.record)
        /\ tx' = [tx EXCEPT ![u] = "open"]
        /\ sent' = [sent EXCEPT ![u] = @ \o more]
        /\ unsent' = [unsent EXCEPT ![u] = 0]
        /\ own' = [own EXCEPT ![u] = L]
        /\ call' = [call EXCEPT ![u] =
              [request |-> c, todo |-> Locks(L, c), saved |-> holds[u]]]
        /\ made' = [made EXCEPT ![u] = @ + 1]
        /\ UNCHANGED <<db, wrote, stale, holds, told>>
  BY Zenon DEF StartCall
<1>2. L \in Ledgers /\ saved \in Version /\ L = saved.own
  BY DEF TypeInv, WholeLedgers, Version
<1>3. sent[u] \in Seq(Version) /\ unsent[u] \in Nat /\ Len(sent[u]) \in Nat
  BY DEF TypeInv
<1>4. saved.own = L /\ saved.wrote = wrote[u] /\ saved.holds = holds[u]
  OBVIOUS
<1> HIDE DEF saved, L
<1>5. /\ sent'[u] \in Seq(Version)
      /\ Len(sent'[u]) = Len(sent[u]) + unsent[u]
      /\ DOMAIN sent'[u] = 1..(Len(sent[u]) + unsent[u])
      /\ \A n \in 1..Len(sent[u]) : sent'[u][n] = sent[u][n]
      /\ \A n \in 1..(Len(sent[u]) + unsent[u]) : n > Len(sent[u]) => sent'[u][n] = saved
  <2>1. sent'[u] = sent[u] \o more
    BY <1>1 DEF TypeInv
  <2>2. Followed(sent[u], saved, unsent[u], sent[u] \o more)
    BY <1>2, <1>3, SentBefore
  <2>3. Followed(sent[u], saved, unsent[u], sent'[u])
    BY <2>1, <2>2
  <2> QED
    BY <2>3 DEF Followed
<1>6. [request |-> c, todo |-> Locks(L, c), saved |-> holds[u]] \in Calls
  BY LocksType DEF TypeInv, Calls
<1> HIDE DEF more
<1>7. TypeInv'
  <2>1. tx' \in [Units -> Stages] /\ unsent' \in [Units -> Nat]
    BY <1>1 DEF TypeInv, Stages
  <2>4. made' \in [Units -> Nat]
    BY <1>1 DEF TypeInv
  <2>2. own' \in [Units -> Ledgers] /\ call' \in [Units -> Calls \cup {NoCall}]
    BY <1>1, <1>2, <1>6 DEF TypeInv
  <2>3. sent' \in [Units -> Seq(Version)]
    BY <1>1, <1>5 DEF TypeInv
  <2> QED
    BY <1>1, <2>1, <2>2, <2>3, <2>4 DEF TypeInv
<1>8. \A v \in Units \ {u} : Untouched(v)
  BY <1>1 DEF TypeInv, Untouched
<1>9. /\ tx'[u] = "open" /\ unsent'[u] = 0 /\ own'[u] = saved.own
      /\ wrote'[u] = saved.wrote /\ holds'[u] = saved.holds
      /\ call'[u] = [request |-> c, todo |-> Locks(L, c), saved |-> saved.holds]
      /\ stale'[u] = stale[u] /\ told'[u] = told[u]
  BY <1>1, <1>2, <1>4 DEF TypeInv
<1>10. Versioned(u)' \subseteq Range(sent[u]) \cup {saved}
  <2>1. Latest(u)' = saved /\ (InCall(u)' => Began(u)' = saved)
    BY <1>2, <1>9 DEF Latest, Began, Version
  <2>2. Range(sent'[u]) \subseteq Range(sent[u]) \cup {saved}
    <3>1. DOMAIN sent[u] = 1..Len(sent[u])
      BY <1>3, LenProperties
    <3> QED
      BY <1>3, <1>5, <3>1 DEF Range
  <2> QED
    BY <2>1, <2>2 DEF Versioned
<1>11. LocalInv(u)'
  <2>1. Nested(u)'
    <3>1. DOMAIN sent[u] = 1..Len(sent[u])
      BY <1>3, LenProperties
    <3> SUFFICES ASSUME NEW n \in DOMAIN sent'[u]
                 PROVE  /\ sent'[u][n].wrote \subseteq saved.wrote
                        /\ sent'[u][n].holds \subseteq saved.holds
                        /\ \A m \in n..Len(sent'[u]) :
                              /\ sent'[u][n].wrote \subseteq sent'[u][m].wrote
                              /\ sent'[u][n].holds \subseteq sent'[u][m].holds
      BY <1>9 DEF Nested, NoMore
    <3>2. CASE n <= Len(sent[u])
      <4>1. n \in DOMAIN sent[u] /\ sent'[u][n] = sent[u][n] /\ n \in Nat
        BY <1>3, <1>5, <3>1, <3>2
      <4>2. sent[u][n].wrote \subseteq saved.wrote /\ sent[u][n].holds \subseteq saved.holds
        BY <1>4, <4>1 DEF LocalInv, Nested, NoMore
      <4>3. ASSUME NEW m \in n..Len(sent'[u])
            PROVE  /\ sent'[u][n].wrote \subseteq sent'[u][m].wrote
                   /\ sent'[u][n].holds \subseteq sent'[u][m].holds
        <5>1. CASE m <= Len(sent[u])
          <6>1. m \in n..Len(sent[u]) /\ sent'[u][m] = sent[u][m]
            BY <1>3, <1>5, <4>1, <5>1
          <6> QED
            BY <4>1, <6>1 DEF LocalInv, Nested, NoMore
        <5>2. CASE m > Len(sent[u])
          <6>1. sent'[u][m] = saved
            BY <1>3, <1>5, <4>1, <5>2
          <6> QED
            BY <4>1, <4>2, <6>1
        <5> QED
          BY <1>3, <1>5, <4>1, <5>1, <5>2
      <4> QED
        BY <4>1, <4>2, <4>3
    <3>3. CASE n > Len(sent[u])
      <4>1. sent'[u][n] = saved /\ \A m \in n..Len(sent'[u]) : sent'[u][m] = saved
        BY <1>3, <1>5, <3>3
      <4> QED
        BY <4>1
    <3> QED
      BY <1>3, <1>5, <3>2, <3>3
  <2>2. CallSound(u)'
    <3>1. u \in Careful => sent'[u] # <<>>
      BY <1>1, <1>3, <1>5 DEF Blocks
    <3> QED
      BY <1>1, <1>9, <3>1, <1>4 DEF CallSound, Todo, Asked
  <2>3. StageSound(u)'
    BY <1>1, <1>9 DEF LocalInv, StageSound
  <2> QED
    BY <2>1, <2>2, <2>3 DEF LocalInv
<1>12. CASE tx[u] = "open"
  <2>1. saved = Latest(u) /\ Alive(u)
    BY <1>12 DEF saved, L, Latest, Alive
  <2>2. Versioned(u)' \subseteq Versioned(u)
    BY <1>10, <2>1 DEF Versioned
  <2> QED
    BY <1>1, <1>7, <1>8, <1>9, <1>11, <2>1, <2>2, NothingNew
<1>13. CASE tx[u] = "entered"
  <2>1. saved = [own |-> db, wrote |-> {}, holds |-> {}] /\ sent[u] = <<>> /\ stale[u] = {}
    BY <1>13 DEF saved, L, LocalInv, StageSound
  <2>2. Range(sent[u]) = {}
    <3>1. DOMAIN sent[u] = {}
      BY <2>1, EmptySeq, LenProperties
    <3> QED
      BY <3>1 DEF Range
  <2>3. Versioned(u)' \subseteq {saved}
    BY <1>10, <2>2
  <2>4. Sound(db, stale[u], saved)
    BY <2>1, SoundSnapshot DEF TypeInv
  <2>5. SoundInv(u)'
    BY <1>1, <1>9, <2>3, <2>4 DEF SoundInv
  <2>6. \A t : Compatible(saved, t)
    BY <2>1 DEF Compatible, Apart
  <2> QED
    BY <1>1, <1>7, <1>8, <1>11, <2>3, <2>5, <2>6, OneUnitStep
<1> QED
  BY <1>1, <1>12, <1>13

(* A row is locked: nobody else has it, and it is as it was read.          *)
LEMMA LockRowInv ==
    ASSUME UnitInv, NEW u \in Units, LockRow(u)
    PROVE  UnitInv'
<1> TypeInv /\ LocalInv(u)
  BY DEF UnitInv
<1> DEFINE row == NextRow(u)
           s == [own |-> own[u], wrote |-> wrote[u], holds |-> holds[u] \cup {row}]
<1>1. /\ InCall(u) /\ Locking(u) /\ ~Waits(u) /\ ~Missing(u) /\ ~ChangedSince(u) /\ ~Refused(u)
      /\ holds' = [holds EXCEPT ![u] = holds[u] \cup {row}]
      /\ call' = [call EXCEPT ![u].todo = @ \ {row}]
      /\ UNCHANGED <<db, tx, own, wrote, stale, sent, unsent, made, told>>
  BY DEF LockRow, RowLocked, Locking
<1>2. row \in Todo(u) /\ row \in Rows
  BY <1>1, NextRowFirst, CallFacts
<1>3. Cell(own[u], row) # Absent /\ row \notin stale[u] \ wrote[u]
  BY <1>1 DEF Missing, ChangedSince, Cell
<1>4. \A v \in Units \ {u} : row \notin holds[v]
  BY <1>1 DEF Waits, WaitsFor
<1> HIDE DEF row
<1>5. call[u] \in Calls /\ call[u] = [request |-> Asked(u), todo |-> Todo(u), saved |-> call[u].saved]
  BY <1>1, CallFacts DEF Calls, Asked, Todo
<1>6. /\ call'[u] = [request |-> Asked(u), todo |-> Todo(u) \ {row}, saved |-> call[u].saved]
      /\ call'[u] \in Calls
      /\ holds'[u] = holds[u] \cup {row}
  <2>1. call'[u] = [call[u] EXCEPT !.todo = @ \ {row}] /\ holds'[u] = holds[u] \cup {row}
    BY <1>1 DEF TypeInv
  <2>2. call'[u] = [request |-> Asked(u), todo |-> Todo(u) \ {row}, saved |-> call[u].saved]
    BY <1>5, <2>1 DEF Calls, Todo, Asked
  <2> QED
    BY <1>5, <2>1, <2>2 DEF Calls, Todo, Asked
<1>7. TypeInv'
  <2>1. call' \in [Units -> Calls \cup {NoCall}]
    BY <1>1, <1>6 DEF TypeInv
  <2>2. holds' \in [Units -> SUBSET Rows]
    BY <1>1, <1>2 DEF TypeInv
  <2> QED
    BY <1>1, <2>1, <2>2 DEF TypeInv
<1>8. \A v \in Units \ {u} : Untouched(v)
  BY <1>1 DEF Untouched, TypeInv
<1>9. /\ Asked(u)' = Asked(u) /\ Todo(u)' = Todo(u) \ {row}
      /\ call'[u].saved = call[u].saved
  BY <1>6 DEF Asked, Todo
<1>10. LocalInv(u)'
  <2>1. Nested(u)'
    BY <1>1, <1>6, <1>9 DEF LocalInv, Nested, NoMore
  <2>2. CallSound(u)'
    BY <1>1, <1>3, <1>6, <1>9 DEF LocalInv, CallSound
  <2>3. StageSound(u)'
    BY <1>1, CallFacts DEF LocalInv, StageSound
  <2> QED
    BY <2>1, <2>2, <2>3 DEF LocalInv
<1>11. Versioned(u)' \subseteq Versioned(u) \cup {s}
  <2>1. Latest(u)' = s
    BY <1>1, <1>6 DEF Latest
  <2>2. Began(u)' = Began(u)
    BY <1>1, <1>9 DEF Began
  <2> QED
    BY <1>1, <2>1, <2>2 DEF Versioned
<1>12. Alive(u) /\ Latest(u) \in Versioned(u) /\ Latest(u) \in Version
  BY <1>1, CallFacts, VersionedType
<1>13. Sound(db, stale[u], Latest(u))
  BY <1>12 DEF UnitInv, SoundInv
<1>14. Sound(db, stale[u], s)
  BY <1>2, <1>3, <1>12, <1>13, SoundLock DEF TypeInv, Latest
<1>15. SoundInv(u)'
  BY <1>1, <1>11, <1>12, <1>14 DEF UnitInv, SoundInv
<1>16. ASSUME NEW v \in Units \ {u}, Alive(v), NEW t \in Versioned(v)
       PROVE  Compatible(s, t)
  <2>1. t \in Version /\ Sound(db, stale[v], t) /\ Compatible(Latest(u), t)
    BY <1>12, <1>16, VersionedType DEF UnitInv, SoundInv, PairInv
  <2>2. row \notin t.holds
    BY <1>4, <1>16, VersionWithin
  <2>3. /\ Latest(u).own = own[u] /\ Latest(u).wrote = wrote[u] /\ Latest(u).holds = holds[u]
        /\ db \in WholeLedgers /\ stale[u] \in SUBSET Rows /\ stale[v] \in SUBSET Rows
    BY DEF TypeInv, Latest
  <2>4. Compatible([own |-> Latest(u).own, wrote |-> Latest(u).wrote,
                    holds |-> Latest(u).holds \cup {row}], t)
    BY <1>2, <1>3, <1>12, <1>13, <2>1, <2>2, <2>3, CompatibleLock
  <2> QED
    BY <2>3, <2>4
<1>17. \A v \in Units \ {u} : Alive(v) =>
         \A r \in Versioned(u)', t \in Versioned(v) : Compatible(r, t)
  BY <1>11, <1>12, <1>16 DEF UnitInv, PairInv
<1> QED
  BY <1>1, <1>7, <1>8, <1>10, <1>15, <1>17, OneUnitStep

-----------------------------------------------------------------------------
(* Part 11: writes.                                                        *)

(* A unit gets a version that is sound and compatible with the versions of *)
(* others.                                                                 *)
LEMMA StoreInv ==
    ASSUME UnitInv, NEW u \in Units, InCall(u), Return(u),
           NEW s \in Version, Sound(db, stale[u], s),
           own' = [own EXCEPT ![u] = s.own], wrote' = [wrote EXCEPT ![u] = s.wrote],
           wrote[u] \subseteq s.wrote, s.holds = holds[u],
           \A v \in Units \ {u} : Alive(v) => \A t \in Versioned(v) : Compatible(s, t),
           UNCHANGED <<db, tx, stale, holds, sent, unsent, made, told>>
    PROVE  UnitInv'
<1> TypeInv /\ LocalInv(u)
  BY DEF UnitInv
<1>1. TypeInv'
  BY ReturnType DEF TypeInv, Version
<1>2. \A v \in Units \ {u} : Untouched(v)
  BY ReturnType DEF Untouched, TypeInv
<1>3. own'[u] = s.own /\ wrote'[u] = s.wrote /\ ~InCall(u)'
  BY ReturnType DEF TypeInv
<1>4. LocalInv(u)'
  <2>1. Nested(u)'
    BY <1>3 DEF LocalInv, Nested, NoMore
  <2>2. CallSound(u)'
    BY <1>3 DEF CallSound
  <2>3. StageSound(u)'
    BY CallFacts DEF LocalInv, StageSound
  <2> QED
    BY <2>1, <2>2, <2>3 DEF LocalInv
<1>5. Alive(u) /\ Versioned(u)' \subseteq Versioned(u) \cup {s}
  <2>1. Latest(u)' = s
    BY <1>3 DEF Latest, Version
  <2> QED
    BY <1>3, <2>1, CallFacts DEF Versioned
<1>6. SoundInv(u)'
  BY <1>5 DEF UnitInv, SoundInv
<1>7. \A v \in Units \ {u} : Alive(v) =>
        \A r \in Versioned(u)', t \in Versioned(v) : Compatible(r, t)
  BY <1>5 DEF UnitInv, PairInv
<1> QED
  BY <1>1, <1>2, <1>4, <1>6, <1>7, OneUnitStep

(* What a record to store is, and that it fits its table.                  *)
LEMMA CandidateFits ==
    ASSUME UnitInv, NEW u \in Units, Ready(u), Asked(u).op \in {"create", "update"}
    PROVE  /\ Row(Asked(u)) \in Rows
           /\ Asked(u).table = "accounts" => Candidate(u) \in Account
           /\ Asked(u).table = "journals" => Candidate(u) \in Journal
           /\ Asked(u).table = "entries" =>
                 Asked(u).op = "create" /\ Candidate(u) \in JournalEntry
           /\ Asked(u).table = "audit" => Asked(u).op = "create" /\ Candidate(u) \in AuditEvent
           /\ Put(own[u], Asked(u).table, Asked(u).id, Candidate(u)) \in Ledgers
<1> DEFINE c == Asked(u)
           L == own[u]
<1>1. c \in Requests /\ L \in Ledgers /\ InCall(u)
  BY CallFacts DEF UnitInv, TypeInv, Ready
<1>2. Row(c) \in Rows
  BY <1>1, RequestFacts
<1>3. c.op = "update" => c.table \in {"accounts", "journals"} /\ Cell(L, Row(c)) # Absent
  BY <1>1, RequestFacts DEF UnitInv, LocalInv, CallSound, Ready, Locks
<1>4. ASSUME c.op = "create"
      PROVE  Candidate(u) = c.record
  BY <1>4 DEF Candidate
<1>5. ASSUME c.table = "accounts"
      PROVE  Candidate(u) \in Account
  <2>1. CASE c.op = "create"
    BY <1>1, <1>4, <1>5, <2>1, RequestFacts
  <2>2. CASE c.op = "update"
    <3> DEFINE old == L.accounts[c.id]
               record == c.record
    <3>1. old \in Account
      BY <1>1, <1>2, <1>3, <1>5, <2>2 DEF Row, Rows, Cell, Ledgers, OrAbsent
    <3>2. record \in AccountChanges
      BY <1>1, <1>5, <2>2, RequestFacts
    <3>3. Candidate(u) = [field \in DOMAIN old |->
                             IF field \in DOMAIN record THEN record[field] ELSE old[field]]
      BY <1>5, <2>2 DEF Candidate
    <3> HIDE DEF old, record
    <3> QED
      BY <3>1, <3>2, <3>3 DEF Account, AccountChanges
  <2> QED
    BY <2>1, <2>2
<1>6. ASSUME c.table = "journals"
      PROVE  Candidate(u) \in Journal
  <2>1. CASE c.op = "create"
    BY <1>1, <1>4, <1>6, <2>1, RequestFacts
  <2>2. CASE c.op = "update"
    <3> DEFINE old == L.journals[c.id]
               record == c.record
    <3>1. old \in Journal
      BY <1>1, <1>2, <1>3, <1>6, <2>2 DEF Row, Rows, Cell, Ledgers, OrAbsent
    <3>2. record \in Journal
      BY <1>1, <1>6, <2>2, RequestFacts
    <3>3. Candidate(u) = [field \in DOMAIN old |->
                             IF field \in DOMAIN record THEN record[field] ELSE old[field]]
      BY <1>6, <2>2 DEF Candidate
    <3> HIDE DEF old, record
    <3> QED
      BY <3>1, <3>2, <3>3 DEF Journal
  <2> QED
    BY <2>1, <2>2
<1>7. ASSUME c.table = "entries"
      PROVE  c.op = "create" /\ Candidate(u) \in JournalEntry
  BY <1>1, <1>3, <1>4, <1>7, RequestFacts
<1>8. ASSUME c.table = "audit"
      PROVE  c.op = "create" /\ Candidate(u) \in AuditEvent
  BY <1>1, <1>3, <1>4, <1>8, RequestFacts
<1> DEFINE new == Candidate(u)
<1> HIDE DEF new
<1>9. Put(L, c.table, c.id, new) \in Ledgers
  <2>1. CASE c.table = "accounts"
    BY <1>1, <1>2, <1>5, <2>1 DEF new, Put, Row, Rows, Ledgers, OrAbsent
  <2>2. CASE c.table = "journals"
    BY <1>1, <1>2, <1>6, <2>2 DEF new, Put, Row, Rows, Ledgers, OrAbsent
  <2>3. CASE c.table = "entries"
    BY <1>1, <1>2, <1>7, <2>3 DEF new, Put, Row, Rows, Ledgers, OrAbsent
  <2>4. CASE c.table = "audit"
    BY <1>1, <1>2, <1>8, <2>4 DEF new, Put, Row, Rows, Ledgers, OrAbsent
  <2> QED
    BY <1>2, <2>1, <2>2, <2>3, <2>4 DEF Row, Rows
<1> QED
  BY <1>2, <1>5, <1>6, <1>7, <1>8, <1>9 DEF new

(* What is stored through Put, by table.                                   *)
LEMMA PutByTable ==
    \A L, id, record :
        /\ Put(L, "accounts", id, record) = PutAccount(L, id, record)
        /\ Put(L, "journals", id, record) = PutJournal(L, id, record)
        /\ Put(L, "entries", id, record) = PutEntry(L, id, record)
        /\ Put(L, "audit", id, record) = PutEvent(L, id, record)
BY DEF Put, PutAccount, PutJournal, PutEntry, PutEvent

(* What a unit has locked is there when it commits.                        *)
LEMMA LockedIsMerged ==
    ASSUME NEW D \in WholeLedgers, NEW old \in SUBSET Rows, NEW s \in Version,
           Sound(D, old, s), NEW row \in s.holds, Cell(s.own, row) # Absent
    PROVE  Cell(Overlay(D, s.own, s.wrote), row) # Absent
<1>1. row \in Rows /\ D \in Ledgers /\ s.own \in Ledgers /\ s.wrote \in SUBSET Rows
  BY DEF Version, WholeLedgers
<1> QED
  BY <1>1, OverlayCell DEF Sound, LocksCurrent

(* The unit about to write: its version is sound, and all it was to lock   *)
(* is locked and exists.                                                   *)
LEMMA ReadyFacts ==
    ASSUME UnitInv, NEW u \in Units, Ready(u)
    PROVE  /\ InCall(u) /\ Alive(u)
           /\ db \in WholeLedgers /\ stale[u] \in SUBSET Rows /\ own[u] \in Ledgers
           /\ wrote[u] \in SUBSET Rows
           /\ Latest(u) \in Version /\ Latest(u) \in Versioned(u)
           /\ Latest(u).own = own[u] /\ Latest(u).wrote = wrote[u] /\ Latest(u).holds = holds[u]
           /\ Sound(db, stale[u], Latest(u))
           /\ Merged(u) = Overlay(db, Latest(u).own, Latest(u).wrote)
           /\ Merged(u) \in WholeLedgers
           /\ Asked(u) \in Requests
           /\ \A row \in Locks(own[u], Asked(u)) :
                 row \in holds[u] /\ Cell(own[u], row) # Absent /\ Cell(Merged(u), row) # Absent
<1>1. InCall(u)
  BY DEF Ready
<1>2. /\ Alive(u) /\ Latest(u) \in Version /\ Latest(u) \in Versioned(u)
      /\ Asked(u) \in Requests /\ db \in WholeLedgers /\ stale[u] \in SUBSET Rows
      /\ own[u] \in Ledgers /\ wrote[u] \in SUBSET Rows
  BY <1>1, CallFacts, VersionedType DEF UnitInv, TypeInv
<1>3. /\ Latest(u).own = own[u] /\ Latest(u).wrote = wrote[u] /\ Latest(u).holds = holds[u]
      /\ Merged(u) = Overlay(db, Latest(u).own, Latest(u).wrote)
  BY DEF Latest, Merged
<1>4. Sound(db, stale[u], Latest(u)) /\ Merged(u) \in WholeLedgers
  <2>1. Sound(db, stale[u], Latest(u))
    BY <1>2 DEF UnitInv, SoundInv
  <2> QED
    BY <1>3, <2>1 DEF Sound
<1>5. \A row \in Locks(own[u], Asked(u)) : row \in holds[u] /\ Cell(own[u], row) # Absent
  BY <1>1 DEF UnitInv, LocalInv, CallSound, Ready
<1>6. ASSUME NEW row \in Locks(own[u], Asked(u))
      PROVE  Cell(Merged(u), row) # Absent
  BY <1>2, <1>3, <1>4, <1>5, LockedIsMerged
<1> QED
  BY <1>1, <1>2, <1>3, <1>4, <1>5, <1>6

(* What the unique constraints leave free.                                 *)
LEMMA KeyFree ==
    ASSUME UnitInv, NEW u \in Units, Ready(u), Asked(u).op \in {"create", "update"},
           ~KeyTaken(u)
    PROVE  /\ Asked(u).op = "create" => Cell(Merged(u), Row(Asked(u))) = Absent
           /\ \A id \in Present(Merged(u)[Asked(u).table]) \ {Asked(u).id} :
                 ~SameKey(Asked(u).table, Merged(u)[Asked(u).table][id], Candidate(u))
BY DEF KeyTaken, Cell, Row

(* The record to store leaves a whole ledger, if it is the next to be      *)
(* committed.                                                              *)
LEMMA CandidateWhole ==
    ASSUME UnitInv, NEW u \in Units, Ready(u), Asked(u).op \in {"create", "update"},
           ~Refused(u), ~KeyTaken(u)
    PROVE  /\ Put(Merged(u), Asked(u).table, Asked(u).id, Candidate(u)) \in WholeLedgers
           /\ Asked(u).table = "entries" =>
                 Locks(own[u], Asked(u)) = PostingRows(Candidate(u))
<1> DEFINE c == Asked(u)
           new == Candidate(u)
           M == Merged(u)
<1>1. M \in WholeLedgers /\ M \in Ledgers /\ c \in Requests
  BY ReadyFacts DEF WholeLedgers
<1>2. /\ Row(c) \in Rows
      /\ c.table = "accounts" => new \in Account
      /\ c.table = "journals" => new \in Journal
      /\ c.table = "entries" => c.op = "create" /\ new \in JournalEntry
      /\ c.table = "audit" => c.op = "create" /\ new \in AuditEvent
  BY CandidateFits
<1>3. /\ c.op = "create" => Cell(M, Row(c)) = Absent
      /\ \A id \in Present(M[c.table]) \ {c.id} : ~SameKey(c.table, M[c.table][id], new)
  BY KeyFree
<1>4. c.op = "create" => new = c.record
  BY DEF Candidate
<1>5. c.op = "create" /\ c.table = "entries" =>
        /\ ValidEntry(c.id, c.record)
        /\ own[u].entries[c.id] = Absent
  BY ReadyFacts DEF UnitInv, LocalInv, CallSound, Refused
<1>6. \A row \in Locks(own[u], c) : Cell(M, row) # Absent
  BY ReadyFacts
<1> HIDE DEF c, new, M
<1>7. CASE c.table = "accounts"
  <2>1. c.id \in AccountIds
    BY <1>2, <1>7 DEF Row, Rows
  <2>2. ~CodeTaken(M.accounts, c.id, new.code)
    BY <1>3, <1>7 DEF CodeTaken, SameKey
  <2> QED
    BY <1>1, <1>2, <1>7, <2>1, <2>2, PutAccountWhole, PutByTable DEF c, new, M
<1>8. CASE c.table = "journals"
  <2>1. c.id \in JournalIds
    BY <1>2, <1>8 DEF Row, Rows
  <2>2. ~CodeTaken(M.journals, c.id, new.code)
    BY <1>3, <1>8 DEF CodeTaken, SameKey
  <2> QED
    BY <1>1, <1>2, <1>8, <2>1, <2>2, PutJournalWhole, PutByTable DEF c, new, M
<1>9. CASE c.table = "entries"
  <2>1. c.id \in EntryIds /\ c.op = "create" /\ new = c.record /\ new \in JournalEntry
    BY <1>2, <1>4, <1>9 DEF Row, Rows
  <2>2. Locks(own[u], c) = PostingRows(new)
    BY <1>5, <1>9, <2>1 DEF Locks
  <2>3. M.entries[c.id] = Absent
    BY <1>3, <1>9, <2>1 DEF Cell, Row
  <2>4. M.journals[new.journal_id] # Absent
    <3>1. <<"journals", new.journal_id>> \in Locks(own[u], c)
      BY <2>2 DEF PostingRows
    <3> QED
      BY <1>6, <3>1 DEF Cell
  <2>5. ASSUME NEW a \in AccountsOf(new)
        PROVE  M.accounts[a] # Absent
    <3>1. <<"accounts", a>> \in Locks(own[u], c)
      BY <2>2 DEF PostingRows, AccountRow
    <3> QED
      BY <1>6, <3>1 DEF Cell
  <2>6. ASSUME NEW other \in Present(M.entries)
        PROVE  LineIdsOf(M.entries[other]) \cap LineIdsOf(new) = {}
    <3>1. other # c.id
      BY <2>3, <2>6 DEF Present
    <3> QED
      BY <1>3, <1>9, <3>1 DEF SameKey
  <2>7. MayCreateEntry(M, c.id, new)
    BY <1>5, <1>9, <2>1, <2>3, <2>4, <2>5, <2>6 DEF MayCreateEntry
  <2> QED
    BY <1>1, <1>9, <2>1, <2>2, <2>7, PutEntryWhole, PutByTable DEF c, new, M
<1>10. CASE c.table = "audit"
  <2>1. c.id \in EventIds /\ new \in AuditEvent
    BY <1>2, <1>10 DEF Row, Rows
  <2> QED
    BY <1>1, <1>10, <2>1, PutEventWhole, PutByTable DEF c, new, M
<1> QED
  BY <1>2, <1>7, <1>8, <1>9, <1>10 DEF Row, Rows

(* The record of a create or an update may be stored.                      *)
LEMMA SaveSound ==
    ASSUME UnitInv, NEW u \in Units, Ready(u), Asked(u).op \in {"create", "update"},
           ~Refused(u), ~KeyTaken(u)
    PROVE  LET t == Written(Latest(u), Row(Asked(u)), Candidate(u))
           IN  t \in Version /\ Sound(db, stale[u], t)
<1> DEFINE c == Asked(u)
           row == Row(c)
           new == Candidate(u)
           s == Latest(u)
<1>1. /\ s \in Version /\ Sound(db, stale[u], s) /\ s.own = own[u] /\ s.wrote = wrote[u]
      /\ s.holds = holds[u] /\ db \in WholeLedgers /\ db \in Ledgers /\ stale[u] \in SUBSET Rows
      /\ own[u] \in Ledgers /\ wrote[u] \in SUBSET Rows
      /\ Merged(u) = Overlay(db, s.own, s.wrote)
      /\ \A other \in Locks(own[u], c) : other \in holds[u] /\ Cell(own[u], other) # Absent
  BY ReadyFacts DEF WholeLedgers
<1>2. /\ row \in Rows /\ row[1] = c.table /\ row[2] = c.id
      /\ c.table \in {"entries", "audit"} => c.op = "create"
      /\ c.table = "entries" => new \in JournalEntry
      /\ Put(own[u], c.table, c.id, new) \in Ledgers
  BY CandidateFits DEF Row
<1>3. c.op = "create" => Cell(Merged(u), row) = Absent
  BY KeyFree
<1>4. /\ Put(Merged(u), c.table, c.id, new) \in WholeLedgers
      /\ c.table = "entries" => Locks(own[u], c) = PostingRows(new)
  BY CandidateWhole
<1>5. c.op = "update" => Locks(own[u], c) = {row}
  BY DEF Locks
<1>6. c.op = "create" => new = c.record
  BY DEF Candidate
<1>7. c.op = "create" /\ row \notin wrote[u] => Cell(db, row) = Absent
  BY <1>1, <1>2, <1>3, OverlayCell
<1>8. ~FoundInactive(u) /\ Todo(u) = {}
  BY DEF Refused, Ready
<1>9. Cell(db, row) # Absent => row \in s.holds
  <2>1. CASE c.op = "update"
    BY <1>1, <1>5, <2>1
  <2>2. CASE c.op = "create"
    BY <1>1, <1>2, <1>7, <2>2 DEF Sound, WritesLocked
  <2> QED
    BY <2>1, <2>2
<1>10. row[1] \in {"entries", "audit"} => Cell(db, row) = Absent
  BY <1>1, <1>2, <1>7 DEF Sound, AddsHistory
<1>11. ASSUME row[1] = "entries"
       PROVE  /\ new # Absent
              /\ \A other \in PostingRows(new) : other \in s.holds /\ Cell(s.own, other) # Absent
              /\ PostingsByService => \A a \in AccountsOf(new) : s.own.accounts[a].active
  <2>1. new # Absent
    BY <1>2, <1>11, AbsentAssumption
  <2>2. \A other \in PostingRows(new) : other \in s.holds /\ Cell(s.own, other) # Absent
    BY <1>1, <1>2, <1>4, <1>11
  <2>3. ASSUME PostingsByService, NEW a \in AccountsOf(new)
        PROVE  s.own.accounts[a].active
    <3>1. c.service /\ new = c.record
      BY <1>2, <1>6, <1>11, <2>3, ReadyFacts DEF PostingsByService
    <3>2. AccountRow(a) \in holds[u]
      BY <1>1, <2>2, <2>3 DEF PostingRows
    <3> QED
      BY <1>1, <1>2, <1>8, <1>11, <2>3, <3>1, <3>2 DEF FoundInactive
  <2> QED
    BY <2>1, <2>2, <2>3
<1> HIDE DEF row, new, c, s
<1>12. Put(s.own, row[1], row[2], new) \in Ledgers
  BY <1>1, <1>2
<1>13. Put(Overlay(db, s.own, s.wrote), row[1], row[2], new) \in WholeLedgers
  BY <1>1, <1>2, <1>4
<1>14. Written(s, row, new) \in Version /\ Sound(db, stale[u], Written(s, row, new))
  BY <1>1, <1>2, <1>9, <1>10, <1>11, <1>12, <1>13, SoundWrite
<1> QED
  BY <1>14 DEF row, new, c, s

(* A version of another unit reads a row as that unit may leave it.        *)
LEMMA VersionSeen ==
    ASSUME UnitInv, NEW v \in Units, NEW t \in Versioned(v), NEW row \in Rows,
           Cell(t.own, row) # Absent
    PROVE  Cell(t.own, row) \in Versions(v, row[1], row[2])
BY DEF Versions, Cell, Versioned, Latest, Began, Range

(* And leaves the others what they have.                                   *)
LEMMA SaveCompatible ==
    ASSUME UnitInv, NEW u \in Units, Ready(u), Asked(u).op \in {"create", "update"},
           ~Refused(u), ~KeyTaken(u), ~Waits(u),
           NEW v \in Units \ {u}, Alive(v), NEW t \in Versioned(v)
    PROVE  Compatible(Written(Latest(u), Row(Asked(u)), Candidate(u)), t)
<1> DEFINE c == Asked(u)
           row == Row(c)
           new == Candidate(u)
           s == Latest(u)
<1>1. /\ s \in Version /\ s \in Versioned(u) /\ s.own = own[u] /\ s.wrote = wrote[u]
      /\ s.holds = holds[u] /\ db \in WholeLedgers /\ Alive(u) /\ InCall(u)
      /\ own[u] \in Ledgers /\ wrote[u] \in SUBSET Rows /\ Sound(db, stale[u], s)
  BY ReadyFacts
<1>2. t \in Version /\ stale[v] \in SUBSET Rows /\ Sound(db, stale[v], t) /\ Compatible(s, t)
  BY <1>1, VersionedType DEF UnitInv, TypeInv, SoundInv, PairInv
<1>3. /\ row \in Rows /\ row[1] = c.table /\ row[2] = c.id /\ row = <<c.table, c.id>>
      /\ Put(own[u], c.table, c.id, new) \in Ledgers
  BY CandidateFits DEF Row
<1>4. ~KeyHeldBy(u, v)
  BY <1>1 DEF Waits, WaitsFor
<1>5. ASSUME NEW other \in wrote[v], other[1] = c.table
      PROVE  /\ other[2] # c.id
             /\ \A version \in Versions(v, c.table, other[2]) : ~SameKey(c.table, version, new)
  BY <1>4, <1>5 DEF KeyHeldBy
<1>6. t.wrote \subseteq wrote[v] /\ t.wrote \subseteq Rows
  BY <1>2, VersionWithin DEF Version
<1>7. row \notin t.wrote
  BY <1>3, <1>5, <1>6
<1>8. ASSUME NEW other \in t.wrote, other[1] = row[1], Cell(t.own, other) # Absent
      PROVE  ~SameKey(row[1], new, Cell(t.own, other))
  <2>1. Cell(t.own, other) \in Versions(v, c.table, other[2])
    BY <1>3, <1>6, <1>8, VersionSeen
  <2>2. ~SameKey(c.table, Cell(t.own, other), new)
    BY <1>3, <1>5, <1>6, <1>8, <2>1
  <2> QED
    BY <1>3, <2>2 DEF SameKey
<1>9. Sound(db, stale[u], Written(s, row, new))
  BY SaveSound
<1>10. Cell(db, row) # Absent => row \in s.holds
  BY <1>9 DEF Sound, WritesLocked, Written
<1> HIDE DEF row, new, c, s
<1>11. Put(s.own, row[1], row[2], new) \in Ledgers
  BY <1>1, <1>3
<1>12. Compatible(Written(s, row, new), t)
  BY <1>1, <1>2, <1>3, <1>7, <1>8, <1>10, <1>11, CompatibleWrite
<1> QED
  BY <1>12 DEF row, new, c, s

(* create and update.                                                      *)
LEMMA SaveInv ==
    ASSUME UnitInv, NEW u \in Units, NEW op \in {"create", "update"}, Save(u, op)
    PROVE  UnitInv'
<1> DEFINE row == Row(Asked(u))
           new == Candidate(u)
           t == Written(Latest(u), row, new)
<1>1. /\ Ready(u) /\ Asked(u).op = op /\ Return(u) /\ InCall(u)
      /\ ~Refused(u) /\ ~Waits(u) /\ ~KeyTaken(u)
      /\ own' = [own EXCEPT ![u] = Put(own[u], Asked(u).table, Asked(u).id, new)]
      /\ wrote' = [wrote EXCEPT ![u] = @ \cup {row}]
      /\ UNCHANGED <<db, tx, stale, holds, sent, unsent, made, told>>
  BY DEF Save, Write, Ready
<1>2. t \in Version /\ Sound(db, stale[u], t)
  BY <1>1, SaveSound
<1>3. \A v \in Units \ {u} : Alive(v) => \A other \in Versioned(v) : Compatible(t, other)
  BY <1>1, SaveCompatible
<1>4. /\ t.own = Put(own[u], Asked(u).table, Asked(u).id, new)
      /\ t.wrote = wrote[u] \cup {row} /\ t.holds = holds[u]
  BY DEF Written, Latest, Row
<1> HIDE DEF t, new, row
<1>5. own' = [own EXCEPT ![u] = t.own] /\ wrote' = [wrote EXCEPT ![u] = t.wrote]
  BY <1>1, <1>4
<1> QED
  BY <1>1, <1>2, <1>3, <1>4, <1>5, StoreInv

(* The record a delete removes is locked and used by no entry.             *)
LEMMA RemovalSound ==
    ASSUME UnitInv, NEW u \in Units, Ready(u), Asked(u).op = "delete", ~Restricted(u)
    PROVE  LET t == Written(Latest(u), Row(Asked(u)), Absent) IN
           /\ Row(Asked(u)) \in Rows
           /\ Cell(own[u], Row(Asked(u))) # Absent
           /\ t \in Version /\ Sound(db, stale[u], t)
           /\ \A v \in Units \ {u} : Alive(v) =>
                 \A other \in Versioned(v) : Compatible(t, other)
<1> DEFINE c == Asked(u)
           row == Row(c)
           s == Latest(u)
           M == Merged(u)
<1>1. /\ s \in Version /\ Sound(db, stale[u], s) /\ s.own = own[u] /\ s.wrote = wrote[u]
      /\ s.holds = holds[u] /\ db \in WholeLedgers /\ stale[u] \in SUBSET Rows
      /\ own[u] \in Ledgers /\ wrote[u] \in SUBSET Rows /\ s \in Versioned(u) /\ Alive(u)
      /\ M = Overlay(db, s.own, s.wrote) /\ M \in WholeLedgers
  BY ReadyFacts
<1>2. /\ c \in Requests /\ c.op = "delete"
      /\ c.table \in {"accounts", "journals"} /\ row \in Rows
      /\ row[1] = c.table /\ row[2] = c.id
  BY ReadyFacts, RequestFacts DEF Row
<1>3. row \in holds[u] /\ Cell(own[u], row) # Absent /\ Cell(M, row) # Absent
  <2>1. Locks(own[u], c) = {row}
    BY <1>2 DEF Locks
  <2> QED
    BY <2>1, ReadyFacts
<1>4. ~UsedBy(M, c)
  BY DEF Restricted
<1> HIDE DEF row, c, s, M
<1>5. Put(s.own, row[1], row[2], Absent) \in Ledgers
  BY <1>1, <1>2 DEF Put, Rows, Ledgers, OrAbsent
<1>6. Put(M, row[1], row[2], Absent) \in WholeLedgers
  <2>1. CASE c.table = "accounts"
    <3>1. row[2] \in AccountIds /\ row[1] = "accounts"
      BY <1>2, <2>1 DEF Rows
    <3>2. MayDeleteAccount(M, row[2])
      BY <1>2, <1>3, <1>4, <2>1 DEF MayDeleteAccount, UsedBy, Cell
    <3> QED
      BY <1>1, <3>1, <3>2, RemoveAccountWhole, PutByTable
  <2>2. CASE c.table = "journals"
    <3>1. row[2] \in JournalIds /\ row[1] = "journals"
      BY <1>2, <2>2 DEF Rows
    <3>2. MayDeleteJournal(M, row[2])
      BY <1>2, <1>3, <1>4, <2>2 DEF MayDeleteJournal, UsedBy, Cell
    <3> QED
      BY <1>1, <3>1, <3>2, RemoveJournalWhole, PutByTable
  <2> QED
    BY <1>2, <2>1, <2>2
<1>7. Written(s, row, Absent) \in Version /\ Sound(db, stale[u], Written(s, row, Absent))
  BY <1>1, <1>2, <1>3, <1>5, <1>6, SoundWrite
<1>8. ASSUME NEW v \in Units \ {u}, Alive(v), NEW t \in Versioned(v)
      PROVE  Compatible(Written(s, row, Absent), t)
  <2>1. t \in Version /\ stale[v] \in SUBSET Rows /\ Sound(db, stale[v], t) /\ Compatible(s, t)
    BY <1>1, <1>8, VersionedType DEF UnitInv, TypeInv, SoundInv, PairInv
  <2>2. row \notin t.wrote /\ row \in s.holds
    BY <1>1, <1>3, <2>1 DEF Compatible
  <2> QED
    BY <1>1, <1>2, <1>5, <2>1, <2>2, CompatibleWrite
<1> QED
  BY <1>2, <1>3, <1>7, <1>8 DEF row, c, s

(* The audit event of a deletion is new to everybody.                      *)
LEMMA EventSound ==
    ASSUME UnitInv, NEW u \in Units, Alive(u), NEW s \in Version, Sound(db, stale[u], s),
           \A v \in Units \ {u} : Alive(v) => \A t \in Versioned(v) : Compatible(s, t),
           NEW ev \in EventIds, Fresh(ev), NEW event \in AuditEvent
    PROVE  LET t == Written(s, <<"audit", ev>>, event) IN
           /\ t \in Version /\ Sound(db, stale[u], t)
           /\ \A v \in Units \ {u} : Alive(v) =>
                 \A other \in Versioned(v) : Compatible(t, other)
<1> DEFINE row == <<"audit", ev>>
           M == Overlay(db, s.own, s.wrote)
<1>1. row \in Rows /\ row[1] = "audit" /\ row[2] = ev
  BY DEF Rows
<1>2. Cell(db, row) = Absent /\ \A v \in Units : row \notin wrote[v]
  BY DEF Fresh, Cell
<1>3. db \in WholeLedgers /\ stale[u] \in SUBSET Rows /\ s.own \in Ledgers
  BY DEF UnitInv, TypeInv, Version
<1>4. M \in WholeLedgers
  BY DEF Sound
<1> HIDE DEF row, M
<1>5. Put(s.own, row[1], row[2], event) \in Ledgers
  BY <1>1, <1>3 DEF Put, Ledgers, OrAbsent
<1>6. Put(M, row[1], row[2], event) \in WholeLedgers
  BY <1>1, <1>4, PutEventWhole, PutByTable
<1>7. Written(s, row, event) \in Version /\ Sound(db, stale[u], Written(s, row, event))
  BY <1>1, <1>2, <1>3, <1>5, <1>6, SoundWrite DEF M
<1>8. ASSUME NEW v \in Units \ {u}, Alive(v), NEW t \in Versioned(v)
      PROVE  Compatible(Written(s, row, event), t)
  <2>1. t \in Version /\ stale[v] \in SUBSET Rows /\ Sound(db, stale[v], t) /\ Compatible(s, t)
    BY <1>8, VersionedType DEF UnitInv, TypeInv, SoundInv
  <2>2. row \notin t.wrote
    BY <1>2, <1>8, VersionWithin
  <2>3. \A record, other : ~SameKey(row[1], record, other)
    BY <1>1 DEF SameKey
  <2> QED
    BY <1>1, <1>2, <1>3, <1>5, <2>1, <2>2, <2>3, CompatibleWrite
<1> QED
  BY <1>7, <1>8 DEF row

(* delete, and the deletion through the service with its event.            *)
LEMMA DeleteInv ==
    ASSUME UnitInv, NEW u \in Units, Delete(u)
    PROVE  UnitInv'
<1> DEFINE c == Asked(u)
           row == Row(c)
           t == Written(Latest(u), row, Absent)
<1>1. /\ Ready(u) /\ InCall(u) /\ c.op = "delete" /\ ~Restricted(u) /\ Return(u)
      /\ UNCHANGED <<db, tx, stale, holds, sent, unsent, made, told>>
  BY DEF Delete, Write, Ready
<1>2. /\ row \in Rows /\ Cell(own[u], row) # Absent
      /\ t \in Version /\ Sound(db, stale[u], t)
      /\ \A v \in Units \ {u} : Alive(v) => \A other \in Versioned(v) : Compatible(t, other)
  BY <1>1, RemovalSound
<1>3. /\ t.own = Put(own[u], c.table, c.id, Absent)
      /\ t.wrote = wrote[u] \cup {row} /\ t.holds = holds[u]
  BY DEF Written, Latest, Row
<1>4. Alive(u)
  BY <1>1, CallFacts
<1>5. ASSUME Write(u, {row}, Put(own[u], c.table, c.id, Absent))
      PROVE  UnitInv'
  <2>1. /\ own' = [own EXCEPT ![u] = Put(own[u], c.table, c.id, Absent)]
        /\ wrote' = [wrote EXCEPT ![u] = @ \cup {row}]
    BY <1>5 DEF Write
  <2> HIDE DEF t, row, c
  <2>2. own' = [own EXCEPT ![u] = t.own] /\ wrote' = [wrote EXCEPT ![u] = t.wrote]
    BY <1>3, <2>1
  <2> QED
    BY <1>1, <1>2, <1>3, <2>2, StoreInv
<1>6. ASSUME NEW ev \in EventIds, Fresh(ev),
             Write(u, {row, <<"audit", ev>>},
                   PutEvent(Put(own[u], c.table, c.id, Absent), ev, Deleted(own[u], c)))
      PROVE  UnitInv'
  <2> DEFINE event == Deleted(own[u], c)
             w == Written(t, <<"audit", ev>>, event)
  <2>1. /\ own' = [own EXCEPT ![u] = PutEvent(t.own, ev, event)]
        /\ wrote' = [wrote EXCEPT ![u] = @ \cup {row, <<"audit", ev>>}]
    BY <1>3, <1>6 DEF Write
  <2>2. event \in AuditEvent
    <3>1. c.table \in {"accounts", "journals"} /\ own[u] \in Ledgers
      BY <1>1, ReadyFacts, RequestFacts
    <3>2. CASE c.table = "accounts"
      <4>1. c.id \in AccountIds /\ own[u].accounts[c.id] # Absent
        BY <1>2, <3>2 DEF Row, Rows, Cell
      <4>2. own[u].accounts[c.id] \in Account
        BY <3>1, <4>1 DEF Ledgers, OrAbsent
      <4> QED
        BY <3>2, <4>1, <4>2 DEF Deleted, AccountDeleted, AuditEvent
    <3>3. CASE c.table = "journals"
      <4>1. c.id \in JournalIds /\ own[u].journals[c.id] # Absent
        BY <1>2, <3>3 DEF Row, Rows, Cell
      <4>2. own[u].journals[c.id] \in Journal
        BY <3>1, <4>1 DEF Ledgers, OrAbsent
      <4> QED
        BY <3>3, <4>1, <4>2 DEF Deleted, JournalDeleted, AuditEvent
    <3> QED
      BY <3>1, <3>2, <3>3
  <2> HIDE DEF t, row, c, event
  <2>3. /\ w \in Version /\ Sound(db, stale[u], w)
        /\ \A v \in Units \ {u} : Alive(v) => \A other \in Versioned(v) : Compatible(w, other)
    BY <1>2, <1>4, <1>6, <2>2, EventSound
  <2>4. /\ w.own = PutEvent(t.own, ev, event)
        /\ w.wrote = wrote[u] \cup {row, <<"audit", ev>>} /\ w.holds = holds[u]
    BY <1>3, PutByTable DEF Written
  <2> HIDE DEF w
  <2>5. own' = [own EXCEPT ![u] = w.own] /\ wrote' = [wrote EXCEPT ![u] = w.wrote]
    BY <2>1, <2>4
  <2> QED
    BY <1>1, <2>3, <2>4, <2>5, StoreInv
<1> QED
  BY <1>5, <1>6 DEF Delete

-----------------------------------------------------------------------------
(* Part 12: commits.                                                       *)

(* What a unit publishes is whole, and what others may commit stays sound. *)
LEMMA PublishInv ==
    ASSUME UnitInv, NEW u \in Units, tx[u] \in {"entered", "open"}, Idle(u),
           NEW answer \in {"committed", "failed"},
           Publish(u), Finish(u, "committed", answer)
    PROVE  UnitInv'
<1> TypeInv /\ LocalInv(u)
  BY DEF UnitInv
<1> DEFINE s == Latest(u)
<1>1. s \in Version /\ s \in Versioned(u) /\ Merged(u) = Overlay(db, s.own, s.wrote)
  BY VersionedType DEF Versioned, Latest, Merged
<1>2. wrote[u] \in SUBSET Rows /\ s.wrote = wrote[u]
  BY DEF TypeInv, Latest
<1>3. tx[u] = "open" => Alive(u) /\ Sound(db, stale[u], s)
  BY <1>1 DEF Alive, UnitInv, SoundInv
<1>4. tx[u] = "entered" => wrote[u] = {} /\ Merged(u) = db
  BY <1>1, <1>2, OverlayNothing DEF LocalInv, StageSound, TypeInv, WholeLedgers, Version
<1> HIDE DEF s
<1>5. db' = Merged(u) /\ Merged(u) \in WholeLedgers
  BY <1>1, <1>3, <1>4 DEF Publish, Sound, TypeInv
<1>6. \A v \in Units :
        stale'[v] = IF v = u THEN {} ELSE IF Alive(v) THEN stale[v] \cup wrote[u] ELSE stale[v]
  BY DEF Publish
<1>7. stale' \in [Units -> SUBSET Rows]
  BY <1>2 DEF Publish, TypeInv
<1>8. TypeInv'
  BY <1>5, <1>7, FinishType DEF TypeInv, Stages
<1>9. /\ tx'[u] = "committed" /\ told'[u] = answer /\ sent'[u] = <<>> /\ call'[u] = NoCall
      /\ wrote' = wrote
  BY FinishType DEF Stages, Idle, InCall
<1>10. ~Alive(u)'
  BY <1>9 DEF Alive
<1>11. LocalInv(u)'
  <2>1. Nested(u)'
    <3>1. DOMAIN sent'[u] = {}
      BY <1>9, EmptySeq, LenProperties
    <3> QED
      BY <3>1 DEF Nested
  <2>2. CallSound(u)'
    BY <1>9 DEF CallSound, InCall
  <2>3. StageSound(u)'
    BY <1>9 DEF StageSound
  <2> QED
    BY <2>1, <2>2, <2>3 DEF LocalInv
<1>12. ASSUME NEW v \in Units \ {u}
       PROVE  /\ LocalInv(v)'
              /\ Versioned(v)' = Versioned(v)
              /\ Alive(v)' <=> Alive(v)
  <2>1. /\ tx'[v] = tx[v] /\ told'[v] = told[v] /\ own'[v] = own[v] /\ holds'[v] = holds[v]
        /\ sent'[v] = sent[v] /\ unsent'[v] = unsent[v] /\ wrote'[v] = wrote[v]
        /\ call'[v] = call[v]
    BY FinishType DEF Stages
  <2>2. InCall(v)' <=> InCall(v)
    BY <2>1 DEF InCall
  <2>3. Versioned(v)' = Versioned(v)
    BY <2>1, <2>2 DEF Versioned, Latest, Began
  <2>4. Alive(v)' <=> Alive(v)
    BY <2>1 DEF Alive
  <2>5. LocalInv(v)
    BY DEF UnitInv
  <2>6. Nested(v)'
    BY <2>1, <2>2, <2>5 DEF LocalInv, Nested, NoMore
  <2>7. CallSound(v)'
    BY <2>1, <2>2, <2>5 DEF LocalInv, CallSound, Todo, Asked
  <2>8. StageSound(v)'
    BY <1>6, <2>1, <2>5 DEF LocalInv, StageSound, Alive
  <2> QED
    BY <2>3, <2>4, <2>6, <2>7, <2>8 DEF LocalInv
<1>13. ASSUME NEW v \in Units \ {u}
       PROVE  SoundInv(v)'
  <2> SUFFICES ASSUME Alive(v), NEW t \in Versioned(v)
               PROVE  Sound(db', stale'[v], t)
    BY <1>12 DEF SoundInv
  <2>1. t \in Version /\ Sound(db, stale[v], t) /\ stale'[v] = stale[v] \cup wrote[u]
    BY <1>6, VersionedType DEF UnitInv, SoundInv
  <2>2. CASE tx[u] = "entered"
    <3>1. db' = db /\ stale'[v] = stale[v]
      BY <1>4, <1>5, <2>1, <2>2
    <3> QED
      BY <2>1, <3>1
  <2>3. CASE tx[u] = "open"
    <3>1. Compatible(t, s)
      BY <1>1, <1>3, <2>3, CompatibleSymmetric DEF UnitInv, PairInv
    <3>2. Sound(Overlay(db, s.own, s.wrote), stale[v] \cup s.wrote, t)
      BY <1>1, <1>3, <2>1, <2>3, <3>1, SoundCommit DEF TypeInv
    <3> QED
      BY <1>1, <1>2, <1>5, <2>1, <3>2
  <2> QED
    BY <2>2, <2>3
<1>14. ASSUME NEW v \in Units, NEW w \in Units, v # w
       PROVE  PairInv(v, w)'
  <2>1. CASE v = u \/ w = u
    BY <1>10, <2>1 DEF PairInv
  <2>2. CASE v # u /\ w # u
    BY <1>12, <1>14, <2>2 DEF UnitInv, PairInv
  <2> QED
    BY <2>1, <2>2
<1>15. SoundInv(u)'
  BY <1>10 DEF SoundInv
<1> QED
  BY <1>8, <1>11, <1>12, <1>13, <1>14, <1>15 DEF UnitInv

LEMMA CommitInv ==
    ASSUME UnitInv, NEW u \in Units, Commit(u)
    PROVE  UnitInv'
BY PublishInv DEF Commit

(* The connection fails under COMMIT: all of it is stored or nothing.      *)
LEMMA CommitFailsInv ==
    ASSUME UnitInv, NEW u \in Units, CommitFails(u)
    PROVE  UnitInv'
<1>1. CASE Publish(u) /\ Finish(u, "committed", "failed")
  BY <1>1, PublishInv DEF CommitFails
<1>2. CASE Drop(u) /\ Finish(u, "rolled back", "failed")
  BY <1>2, RolledBackInv DEF CommitFails
<1> QED
  BY <1>1, <1>2 DEF CommitFails

-----------------------------------------------------------------------------
(* Part 13: the theorems.                                                  *)

LEMMA UnitInvNext == UnitInv /\ [Next]_vars => UnitInv'
<1>1. ASSUME UnitInv, UNCHANGED vars
      PROVE  UnitInv'
  <2>1. TypeInv' /\ db' = db /\ stale' = stale
    BY <1>1 DEF vars, UnitInv, TypeInv
  <2>2. \A u \in Units : Untouched(u)
    BY <1>1 DEF vars, Untouched
  <2>3. \A u \in Units : LocalInv(u)' /\ SoundInv(u)'
    BY <1>1, <2>1, <2>2, UntouchedUnit DEF UnitInv, SoundInv
  <2>4. \A u, v \in Units : u # v => PairInv(u, v)'
    BY <1>1, <2>2, UntouchedUnit DEF UnitInv, PairInv
  <2> QED
    BY <2>1, <2>3, <2>4 DEF UnitInv
<1>2. ASSUME UnitInv, NEW u \in Units, CallStep(u)
      PROVE  UnitInv'
  <2>1. CASE Create(u) \/ Update(u)
    BY <1>2, <2>1, SaveInv DEF Create, Update
  <2> QED
    BY <1>2, <2>1, LockRowInv, DeleteInv, ReadInv, FailInv, AbortInv DEF CallStep
<1>3. ASSUME UnitInv, NEW u \in Units, End(u)
      PROVE  UnitInv'
  BY <1>3, CommitInv, CommitFailsInv, CommitAbortedInv, LeaveInv DEF End
<1>4. ASSUME UnitInv, Next
      PROVE  UnitInv'
  BY <1>2, <1>3, <1>4, EnterInv, StartCallInv, AtomicStepInv, DisconnectInv DEF Next
<1> QED
  BY <1>1, <1>4

LEMMA UnitInvAlways == Spec => []UnitInv
BY UnitInvInit, UnitInvNext, PTL DEF Spec

(* Units, their calls, savepoints and the database keep their types: what  *)
(* a unit goes back to has written and locked no more than it has now.     *)
THEOREM TypeCorrect == Spec => []TypeOK
<1>1. UnitInv => TypeOK
  BY UnitInvImplies
<1> QED
  BY <1>1, UnitInvAlways, PTL

(* Every ledger PostgreSQL commits is whole, however units overlap that    *)
(* checked it in older snapshots.                                          *)
THEOREM DatabaseStaysWhole == Spec => []DatabaseWhole
<1>1. UnitInv => DatabaseWhole
  BY UnitInvImplies
<1> QED
  BY <1>1, UnitInvAlways, PTL

(* No unit overwrites a version it has not read.                           *)
THEOREM NothingOverwritten == Spec => []NoLostUpdate
<1>1. UnitInv => NoLostUpdate
  BY UnitInvImplies
<1> QED
  BY <1>1, UnitInvAlways, PTL

(* When commit() returns to a caller who makes every call in an atomic     *)
(* block, what the calls wrote is stored.                                  *)
THEOREM CarefulWorkStored == Spec => []CarefulCommitsStored
<1>1. UnitInv => CarefulCommitsStored
  BY UnitInvImplies
<1> QED
  BY <1>1, UnitInvAlways, PTL

(* The database changes by commits alone.                                  *)
LEMMA ChangedByCommits ==
    ASSUME UnitInv, Next
    PROVE  \/ db' = db /\ \A u \in Units : ~Commits(u)
           \/ \E u \in Units :
                 /\ tx[u] \in {"entered", "open"} /\ db' = Merged(u)
                 /\ \A v \in Units \ {u} : ~Commits(v)
<1> TypeInv
  BY DEF UnitInv
<1>1. ASSUME NEW u \in Units, tx[u] \in {"entered", "open"}, Publish(u),
             NEW answer \in {"committed", "failed"}, Finish(u, "committed", answer)
      PROVE  /\ tx[u] \in {"entered", "open"} /\ db' = Merged(u)
             /\ \A v \in Units \ {u} : ~Commits(v)
  <2>1. db' = Merged(u) /\ tx' = [tx EXCEPT ![u] = "committed"]
    BY <1>1 DEF Publish, Finish
  <2> QED
    BY <1>1, <2>1 DEF Commits, TypeInv
<1>2. ASSUME NEW u \in Units, Commit(u) \/ CommitFails(u)
      PROVE  \/ db' = db /\ \A v \in Units : ~Commits(v)
             \/ /\ tx[u] \in {"entered", "open"} /\ db' = Merged(u)
                /\ \A v \in Units \ {u} : ~Commits(v)
  <2>1. CASE Drop(u) /\ Finish(u, "rolled back", "failed")
    BY <2>1 DEF Drop, Finish, Commits, TypeInv
  <2> QED
    BY <1>1, <1>2, <2>1 DEF Commit, CommitFails
<1>3. ASSUME NEW u \in Units, CommitAborted(u) \/ Leave(u)
      PROVE  db' = db /\ \A v \in Units : ~Commits(v)
  BY <1>3 DEF CommitAborted, Leave, Drop, Finish, Commits, TypeInv
<1>4. ASSUME NEW u \in Units, Enter(u) \/ StartCall(u) \/ Disconnect(u)
      PROVE  db' = db /\ \A v \in Units : ~Commits(v)
  BY <1>4 DEF Enter, StartCall, Disconnect, Drop, Commits, TypeInv
<1>5. ASSUME NEW u \in Units, AtomicStep(u)
      PROVE  db' = db /\ \A v \in Units : ~Commits(v)
  BY <1>5 DEF AtomicStep, AtomicBegin, AtomicEnd, AtomicFail, Commits, TypeInv
<1>6. ASSUME NEW u \in Units, CallStep(u)
      PROVE  db' = db /\ \A v \in Units : ~Commits(v)
  <2>1. CASE Abort(u)
    BY <2>1 DEF Abort, Commits, TypeInv
  <2>2. CASE ~Abort(u)
    <3>1. UNCHANGED <<db, tx>>
      BY <1>6, <2>2 DEF CallStep, LockRow, Create, Update, Save, Delete, Write, Read, Fail
    <3> QED
      BY <3>1 DEF Commits
  <2> QED
    BY <2>1, <2>2
<1> QED
  BY <1>2, <1>3, <1>4, <1>5, <1>6 DEF Next, End

(* What a commit is about to publish.                                      *)
LEMMA CommitFacts ==
    ASSUME UnitInv, NEW u \in Units, tx[u] \in {"entered", "open"}
    PROVE  /\ db \in Ledgers /\ own[u] \in Ledgers /\ wrote[u] \in SUBSET Rows
           /\ Latest(u).own = own[u] /\ Latest(u).wrote = wrote[u] /\ Latest(u).holds = holds[u]
           /\ wrote[u] = {} \/ Sound(db, stale[u], Latest(u))
<1>1. tx[u] = "open" => Sound(db, stale[u], Latest(u))
  BY DEF UnitInv, SoundInv, Alive, Versioned
<1>2. tx[u] = "entered" => wrote[u] = {}
  BY DEF UnitInv, LocalInv, StageSound
<1> QED
  BY <1>1, <1>2 DEF UnitInv, TypeInv, WholeLedgers, Latest

(* Committed entries and audit events are never altered or lost.           *)
THEOREM HistoryStays == Spec => CommittedHistoryStays
<1>1. ASSUME UnitInv, Next
      PROVE  KeepsHistory(db, db')
  <2>1. CASE db' = db
    BY <2>1, KeepsHistoryReflexive
  <2>2. ASSUME NEW u \in Units, tx[u] \in {"entered", "open"}, db' = Merged(u)
        PROVE  KeepsHistory(db, db')
    <3>1. /\ db \in Ledgers /\ own[u] \in Ledgers /\ wrote[u] \in SUBSET Rows
          /\ \A row \in wrote[u] : row[1] \in {"entries", "audit"} => Cell(db, row) = Absent
      BY <1>1, <2>2, CommitFacts DEF Sound, AddsHistory
    <3>2. \A row \in Rows : Cell(db', row) = IF row \in wrote[u] THEN Cell(own[u], row)
                                             ELSE Cell(db, row)
      BY <2>2, <3>1, OverlayCell DEF Merged
    <3>3. ASSUME NEW e \in EntryIds, db.entries[e] # Absent
          PROVE  db'.entries[e] = db.entries[e]
      <4>1. <<"entries", e>> \in Rows
        BY DEF Rows
      <4> QED
        BY <3>1, <3>2, <3>3, <4>1 DEF Cell
    <3>4. ASSUME NEW ev \in EventIds, db.audit[ev] # Absent
          PROVE  db'.audit[ev] = db.audit[ev]
      <4>1. <<"audit", ev>> \in Rows
        BY DEF Rows
      <4> QED
        BY <3>1, <3>2, <3>4, <4>1 DEF Cell
    <3> QED
      BY <3>1, <3>3, <3>4 DEF KeepsHistory, Present, Ledgers
  <2> QED
    BY <1>1, <2>1, <2>2, ChangedByCommits
<1>2. UnitInv /\ [Next]_vars => [KeepsHistory(db, db')]_vars
  BY <1>1
<1> QED
  BY <1>2, UnitInvAlways, PTL DEF Spec, CommittedHistoryStays

\* What PostedToActive says of the commit of one unit.
ActiveAtCommit(u) ==
    Commits(u) /\ PostingsByService =>
        \A e \in Present(db'.entries) \ Present(db.entries) :
            \A a \in AccountsOf(db'.entries[e]) :
                \/ AccountRow(a) \in wrote[u]
                \/ db.accounts[a] # Absent /\ db.accounts[a].active

(* Entries posted through the service are committed only while their       *)
(* accounts are active, in the database and not only in the snapshot.      *)
THEOREM PostedOnlyToActive == Spec => PostedToActive
<1>1. ASSUME UnitInv, Next, NEW u \in Units
      PROVE  ActiveAtCommit(u)
  <2> SUFFICES ASSUME Commits(u), PostingsByService,
                      NEW e \in Present(db'.entries) \ Present(db.entries),
                      NEW a \in AccountsOf(db'.entries[e]), AccountRow(a) \notin wrote[u]
               PROVE  db.accounts[a] # Absent /\ db.accounts[a].active
    BY DEF ActiveAtCommit
  <2>1. tx[u] \in {"entered", "open"} /\ db' = Merged(u)
    BY <1>1, ChangedByCommits
  <2>2. /\ db \in Ledgers /\ own[u] \in Ledgers /\ wrote[u] \in SUBSET Rows
        /\ Latest(u).own = own[u] /\ Latest(u).wrote = wrote[u] /\ Latest(u).holds = holds[u]
        /\ wrote[u] = {} \/ Sound(db, stale[u], Latest(u))
    BY <1>1, <2>1, CommitFacts
  <2>3. db' \in Ledgers
    BY <2>1, <2>2, OverlayFields DEF Merged
  <2>4. e \in EntryIds /\ <<"entries", e>> \in Rows
    BY <2>3 DEF Present, Ledgers, Rows
  <2>5. <<"entries", e>> \in wrote[u] /\ db'.entries[e] = own[u].entries[e]
    <3>1. Cell(db', <<"entries", e>>) = IF <<"entries", e>> \in wrote[u]
                                        THEN Cell(own[u], <<"entries", e>>)
                                        ELSE Cell(db, <<"entries", e>>)
      BY <2>1, <2>2, <2>4, OverlayCell DEF Merged
    <3> QED
      BY <2>2, <2>3, <2>4, <3>1 DEF Cell, Present, Ledgers
  <2>6. Sound(db, stale[u], Latest(u))
    BY <2>2, <2>5
  <2>7. AccountRow(a) \in holds[u] /\ Cell(own[u], AccountRow(a)) # Absent
    <3>1. AccountRow(a) \in PostingRows(own[u].entries[e])
      BY <2>5 DEF PostingRows
    <3> QED
      BY <2>2, <2>4, <2>5, <2>6, <3>1 DEF Sound, PostsToLocked
  <2>8. own[u].accounts[a].active
    BY <2>2, <2>4, <2>5, <2>6 DEF Sound, PostsToActive
  <2>9. AccountRow(a) \in Rows
    BY <1>1, <2>7 DEF UnitInv, TypeInv
  <2>10. AccountRow(a) \notin stale[u]
    BY <2>2, <2>6, <2>7 DEF Sound, LocksCurrent
  <2>11. Cell(own[u], AccountRow(a)) = Cell(db, AccountRow(a))
    BY <2>2, <2>6, <2>9, <2>10 DEF Sound, ReadsCurrent
  <2>12. own[u].accounts[a] = db.accounts[a]
    BY <2>11 DEF Cell, AccountRow
  <2> QED
    BY <2>7, <2>8, <2>12 DEF Cell, AccountRow
<1>2. UnitInv /\ [Next]_vars => [\A u \in Units : ActiveAtCommit(u)]_vars
  BY <1>1
<1>3. Spec => [][\A u \in Units : ActiveAtCommit(u)]_vars
  BY <1>2, UnitInvAlways, PTL DEF Spec
<1> QED
  BY <1>3 DEF PostedToActive, ActiveAtCommit

-----------------------------------------------------------------------------
(* Part 14: units of one call.  Until it commits, such a unit has written  *)
(* nothing, or one record, or has removed a record and added its event.    *)
(* Another commit cannot change the record meanwhile, so the event still   *)
(* describes it when the unit commits.                                     *)

Added(u) ==
    \E row \in Rows :
        row[1] # "audit" /\ wrote[u] = {row} /\ Cell(own[u], row) # Absent

Removed(u) ==
    \E row \in Rows, ev \in EventIds :
        /\ row[1] \in {"accounts", "journals"}
        /\ wrote[u] = {row, <<"audit", ev>>}
        /\ Cell(own[u], row) = Absent /\ Cell(db, row) # Absent
        /\ own[u].audit[ev] = Deleted(db, [table |-> row[1], id |-> row[2]])

OneCall(u) ==
    made[u] <= 1 =>
        /\ \A n \in DOMAIN sent[u] : sent[u][n].wrote = {}
        /\ InCall(u) => made[u] = 1 /\ wrote[u] = {}
        /\ made[u] = 0 => wrote[u] = {}
        /\ tx[u] \in {"entered", "open"} => wrote[u] = {} \/ Added(u) \/ Removed(u)

SingleInv == DeletionsByService => \A u \in Units : OneCall(u)

LEMMA SingleInit == Init => SingleInv
<1> SUFFICES ASSUME Init, NEW u \in Units
             PROVE  OneCall(u)
  BY DEF SingleInv
<1>1. wrote[u] = {} /\ DOMAIN sent[u] = {} /\ ~InCall(u)
  BY DEF Init, InCall
<1> QED
  BY <1>1 DEF OneCall

(* What any step of one unit leaves to the others.                         *)
Same(v) ==
    /\ tx'[v] = tx[v] /\ own'[v] = own[v] /\ wrote'[v] = wrote[v]
    /\ holds'[v] = holds[v] /\ call'[v] = call[v] /\ sent'[v] = sent[v] /\ made'[v] = made[v]

StepOf(u) ==
    \/ Enter(u) \/ StartCall(u) \/ CallStep(u) \/ AtomicStep(u) \/ Disconnect(u) \/ End(u)

LEMMA OthersSame ==
    ASSUME TypeInv, NEW u \in Units, StepOf(u)
    PROVE  /\ \A v \in Units \ {u} : Same(v)
           /\ db' = db \/ (tx[u] \in {"entered", "open"} /\ db' = Merged(u))
<1> USE DEF TypeInv, Same
<1>1. CASE Enter(u) \/ StartCall(u)
  BY <1>1 DEF Enter, StartCall
<1>2. CASE AtomicStep(u)
  BY <1>2 DEF AtomicStep, AtomicBegin, AtomicEnd, AtomicFail, CloseUnsent, CloseSent, Restore
<1>3. CASE Disconnect(u)
  BY <1>3 DEF Disconnect, Drop
<1>4. CASE End(u)
  BY <1>4 DEF End, Commit, CommitFails, CommitAborted, Leave, Publish, Drop, Finish
<1>5. CASE CallStep(u)
  <2>1. CASE LockRow(u) \/ Read(u) \/ Fail(u)
    BY <2>1 DEF LockRow, Read, Fail, Return
  <2>2. CASE Create(u) \/ Update(u) \/ Delete(u)
    BY <2>2 DEF Create, Update, Save, Delete, Write, Return
  <2>3. CASE Abort(u)
    BY <2>3 DEF Abort, Restore, Return
  <2> QED
    BY <1>5, <2>1, <2>2, <2>3 DEF CallStep
<1> QED
  BY <1>1, <1>2, <1>3, <1>4, <1>5 DEF StepOf

(* A record another unit has removed is still in the database.             *)
LEMMA OthersOneCall ==
    ASSUME UnitInv, NEW u \in Units, NEW v \in Units \ {u}, OneCall(v), Same(v),
           db' = db \/ (tx[u] \in {"entered", "open"} /\ db' = Merged(u))
    PROVE  OneCall(v)'
<1> TypeInv /\ LocalInv(u) /\ LocalInv(v)
  BY DEF UnitInv
<1> USE DEF Same
<1>1. (InCall(v)' <=> InCall(v)) /\ (Added(v)' <=> Added(v))
  BY DEF InCall, Added
<1>2. ASSUME Removed(v), tx[v] \in {"entered", "open"}
      PROVE  Removed(v)'
  <2>1. PICK row \in Rows, ev \in EventIds :
            /\ row[1] \in {"accounts", "journals"}
            /\ wrote[v] = {row, <<"audit", ev>>}
            /\ Cell(own[v], row) = Absent /\ Cell(db, row) # Absent
            /\ own[v].audit[ev] = Deleted(db, [table |-> row[1], id |-> row[2]])
    BY <1>2 DEF Removed
  <2>2. Cell(db', row) = Cell(db, row)
    <3>1. CASE db' = db
      BY <3>1
    <3>2. CASE tx[u] \in {"entered", "open"} /\ db' = Merged(u)
      <4>1. row \notin wrote[u]
        <5>1. CASE tx[u] = "open"
          <6>1. Alive(u) /\ Alive(v)
            BY <1>2, <2>1, <5>1 DEF Alive, LocalInv, StageSound
          <6>2. Compatible(Latest(u), Latest(v))
            BY <6>1 DEF UnitInv, PairInv, Versioned
          <6> QED
            BY <2>1, <6>2 DEF Compatible, Latest
        <5>2. CASE tx[u] = "entered"
          BY <5>2 DEF LocalInv, StageSound
        <5> QED
          BY <3>2, <5>1, <5>2
      <4>2. db \in Ledgers /\ own[u] \in Ledgers /\ wrote[u] \in SUBSET Rows
        BY DEF TypeInv, WholeLedgers
      <4> QED
        BY <3>2, <4>1, <4>2, OverlayCell DEF Merged
    <3> QED
      BY <3>1, <3>2
  <2>3. Deleted(db', [table |-> row[1], id |-> row[2]]) = Deleted(db, [table |-> row[1], id |-> row[2]])
    BY <2>1, <2>2 DEF Deleted, AccountDeleted, JournalDeleted, Cell
  <2> QED
    BY <2>1, <2>2, <2>3 DEF Removed
<1> QED
  BY <1>1, <1>2 DEF OneCall

(* A step with which the unit writes nothing.                              *)
LEMMA QuietOneCall ==
    ASSUME UnitInv, NEW u \in Units, OneCall(u), made'[u] = made[u],
           InCall(u)' => InCall(u),
           \A n \in DOMAIN sent'[u] :
               n \in DOMAIN sent[u] /\ sent'[u][n].wrote = sent[u][n].wrote,
           \/ /\ wrote'[u] = wrote[u]
              /\ \/ tx'[u] \notin {"entered", "open"}
                 \/ own'[u] = own[u] /\ db' = db /\ tx[u] \in {"entered", "open"}
                 \/ InCall(u)
                 \/ wrote[u] = {}
           \/ \E n \in DOMAIN sent[u] : wrote'[u] = sent[u][n].wrote
    PROVE  OneCall(u)'
<1> SUFFICES ASSUME made[u] <= 1
             PROVE  /\ \A n \in DOMAIN sent'[u] : sent'[u][n].wrote = {}
                    /\ InCall(u)' => made'[u] = 1 /\ wrote'[u] = {}
                    /\ made'[u] = 0 => wrote'[u] = {}
                    /\ tx'[u] \in {"entered", "open"} =>
                          wrote'[u] = {} \/ Added(u)' \/ Removed(u)'
  BY DEF OneCall
<1>1. /\ \A n \in DOMAIN sent[u] : sent[u][n].wrote = {}
      /\ InCall(u) => made[u] = 1 /\ wrote[u] = {}
      /\ made[u] = 0 => wrote[u] = {}
      /\ tx[u] \in {"entered", "open"} => wrote[u] = {} \/ Added(u) \/ Removed(u)
  BY DEF OneCall
<1>2. wrote'[u] = wrote[u] \/ wrote'[u] = {}
  BY <1>1
<1>3. ASSUME wrote'[u] = wrote[u], own'[u] = own[u], db' = db
      PROVE  (Added(u)' <=> Added(u)) /\ (Removed(u)' <=> Removed(u))
  BY <1>3 DEF Added, Removed
<1> QED
  BY <1>1, <1>2, <1>3

(* Steps of the unit between its calls.                                    *)
LEMMA BetweenCallsOne ==
    ASSUME UnitInv, NEW u \in Units, OneCall(u),
           Enter(u) \/ AtomicStep(u) \/ Disconnect(u) \/ End(u)
    PROVE  OneCall(u)'
<1> TypeInv /\ LocalInv(u)
  BY DEF UnitInv
<1>1. sent[u] # <<>> =>
          /\ \A n \in DOMAIN Front(sent[u]) :
                n \in DOMAIN sent[u] /\ Front(sent[u])[n] = sent[u][n]
          /\ Len(sent[u]) \in DOMAIN sent[u] /\ Saved(u) = sent[u][Len(sent[u])]
  <2>1. sent[u] \in Seq(Version)
    BY DEF TypeInv
  <2> QED
    BY <2>1, SavepointFacts DEF Saved
<1>2. CASE Enter(u)
  <2>1. /\ wrote'[u] = wrote[u] /\ wrote[u] = {} /\ sent' = sent /\ call' = call
        /\ made' = made
    BY <1>2 DEF Enter, LocalInv, StageSound
  <2> QED
    BY <2>1, QuietOneCall DEF InCall
<1>3. CASE AtomicBegin(u) \/ AtomicEnd(u) \/ (AtomicFail(u) /\ CloseUnsent(u))
  <2>1. ASSUME AtomicFail(u), CloseUnsent(u)
        PROVE  UNCHANGED <<db, tx, own, wrote, call, made>>
    <3>1. ~CloseSent(u)
      BY <2>1 DEF CloseUnsent, CloseSent
    <3> QED
      BY <2>1, <3>1 DEF AtomicFail
  <2>2. UNCHANGED <<db, tx, own, wrote, call, made>>
    BY <1>3, <2>1 DEF AtomicBegin, AtomicEnd
  <2>3. sent'[u] = sent[u] \/ (sent[u] # <<>> /\ sent'[u] = Front(sent[u]))
    BY <1>3 DEF AtomicBegin, AtomicEnd, CloseUnsent, CloseSent, TypeInv
  <2> QED
    BY <1>1, <2>2, <2>3, QuietOneCall DEF InCall
<1>4. CASE AtomicFail(u) /\ ~CloseUnsent(u)
  <2>1. /\ sent[u] # <<>> /\ sent'[u] = Front(sent[u])
        /\ wrote'[u] = Saved(u).wrote
        /\ UNCHANGED <<call, made>>
    BY <1>4 DEF AtomicFail, CloseSent, Restore, TypeInv
  <2> QED
    BY <1>1, <2>1, QuietOneCall DEF InCall
<1>5. CASE Disconnect(u) \/ End(u)
  <2>1. /\ tx'[u] \notin {"entered", "open"}
        /\ wrote' = wrote /\ made' = made /\ sent'[u] = <<>>
    BY <1>5 DEF Disconnect, End, Commit, CommitFails, CommitAborted, Leave, Finish, TypeInv
  <2>2. InCall(u)' => InCall(u)
    BY <1>5 DEF Disconnect, End, Commit, CommitFails, CommitAborted, Leave, Finish, TypeInv, InCall
  <2>3. DOMAIN sent'[u] = {}
    BY <2>1, EmptySeq, LenProperties
  <2> QED
    BY <2>1, <2>2, <2>3, QuietOneCall
<1> QED
  BY <1>2, <1>3, <1>4, <1>5 DEF AtomicStep

(* The only call begins with savepoints that have nothing written.         *)
LEMMA StartCallOne ==
    ASSUME UnitInv, NEW u \in Units, OneCall(u), StartCall(u)
    PROVE  OneCall(u)'
<1> TypeInv /\ LocalInv(u)
  BY DEF UnitInv
<1> DEFINE L == IF tx[u] = "entered" THEN db ELSE own[u]
           saved == [own |-> L, wrote |-> wrote[u], holds |-> holds[u]]
<1>1. /\ made' = [made EXCEPT ![u] = @ + 1]
      /\ sent' = [sent EXCEPT ![u] = @ \o [n \in 1..unsent[u] |-> saved]]
      /\ wrote' = wrote
  BY DEF StartCall
<1>2. made[u] \in Nat /\ made'[u] = made[u] + 1
  BY <1>1 DEF TypeInv
<1> SUFFICES ASSUME made[u] = 0
             PROVE  OneCall(u)'
  BY <1>2 DEF OneCall
<1>3. wrote[u] = {} /\ \A n \in DOMAIN sent[u] : sent[u][n].wrote = {}
  BY DEF OneCall
<1>4. saved \in Version /\ sent[u] \in Seq(Version) /\ unsent[u] \in Nat
  BY DEF TypeInv, Version, WholeLedgers
<1>5. saved.wrote = {}
  BY <1>3
<1> HIDE DEF saved
<1>6. Followed(sent[u], saved, unsent[u], sent'[u])
  BY <1>1, <1>4, SentBefore DEF TypeInv
<1>7. \A n \in DOMAIN sent'[u] : sent'[u][n].wrote = {}
  <2>1. Len(sent[u]) \in Nat /\ DOMAIN sent[u] = 1..Len(sent[u])
    BY <1>4, LenProperties
  <2> SUFFICES ASSUME NEW n \in 1..(Len(sent[u]) + unsent[u])
               PROVE  sent'[u][n].wrote = {}
    BY <1>6 DEF Followed
  <2>2. CASE n \in 1..Len(sent[u])
    BY <1>3, <1>6, <2>1, <2>2 DEF Followed
  <2>3. CASE n > Len(sent[u])
    BY <1>5, <1>6, <2>3 DEF Followed
  <2> QED
    BY <2>1, <2>2, <2>3
<1>8. wrote'[u] = {} /\ made'[u] = 1
  BY <1>1, <1>2, <1>3
<1> QED
  BY <1>7, <1>8 DEF OneCall

(* Statements that write nothing, and failures.                            *)
LEMMA CallStepOne ==
    ASSUME UnitInv, NEW u \in Units, OneCall(u),
           LockRow(u) \/ Read(u) \/ Fail(u) \/ Abort(u)
    PROVE  OneCall(u)'
<1> TypeInv
  BY DEF UnitInv
<1>1. InCall(u)
  BY DEF LockRow, Read, Fail, Abort, Locking, Ready
<1>2. sent' = sent /\ made' = made
  BY DEF LockRow, Read, Fail, Abort
<1>3. CASE ~Abort(u)
  BY <1>1, <1>2, <1>3, QuietOneCall DEF LockRow, Read, Fail
<1>4. CASE Abort(u)
  <2>1. CASE wrote' = wrote
    BY <1>1, <1>2, <2>1, QuietOneCall
  <2>2. CASE wrote' # wrote
    <3>1. sent[u] # <<>> /\ wrote'[u] = Saved(u).wrote
      BY <1>4, <2>2 DEF Abort, Restore, TypeInv
    <3>2. sent[u] \in Seq(Version)
      BY DEF TypeInv
    <3>3. Len(sent[u]) \in DOMAIN sent[u] /\ Saved(u) = sent[u][Len(sent[u])]
      BY <3>1, <3>2, SavepointFacts DEF Saved
    <3> QED
      BY <1>1, <1>2, <3>1, <3>3, QuietOneCall
  <2> QED
    BY <2>1, <2>2
<1> QED
  BY <1>3, <1>4

(* The call stores its record.                                             *)
LEMMA SaveOne ==
    ASSUME UnitInv, DeletionsByService, NEW u \in Units, OneCall(u),
           NEW op \in {"create", "update"}, Save(u, op)
    PROVE  OneCall(u)'
<1> TypeInv
  BY DEF UnitInv
<1> DEFINE c == Asked(u)
           row == Row(c)
<1>1. /\ Ready(u) /\ InCall(u) /\ c.op = op /\ Return(u)
      /\ own' = [own EXCEPT ![u] = Put(own[u], c.table, c.id, Candidate(u))]
      /\ wrote' = [wrote EXCEPT ![u] = @ \cup {row}]
      /\ UNCHANGED <<db, tx, stale, holds, sent, unsent, made, told>>
  BY DEF Save, Write, Ready
<1>2. c \in Requests /\ own[u] \in Ledgers
  BY <1>1, CallFacts DEF TypeInv
<1>3. row \in Rows /\ row = <<c.table, c.id>> /\ c.table # "audit"
  <2>1. row \in Rows
    BY <1>1, CandidateFits
  <2>2. op = "update" => c.table # "audit"
    BY <1>1, <1>2, RequestFacts
  <2> QED
    BY <1>1, <1>2, <2>1, <2>2 DEF DeletionsByService, Row
<1>4. Candidate(u) # Absent
  <2>1. c.table \in {"accounts", "journals", "entries", "audit"}
    BY <1>3, RowOf
  <2> QED
    BY <1>1, <2>1, CandidateFits, AbsentAssumption
<1>5. own'[u] = Put(own[u], row[1], row[2], Candidate(u))
  BY <1>1, <1>3 DEF TypeInv
<1>6. Cell(own'[u], row) = Candidate(u)
  BY <1>2, <1>3, <1>5, PutCell
<1>7. wrote'[u] = wrote[u] \cup {row} /\ ~InCall(u)'
  BY <1>1, ReturnType DEF TypeInv
<1> SUFFICES ASSUME made[u] <= 1
             PROVE  OneCall(u)'
  BY <1>1 DEF OneCall
<1>8. wrote[u] = {} /\ made[u] = 1 /\ \A n \in DOMAIN sent[u] : sent[u][n].wrote = {}
  BY <1>1 DEF OneCall
<1>9. Added(u)'
  BY <1>3, <1>4, <1>6, <1>7, <1>8 DEF Added
<1> QED
  BY <1>1, <1>7, <1>8, <1>9 DEF OneCall

(* The event of a record that exists.                                      *)
LEMMA DeletedType ==
    ASSUME NEW L \in Ledgers, NEW row \in Rows, row[1] \in {"accounts", "journals"},
           Cell(L, row) # Absent
    PROVE  /\ Deleted(L, [table |-> row[1], id |-> row[2]]) \in AuditEvent
           /\ Deleted(L, [table |-> row[1], id |-> row[2]]) # Absent
<1>1. CASE row[1] = "accounts"
  <2>1. row[2] \in AccountIds /\ L.accounts[row[2]] \in Account
    BY <1>1 DEF Rows, Cell, Ledgers, OrAbsent
  <2> QED
    BY <1>1, <2>1, AbsentAssumption DEF Deleted, AccountDeleted, AuditEvent
<1>2. CASE row[1] = "journals"
  <2>1. row[2] \in JournalIds /\ L.journals[row[2]] \in Journal
    BY <1>2 DEF Rows, Cell, Ledgers, OrAbsent
  <2> QED
    BY <1>2, <2>1, AbsentAssumption DEF Deleted, JournalDeleted, AuditEvent
<1> QED
  BY <1>1, <1>2

(* The call removes its record, and its event has the record as it is in   *)
(* the database: the row is locked, so the snapshot shows it as it is.     *)
LEMMA DeleteOne ==
    ASSUME UnitInv, DeletionsByService, NEW u \in Units, OneCall(u), Delete(u)
    PROVE  OneCall(u)'
<1> TypeInv
  BY DEF UnitInv
<1> DEFINE c == Asked(u)
           row == Row(c)
           L == Put(own[u], c.table, c.id, Absent)
<1>1. Ready(u) /\ InCall(u) /\ c.op = "delete" /\ c \in Requests /\ ~Restricted(u)
  BY ReadyFacts DEF Delete, Write, Ready
<1>2. c.service
  BY <1>1 DEF DeletionsByService
<1>3. PICK ev \in EventIds :
          Fresh(ev) /\ Write(u, {row, <<"audit", ev>>}, PutEvent(L, ev, Deleted(own[u], c)))
  BY <1>1, <1>2 DEF Delete
<1>4. /\ own' = [own EXCEPT ![u] = PutEvent(L, ev, Deleted(own[u], c))]
      /\ wrote' = [wrote EXCEPT ![u] = @ \cup {row, <<"audit", ev>>}]
      /\ Return(u) /\ UNCHANGED <<db, tx, stale, holds, sent, unsent, made, told>>
  BY <1>3 DEF Write
<1> SUFFICES ASSUME made[u] <= 1
             PROVE  OneCall(u)'
  BY <1>4 DEF OneCall
<1>5. wrote[u] = {} /\ made[u] = 1 /\ \A n \in DOMAIN sent[u] : sent[u][n].wrote = {}
  BY <1>1 DEF OneCall
<1>6. /\ c.table \in {"accounts", "journals"} /\ row \in Rows
      /\ row = <<c.table, c.id>> /\ row[1] = c.table /\ row[2] = c.id
      /\ Cell(own[u], row) # Absent
  BY <1>1, RequestFacts, RemovalSound DEF Row
<1>7. /\ db \in Ledgers /\ own[u] \in Ledgers
      /\ Sound(db, stale[u], Latest(u))
      /\ Latest(u).own = own[u] /\ Latest(u).wrote = wrote[u] /\ Latest(u).holds = holds[u]
  BY <1>1, ReadyFacts DEF WholeLedgers
<1>8. row \in holds[u]
  <2>1. Locks(own[u], c) = {row}
    BY <1>1 DEF Locks
  <2> QED
    BY <1>1, <2>1, ReadyFacts
<1>9. Cell(own[u], row) = Cell(db, row)
  <2>1. row \notin stale[u] /\ row \notin wrote[u]
    BY <1>5, <1>7, <1>8 DEF Sound, LocksCurrent
  <2> QED
    BY <1>6, <1>7, <2>1 DEF Sound, ReadsCurrent
<1> HIDE DEF c, row, L
<1>10. Deleted(own[u], c) = Deleted(db, [table |-> row[1], id |-> row[2]])
  BY <1>6, <1>9 DEF Deleted, AccountDeleted, JournalDeleted, Cell
<1>11. L = Put(own[u], row[1], row[2], Absent)
  BY <1>6 DEF L
<1>12. L \in Ledgers
  BY <1>6, <1>7, <1>11 DEF Put, Rows, Ledgers, OrAbsent
<1>13. own'[u] = Put(L, "audit", ev, Deleted(own[u], c))
  BY <1>4, PutByTable DEF TypeInv
<1>14. <<"audit", ev>> \in Rows /\ <<"audit", ev>> # row
  BY <1>6 DEF Rows
<1>15. Cell(own'[u], row) = Absent
  <2>1. Cell(L, row) = Absent
    BY <1>6, <1>7, <1>11, PutCell
  <2>2. <<"audit", ev>>[1] = "audit" /\ <<"audit", ev>>[2] = ev
    OBVIOUS
  <2>3. Cell(Put(L, <<"audit", ev>>[1], <<"audit", ev>>[2], Deleted(own[u], c)), row) = Cell(L, row)
    BY <1>6, <1>12, <1>14, PutCell
  <2> QED
    BY <1>13, <2>1, <2>2, <2>3
<1>16. own'[u].audit[ev] = Deleted(own[u], c)
  BY <1>12, <1>13 DEF Put, Ledgers
<1>17. wrote'[u] = {row, <<"audit", ev>>} /\ db' = db /\ ~InCall(u)'
  BY <1>4, <1>5, ReturnType DEF TypeInv
<1>18. Removed(u)'
  BY <1>6, <1>9, <1>10, <1>15, <1>16, <1>17 DEF Removed
<1> QED
  BY <1>4, <1>5, <1>17, <1>18 DEF OneCall

LEMMA SingleNext == UnitInv /\ SingleInv /\ [Next]_vars => SingleInv'
<1>1. ASSUME SingleInv, UNCHANGED vars
      PROVE  SingleInv'
  BY <1>1 DEF vars, SingleInv, OneCall, Added, Removed, InCall
<1>2. ASSUME UnitInv, SingleInv, DeletionsByService, NEW u \in Units, StepOf(u)
      PROVE  \A v \in Units : OneCall(v)'
  <2>1. \A v \in Units : OneCall(v)
    BY <1>2 DEF SingleInv
  <2>2. TypeInv
    BY <1>2 DEF UnitInv
  <2>3. ASSUME CallStep(u)
        PROVE  OneCall(u)'
    <3>1. CASE Create(u)
      <4>1. Save(u, "create")
        BY <3>1 DEF Create
      <4> QED
        BY <1>2, <2>1, <4>1, SaveOne
    <3>2. CASE Update(u)
      <4>1. Save(u, "update")
        BY <3>2 DEF Update
      <4> QED
        BY <1>2, <2>1, <4>1, SaveOne
    <3>3. CASE Delete(u)
      BY <1>2, <2>1, <3>3, DeleteOne
    <3> QED
      BY <1>2, <2>1, <2>3, <3>1, <3>2, <3>3, CallStepOne DEF CallStep
  <2>4. OneCall(u)'
    BY <1>2, <2>1, <2>3, BetweenCallsOne, StartCallOne DEF StepOf
  <2>5. ASSUME NEW v \in Units \ {u}
        PROVE  OneCall(v)'
    BY <1>2, <2>1, <2>2, OthersSame, OthersOneCall
  <2> QED
    BY <2>4, <2>5
<1>3. ASSUME UnitInv, SingleInv, Next
      PROVE  SingleInv'
  <2> SUFFICES ASSUME DeletionsByService
               PROVE  \A v \in Units : OneCall(v)'
    BY DEF SingleInv, DeletionsByService
  <2>1. PICK u \in Units : StepOf(u)
    BY <1>3 DEF Next, StepOf
  <2> QED
    BY <1>2, <1>3, <2>1
<1> QED
  BY <1>1, <1>3

LEMMA SingleInvAlways == Spec => [](UnitInv /\ SingleInv)
<1>1. Init => UnitInv
  BY UnitInvInit
<1> QED
  BY <1>1, SingleInit, UnitInvNext, SingleNext, PTL DEF Spec

\* What a commit of L's rows makes of each table of D.
TablesMerged(D, L, rows, M) ==
    /\ \A a \in AccountIds : M.accounts[a] =
          IF <<"accounts", a>> \in rows THEN L.accounts[a] ELSE D.accounts[a]
    /\ \A j \in JournalIds : M.journals[j] =
          IF <<"journals", j>> \in rows THEN L.journals[j] ELSE D.journals[j]
    /\ \A ev \in EventIds : M.audit[ev] =
          IF <<"audit", ev>> \in rows THEN L.audit[ev] ELSE D.audit[ev]

LEMMA OverlayRecords ==
    ASSUME NEW D \in Ledgers, NEW L \in Ledgers, NEW rows \in SUBSET Rows
    PROVE  TablesMerged(D, L, rows, Overlay(D, L, rows)) /\ Overlay(D, L, rows) \in Ledgers
<1>1. ASSUME NEW a \in AccountIds
      PROVE  Overlay(D, L, rows).accounts[a] =
                IF <<"accounts", a>> \in rows THEN L.accounts[a] ELSE D.accounts[a]
  BY DEF Overlay, Ledgers
<1>2. ASSUME NEW j \in JournalIds
      PROVE  Overlay(D, L, rows).journals[j] =
                IF <<"journals", j>> \in rows THEN L.journals[j] ELSE D.journals[j]
  BY DEF Overlay, Ledgers
<1>3. ASSUME NEW ev \in EventIds
      PROVE  Overlay(D, L, rows).audit[ev] =
                IF <<"audit", ev>> \in rows THEN L.audit[ev] ELSE D.audit[ev]
  BY DEF Overlay, Ledgers
<1> QED
  BY <1>1, <1>2, <1>3, OverlayFields DEF TablesMerged

(* A commit that adds one record, or changes one, adds no event.           *)
LEMMA AddedAudited ==
    ASSUME NEW D \in Ledgers, NEW L \in Ledgers, NEW row \in Rows, row[1] # "audit",
           Cell(L, row) # Absent, NEW rows \in SUBSET Rows, rows = {row}
    PROVE  AuditedStep(D, Overlay(D, L, rows))
<1> DEFINE M == Overlay(D, L, rows)
<1>1. TablesMerged(D, L, rows, M) /\ M \in Ledgers
  BY OverlayRecords
<1> HIDE DEF M
<1>2. M.audit = D.audit
  <2>1. \A ev \in EventIds : M.audit[ev] = D.audit[ev]
    BY <1>1 DEF TablesMerged
  <2> QED
    BY <1>1, <2>1 DEF Ledgers
<1>3. \A a \in AccountIds : D.accounts[a] # Absent => M.accounts[a] # Absent
  BY <1>1 DEF Cell, TablesMerged
<1>4. \A j \in JournalIds : D.journals[j] # Absent => M.journals[j] # Absent
  BY <1>1 DEF Cell, TablesMerged
<1>5. Vanished(D.accounts, M.accounts) = {} /\ Vanished(D.journals, M.journals) = {}
  BY <1>1, <1>3, <1>4 DEF Vanished, Present, Ledgers
<1>6. NewEvents(D, M) = {}
  BY <1>2 DEF NewEvents
<1> QED
  BY <1>5, <1>6 DEF AuditedStep, M

(* A commit that removes one record and adds its event.                    *)
LEMMA RemovedAudited ==
    ASSUME NEW D \in Ledgers, NEW L \in Ledgers, NEW row \in Rows, NEW ev \in EventIds,
           row[1] \in {"accounts", "journals"},
           Cell(L, row) = Absent, Cell(D, row) # Absent, D.audit[ev] = Absent,
           L.audit[ev] = Deleted(D, [table |-> row[1], id |-> row[2]]),
           NEW rows \in SUBSET Rows, rows = {row, <<"audit", ev>>}
    PROVE  AuditedStep(D, Overlay(D, L, rows))
<1> DEFINE M == Overlay(D, L, rows)
           event == Deleted(D, [table |-> row[1], id |-> row[2]])
<1>1. TablesMerged(D, L, rows, M) /\ M \in Ledgers
  BY OverlayRecords
<1> HIDE DEF M
<1>2. M \in Ledgers
  BY <1>1
<1>3. \A other \in EventIds : M.audit[other] = IF other = ev THEN event ELSE D.audit[other]
  <2>1. \A other \in EventIds : <<"audit", other>> \in rows <=> other = ev
    OBVIOUS
  <2> QED
    BY <1>1, <2>1 DEF TablesMerged
<1>4. event # Absent
  BY DeletedType
<1>5. NewEvents(D, M) = {event}
  <2> HIDE DEF M, event
  <2>1. Present(M.audit) \ Present(D.audit) = {ev}
    BY <1>2, <1>3, <1>4 DEF Present, Ledgers
  <2> QED
    BY <1>3, <2>1 DEF NewEvents
<1>6. CASE row[1] = "accounts"
  <2>1. PICK a \in AccountIds : row = <<"accounts", a>>
    BY <1>6, RowOf
  <2>2. /\ \A b \in AccountIds : M.accounts[b] = IF b = a THEN Absent ELSE D.accounts[b]
        /\ \A j \in JournalIds : M.journals[j] = D.journals[j]
        /\ D.accounts[a] # Absent
    BY <1>1, <2>1 DEF Cell, TablesMerged
  <2>3. event = AccountDeleted(D, a)
    BY <2>1 DEF Deleted
  <2> HIDE DEF M, event
  <2>4. Vanished(D.accounts, M.accounts) = {a} /\ Vanished(D.journals, M.journals) = {}
    BY <1>2, <2>2 DEF Vanished, Present, Ledgers
  <2>5. AuditedStep(D, M)
    BY <1>5, <2>3, <2>4 DEF AuditedStep
  <2> QED
    BY <2>5 DEF M
<1>7. CASE row[1] = "journals"
  <2>1. PICK j \in JournalIds : row = <<"journals", j>>
    BY <1>7, RowOf
  <2>2. /\ \A i \in JournalIds : M.journals[i] = IF i = j THEN Absent ELSE D.journals[i]
        /\ \A a \in AccountIds : M.accounts[a] = D.accounts[a]
        /\ D.journals[j] # Absent
    BY <1>1, <2>1 DEF Cell, TablesMerged
  <2>3. event = JournalDeleted(D, j)
    BY <2>1 DEF Deleted
  <2> HIDE DEF M, event
  <2>4. Vanished(D.journals, M.journals) = {j} /\ Vanished(D.accounts, M.accounts) = {}
    BY <1>2, <2>2 DEF Vanished, Present, Ledgers
  <2>5. AuditedStep(D, M)
    BY <1>5, <2>3, <2>4 DEF AuditedStep
  <2> QED
    BY <2>5 DEF M
<1> QED
  BY <1>6, <1>7

\* What DeletionsAuditedExactly says of the commit of one unit.
AuditedAtCommit(u) ==
    Commits(u) /\ made[u] <= 1 /\ DeletionsByService => AuditedStep(db, db')

(* The commit of a unit of one call adds exactly one event for each record *)
(* it removes, with the record as it was just before, however many other   *)
(* units committed while it ran.                                           *)
THEOREM DeletionsRecorded == Spec => DeletionsAuditedExactly
<1>1. ASSUME UnitInv, SingleInv, Next, NEW u \in Units
      PROVE  AuditedAtCommit(u)
  <2> SUFFICES ASSUME Commits(u), made[u] <= 1, DeletionsByService
               PROVE  AuditedStep(db, db')
    BY DEF AuditedAtCommit
  <2>1. tx[u] \in {"entered", "open"} /\ db' = Merged(u)
    BY <1>1, ChangedByCommits
  <2>2. /\ db \in Ledgers /\ own[u] \in Ledgers /\ wrote[u] \in SUBSET Rows
        /\ Latest(u).wrote = wrote[u]
        /\ wrote[u] = {} \/ Sound(db, stale[u], Latest(u))
    BY <1>1, <2>1, CommitFacts
  <2>3. db' = Overlay(db, own[u], wrote[u])
    BY <2>1 DEF Merged
  <2>4. wrote[u] = {} \/ Added(u) \/ Removed(u)
    BY <1>1, <2>1 DEF SingleInv, OneCall
  <2>5. CASE wrote[u] = {}
    <3>1. db' = db
      BY <2>2, <2>3, <2>5, OverlayNothing
    <3> QED
      BY <3>1 DEF AuditedStep, NewEvents, Vanished
  <2>6. CASE Added(u)
    BY <2>2, <2>3, <2>6, AddedAudited DEF Added
  <2>7. CASE Removed(u)
    <3>1. PICK row \in Rows, ev \in EventIds :
              /\ row[1] \in {"accounts", "journals"}
              /\ wrote[u] = {row, <<"audit", ev>>}
              /\ Cell(own[u], row) = Absent /\ Cell(db, row) # Absent
              /\ own[u].audit[ev] = Deleted(db, [table |-> row[1], id |-> row[2]])
      BY <2>7 DEF Removed
    <3>2. db.audit[ev] = Absent
      BY <2>2, <3>1 DEF Sound, AddsHistory, Cell
    <3> QED
      BY <2>2, <2>3, <3>1, <3>2, RemovedAudited
  <2> QED
    BY <2>4, <2>5, <2>6, <2>7
<1>2. UnitInv /\ SingleInv /\ [Next]_vars => [\A u \in Units : AuditedAtCommit(u)]_vars
  BY <1>1
<1>3. Spec => [][\A u \in Units : AuditedAtCommit(u)]_vars
  BY <1>2, SingleInvAlways, PTL DEF Spec
<1> QED
  BY <1>3 DEF DeletionsAuditedExactly, AuditedAtCommit

-----------------------------------------------------------------------------
(* Part 15: units that have made one call each do not wait in a circle.    *)
(* In its first call a unit has written nothing and holds only rows that   *)
(* come before those it still locks, so whom it waits for is either not in *)
(* a call, or no longer locks, or waits for a later row.                   *)

FirstCall(u) ==
    /\ made[u] = 0 => holds[u] = {} /\ wrote[u] = {} /\ sent[u] = <<>> /\ ~InCall(u)
    /\ made[u] = 1 /\ InCall(u) =>
          /\ wrote[u] = {}
          /\ \A row \in holds[u], other \in Todo(u) : ComesBefore(row, other)

FirstCallInv == \A u \in Units : FirstCall(u)

LEMMA FirstCallInit == Init => FirstCallInv
BY DEF Init, FirstCallInv, FirstCall, InCall

(* Steps between calls.                                                    *)
LEMMA FirstCallBetween ==
    ASSUME UnitInv, NEW u \in Units, FirstCall(u),
           Enter(u) \/ StartCall(u) \/ AtomicStep(u) \/ Disconnect(u) \/ End(u)
    PROVE  FirstCall(u)'
<1> TypeInv
  BY DEF UnitInv
<1>1. CASE Enter(u) \/ AtomicBegin(u)
  BY <1>1 DEF Enter, AtomicBegin, FirstCall, InCall, Todo
<1>2. CASE AtomicEnd(u) \/ AtomicFail(u)
  <2>1. Idle(u) /\ call' = call /\ made' = made
    BY <1>2 DEF AtomicEnd, AtomicFail, CloseUnsent, CloseSent
  <2>2. ASSUME made[u] = 0
        PROVE  UNCHANGED <<holds, wrote, sent>>
    <3>1. ~CloseSent(u)
      BY <2>2 DEF FirstCall, CloseSent
    <3> QED
      BY <1>2, <3>1 DEF AtomicEnd, AtomicFail, CloseUnsent
  <2> QED
    BY <2>1, <2>2 DEF FirstCall, InCall, Idle
<1>3. CASE Disconnect(u) \/ End(u)
  <2>1. tx[u] \in {"aborted", "lost"} => ~InCall(u)
    BY CallFacts
  <2>2. ~InCall(u)'
    BY <1>3, <2>1 DEF Disconnect, End, Commit, CommitFails, CommitAborted, Leave, Finish, TypeInv,
                      InCall, Idle
  <2>3. made' = made /\ wrote' = wrote /\ holds'[u] = {} /\ sent'[u] = <<>>
    BY <1>3 DEF Disconnect, End, Commit, CommitFails, CommitAborted, Leave, Finish, TypeInv
  <2> QED
    BY <2>2, <2>3 DEF FirstCall
<1>4. CASE StartCall(u)
  <2>1. made[u] \in Nat /\ made'[u] = made[u] + 1 /\ wrote' = wrote /\ holds' = holds
    BY <1>4 DEF StartCall, TypeInv
  <2> QED
    BY <2>1 DEF FirstCall
<1> QED
  BY <1>1, <1>2, <1>3, <1>4 DEF AtomicStep

(* Rows are locked in their order.                                         *)
LEMMA FirstCallStep ==
    ASSUME UnitInv, NEW u \in Units, FirstCall(u), CallStep(u)
    PROVE  FirstCall(u)'
<1> TypeInv
  BY DEF UnitInv
<1>1. CASE LockRow(u)
  <2>1. /\ Locking(u) /\ InCall(u) /\ made' = made /\ wrote' = wrote
        /\ holds'[u] = holds[u] \cup {NextRow(u)}
        /\ call' = [call EXCEPT ![u].todo = @ \ {NextRow(u)}]
    BY <1>1 DEF LockRow, RowLocked, Locking, TypeInv
  <2>2. call[u] \in Calls
    BY <2>1, CallFacts
  <2>3. Todo(u)' = Todo(u) \ {NextRow(u)}
    BY <2>1, <2>2 DEF Todo, TypeInv, Calls
  <2>4. /\ NextRow(u) \in Todo(u)
        /\ \A other \in Todo(u) \ {NextRow(u)} : ComesBefore(NextRow(u), other)
    BY <2>1, NextRowFirst
  <2>5. made[u] # 0 /\ (made[u] = 1 => wrote[u] = {})
    BY <2>1 DEF FirstCall
  <2>6. ASSUME made[u] = 1, NEW row \in holds'[u], NEW other \in Todo(u)'
        PROVE  ComesBefore(row, other)
    BY <2>1, <2>3, <2>4, <2>6 DEF FirstCall
  <2> QED
    BY <2>1, <2>5, <2>6 DEF FirstCall
<1>2. CASE ~LockRow(u)
  <2>1. InCall(u) /\ made' = made /\ Return(u)
    <3>1. CASE Create(u) \/ Update(u)
      BY <3>1 DEF Create, Update, Save, Write, Ready
    <3>2. CASE Delete(u)
      BY <3>2 DEF Delete, Write, Ready
    <3>3. CASE Read(u) \/ Fail(u) \/ Abort(u)
      BY <3>3 DEF Read, Fail, Abort, Ready, Locking
    <3> QED
      BY <1>2, <3>1, <3>2, <3>3 DEF CallStep
  <2>2. ~InCall(u)' /\ made[u] # 0
    BY <2>1, ReturnType DEF FirstCall
  <2> QED
    BY <2>1, <2>2 DEF FirstCall
<1> QED
  BY <1>1, <1>2

LEMMA FirstCallNext == UnitInv /\ FirstCallInv /\ [Next]_vars => FirstCallInv'
<1>1. ASSUME FirstCallInv, UNCHANGED vars
      PROVE  FirstCallInv'
  BY <1>1 DEF vars, FirstCallInv, FirstCall, InCall, Todo
<1>2. ASSUME UnitInv, FirstCallInv, NEW u \in Units, StepOf(u)
      PROVE  FirstCallInv'
  <2>1. FirstCall(u)'
    BY <1>2, FirstCallBetween, FirstCallStep DEF FirstCallInv, StepOf
  <2>2. ASSUME NEW v \in Units \ {u}
        PROVE  FirstCall(v)'
    <3>1. Same(v)
      BY <1>2, OthersSame DEF UnitInv
    <3>2. FirstCall(v)
      BY <1>2 DEF FirstCallInv
    <3> QED
      BY <3>1, <3>2 DEF Same, FirstCall, InCall, Todo
  <2> QED
    BY <2>1, <2>2 DEF FirstCallInv
<1>3. ASSUME UnitInv, FirstCallInv, Next
      PROVE  FirstCallInv'
  <2>1. PICK u \in Units : StepOf(u)
    BY <1>3 DEF Next, StepOf
  <2> QED
    BY <1>2, <1>3, <2>1
<1> QED
  BY <1>1, <1>3

\* v gets on before u does.
Behind(u, v) ==
    \/ InCall(u) /\ ~InCall(v)
    \/ Locking(u) /\ Ready(v)
    \/ Locking(u) /\ Locking(v) /\ ComesBefore(NextRow(u), NextRow(v))

LEMMA BehindIsOrder ==
    ASSUME UnitInv
    PROVE  /\ \A u \in Units : ~Behind(u, u)
           /\ \A u, v, w \in Units : Behind(u, v) /\ Behind(v, w) => Behind(u, w)
<1>1. ASSUME NEW u \in Units, Locking(u)
      PROVE  NextRow(u)[1] = "accounts" => NextRow(u)[2] \in Nat
  <2>1. NextRow(u) \in Rows
    BY <1>1, NextRowFirst, CallFacts DEF Locking
  <2> QED
    BY <2>1, AccountIdsAssumption DEF Rows
<1>2. ASSUME NEW u \in Units
      PROVE  ~Behind(u, u)
  BY <1>1 DEF Behind, ComesBefore, Locking, Ready
<1>3. ASSUME NEW u \in Units, NEW v \in Units, NEW w \in Units, Behind(u, v), Behind(v, w)
      PROVE  Behind(u, w)
  <2>1. InCall(u) /\ InCall(v)
    BY <1>3 DEF Behind, Locking
  <2>2. CASE ~InCall(w)
    BY <2>1, <2>2 DEF Behind
  <2>3. CASE InCall(w)
    <3>1. Locking(u) /\ Locking(v)
      BY <1>3, <2>1, <2>3 DEF Behind, Locking, Ready
    <3>2. CASE Ready(w)
      BY <3>1, <3>2 DEF Behind
    <3>3. CASE ~Ready(w)
      <4>1. /\ Locking(w) /\ ComesBefore(NextRow(u), NextRow(v))
            /\ ComesBefore(NextRow(v), NextRow(w))
        BY <1>3, <2>3, <3>1, <3>3 DEF Behind, Locking, Ready
      <4>2. ComesBefore(NextRow(u), NextRow(w))
        BY <1>1, <3>1, <4>1 DEF ComesBefore
      <4> QED
        BY <3>1, <4>1, <4>2 DEF Behind
    <3> QED
      BY <3>2, <3>3
  <2> QED
    BY <2>2, <2>3
<1> QED
  BY <1>2, <1>3

(* Everyone waits for somebody who gets on before.                         *)
LEMMA WaitsBehind ==
    ASSUME UnitInv, FirstCallInv, \A x \in Units : made[x] <= 1,
           NEW u \in Units, NEW v \in Units, WaitsFor(u, v)
    PROVE  Behind(u, v)
<1>1. InCall(u)
  BY DEF WaitsFor
<1>2. InCall(v) => made[v] = 1
  BY DEF FirstCallInv, FirstCall, UnitInv, TypeInv
<1>3. ASSUME Locking(u), NextRow(u) \in holds[v], Locking(v)
      PROVE  ComesBefore(NextRow(u), NextRow(v))
  <2>1. NextRow(v) \in Todo(v) /\ InCall(v)
    BY <1>3, NextRowFirst DEF Locking
  <2> QED
    BY <1>2, <1>3, <2>1 DEF FirstCallInv, FirstCall
<1>4. ASSUME KeyHeldBy(u, v)
      PROVE  ~InCall(v)
  <2>1. wrote[v] # {}
    BY <1>4 DEF KeyHeldBy
  <2> QED
    BY <1>2, <2>1 DEF FirstCallInv, FirstCall
<1> QED
  BY <1>1, <1>3, <1>4 DEF WaitsFor, Behind, Locking, Ready

(* Units that have made one call each are never in a deadlock.             *)
THEOREM SingleCallsNeverStuck == Spec => []NoDeadlockOfSingleCalls
<1>1. ASSUME UnitInv, FirstCallInv, \A x \in Units : made[x] <= 1, NEW u \in Units
      PROVE  ~Deadlocked(u)
  <2> DEFINE waits == {p \in Units \X Units : WaitsFor(p[1], p[2])}
             S == {v \in Units : Behind(u, v)}
  <2>1. u \notin S /\ S \in SUBSET Units
    BY <1>1, BehindIsOrder
  <2>2. ASSUME NEW p \in waits, p[1] \in S \cup {u}
        PROVE  p[2] \in S
    <3>1. p[1] \in Units /\ p[2] \in Units /\ WaitsFor(p[1], p[2])
      OBVIOUS
    <3>2. Behind(p[1], p[2])
      BY <1>1, <3>1, WaitsBehind
    <3> QED
      BY <1>1, <2>2, <3>1, <3>2, BehindIsOrder
  <2> HIDE DEF S
  <2> QED
    BY <2>1, <2>2 DEF Deadlocked
<1>2. UnitInv /\ FirstCallInv => NoDeadlockOfSingleCalls
  BY <1>1 DEF NoDeadlockOfSingleCalls
<1>3. Init => UnitInv
  BY UnitInvInit
<1> QED
  BY <1>2, <1>3, FirstCallInit, UnitInvNext, FirstCallNext, PTL DEF Spec

-----------------------------------------------------------------------------
(* Part 16: the refinement of UnitOfWork by a unit that is alone.  While   *)
(* no other unit has entered, nothing is outdated, so the unit is never    *)
(* aborted, and what it reads is what it would commit.                     *)

AloneInv ==
    \A u \in Units :
        /\ tx[u] \notin {"entered", "open", "aborted"} => unsent[u] = 0
        /\ Alone(u) => stale[u] = {} /\ tx[u] # "aborted"

LEMMA AloneInit == Init => AloneInv
BY DEF Init, AloneInv

(* Whoever makes a step has entered.                                       *)
LEMMA StepperEntered ==
    ASSUME UnitInv, AloneInv, NEW u \in Units, StepOf(u)
    PROVE  tx'[u] # "new"
<1> TypeInv /\ LocalInv(u)
  BY DEF UnitInv
<1>1. CASE Enter(u) \/ StartCall(u)
  BY <1>1 DEF Enter, StartCall, TypeInv
<1>2. CASE CallStep(u)
  <2>1. InCall(u)
    <3>1. CASE LockRow(u) \/ Read(u) \/ Fail(u) \/ Abort(u)
      BY <3>1 DEF LockRow, Read, Fail, Abort, Locking, Ready
    <3>2. CASE Create(u) \/ Update(u) \/ Delete(u)
      BY <3>2 DEF Create, Update, Save, Delete, Ready
    <3> QED
      BY <1>2, <3>1, <3>2 DEF CallStep
  <2>2. tx[u] = "open"
    BY <2>1, CallFacts
  <2>3. CASE Abort(u)
    BY <2>3 DEF Abort, TypeInv
  <2>4. CASE ~Abort(u)
    <3>1. tx' = tx
      BY <1>2, <2>4 DEF CallStep, LockRow, Create, Update, Save, Delete, Write, Read, Fail
    <3> QED
      BY <2>2, <3>1
  <2> QED
    BY <2>3, <2>4
<1>3. CASE AtomicStep(u)
  <2>1. ASSUME CloseUnsent(u) \/ CloseSent(u)
        PROVE  tx[u] # "new"
    <3>1. unsent[u] > 0 \/ sent[u] # <<>>
      BY <2>1 DEF CloseUnsent, CloseSent
    <3>2. tx[u] = "new" => unsent[u] = 0 /\ sent[u] = <<>>
      BY DEF AloneInv, LocalInv, StageSound
    <3> QED
      BY <3>1, <3>2
  <2>2. tx[u] # "new"
    BY <1>3, <2>1 DEF AtomicStep, AtomicBegin, AtomicEnd, AtomicFail
  <2> QED
    BY <1>3, <2>2 DEF AtomicStep, AtomicBegin, AtomicEnd, AtomicFail, TypeInv
<1>4. CASE Disconnect(u)
  BY <1>4 DEF Disconnect, TypeInv
<1>5. CASE End(u)
  BY <1>5 DEF End, Commit, CommitFails, CommitAborted, Leave, Finish, TypeInv
<1> QED
  BY <1>1, <1>2, <1>3, <1>4, <1>5 DEF StepOf

(* So a unit that is still alone made the step itself, and was alone.      *)
LEMMA AloneStepper ==
    ASSUME UnitInv, AloneInv, NEW u \in Units, StepOf(u), NEW v \in Units, Alone(v)'
    PROVE  v = u /\ Alone(u)
<1>1. v = u
  BY StepperEntered DEF Alone
<1>2. \A w \in Units \ {u} : tx'[w] = tx[w]
  BY OthersSame DEF UnitInv, Same
<1> QED
  BY <1>1, <1>2 DEF Alone

(* No other unit holds anything, so the unit waits for nobody and the      *)
(* database refuses it no lock.                                            *)
LEMMA AloneNotAborted ==
    ASSUME UnitInv, AloneInv, NEW u \in Units, Alone(u)
    PROVE  ~Abort(u)
<1>1. ASSUME NEW v \in Units
      PROVE  ~WaitsFor(u, v)
  <2>1. CASE v = u
    BY <2>1 DEF WaitsFor
  <2>2. CASE v # u
    <3>1. tx[v] = "new" /\ holds[v] = {}
      BY <2>2 DEF Alone, UnitInv, LocalInv, StageSound
    <3> QED
      BY <3>1 DEF WaitsFor, KeyHeldBy, Alive
  <2> QED
    BY <2>1, <2>2
<1>2. ~Deadlocked(u)
  <2> DEFINE waits == {p \in Units \X Units : WaitsFor(p[1], p[2])}
  <2>1. \A p \in waits : p[1] \notin {} \cup {u}
    BY <1>1
  <2>2. {} \in SUBSET Units
    OBVIOUS
  <2> QED
    BY <2>1, <2>2 DEF Deadlocked
<1>3. ~ChangedSince(u)
  BY DEF AloneInv, ChangedSince
<1> QED
  BY <1>2, <1>3 DEF Abort, DatabaseError, Locking, Ready

LEMMA AloneNext == UnitInv /\ AloneInv /\ [Next]_vars => AloneInv'
<1>1. ASSUME AloneInv, UNCHANGED vars
      PROVE  AloneInv'
  BY <1>1 DEF vars, AloneInv, Alone
<1>2. ASSUME UnitInv, AloneInv, NEW u \in Units, StepOf(u)
      PROVE  AloneInv'
  <2> TypeInv
    BY <1>2 DEF UnitInv
  <2>1. unsent[u] \in Nat /\ (tx[u] \notin {"entered", "open", "aborted"} => unsent[u] = 0)
    BY <1>2 DEF AloneInv, TypeInv
  <2>2. InCall(u) => unsent[u] = 0
    BY <1>2, CallFacts
  <2>3. /\ \A v \in Units \ {u} : tx'[v] = tx[v] /\ unsent'[v] = unsent[v]
        /\ tx'[u] \notin {"entered", "open", "aborted"} => unsent'[u] = 0
        /\ stale[u] = {} => stale'[u] = {}
        /\ ~Abort(u) /\ tx[u] # "aborted" => tx'[u] # "aborted"
    <3>1. CASE Enter(u) \/ StartCall(u)
      BY <3>1 DEF Enter, StartCall, TypeInv
    <3>2. CASE AtomicStep(u)
      <4>1. CASE AtomicBegin(u)
        BY <4>1 DEF AtomicBegin, TypeInv
      <4>2. CASE AtomicEnd(u) \/ AtomicFail(u)
        BY <2>1, <4>2 DEF AtomicEnd, AtomicFail, CloseUnsent, CloseSent, TypeInv
      <4> QED
        BY <3>2, <4>1, <4>2 DEF AtomicStep
    <3>3. CASE Disconnect(u)
      BY <3>3 DEF Disconnect, Drop, TypeInv
    <3>4. CASE End(u)
      BY <3>4 DEF End, Commit, CommitFails, CommitAborted, Leave, Publish, Drop, Finish, TypeInv
    <3>5. CASE CallStep(u)
      <4>1. CASE Abort(u)
        BY <2>2, <4>1 DEF Abort, Locking, TypeInv
      <4>2. CASE ~Abort(u)
        <5>1. UNCHANGED <<tx, stale, unsent>>
          BY <3>5, <4>2 DEF CallStep, LockRow, Create, Update, Save, Delete, Write, Read, Fail
        <5> QED
          BY <2>1, <5>1
      <4> QED
        BY <4>1, <4>2
    <3> QED
      BY <1>2, <3>1, <3>2, <3>3, <3>4, <3>5 DEF StepOf
  <2>4. ASSUME NEW v \in Units, Alone(v)'
        PROVE  stale'[v] = {} /\ tx'[v] # "aborted"
    <3>1. v = u /\ Alone(u)
      BY <1>2, <2>4, AloneStepper
    <3>2. stale[u] = {} /\ tx[u] # "aborted" /\ ~Abort(u)
      BY <1>2, <3>1, AloneNotAborted DEF AloneInv
    <3> QED
      BY <2>3, <3>1, <3>2
  <2> QED
    BY <1>2, <2>3, <2>4 DEF AloneInv
<1>3. ASSUME UnitInv, AloneInv, Next
      PROVE  AloneInv'
  <2>1. PICK u \in Units : StepOf(u)
    BY <1>3 DEF Next, StepOf
  <2> QED
    BY <1>2, <1>3, <2>1
<1> QED
  BY <1>1, <1>3

LEMMA AloneInvAlways == Spec => [](UnitInv /\ AloneInv)
<1>1. Init => UnitInv
  BY UnitInvInit
<1> QED
  BY <1>1, AloneInit, UnitInvNext, AloneNext, PTL DEF Spec

(* What a unit that is alone reads is what it would commit.                *)
LEMMA ReadsWhatItCommits ==
    ASSUME NEW D \in WholeLedgers, NEW s \in Version, Sound(D, {}, s)
    PROVE  Overlay(D, s.own, s.wrote) = s.own /\ s.own \in WholeLedgers
<1> DEFINE M == Overlay(D, s.own, s.wrote)
<1>1. D \in Ledgers /\ s.own \in Ledgers /\ s.wrote \in SUBSET Rows
  BY DEF Version, WholeLedgers
<1>2. M \in Ledgers /\ M \in WholeLedgers
  BY <1>1, OverlayFields DEF Sound
<1>3. ASSUME NEW row \in Rows
      PROVE  Cell(M, row) = Cell(s.own, row)
  BY <1>1, OverlayCell DEF Sound, ReadsCurrent
<1>4. M = s.own
  BY <1>1, <1>2, <1>3, SameCells
<1> QED
  BY <1>2, <1>4

(* The mapping: the ledgers the open blocks began with.                    *)
Opened(u) == tx[u] \in {"entered", "open"}

BlockLedgers(u) ==
    [n \in 1..Blocks(u) |-> IF n > Len(sent[u]) THEN Current(u) ELSE sent[u][n].own]

LEMMA BlockFacts ==
    ASSUME TypeInv, NEW u \in Units
    PROVE  /\ Current(u) \in Ledgers /\ sent[u] \in Seq(Version)
           /\ Len(sent[u]) \in Nat /\ unsent[u] \in Nat /\ Blocks(u) = Len(sent[u]) + unsent[u]
           /\ BlockLedgers(u) \in Seq(Ledgers) /\ Len(BlockLedgers(u)) = Blocks(u)
           /\ \A n \in 1..Blocks(u) : BlockLedgers(u)[n] =
                  IF n > Len(sent[u]) THEN Current(u) ELSE sent[u][n].own
<1>1. Current(u) \in Ledgers /\ sent[u] \in Seq(Version) /\ unsent[u] \in Nat
  BY DEF TypeInv, Current, WholeLedgers
<1>2. Len(sent[u]) \in Nat /\ \A n \in 1..Len(sent[u]) : sent[u][n].own \in Ledgers
  <2>1. Len(sent[u]) \in Nat
    BY <1>1, LenProperties
  <2>2. \A n \in 1..Len(sent[u]) : sent[u][n] \in Version
    BY <1>1, ElementOfSeq
  <2> QED
    BY <2>1, <2>2 DEF Version
<1>3. Blocks(u) = Len(sent[u]) + unsent[u] /\ Blocks(u) \in Nat
  BY <1>1, <1>2 DEF Blocks
<1>4. \A n \in 1..Blocks(u) :
          (IF n > Len(sent[u]) THEN Current(u) ELSE sent[u][n].own) \in Ledgers
  BY <1>1, <1>2
<1>5. BlockLedgers(u) \in [1..Blocks(u) -> Ledgers]
  BY <1>4 DEF BlockLedgers
<1>6. BlockLedgers(u) \in Seq(Ledgers) /\ Len(BlockLedgers(u)) = Blocks(u)
  BY <1>3, <1>5, IsASeq, LenProperties
<1>7. \A n \in 1..Blocks(u) : BlockLedgers(u)[n] =
          IF n > Len(sent[u]) THEN Current(u) ELSE sent[u][n].own
  BY DEF BlockLedgers
<1> QED
  BY <1>1, <1>2, <1>3, <1>6, <1>7

(* The same of the state a step leads to.                                  *)
LEMMA BlockFactsAfter ==
    ASSUME TypeInv', NEW u \in Units
    PROVE  /\ Current(u)' \in Ledgers /\ sent'[u] \in Seq(Version)
           /\ Len(sent'[u]) \in Nat /\ unsent'[u] \in Nat
           /\ Blocks(u)' = Len(sent'[u]) + unsent'[u]
           /\ BlockLedgers(u)' \in Seq(Ledgers) /\ Len(BlockLedgers(u)') = Blocks(u)'
           /\ \A n \in 1..Blocks(u)' : BlockLedgers(u)'[n] =
                  IF n > Len(sent'[u]) THEN Current(u)' ELSE sent'[u][n].own
<1>1. Current(u)' \in Ledgers /\ sent'[u] \in Seq(Version) /\ unsent'[u] \in Nat
  BY DEF TypeInv, Current, WholeLedgers
<1>2. Len(sent'[u]) \in Nat /\ \A n \in 1..Len(sent'[u]) : sent'[u][n].own \in Ledgers
  <2>1. Len(sent'[u]) \in Nat
    BY <1>1, LenProperties
  <2>2. \A n \in 1..Len(sent'[u]) : sent'[u][n] \in Version
    BY <1>1, ElementOfSeq
  <2> QED
    BY <2>1, <2>2 DEF Version
<1>3. Blocks(u)' = Len(sent'[u]) + unsent'[u] /\ Blocks(u)' \in Nat
  BY <1>1, <1>2 DEF Blocks
<1>4. \A n \in 1..Blocks(u)' :
          (IF n > Len(sent'[u]) THEN Current(u)' ELSE sent'[u][n].own) \in Ledgers
  BY <1>1, <1>2
<1>5. BlockLedgers(u)' \in [1..Blocks(u)' -> Ledgers]
  BY <1>4 DEF BlockLedgers
<1>6. BlockLedgers(u)' \in Seq(Ledgers) /\ Len(BlockLedgers(u)') = Blocks(u)'
  BY <1>3, <1>5, IsASeq, LenProperties
<1>7. \A n \in 1..Blocks(u)' : BlockLedgers(u)'[n] =
          IF n > Len(sent'[u]) THEN Current(u)' ELSE sent'[u][n].own
  BY DEF BlockLedgers
<1> QED
  BY <1>1, <1>2, <1>3, <1>6, <1>7

(* The blocks of a unit that stays as it is.                               *)
LEMMA BlocksKept ==
    ASSUME TypeInv, TypeInv', NEW u \in Units, sent'[u] = sent[u], unsent'[u] = unsent[u],
           unsent[u] = 0 \/ Current(u)' = Current(u)
    PROVE  BlockLedgers(u)' = BlockLedgers(u)
<1> DEFINE s == BlockLedgers(u)
           t == BlockLedgers(u)'
<1>1. s \in Seq(Ledgers) /\ t \in Seq(Ledgers) /\ Len(s) = Blocks(u) /\ Len(t) = Blocks(u)'
  BY BlockFacts, BlockFactsAfter
<1>2. Blocks(u)' = Blocks(u)
  BY DEF Blocks
<1>3. \A n \in 1..Blocks(u) : t[n] = s[n]
  BY <1>2, BlockFacts, BlockFactsAfter
<1> HIDE DEF s, t
<1>4. t = s
  BY <1>1, <1>2, <1>3, SeqEqual
<1> QED
  BY <1>4 DEF s, t

(* A step that does not show.                                              *)
LEMMA AloneStutter ==
    ASSUME NEW u \in Units, db' = db, Opened(u)' <=> Opened(u), Current(u)' = Current(u),
           BlockLedgers(u)' = BlockLedgers(u)
    PROVE  UNCHANGED C(u)!contractVars
BY DEF C!contractVars, Opened, BlockLedgers

(* The transaction ends without its blocks.                                *)
LEMMA NoBlocksLeft ==
    ASSUME TypeInv', NEW u \in Units, sent'[u] = <<>>, unsent'[u] = 0
    PROVE  BlockLedgers(u)' = <<>>
<1>1. Len(BlockLedgers(u)') = 0 /\ BlockLedgers(u)' \in Seq(Ledgers)
  BY BlockFactsAfter
<1> QED
  BY <1>1, EmptySeq

LEMMA AloneAbandons ==
    ASSUME UnitInv, UnitInv', NEW u \in Units, Opened(u), ~Opened(u)', db' = db,
           sent'[u] = <<>>, unsent'[u] = 0
    PROVE  C(u)!ContractNext
<1>1. BlockLedgers(u)' = <<>>
  BY NoBlocksLeft DEF UnitInv
<1>2. Current(u)' = db
  BY DEF Current, Opened
<1>3. C(u)!Abandon
  BY <1>1, <1>2 DEF C!Abandon, Opened, BlockLedgers
<1> QED
  BY <1>3 DEF C!ContractNext

LEMMA AloneCommits ==
    ASSUME UnitInv, UnitInv', AloneInv, NEW u \in Units, Alone(u),
           Opened(u), ~Opened(u)', db' = Merged(u), sent'[u] = <<>>, unsent'[u] = 0
    PROVE  C(u)!ContractNext
<1>1. BlockLedgers(u)' = <<>>
  BY NoBlocksLeft DEF UnitInv
<1>2. Merged(u) = Current(u)
  <2>1. CASE tx[u] = "open"
    <3>1. Alive(u) /\ stale[u] = {}
      BY <2>1 DEF Alive, AloneInv
    <3>2. Latest(u) \in Version /\ Sound(db, {}, Latest(u)) /\ db \in WholeLedgers
      BY <3>1, VersionedType DEF UnitInv, SoundInv, Versioned, TypeInv
    <3> QED
      BY <2>1, <3>2, ReadsWhatItCommits DEF Merged, Latest, Current
  <2>2. CASE tx[u] = "entered"
    <3>1. wrote[u] = {} /\ db \in Ledgers /\ own[u] \in Ledgers
      BY <2>2 DEF UnitInv, LocalInv, StageSound, TypeInv, WholeLedgers
    <3> QED
      BY <2>2, <3>1, OverlayNothing DEF Merged, Current
  <2> QED
    BY <2>1, <2>2 DEF Opened
<1>3. Current(u)' = Current(u) /\ db' = Current(u)
  BY <1>2 DEF Current, Opened
<1>4. C(u)!Commit
  BY <1>1, <1>3 DEF C!Commit, Opened, BlockLedgers
<1> QED
  BY <1>4 DEF C!ContractNext

(* The contract speaks of the same ledgers and the same steps of work.     *)
LEMMA ContractTotal ==
    ASSUME NEW u \in Units, NEW entry, NEW currency, NEW side
    PROVE  C(u)!Total(entry, currency, side) = Total(entry, currency, side)
BY DEF C!Total, Total, C!SumFunctionOnSet, SumFunctionOnSet, C!FoldFunctionOnSet,
       FoldFunctionOnSet, C!MapThenFoldSet, MapThenFoldSet

LEMMA ContractEntry ==
    ASSUME NEW u \in Units, NEW id, NEW entry
    PROVE  C(u)!ValidEntry(id, entry) <=> ValidEntry(id, entry)
BY ContractTotal DEF C!ValidEntry, ValidEntry, C!UniqueLineIds, UniqueLineIds,
                     C!Balanced, Balanced

LEMMA ContractLedgers ==
    ASSUME NEW u \in Units, NEW L \in WholeLedgers
    PROVE  L \in C(u)!Ledgers /\ C(u)!Integrity(L)
<1>1. C(u)!Ledgers = Ledgers
  BY DEF C!Ledgers, Ledgers, C!OrAbsent, OrAbsent, C!Account, Account, C!Journal,
         Journal, C!JournalEntry, JournalEntry, C!JournalLine, JournalLine,
         C!AuditEvent, AuditEvent
<1>2. C(u)!Integrity(L) <=> Integrity(L)
  BY ContractEntry
     DEF C!Integrity, Integrity, C!ReferencesResolve, ReferencesResolve,
         C!CodesUnique, CodesUnique, C!LinesUnique, LinesUnique, C!EntriesValid,
         EntriesValid, C!Present, Present, C!AccountsOf, AccountsOf, C!LineIdsOf,
         LineIdsOf
<1> QED
  BY <1>1, <1>2 DEF WholeLedgers

LEMMA ContractSteps ==
    ASSUME NEW u \in Units, NEW L, NEW M
    PROVE  /\ C(u)!KeepsHistory(L, M) <=> KeepsHistory(L, M)
           /\ C(u)!AuditedStep(L, M) <=> AuditedStep(L, M)
BY DEF C!KeepsHistory, KeepsHistory, C!AuditedStep, AuditedStep, C!NewEvents,
       NewEvents, C!Vanished, Vanished, C!Present, Present, C!AccountDeleted,
       AccountDeleted, C!JournalDeleted, JournalDeleted

ServicesOnly == \A c \in Requests : c.service

(* What a lone unit reads is whole, and would be committed as it is.       *)
LEMMA LoneLedger ==
    ASSUME UnitInv, AloneInv, NEW u \in Units, Alone(u), tx[u] = "open"
    PROVE  Merged(u) = own[u] /\ own[u] \in WholeLedgers /\ Sound(db, {}, Latest(u))
<1>1. Alive(u) /\ stale[u] = {}
  BY DEF Alive, AloneInv
<1>2. Latest(u) \in Version /\ Sound(db, {}, Latest(u)) /\ db \in WholeLedgers
  BY <1>1, VersionedType DEF UnitInv, SoundInv, Versioned, TypeInv
<1>3. Latest(u).own = own[u] /\ Latest(u).wrote = wrote[u]
  BY DEF Latest
<1> QED
  BY <1>2, <1>3, ReadsWhatItCommits DEF Merged

(* The same of the state a step leads to.                                  *)
LEMMA LoneLedgerAfter ==
    ASSUME UnitInv', AloneInv', NEW u \in Units, Alone(u)', tx'[u] = "open"
    PROVE  own'[u] \in WholeLedgers
<1>1. Alive(u)' /\ stale'[u] = {}
  BY DEF Alive, AloneInv
<1>2. Latest(u)' \in Versioned(u)' /\ Latest(u)'.own = own'[u]
  BY DEF Versioned, Latest
<1>3. Latest(u)' \in Version
  BY DEF UnitInv, TypeInv, Latest, Version
<1>4. Sound(db', {}, Latest(u)') /\ db' \in WholeLedgers
  BY <1>1, <1>2 DEF UnitInv, SoundInv, TypeInv
<1> QED
  BY <1>2, <1>3, <1>4, ReadsWhatItCommits

(* Rows written, those of entries and events for the first time.           *)
LEMMA WrittenOver ==
    ASSUME NEW L \in Ledgers, NEW M \in Ledgers, NEW rows \in SUBSET Rows,
           \A row \in Rows \ rows : Cell(M, row) = Cell(L, row),
           \A row \in rows : row[1] \in {"entries", "audit"} => Cell(L, row) = Absent
    PROVE  KeepsHistory(L, M) /\ Overlay(L, M, rows) = M
<1>1. \A e \in EntryIds : L.entries[e] # Absent => M.entries[e] = L.entries[e]
  <2> SUFFICES ASSUME NEW e \in EntryIds, L.entries[e] # Absent
               PROVE  M.entries[e] = L.entries[e]
    OBVIOUS
  <2>1. <<"entries", e>> \in Rows
    BY DEF Rows
  <2> QED
    BY <2>1 DEF Cell
<1>2. \A ev \in EventIds : L.audit[ev] # Absent => M.audit[ev] = L.audit[ev]
  <2> SUFFICES ASSUME NEW ev \in EventIds, L.audit[ev] # Absent
               PROVE  M.audit[ev] = L.audit[ev]
    OBVIOUS
  <2>1. <<"audit", ev>> \in Rows
    BY DEF Rows
  <2> QED
    BY <2>1 DEF Cell
<1>3. KeepsHistory(L, M)
  BY <1>1, <1>2 DEF KeepsHistory, Present, Ledgers
<1>4. Overlay(L, M, rows) \in Ledgers
  BY OverlayFields
<1>5. \A row \in Rows : Cell(Overlay(L, M, rows), row) = Cell(M, row)
  BY OverlayCell
<1>6. Overlay(L, M, rows) = M
  BY <1>4, <1>5, SameCells
<1> QED
  BY <1>3, <1>6

(* A statement that writes is Work, if it leaves history and records its   *)
(* deletion.                                                               *)
LEMMA WriteWorks ==
    ASSUME UnitInv, UnitInv', AloneInv', NEW u \in Units, Alone(u)', InCall(u),
           UNCHANGED <<db, tx, sent, unsent>>,
           KeepsHistory(own[u], own'[u]),
           ServicesOnly => AuditedStep(own[u], own'[u])
    PROVE  C(u)!ContractNext
<1>1. tx[u] = "open" /\ unsent[u] = 0
  BY CallFacts
<1>2. own'[u] \in WholeLedgers
  BY <1>1, LoneLedgerAfter
<1>3. BlockLedgers(u)' = BlockLedgers(u)
  BY <1>1, BlocksKept DEF UnitInv
<1>4. Current(u) = own[u] /\ Current(u)' = own'[u]
  BY <1>1 DEF Current
<1>5. /\ own'[u] \in C(u)!Ledgers /\ C(u)!Integrity(own'[u])
      /\ C(u)!KeepsHistory(own[u], own'[u])
      /\ ServicesOnly => C(u)!AuditedStep(own[u], own'[u])
  BY <1>2, ContractLedgers, ContractSteps
<1>6. C(u)!Work
  BY <1>1, <1>3, <1>4, <1>5 DEF C!Work, BlockLedgers, ServicesOnly
<1> QED
  BY <1>6 DEF C!ContractNext

LEMMA SaveWorks ==
    ASSUME UnitInv, UnitInv', AloneInv, AloneInv', NEW u \in Units, Alone(u), Alone(u)',
           NEW op \in {"create", "update"}, Save(u, op)
    PROVE  C(u)!ContractNext
<1> DEFINE c == Asked(u)
           row == Row(c)
<1>1. /\ Ready(u) /\ InCall(u) /\ c.op = op /\ ~KeyTaken(u)
      /\ own' = [own EXCEPT ![u] = Put(own[u], c.table, c.id, Candidate(u))]
      /\ UNCHANGED <<db, tx, sent, unsent>>
  BY DEF Save, Write, Ready
<1>2. c \in Requests /\ own[u] \in Ledgers /\ tx[u] = "open"
  BY <1>1, CallFacts DEF UnitInv, TypeInv
<1>3. /\ row \in Rows /\ row[1] = c.table /\ row[2] = c.id
      /\ c.table \in {"entries", "audit"} => c.op = "create"
      /\ Put(own[u], c.table, c.id, Candidate(u)) \in Ledgers
  BY <1>1, CandidateFits DEF Row
<1>4. c.op = "create" => Cell(own[u], row) = Absent
  BY <1>1, <1>2, KeyFree, LoneLedger
<1>5. own'[u] = Put(own[u], row[1], row[2], Candidate(u)) /\ own'[u] \in Ledgers
  BY <1>1, <1>3 DEF UnitInv, TypeInv
<1> HIDE DEF row
<1>6. \A other \in Rows : Cell(own'[u], other) =
          IF other = row THEN Candidate(u) ELSE Cell(own[u], other)
  BY <1>2, <1>3, <1>5, PutCell
<1>7. KeepsHistory(own[u], own'[u]) /\ Overlay(own[u], own'[u], {row}) = own'[u]
  BY <1>2, <1>3, <1>4, <1>5, <1>6, WrittenOver
<1>8. ASSUME ServicesOnly
      PROVE  AuditedStep(own[u], own'[u])
  <2>1. row[1] # "audit"
    <3>1. c.op = "create" /\ c.table = "audit" => ~c.service
      BY <1>2, RequestsAssumption DEF Request
    <3> QED
      BY <1>2, <1>3, <1>8, <3>1 DEF ServicesOnly
  <2>2. Candidate(u) # Absent
    <3>1. c.table \in {"accounts", "journals", "entries", "audit"}
      BY <1>3, RowOf
    <3> QED
      BY <1>1, <3>1, CandidateFits, AbsentAssumption
  <2>3. Cell(own'[u], row) # Absent
    BY <1>3, <1>6, <2>2
  <2>4. AuditedStep(own[u], Overlay(own[u], own'[u], {row}))
    BY <1>2, <1>3, <1>5, <2>1, <2>3, AddedAudited
  <2> QED
    BY <1>7, <2>4
<1> QED
  BY <1>1, <1>7, <1>8, WriteWorks

LEMMA DeleteWorks ==
    ASSUME UnitInv, UnitInv', AloneInv, AloneInv', NEW u \in Units, Alone(u), Alone(u)',
           Delete(u)
    PROVE  C(u)!ContractNext
<1> DEFINE c == Asked(u)
           row == Row(c)
           L == Put(own[u], c.table, c.id, Absent)
<1>1. /\ Ready(u) /\ InCall(u) /\ c.op = "delete" /\ c \in Requests /\ ~Restricted(u)
      /\ UNCHANGED <<db, tx, sent, unsent>>
  BY ReadyFacts DEF Delete, Write, Ready
<1>2. /\ c.table \in {"accounts", "journals"} /\ row \in Rows
      /\ row = <<c.table, c.id>> /\ row[1] = c.table /\ row[2] = c.id
      /\ Cell(own[u], row) # Absent
  BY <1>1, RequestFacts, RemovalSound DEF Row
<1>3. /\ own[u] \in Ledgers /\ own'[u] \in Ledgers /\ tx[u] = "open"
      /\ Sound(db, {}, Latest(u)) /\ Latest(u).own = own[u] /\ Latest(u).wrote = wrote[u]
  BY <1>1, CallFacts, LoneLedger DEF UnitInv, TypeInv, Latest
<1> HIDE DEF c, row, L
<1>4. L = Put(own[u], row[1], row[2], Absent)
  BY <1>2 DEF L
<1>5. L \in Ledgers
  BY <1>2, <1>3, <1>4 DEF Put, Rows, Ledgers, OrAbsent
<1>6. \A other \in Rows : Cell(L, other) = IF other = row THEN Absent ELSE Cell(own[u], other)
  BY <1>2, <1>3, <1>4, PutCell
<1>7. CASE ~c.service /\ Write(u, {row}, L)
  <2>1. own'[u] = L
    BY <1>7 DEF Write, UnitInv, TypeInv
  <2>2. KeepsHistory(own[u], own'[u])
    <3>1. \A other \in {row} : other[1] \in {"entries", "audit"} => Cell(own[u], other) = Absent
      BY <1>2
    <3>2. \A other \in Rows \ {row} : Cell(own'[u], other) = Cell(own[u], other)
      BY <1>6, <2>1
    <3>3. {row} \in SUBSET Rows
      BY <1>2
    <3> QED
      BY <1>3, <3>1, <3>2, <3>3, WrittenOver
  <2>3. ~ServicesOnly
    BY <1>1, <1>7 DEF ServicesOnly, c
  <2> QED
    BY <1>1, <2>2, <2>3, WriteWorks
<1>8. ASSUME NEW ev \in EventIds, Fresh(ev),
             Write(u, {row, <<"audit", ev>>}, PutEvent(L, ev, Deleted(own[u], c)))
      PROVE  C(u)!ContractNext
  <2> DEFINE logged == <<"audit", ev>>
             event == Deleted(own[u], [table |-> row[1], id |-> row[2]])
  <2>1. logged \in Rows /\ logged # row /\ logged[1] = "audit" /\ logged[2] = ev
    BY <1>2 DEF Rows
  <2>2. event = Deleted(own[u], c)
    BY <1>2 DEF Deleted
  <2>3. own'[u] = Put(L, logged[1], logged[2], event)
    BY <1>8, <2>1, <2>2, PutByTable DEF Write, UnitInv, TypeInv
  <2>4. Cell(own[u], logged) = Absent
    <3>1. logged \notin wrote[u] /\ Cell(db, logged) = Absent
      BY <1>8 DEF Fresh, Cell
    <3> QED
      BY <1>3, <2>1, <3>1 DEF Sound, ReadsCurrent
  <2> HIDE DEF logged, event
  <2>5. \A other \in Rows : Cell(own'[u], other) = IF other = logged THEN event ELSE Cell(L, other)
    BY <1>5, <2>1, <2>3, PutCell
  <2>6. \A other \in Rows \ {row, logged} : Cell(own'[u], other) = Cell(own[u], other)
    BY <1>6, <2>5
  <2>7. \A other \in {row, logged} :
            other[1] \in {"entries", "audit"} => Cell(own[u], other) = Absent
    BY <1>2, <2>4
  <2>8. /\ KeepsHistory(own[u], own'[u])
        /\ Overlay(own[u], own'[u], {row, logged}) = own'[u]
    BY <1>2, <1>3, <2>1, <2>6, <2>7, WrittenOver
  <2>9. AuditedStep(own[u], own'[u])
    <3>1. Cell(own'[u], row) = Absent
      BY <1>2, <1>6, <2>1, <2>5
    <3>2. own'[u].audit[ev] = event /\ own[u].audit[ev] = Absent
      <4>1. Cell(own'[u], logged) = event
        BY <2>1, <2>5
      <4> QED
        BY <2>1, <2>4, <4>1 DEF Cell
    <3>3. {row, <<"audit", ev>>} \in SUBSET Rows /\ {row, <<"audit", ev>>} = {row, logged}
      BY <1>2, <2>1 DEF logged
    <3>4. AuditedStep(own[u], Overlay(own[u], own'[u], {row, logged}))
      BY <1>2, <1>3, <3>1, <3>2, <3>3, RemovedAudited DEF event
    <3> QED
      BY <2>8, <3>4
  <2> QED
    BY <1>1, <2>8, <2>9, WriteWorks
<1> QED
  BY <1>7, <1>8 DEF Delete, c, row, L

(* The unit enters.                                                        *)
LEMMA EnterBegins ==
    ASSUME UnitInv, UnitInv', AloneInv, NEW u \in Units, Enter(u)
    PROVE  C(u)!ContractNext
<1>1. /\ tx[u] = "new" /\ tx'[u] = "entered" /\ db' = db
      /\ sent'[u] = sent[u] /\ unsent'[u] = unsent[u]
  BY DEF Enter, UnitInv, TypeInv
<1>2. unsent[u] = 0
  BY <1>1 DEF AloneInv
<1>3. BlockLedgers(u)' = BlockLedgers(u)
  BY <1>1, <1>2, BlocksKept DEF UnitInv
<1>4. Current(u) = db /\ Current(u)' = db
  BY <1>1 DEF Current
<1>5. C(u)!Begin
  BY <1>1, <1>3, <1>4 DEF C!Begin, BlockLedgers
<1> QED
  BY <1>5 DEF C!ContractNext

(* Its first statement of a call, with which savepoints are sent, does not *)
(* show: they have the ledger their blocks began with.                     *)
LEMMA StartCallStutters ==
    ASSUME UnitInv, UnitInv', NEW u \in Units, StartCall(u)
    PROVE  UNCHANGED C(u)!contractVars
<1> TypeInv /\ TypeInv'
  BY DEF UnitInv
<1> DEFINE L == IF tx[u] = "entered" THEN db ELSE own[u]
           saved == [own |-> L, wrote |-> wrote[u], holds |-> holds[u]]
<1>1. /\ tx[u] \in {"entered", "open"} /\ tx'[u] = "open" /\ db' = db
      /\ sent'[u] = sent[u] \o [n \in 1..unsent[u] |-> saved]
      /\ unsent'[u] = 0 /\ own'[u] = L
  BY DEF StartCall, TypeInv
<1>2. saved \in Version /\ sent[u] \in Seq(Version) /\ unsent[u] \in Nat
  BY DEF TypeInv, Version, WholeLedgers
<1>3. Current(u) = L /\ Current(u)' = L /\ saved.own = L
  BY <1>1 DEF Current
<1> HIDE DEF L, saved
<1>4. Followed(sent[u], saved, unsent[u], sent'[u])
  BY <1>1, <1>2, SentBefore
<1> DEFINE s == BlockLedgers(u)
           t == BlockLedgers(u)'
<1>5. Len(sent[u]) \in Nat /\ Blocks(u) = Len(sent[u]) + unsent[u] /\ Blocks(u)' = Blocks(u)
  BY <1>1, <1>2, <1>4, BlockFacts, BlockFactsAfter DEF Followed
<1>6. s \in Seq(Ledgers) /\ t \in Seq(Ledgers) /\ Len(s) = Blocks(u) /\ Len(t) = Blocks(u)
  BY <1>5, BlockFacts, BlockFactsAfter
<1>7. ASSUME NEW n \in 1..Blocks(u)
      PROVE  t[n] = s[n]
  <2>1. /\ s[n] = IF n > Len(sent[u]) THEN Current(u) ELSE sent[u][n].own
        /\ t[n] = IF n > Len(sent'[u]) THEN Current(u)' ELSE sent'[u][n].own
    BY <1>5, BlockFacts, BlockFactsAfter
  <2>2. Len(sent'[u]) = Blocks(u)
    BY <1>4, <1>5 DEF Followed
  <2>3. CASE n > Len(sent[u])
    BY <1>3, <1>4, <1>5, <2>1, <2>2, <2>3 DEF Followed
  <2>4. CASE ~(n > Len(sent[u]))
    BY <1>4, <1>5, <2>1, <2>2, <2>4 DEF Followed
  <2> QED
    BY <2>3, <2>4
<1> HIDE DEF s, t
<1>8. t = s
  BY <1>6, <1>7, SeqEqual
<1>9. (Opened(u)' <=> Opened(u)) /\ Current(u)' = Current(u)
  BY <1>1, <1>3 DEF Opened
<1> QED
  BY <1>1, <1>8, <1>9, AloneStutter DEF s, t

(* Nor do statements that write nothing.                                   *)
LEMMA QuietStutters ==
    ASSUME UnitInv, UnitInv', NEW u \in Units, LockRow(u) \/ Read(u) \/ Fail(u)
    PROVE  UNCHANGED C(u)!contractVars
<1>1. UNCHANGED <<db, tx, own, sent, unsent>>
  BY DEF LockRow, Read, Fail
<1>2. (Opened(u)' <=> Opened(u)) /\ Current(u)' = Current(u)
  BY <1>1 DEF Opened, Current
<1>3. BlockLedgers(u)' = BlockLedgers(u)
  BY <1>1, <1>2, BlocksKept DEF UnitInv
<1> QED
  BY <1>1, <1>2, <1>3, AloneStutter

(* A block begins with the ledger as it is.                                *)
LEMMA AtomicBegins ==
    ASSUME UnitInv, UnitInv', AloneInv, NEW u \in Units, Alone(u), AtomicBegin(u)
    PROVE  C(u)!ContractNext
<1> TypeInv /\ TypeInv'
  BY DEF UnitInv
<1>1. /\ tx[u] \in {"entered", "open"} /\ UNCHANGED <<db, tx, own, sent>>
      /\ unsent'[u] = unsent[u] + 1
  BY DEF AtomicBegin, AloneInv, TypeInv
<1>2. Current(u)' = Current(u) /\ Current(u) \in Ledgers
  BY <1>1, BlockFacts DEF Current
<1> DEFINE s == BlockLedgers(u)
           t == BlockLedgers(u)'
           more == Append(s, Current(u))
<1>3. /\ Len(sent[u]) \in Nat /\ unsent[u] \in Nat /\ Blocks(u) = Len(sent[u]) + unsent[u]
      /\ Blocks(u)' = Blocks(u) + 1
  <2>1. Len(sent[u]) \in Nat /\ unsent[u] \in Nat /\ Blocks(u) = Len(sent[u]) + unsent[u]
    BY BlockFacts
  <2>2. Blocks(u)' = Len(sent[u]) + (unsent[u] + 1)
    BY <1>1 DEF Blocks
  <2> QED
    BY <2>1, <2>2
<1>4. /\ s \in Seq(Ledgers) /\ t \in Seq(Ledgers)
      /\ Len(s) = Blocks(u) /\ Len(t) = Blocks(u) + 1
  BY <1>3, BlockFacts, BlockFactsAfter
<1>5. \A n \in 1..(Blocks(u) + 1) :
          t[n] = IF n > Len(sent[u]) THEN Current(u) ELSE sent[u][n].own
  BY <1>1, <1>2, <1>3, BlockFactsAfter
<1>6. \A n \in 1..Blocks(u) :
          s[n] = IF n > Len(sent[u]) THEN Current(u) ELSE sent[u][n].own
  BY BlockFacts
<1> HIDE DEF s, t
<1>7. /\ more \in Seq(Ledgers) /\ Len(more) = Blocks(u) + 1
      /\ \A n \in 1..Blocks(u) : more[n] = s[n]
      /\ more[Blocks(u) + 1] = Current(u)
  BY <1>2, <1>4, AppendProperties
<1> HIDE DEF more
<1>8. ASSUME NEW n \in 1..(Blocks(u) + 1)
      PROVE  t[n] = more[n]
  <2>1. CASE n = Blocks(u) + 1
    BY <1>3, <1>5, <1>7, <2>1
  <2>2. CASE n # Blocks(u) + 1
    <3>1. n \in 1..Blocks(u)
      BY <1>3, <2>2
    <3> QED
      BY <1>5, <1>6, <1>7, <3>1
  <2> QED
    BY <2>1, <2>2
<1>9. t = more
  BY <1>4, <1>7, <1>8, SeqEqual
<1>10. C(u)!AtomicBegin
  BY <1>1, <1>2, <1>9 DEF C!AtomicBegin, s, t, more, BlockLedgers
<1> QED
  BY <1>10 DEF C!ContractNext

(* The innermost block ends: the others keep the ledgers they began with.  *)
LEMMA InnermostEnds ==
    ASSUME UnitInv, UnitInv', NEW u \in Units, CloseUnsent(u) \/ CloseSent(u),
           CloseUnsent(u) => Current(u)' = Current(u)
    PROVE  /\ BlockLedgers(u) # <<>>
           /\ BlockLedgers(u)' = SubSeq(BlockLedgers(u), 1, Len(BlockLedgers(u)) - 1)
           /\ BlockLedgers(u)[Len(BlockLedgers(u))] =
                  IF unsent[u] > 0 THEN Current(u) ELSE Saved(u).own
<1> TypeInv /\ TypeInv'
  BY DEF UnitInv
<1> DEFINE s == BlockLedgers(u)
           t == BlockLedgers(u)'
           k == Blocks(u)
           rest == SubSeq(s, 1, k - 1)
<1>1. /\ Len(sent[u]) \in Nat /\ unsent[u] \in Nat /\ k = Len(sent[u]) + unsent[u]
      /\ s \in Seq(Ledgers) /\ t \in Seq(Ledgers) /\ Len(s) = k /\ Len(t) = Blocks(u)'
      /\ Blocks(u)' = Len(sent'[u]) + unsent'[u] /\ sent[u] \in Seq(Version)
  BY BlockFacts, BlockFactsAfter
<1>2. \A n \in 1..k : s[n] = IF n > Len(sent[u]) THEN Current(u) ELSE sent[u][n].own
  BY BlockFacts
<1>3. \A n \in 1..Blocks(u)' :
          t[n] = IF n > Len(sent'[u]) THEN Current(u)' ELSE sent'[u][n].own
  BY BlockFactsAfter
<1> HIDE DEF s, t, k
<1>4. CASE CloseUnsent(u)
  <2>1. sent' = sent /\ unsent[u] > 0 /\ unsent'[u] = unsent[u] - 1
    BY <1>4 DEF CloseUnsent, TypeInv
  <2>2. k >= 1 /\ Len(t) = k - 1
    BY <1>1, <2>1
  <2>3. \A n \in 1..(k - 1) : t[n] = s[n]
    <3>1. Current(u)' = Current(u) /\ Len(sent'[u]) = Len(sent[u]) /\ Blocks(u)' = k - 1
      BY <1>1, <1>4, <2>1, <2>2
    <3>2. \A n \in 1..(k - 1) :
              t[n] = IF n > Len(sent[u]) THEN Current(u) ELSE sent[u][n].own
      BY <1>3, <2>1, <3>1
    <3>3. \A n \in 1..(k - 1) : n \in 1..k
      BY <1>1, <2>2
    <3> QED
      BY <1>2, <3>2, <3>3
  <2>4. s[k] = Current(u)
    BY <1>1, <1>2, <2>1
  <2>5. rest \in Seq(Ledgers) /\ Len(rest) = k - 1 /\ \A n \in 1..(k - 1) : rest[n] = s[n]
    BY <1>1, <2>2
  <2> HIDE DEF rest
  <2>6. t = rest
    BY <1>1, <2>2, <2>3, <2>5, SeqEqual
  <2>7. s # <<>>
    BY <1>1, <2>2
  <2> QED
    BY <1>1, <2>1, <2>4, <2>6, <2>7 DEF s, t, k, rest
<1>5. CASE CloseSent(u)
  <2>1. unsent[u] = 0 /\ unsent'[u] = 0 /\ sent[u] # <<>> /\ sent'[u] = Front(sent[u])
    BY <1>5 DEF CloseSent, TypeInv
  <2>2. /\ Len(sent'[u]) = Len(sent[u]) - 1 /\ Len(sent[u]) \in DOMAIN sent[u]
        /\ DOMAIN sent[u] = 1..Len(sent[u]) /\ DOMAIN sent'[u] = 1..(Len(sent[u]) - 1)
        /\ \A n \in DOMAIN sent'[u] : sent'[u][n] = sent[u][n]
        /\ Saved(u) = sent[u][Len(sent[u])]
    <3>1. sent'[u] \in Seq(Version)
      BY DEF TypeInv
    <3> QED
      BY <1>1, <2>1, <3>1, SavepointFacts, LenProperties DEF Saved
  <2>3. k >= 1 /\ Len(t) = k - 1 /\ k = Len(sent[u])
    BY <1>1, <2>1, <2>2
  <2>4. \A n \in 1..(k - 1) : t[n] = s[n]
    BY <1>1, <1>2, <1>3, <2>1, <2>2, <2>3, SMTT(30)
  <2>5. s[k] = Saved(u).own
    BY <1>1, <1>2, <2>2, <2>3
  <2>6. rest \in Seq(Ledgers) /\ Len(rest) = k - 1 /\ \A n \in 1..(k - 1) : rest[n] = s[n]
    BY <1>1, <2>3
  <2> HIDE DEF rest
  <2>7. t = rest
    BY <1>1, <2>3, <2>4, <2>6, SeqEqual
  <2>8. s # <<>>
    BY <1>1, <2>3
  <2> QED
    BY <1>1, <2>1, <2>5, <2>7, <2>8 DEF s, t, k, rest
<1> QED
  BY <1>4, <1>5

LEMMA BlockEnds ==
    ASSUME UnitInv, UnitInv', AloneInv, NEW u \in Units, Alone(u), AtomicEnd(u) \/ AtomicFail(u)
    PROVE  C(u)!ContractNext
<1> TypeInv /\ LocalInv(u)
  BY DEF UnitInv
<1>1. CloseUnsent(u) \/ CloseSent(u)
  BY DEF AtomicEnd, AtomicFail
<1>2. tx[u] \in {"entered", "open"}
  <2>1. unsent[u] > 0 \/ sent[u] # <<>>
    BY <1>1 DEF CloseUnsent, CloseSent
  <2>2. tx[u] \notin {"entered", "open", "aborted"} => unsent[u] = 0 /\ sent[u] = <<>>
    BY DEF AloneInv, LocalInv, StageSound
  <2>3. tx[u] # "aborted"
    BY DEF AloneInv
  <2> QED
    BY <2>1, <2>2, <2>3
<1>3. ~(CloseUnsent(u) /\ CloseSent(u))
  BY DEF CloseUnsent, CloseSent
<1>4. CASE AtomicEnd(u)
  <2>1. UNCHANGED <<db, tx, own>>
    BY <1>4 DEF AtomicEnd
  <2>2. Current(u)' = Current(u)
    BY <2>1 DEF Current
  <2>3. /\ BlockLedgers(u) # <<>>
        /\ BlockLedgers(u)' = SubSeq(BlockLedgers(u), 1, Len(BlockLedgers(u)) - 1)
    BY <1>1, <2>2, InnermostEnds
  <2>4. C(u)!AtomicEnd
    BY <1>2, <2>1, <2>2, <2>3 DEF C!AtomicEnd, BlockLedgers
  <2> QED
    BY <2>4 DEF C!ContractNext
<1>5. CASE AtomicFail(u)
  <2>1. db' = db
    BY <1>5 DEF AtomicFail
  <2>2. CASE CloseUnsent(u)
    <3>1. UNCHANGED <<tx, own>> /\ unsent[u] > 0
      BY <1>3, <1>5, <2>2 DEF AtomicFail, CloseUnsent
    <3>2. Current(u)' = Current(u)
      BY <2>1, <3>1 DEF Current
    <3>3. /\ BlockLedgers(u) # <<>>
          /\ BlockLedgers(u)' = SubSeq(BlockLedgers(u), 1, Len(BlockLedgers(u)) - 1)
          /\ BlockLedgers(u)[Len(BlockLedgers(u))] = Current(u)
      BY <2>2, <3>1, <3>2, InnermostEnds
    <3>4. C(u)!AtomicFail
      BY <1>2, <2>1, <3>1, <3>2, <3>3 DEF C!AtomicFail, BlockLedgers
    <3> QED
      BY <3>4 DEF C!ContractNext
  <2>3. CASE CloseSent(u)
    <3>1. unsent[u] = 0 /\ tx'[u] = "open" /\ own'[u] = Saved(u).own
      BY <1>3, <1>5, <2>3 DEF AtomicFail, CloseSent, Restore, TypeInv
    <3>2. Current(u)' = Saved(u).own
      BY <3>1 DEF Current
    <3>3. /\ BlockLedgers(u) # <<>>
          /\ BlockLedgers(u)' = SubSeq(BlockLedgers(u), 1, Len(BlockLedgers(u)) - 1)
          /\ BlockLedgers(u)[Len(BlockLedgers(u))] = Saved(u).own
      BY <1>3, <2>3, <3>1, InnermostEnds
    <3>4. C(u)!AtomicFail
      BY <1>2, <2>1, <3>1, <3>2, <3>3 DEF C!AtomicFail, BlockLedgers
    <3> QED
      BY <3>4 DEF C!ContractNext
  <2> QED
    BY <1>1, <2>2, <2>3
<1> QED
  BY <1>4, <1>5

(* Ends: a commit, or a transaction given up.  A connection lost before    *)
(* has given it up already.                                                *)
LEMMA LostStutters ==
    ASSUME UnitInv, UnitInv', AloneInv, NEW u \in Units, ~Opened(u), ~Opened(u)', db' = db,
           tx[u] # "aborted", sent'[u] = <<>>, unsent'[u] = 0
    PROVE  UNCHANGED C(u)!contractVars
<1>1. sent[u] = <<>> /\ unsent[u] = 0
  BY DEF AloneInv, UnitInv, LocalInv, StageSound, Opened
<1>2. Current(u) = db /\ Current(u)' = db
  BY DEF Current, Opened
<1>3. BlockLedgers(u)' = BlockLedgers(u)
  BY <1>1, BlocksKept DEF UnitInv
<1> QED
  BY <1>2, <1>3, AloneStutter

LEMMA EndKeepsContract ==
    ASSUME UnitInv, UnitInv', AloneInv, NEW u \in Units, Alone(u), Disconnect(u) \/ End(u)
    PROVE  C(u)!ContractNext \/ UNCHANGED C(u)!contractVars
<1> TypeInv /\ tx[u] # "aborted"
  BY DEF UnitInv, AloneInv
<1>1. ~Opened(u)' /\ sent'[u] = <<>> /\ unsent'[u] = 0
  BY DEF Disconnect, End, Commit, CommitFails, CommitAborted, Leave, Finish, TypeInv, Opened
<1>2. db' = db \/ (Opened(u) /\ db' = Merged(u))
  BY DEF Disconnect, End, Commit, CommitFails, CommitAborted, Leave, Publish, Drop, Opened
<1>3. CASE Opened(u) /\ db' = Merged(u)
  BY <1>1, <1>3, AloneCommits
<1>4. CASE Opened(u) /\ db' = db
  BY <1>1, <1>4, AloneAbandons
<1>5. CASE ~Opened(u) /\ db' = db
  BY <1>1, <1>5, LostStutters
<1> QED
  BY <1>2, <1>3, <1>4, <1>5

\* What ContractKeptAlone says of the steps of one unit.
KeepsContract(u) ==
    Alone(u)' => C(u)!ContractNext \/ UNCHANGED C(u)!contractVars

LEMMA LoneStep ==
    ASSUME UnitInv, UnitInv', AloneInv, AloneInv', NEW u \in Units, StepOf(u), Alone(u)'
    PROVE  C(u)!ContractNext \/ UNCHANGED C(u)!contractVars
<1>1. Alone(u) /\ ~Abort(u)
  BY AloneStepper, AloneNotAborted
<1>2. CASE Create(u) \/ Update(u)
  BY <1>1, <1>2, SaveWorks DEF Create, Update
<1>3. CASE CallStep(u)
  BY <1>1, <1>2, <1>3, DeleteWorks, QuietStutters DEF CallStep
<1> QED
  BY <1>1, <1>3, EnterBegins, StartCallStutters, AtomicBegins, BlockEnds, EndKeepsContract
     DEF StepOf, AtomicStep

(* A unit keeps the transaction contract while no other has entered, with  *)
(* savepoints sent late, lost connections and calls that fail: its blocks  *)
(* leave no trace when they fail, and its commit publishes all or nothing. *)
THEOREM LoneUnitsKeepContract == Spec => ContractKeptAlone
<1>1. ASSUME UnitInv, UnitInv', AloneInv, AloneInv', Next, NEW u \in Units
      PROVE  KeepsContract(u)
  <2> SUFFICES ASSUME Alone(u)'
               PROVE  C(u)!ContractNext \/ UNCHANGED C(u)!contractVars
    BY DEF KeepsContract
  <2>1. PICK v \in Units : StepOf(v)
    BY <1>1 DEF Next, StepOf
  <2>2. u = v
    BY <1>1, <2>1, AloneStepper
  <2> QED
    BY <1>1, <2>1, <2>2, LoneStep
<1>2. UnitInv /\ UnitInv' /\ AloneInv /\ AloneInv' /\ [Next]_vars =>
          [\A u \in Units : KeepsContract(u)]_vars
  BY <1>1
<1>3. Spec => [][\A u \in Units : KeepsContract(u)]_vars
  BY <1>2, AloneInvAlways, PTL DEF Spec
<1> QED
  BY <1>3 DEF ContractKeptAlone, KeepsContract
=============================================================================
