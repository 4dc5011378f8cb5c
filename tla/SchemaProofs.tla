------------------------------ MODULE SchemaProofs ------------------------------
(***************************************************************************)
(* The SQL schema.  Any number of processes that upgrade and downgrade one *)
(* database leave it whole after every step, and no statement of theirs    *)
(* breaks a foreign key (Part 1).  A record that the domain models let     *)
(* through is stored and read as it was, and a read of any row raises or   *)
(* returns a valid record, whatever rows a program writes (Parts 2 to 12). *)
(***************************************************************************)
EXTENDS Migrations, SchemaRows, FiniteSetTheorems, SequenceTheorems,
        WellFoundedInduction, TLAPS

-----------------------------------------------------------------------------
(* Part 1: migrations.                                                     *)
(*                                                                         *)
(* A transaction has sent a beginning of its plan and has the rest to      *)
(* send.  At most one has sent a statement of the revision: the first      *)
(* statement of another is the same one, and waits, or the opposite one,   *)
(* and is refused by tables that only a commit can change.  So the version *)
(* is still the one the plan was made for when the transaction commits.    *)

CreateVersion == [op |-> "create", table |-> VersionTable]

Names(t) ==
    IF t = "upgrade"
    THEN <<"accounts", "journals", "journal_entries", "journal_lines", "audit_events">>
    ELSE <<"audit_events", "journal_lines", "journal_entries", "journals", "accounts">>

(* The n-th statement of the revision, up or down.                         *)
Step(t, n) ==
    [op |-> IF t = "upgrade" THEN "create" ELSE "drop", table |-> Names(t)[n]]

Statement == [op : {"create", "drop"}, table : AccountingTables \cup {VersionTable}]

(* The statements of the revision that m has sent.                         *)
Revising(m) == {s \in done[m] : s.table # VersionTable}

(* The revision is still to come, if m is to run it.                       *)
NotBegun(m) ==
    /\ Revising(m) = {}
    /\ \/ Len(todo[m]) = 0
       \/ Len(todo[m]) = 1 /\ todo[m][1] = CreateVersion
       \/ /\ Len(todo[m]) = 6 /\ todo[m][1] = CreateVersion
          /\ \A n \in 1..5 : todo[m][n + 1] = Step(task[m], n)

(* k statements of the revision are sent, and the others are to come.      *)
Sent(m, k) ==
    /\ Revising(m) = {Step(task[m], n) : n \in 1..k}
    /\ Len(todo[m]) = 5 - k
    /\ \A n \in 1..(5 - k) : todo[m][n] = Step(task[m], k + n)

FollowsPlan(m) == NotBegun(m) \/ \E k \in 0..5 : Sent(m, k)

Sane ==
    /\ todo \in [Migrators -> Seq(Statement)]
    /\ done \in [Migrators -> SUBSET Statement]
    /\ task \in [Migrators -> {"none", "upgrade", "downgrade", "over"}]
    /\ at_head \in BOOLEAN
    /\ \A m \in Migrators : \A s \in done[m] : s.table = VersionTable => s = CreateVersion

MigrationInv ==
    /\ Sane
    /\ SchemaWhole
    /\ \A m \in Migrators : IF Running(m) THEN FollowsPlan(m)
                            ELSE todo[m] = <<>> /\ done[m] = {}
    /\ \A m, o \in Migrators : Revising(m) # {} /\ Revising(o) # {} => m = o
    /\ \A m \in Migrators : Revising(m) # {} => at_head = (task[m] = "downgrade")

-----------------------------------------------------------------------------
LEMMA StepFacts ==
    ASSUME NEW t \in {"upgrade", "downgrade"}, NEW n \in 1..5
    PROVE  /\ Step(t, n) \in Statement
           /\ Step(t, n).table # VersionTable
           /\ Step(t, n) # CreateVersion
           /\ Step(t, n).op = IF t = "upgrade" THEN "create" ELSE "drop"
           /\ Step(t, n).table = Names(t)[n]
<1>1. Names(t)[n] \in AccountingTables /\ Names(t)[n] # VersionTable
  BY DEF Names, AccountingTables, VersionTable
<1> QED
  BY <1>1 DEF Step, Statement, CreateVersion

(* The plans, statement by statement.                                      *)
LEMMA PlanParts ==
    /\ Each("create", <<VersionTable>>) \in Seq(Statement)
    /\ Len(Each("create", <<VersionTable>>)) = 1
    /\ Each("create", <<VersionTable>>)[1] = CreateVersion
    /\ upgrade \in Seq(Statement) /\ Len(upgrade) = 5
    /\ \A n \in 1..5 : upgrade[n] = Step("upgrade", n)
    /\ downgrade \in Seq(Statement) /\ Len(downgrade) = 5
    /\ \A n \in 1..5 : downgrade[n] = Step("downgrade", n)
<1>1. CreateVersion \in Statement
  BY DEF CreateVersion, Statement
<1>2. Each("create", <<VersionTable>>) = [n \in 1..1 |-> CreateVersion]
  BY DEF Each, CreateVersion
<1>3. upgrade = [n \in 1..5 |-> Step("upgrade", n)]
  BY DEF upgrade, Each, Step, Names
<1>4. downgrade = [n \in 1..5 |-> Step("downgrade", n)]
  BY DEF downgrade, Each, Step, Names
<1>5. /\ Each("create", <<VersionTable>>) \in Seq(Statement)
      /\ Len(Each("create", <<VersionTable>>)) = 1
      /\ Each("create", <<VersionTable>>)[1] = CreateVersion
  <2> DEFINE one == [n \in 1..1 |-> CreateVersion]
  <2>1. one \in Seq(Statement) /\ Len(one) = 1 /\ one[1] = CreateVersion
    BY <1>1
  <2> QED
    BY <1>2, <2>1
<1>6. upgrade \in Seq(Statement) /\ downgrade \in Seq(Statement)
  BY <1>3, <1>4, StepFacts
<1> QED
  BY <1>3, <1>4, <1>5, <1>6, LenProperties

(* What a transaction is to send when it begins.                           *)
LEMMA PlanFollowed ==
    ASSUME NEW t \in {"upgrade", "downgrade"}
    PROVE  /\ Plan(t) \in Seq(Statement)
           /\ \/ Len(Plan(t)) = 0
              \/ Len(Plan(t)) = 1 /\ Plan(t)[1] = CreateVersion
              \/ /\ Len(Plan(t)) = 6 /\ Plan(t)[1] = CreateVersion
                 /\ \A n \in 1..5 : Plan(t)[n + 1] = Step(t, n)
              \/ /\ Len(Plan(t)) = 5
                 /\ \A n \in 1..5 : Plan(t)[n] = Step(t, n)
<1> DEFINE own == IF VersionTable \in tables THEN <<>> ELSE Each("create", <<VersionTable>>)
           revision == CASE t = "upgrade" /\ ~at_head -> upgrade
                         [] t = "downgrade" /\ at_head -> downgrade
                         [] OTHER -> <<>>
<1>1. /\ own \in Seq(Statement)
      /\ \/ Len(own) = 0
         \/ Len(own) = 1 /\ own[1] = CreateVersion
  <2>1. CASE VersionTable \in tables
    BY <2>1, EmptySeq
  <2>2. CASE VersionTable \notin tables
    BY <2>2, PlanParts
  <2> QED
    BY <2>1, <2>2
<1>2. /\ revision \in Seq(Statement)
      /\ \/ Len(revision) = 0
         \/ Len(revision) = 5 /\ \A n \in 1..5 : revision[n] = Step(t, n)
  BY PlanParts, EmptySeq
<1>3. Plan(t) = own \o revision
  BY DEF Plan
<1> HIDE DEF own, revision
<1>4. /\ Plan(t) \in Seq(Statement)
      /\ Len(Plan(t)) = Len(own) + Len(revision)
      /\ \A n \in 1..(Len(own) + Len(revision)) :
            Plan(t)[n] = IF n <= Len(own) THEN own[n] ELSE revision[n - Len(own)]
  BY <1>1, <1>2, <1>3, ConcatProperties
<1>5. CASE Len(own) = 0
  <2>1. \A n \in 1..Len(revision) : Plan(t)[n] = revision[n]
    BY <1>2, <1>4, <1>5, LenProperties
  <2> QED
    BY <2>1, <1>2, <1>4, <1>5
<1>6. CASE Len(own) = 1 /\ own[1] = CreateVersion
  <2>1. Len(revision) \in Nat
    BY <1>2
  <2>2. Plan(t)[1] = CreateVersion
    BY <2>1, <1>4, <1>6
  <2>3. \A n \in 1..Len(revision) : Plan(t)[n + 1] = revision[n]
    BY <2>1, <1>4, <1>6
  <2>4. CASE Len(revision) = 0
    BY <2>2, <2>4, <1>4, <1>6
  <2>5. CASE Len(revision) = 5 /\ \A n \in 1..5 : revision[n] = Step(t, n)
    <3>1. \A n \in 1..5 : Plan(t)[n + 1] = Step(t, n)
      BY <2>3, <2>5
    <3> QED
      BY <2>2, <2>5, <3>1, <1>4, <1>6
  <2> QED
    BY <2>4, <2>5, <1>2
<1> QED
  BY <1>1, <1>5, <1>6

-----------------------------------------------------------------------------
(* The tables, but for Alembic's own, with k statements of t done.         *)
Partial(t, k) ==
    IF t = "upgrade" THEN {Names(t)[n] : n \in 1..k}
    ELSE AccountingTables \ {Names(t)[n] : n \in 1..k}

(* A table is created after, and dropped before, what it refers to.        *)
LEMMA PartialRefers ==
    ASSUME NEW t \in {"upgrade", "downgrade"}, NEW k \in 0..5,
           NEW name \in Partial(t, k)
    PROVE  References(name) \subseteq Partial(t, k)
<1>1. k = 0 \/ k = 1 \/ k = 2 \/ k = 3 \/ k = 4 \/ k = 5
  OBVIOUS
<1>2. CASE t = "upgrade"
  BY <1>1, <1>2 DEF Partial, Names, References
<1>3. CASE t = "downgrade"
  BY <1>1, <1>3 DEF Partial, Names, References, AccountingTables
<1> QED
  BY <1>2, <1>3

LEMMA PartialWhole ==
    ASSUME NEW t \in {"upgrade", "downgrade"}
    PROVE  /\ Partial(t, 0) = IF t = "upgrade" THEN {} ELSE AccountingTables
           /\ Partial(t, 5) = IF t = "upgrade" THEN AccountingTables ELSE {}
BY DEF Partial, Names, AccountingTables

(* What a transaction that has sent some of the revision sees.             *)
LEMMA ViewOfSent ==
    ASSUME MigrationInv, NEW m \in Migrators, Running(m), NEW k \in 1..5, Sent(m, k)
    PROVE  View(m) \ {VersionTable} = Partial(task[m], k)
<1> DEFINE t == task[m]
<1>1. t \in {"upgrade", "downgrade"}
  BY DEF Running
<1>2. Revising(m) # {}
  <2>1. 1 \in 1..k /\ Revising(m) = {Step(task[m], n) : n \in 1..k}
    BY DEF Sent
  <2> QED
    BY <2>1
<1>3. at_head = (t = "downgrade")
  BY <1>2 DEF MigrationInv
<1>4. tables \ {VersionTable} = IF t = "upgrade" THEN {} ELSE AccountingTables
  BY <1>1, <1>3 DEF MigrationInv, SchemaWhole
<1>5. \A s \in done[m] : s = CreateVersion \/ \E n \in 1..k : s = Step(t, n)
  BY DEF MigrationInv, Sane, Sent, Revising
<1>6. \A n \in 1..k : Step(t, n) \in done[m]
  BY DEF Sent, Revising
<1>7. \A n \in 1..k : /\ Step(t, n).op = IF t = "upgrade" THEN "create" ELSE "drop"
                      /\ Step(t, n).table = Names(t)[n]
                      /\ Names(t)[n] # VersionTable
                      /\ Names(t)[n] \in AccountingTables
  <2>1. \A n \in 1..k : n \in 1..5
    OBVIOUS
  <2>2. \A n \in 1..5 : Step(t, n).table # VersionTable /\ Step(t, n) \in Statement
    BY <1>1, StepFacts
  <2>3. \A n \in 1..5 : Step(t, n).table = Names(t)[n]
    BY <1>1, StepFacts
  <2> QED
    BY <2>1, <2>2, <2>3, <1>1, StepFacts DEF Statement
<1> HIDE DEF t
<1>8. CASE t = "upgrade"
  <2>1. Named("drop", m) = {}
    BY <1>5, <1>7, <1>8 DEF Named, CreateVersion
  <2>2. Named("create", m) \ {VersionTable} = {Names(t)[n] : n \in 1..k}
    BY <1>5, <1>6, <1>7, <1>8 DEF Named, CreateVersion
  <2> QED
    BY <2>1, <2>2, <1>4, <1>8 DEF View, Partial, t
<1>9. CASE t = "downgrade"
  <2>1. Named("create", m) \subseteq {VersionTable}
    BY <1>5, <1>7, <1>9 DEF Named, CreateVersion
  <2>2. Named("drop", m) = {Names(t)[n] : n \in 1..k}
    BY <1>5, <1>6, <1>7, <1>9 DEF Named, CreateVersion
  <2>3. VersionTable \notin AccountingTables
    BY DEF VersionTable, AccountingTables
  <2> QED
    BY <2>1, <2>2, <2>3, <1>4, <1>7, <1>9 DEF View, Partial, t
<1> QED
  BY <1>1, <1>8, <1>9

(* What a transaction that has sent none of it sees.                       *)
LEMMA ViewOfNone ==
    ASSUME MigrationInv, NEW m \in Migrators, Revising(m) = {}
    PROVE  View(m) \ {VersionTable} = tables \ {VersionTable}
<1>1. \A s \in done[m] : s = CreateVersion
  BY DEF MigrationInv, Sane, Revising
<1>2. Named("drop", m) = {} /\ Named("create", m) \subseteq {VersionTable}
  BY <1>1 DEF Named, CreateVersion
<1> QED
  BY <1>2 DEF View

LEMMA SchemaRefers ==
    ASSUME MigrationInv
    PROVE  ReferencesExist
<1> SUFFICES ASSUME NEW m \in Migrators, Running(m), NEW name \in View(m)
             PROVE  References(name) \subseteq View(m)
  BY DEF ReferencesExist
<1>1. task[m] \in {"upgrade", "downgrade"}
  BY DEF Running
<1>2. CASE name = VersionTable
  BY <1>2 DEF References, VersionTable
<1>3. CASE name # VersionTable /\ Revising(m) = {}
  <2> DEFINE t == IF at_head THEN "downgrade" ELSE "upgrade"
  <2>1. View(m) \ {VersionTable} = Partial(t, 0)
    BY <1>3, ViewOfNone, PartialWhole DEF MigrationInv, SchemaWhole
  <2>2. t \in {"upgrade", "downgrade"} /\ 0 \in 0..5
    OBVIOUS
  <2> HIDE DEF t
  <2> QED
    BY <2>1, <2>2, <1>3, PartialRefers
<1>4. CASE name # VersionTable /\ Revising(m) # {}
  <2>1. PICK k \in 0..5 : Sent(m, k)
    BY <1>4 DEF MigrationInv, FollowsPlan, NotBegun
  <2>2. k \in 1..5
    BY <2>1, <1>4 DEF Sent
  <2> QED
    BY <2>1, <2>2, <1>1, <1>4, ViewOfSent, PartialRefers
<1> QED
  BY <1>2, <1>3, <1>4

-----------------------------------------------------------------------------
LEMMA MigrationInit == Init => MigrationInv
<1> SUFFICES ASSUME Init
             PROVE  MigrationInv
  OBVIOUS
<1>1. Sane
  BY EmptySeq DEF Init, Sane
<1>2. \A m \in Migrators : ~Running(m) /\ Revising(m) = {}
  BY DEF Init, Running, Revising
<1> QED
  BY <1>1, <1>2 DEF Init, MigrationInv, SchemaWhole

(* The others go on as they were when only m's part of the state changes   *)
(* and the tables of the revision stay.                                    *)
OnlyOf(m) ==
    /\ \A o \in Migrators \ {m} :
          todo'[o] = todo[o] /\ done'[o] = done[o] /\ task'[o] = task[o]
    /\ at_head' = at_head /\ tables' \ {VersionTable} = tables \ {VersionTable}

LEMMA OthersStay ==
    ASSUME MigrationInv, NEW m \in Migrators, OnlyOf(m)
    PROVE  \A o \in Migrators \ {m} :
               /\ Running(o)' <=> Running(o)
               /\ Revising(o)' = Revising(o)
               /\ FollowsPlan(o)' <=> FollowsPlan(o)
<1> SUFFICES ASSUME NEW o \in Migrators \ {m}
             PROVE  /\ Running(o)' <=> Running(o)
                    /\ Revising(o)' = Revising(o)
                    /\ FollowsPlan(o)' <=> FollowsPlan(o)
  OBVIOUS
<1>1. todo'[o] = todo[o] /\ done'[o] = done[o] /\ task'[o] = task[o]
  BY DEF OnlyOf
<1>2. Revising(o)' = Revising(o) /\ (Running(o)' <=> Running(o))
  BY <1>1 DEF Revising, Running
<1>3. NotBegun(o)' <=> NotBegun(o)
  BY <1>1, <1>2 DEF NotBegun
<1>4. \A k \in 0..5 : Sent(o, k)' <=> Sent(o, k)
  BY <1>1, <1>2 DEF Sent
<1> QED
  BY <1>2, <1>3, <1>4 DEF FollowsPlan

(* A step of one transaction keeps the invariant when what it has sent and *)
(* is to send still follow its plan and nothing is committed.              *)
LEMMA OwnStep ==
    ASSUME MigrationInv, NEW m \in Migrators, OnlyOf(m), Sane',
           IF Running(m)' THEN FollowsPlan(m)' ELSE todo'[m] = <<>> /\ done'[m] = {},
           Revising(m)' # {} => /\ \A o \in Migrators \ {m} : Revising(o) = {}
                                /\ at_head = (task'[m] = "downgrade")
    PROVE  MigrationInv'
<1>1. \A o \in Migrators \ {m} :
          /\ Running(o)' <=> Running(o)
          /\ Revising(o)' = Revising(o)
          /\ FollowsPlan(o)' <=> FollowsPlan(o)
          /\ todo'[o] = todo[o] /\ done'[o] = done[o] /\ task'[o] = task[o]
  BY OthersStay DEF OnlyOf
<1>2. SchemaWhole'
  BY DEF MigrationInv, SchemaWhole, OnlyOf
<1>3. \A o \in Migrators : IF Running(o)' THEN FollowsPlan(o)'
                           ELSE todo'[o] = <<>> /\ done'[o] = {}
  BY <1>1 DEF MigrationInv
<1>4. \A n, o \in Migrators : Revising(n)' # {} /\ Revising(o)' # {} => n = o
  BY <1>1 DEF MigrationInv
<1>5. \A o \in Migrators : Revising(o)' # {} => at_head' = (task'[o] = "downgrade")
  BY <1>1 DEF MigrationInv, OnlyOf
<1> QED
  BY <1>2, <1>3, <1>4, <1>5 DEF MigrationInv

LEMMA StartStep ==
    ASSUME MigrationInv, NEW m \in Migrators, Start(m)
    PROVE  MigrationInv'
<1>1. PICK t \in {"upgrade", "downgrade"} :
          /\ task[m] = "none"
          /\ task' = [task EXCEPT ![m] = t]
          /\ todo' = [todo EXCEPT ![m] = Plan(t)]
          /\ UNCHANGED <<dialect, tables, at_head, done>>
  BY DEF Start
<1>2. Sane /\ done[m] = {}
  BY <1>1 DEF MigrationInv, Running
<1>3. task'[m] = t /\ todo'[m] = Plan(t)
  BY <1>1, <1>2 DEF Sane
<1>4. Revising(m)' = {}
  BY <1>1, <1>2 DEF Revising
<1>5. OnlyOf(m)
  BY <1>1, <1>2 DEF OnlyOf, Sane
<1>6. Sane'
  BY <1>1, <1>2, PlanFollowed DEF Sane
<1>7. FollowsPlan(m)'
  <2>1. CASE Len(Plan(t)) = 5 /\ \A n \in 1..5 : Plan(t)[n] = Step(t, n)
    <3>1. Sent(m, 0)'
      BY <1>3, <1>4, <2>1 DEF Sent
    <3> QED
      BY <3>1 DEF FollowsPlan
  <2>2. CASE ~(Len(Plan(t)) = 5)
    BY <1>3, <1>4, <2>2, PlanFollowed DEF NotBegun, FollowsPlan
  <2> QED
    BY <2>1, <2>2, PlanFollowed
<1>8. Running(m)'
  BY <1>3 DEF Running
<1> QED
  BY <1>4, <1>5, <1>6, <1>7, <1>8, OwnStep

(* A transaction ends without a commit.                                    *)
LEMMA EndStep ==
    ASSUME MigrationInv, NEW m \in Migrators, End(m), UNCHANGED <<tables, at_head>>
    PROVE  MigrationInv'
<1>1. Sane
  BY DEF MigrationInv
<1>2. todo'[m] = <<>> /\ done'[m] = {} /\ task'[m] = "over"
  BY <1>1 DEF Sane, End
<1>3. OnlyOf(m)
  BY <1>1 DEF OnlyOf, Sane, End
<1>4. Sane'
  BY <1>1, <1>2, <1>3, EmptySeq DEF Sane, End
<1>5. ~Running(m)' /\ Revising(m)' = {}
  BY <1>2 DEF Running, Revising
<1> QED
  BY <1>2, <1>3, <1>4, <1>5, OwnStep

-----------------------------------------------------------------------------
(* The statement to send next: Alembic's own table before the revision, or *)
(* the next of the revision.                                               *)
LEMMA NextStatement ==
    ASSUME MigrationInv, NEW m \in Migrators, todo[m] # <<>>
    PROVE  /\ Running(m)
           /\ Tail(todo[m]) \in Seq(Statement)
           /\ \/ /\ Asked(m) = CreateVersion /\ Revising(m) = {}
                 /\ \/ Len(Tail(todo[m])) = 0
                    \/ /\ Len(Tail(todo[m])) = 5
                       /\ \A n \in 1..5 : Tail(todo[m])[n] = Step(task[m], n)
              \/ \E k \in 0..4 :
                    /\ Sent(m, k)
                    /\ Asked(m) = Step(task[m], k + 1)
                    /\ Len(Tail(todo[m])) = 5 - (k + 1)
                    /\ \A n \in 1..(5 - (k + 1)) :
                          Tail(todo[m])[n] = Step(task[m], (k + 1) + n)
<1> DEFINE rest == Tail(todo[m])
<1>1. Running(m) /\ FollowsPlan(m)
  BY DEF MigrationInv
<1>2. todo[m] \in Seq(Statement)
  BY DEF MigrationInv, Sane
<1>3. /\ Len(todo[m]) \in Nat /\ Len(todo[m]) # 0
      /\ rest \in Seq(Statement)
      /\ Len(rest) = Len(todo[m]) - 1
      /\ \A n \in 1..Len(rest) : rest[n] = todo[m][n + 1]
  BY <1>2, HeadTailProperties, LenProperties, EmptySeq
<1>4. Asked(m) = todo[m][1]
  BY <1>2 DEF Asked
<1> HIDE DEF rest
<1>5. CASE NotBegun(m)
  BY <1>1, <1>3, <1>4, <1>5 DEF NotBegun, rest
<1>6. ASSUME NEW k \in 0..5, Sent(m, k)
      PROVE  \E j \in 0..4 :
                /\ Sent(m, j)
                /\ Asked(m) = Step(task[m], j + 1)
                /\ Len(rest) = 5 - (j + 1)
                /\ \A n \in 1..(5 - (j + 1)) : rest[n] = Step(task[m], (j + 1) + n)
  <2>1. /\ Len(todo[m]) = 5 - k
        /\ \A n \in 1..(5 - k) : todo[m][n] = Step(task[m], k + n)
    BY <1>6 DEF Sent
  <2>2. k \in 0..4
    BY <1>3, <2>1
  <2>3. Asked(m) = Step(task[m], k + 1)
    BY <1>4, <2>1, <2>2
  <2>4. Len(rest) = 5 - (k + 1)
    BY <1>3, <2>1, <2>2
  <2>5. ASSUME NEW n \in 1..(5 - (k + 1))
        PROVE  rest[n] = Step(task[m], (k + 1) + n)
    <3>1. /\ rest[n] = todo[m][n + 1]
          /\ n + 1 \in 1..(5 - k)
          /\ k + (n + 1) = (k + 1) + n
      BY <1>3, <2>2, <2>4
    <3> QED
      BY <2>1, <3>1
  <2> QED
    BY <1>6, <2>2, <2>3, <2>4, <2>5
<1>7. NotBegun(m) \/ \E k \in 0..5 : Sent(m, k)
  BY <1>1 DEF FollowsPlan
<1> QED
  BY <1>1, <1>3, <1>5, <1>6, <1>7 DEF rest

(* What is left to do once Alembic's table is settled.                     *)
LEMMA VersionSettled ==
    ASSUME MigrationInv, NEW m \in Migrators, OnlyOf(m), Running(m),
           task'[m] = task[m], Revising(m)' = {}, Sane',
           todo'[m] = Tail(todo[m]),
           \/ Len(Tail(todo[m])) = 0
           \/ /\ Len(Tail(todo[m])) = 5
              /\ \A n \in 1..5 : Tail(todo[m])[n] = Step(task[m], n)
    PROVE  MigrationInv'
<1>1. Running(m)'
  BY DEF Running
<1>2. CASE Len(Tail(todo[m])) = 0
  BY <1>1, <1>2, OwnStep DEF FollowsPlan, NotBegun
<1>3. CASE /\ Len(Tail(todo[m])) = 5
           /\ \A n \in 1..5 : Tail(todo[m])[n] = Step(task[m], n)
  <2>1. Sent(m, 0)'
    <3>1. Len(todo'[m]) = 5 - 0
      BY <1>3
    <3>2. ASSUME NEW n \in 1..(5 - 0)
          PROVE  todo'[m][n] = Step(task'[m], 0 + n)
      <4>1. n \in 1..5 /\ 0 + n = n
        OBVIOUS
      <4>2. Tail(todo[m])[n] = Step(task[m], n)
        BY <1>3, <4>1
      <4> QED
        BY <4>1, <4>2
    <3>3. Revising(m)' = {Step(task'[m], n) : n \in 1..0}
      OBVIOUS
    <3> QED
      BY <3>1, <3>2, <3>3 DEF Sent
  <2>2. FollowsPlan(m)'
    BY <2>1 DEF FollowsPlan
  <2> QED
    BY <1>1, <2>2, OwnStep
<1> QED
  BY <1>2, <1>3

LEMMA FoundStep ==
    ASSUME MigrationInv, NEW m \in Migrators, Found(m)
    PROVE  MigrationInv'
<1>1. /\ todo[m] # <<>> /\ Asked(m).table = VersionTable
      /\ todo' = [todo EXCEPT ![m] = Tail(@)]
      /\ UNCHANGED <<dialect, tables, at_head, task, done>>
  BY DEF Found
<1>2. Sane
  BY DEF MigrationInv
<1>3. todo'[m] = Tail(todo[m]) /\ Tail(todo[m]) \in Seq(Statement)
  BY <1>1, <1>2, NextStatement DEF Sane
<1>4. OnlyOf(m) /\ Sane' /\ task'[m] = task[m]
  BY <1>1, <1>2, <1>3 DEF OnlyOf, Sane
<1>5. \A k \in 0..4 : Asked(m) # Step(task[m], k + 1)
  <2> SUFFICES ASSUME NEW k \in 0..4
               PROVE  Asked(m) # Step(task[m], k + 1)
    OBVIOUS
  <2>1. k + 1 \in 1..5 /\ task[m] \in {"upgrade", "downgrade"}
    BY <1>1, NextStatement DEF Running
  <2> QED
    BY <1>1, <2>1, StepFacts
<1>6. /\ Revising(m) = {} /\ Running(m)
      /\ \/ Len(Tail(todo[m])) = 0
         \/ /\ Len(Tail(todo[m])) = 5
            /\ \A n \in 1..5 : Tail(todo[m])[n] = Step(task[m], n)
  BY <1>1, <1>5, NextStatement
<1>7. Revising(m)' = {}
  BY <1>1, <1>6 DEF Revising
<1> QED
  BY <1>3, <1>4, <1>6, <1>7, VersionSettled

(* Who sends the first statement of the revision is the only one to have   *)
(* sent any, and its plan is for the stored version.                       *)
LEMMA BeginsAlone ==
    ASSUME MigrationInv, NEW m \in Migrators, Execute(m), Sent(m, 0),
           Asked(m) = Step(task[m], 1)
    PROVE  /\ at_head = (task[m] = "downgrade")
           /\ \A o \in Migrators \ {m} : Revising(o) = {}
<1>1. task[m] \in {"upgrade", "downgrade"} /\ 1 \in 1..5
  BY NextStatement DEF Execute, Running
<1>2. /\ Asked(m).op = IF task[m] = "upgrade" THEN "create" ELSE "drop"
      /\ Asked(m).table = Names(task[m])[1]
  BY <1>1, StepFacts
<1>3. Names(task[m])[1] \in AccountingTables /\ VersionTable \notin AccountingTables
  BY DEF Names, AccountingTables, VersionTable
<1>4. Asked(m).op = "create" <=> Asked(m).table \notin tables
  BY <1>1, <1>2 DEF Execute, Refused
<1>5. Asked(m).table \in tables <=> at_head
  BY <1>2, <1>3 DEF MigrationInv, SchemaWhole
<1>6. at_head = (task[m] = "downgrade")
  BY <1>1, <1>2, <1>4, <1>5 DEF MigrationInv, Sane
<1>7. ASSUME NEW o \in Migrators \ {m}, Revising(o) # {}
      PROVE  FALSE
  <2>1. at_head = (task[o] = "downgrade") /\ Running(o)
    BY <1>7 DEF MigrationInv, Revising
  <2>2. task[o] = task[m]
    BY <1>1, <1>6, <2>1 DEF Running
  <2>3. PICK k \in 0..5 : Sent(o, k)
    BY <1>7, <2>1 DEF MigrationInv, FollowsPlan, NotBegun
  <2>4. 1 \in 1..k
    BY <1>7, <2>3 DEF Sent
  <2>5. Step(task[m], 1) \in Revising(o)
    BY <2>2, <2>3, <2>4 DEF Sent
  <2> QED
    BY <2>5 DEF Revising, Execute, Waits
<1> QED
  BY <1>6, <1>7

LEMMA ExecuteStep ==
    ASSUME MigrationInv, NEW m \in Migrators, Execute(m)
    PROVE  MigrationInv'
<1>1. /\ todo[m] # <<>>
      /\ done' = [done EXCEPT ![m] = @ \cup {Asked(m)}]
      /\ todo' = [todo EXCEPT ![m] = Tail(@)]
      /\ UNCHANGED <<dialect, tables, at_head, task>>
  BY DEF Execute
<1>2. Sane
  BY DEF MigrationInv
<1>3. /\ Running(m) /\ task[m] \in {"upgrade", "downgrade"}
      /\ Tail(todo[m]) \in Seq(Statement)
  BY <1>1, NextStatement DEF Running
<1>4. /\ todo'[m] = Tail(todo[m]) /\ done'[m] = done[m] \cup {Asked(m)}
      /\ task'[m] = task[m] /\ OnlyOf(m)
  BY <1>1, <1>2 DEF OnlyOf, Sane
<1>5. CASE /\ Asked(m) = CreateVersion /\ Revising(m) = {}
           /\ \/ Len(Tail(todo[m])) = 0
              \/ /\ Len(Tail(todo[m])) = 5
                 /\ \A n \in 1..5 : Tail(todo[m])[n] = Step(task[m], n)
  <2>1. Revising(m)' = {}
    BY <1>4, <1>5 DEF Revising, CreateVersion
  <2>2. CreateVersion \in Statement
    BY DEF CreateVersion, Statement
  <2>3. Sane'
    BY <1>1, <1>2, <1>3, <1>5, <2>2 DEF Sane
  <2> QED
    BY <1>3, <1>4, <1>5, <2>1, <2>3, VersionSettled
<1>6. ASSUME NEW k \in 0..4, Sent(m, k), Asked(m) = Step(task[m], k + 1),
             Len(Tail(todo[m])) = 5 - (k + 1),
             \A n \in 1..(5 - (k + 1)) : Tail(todo[m])[n] = Step(task[m], (k + 1) + n)
      PROVE  MigrationInv'
  <2>1. k + 1 \in 1..5
    OBVIOUS
  <2>2. /\ Asked(m) \in Statement /\ Asked(m).table # VersionTable
    BY <1>3, <1>6, <2>1, StepFacts
  <2>3. Sane'
    BY <1>1, <1>2, <1>3, <2>2 DEF Sane
  <2>4. Revising(m)' = Revising(m) \cup {Asked(m)}
    BY <1>4, <2>2 DEF Revising
  <2>5. Sent(m, k + 1)'
    <3>1. Revising(m)' = {Step(task'[m], n) : n \in 1..(k + 1)}
      <4>1. Revising(m) = {Step(task[m], n) : n \in 1..k}
        BY <1>6 DEF Sent
      <4>2. \A n : n \in 1..(k + 1) <=> n \in 1..k \/ n = k + 1
        OBVIOUS
      <4> QED
        BY <1>4, <1>6, <2>4, <4>1, <4>2
    <3> QED
      BY <1>4, <1>6, <3>1 DEF Sent
  <2>6. FollowsPlan(m)' /\ Running(m)'
    BY <1>3, <1>4, <2>1, <2>5 DEF FollowsPlan, Running
  <2>7. /\ at_head = (task'[m] = "downgrade")
        /\ \A o \in Migrators \ {m} : Revising(o) = {}
    <3>1. CASE k = 0
      BY <1>4, <1>6, <3>1, BeginsAlone
    <3>2. CASE k # 0
      <4>1. 1 \in 1..k /\ Revising(m) = {Step(task[m], n) : n \in 1..k}
        BY <1>6, <3>2 DEF Sent
      <4>2. Revising(m) # {}
        BY <4>1
      <4> QED
        BY <1>4, <4>2 DEF MigrationInv
    <3> QED
      BY <3>1, <3>2
  <2> QED
    BY <1>4, <2>3, <2>6, <2>7, OwnStep
<1> QED
  BY <1>1, <1>5, <1>6, NextStatement

-----------------------------------------------------------------------------
(* A commit stores all of the revision or none of it.                      *)
LEMMA CommitStep ==
    ASSUME MigrationInv, NEW m \in Migrators, Commit(m)
    PROVE  MigrationInv'
<1>1. /\ Running(m) /\ todo[m] = <<>> /\ tables' = View(m)
      /\ at_head' = IF \E s \in done[m] : s.table # VersionTable THEN task[m] = "upgrade"
                    ELSE at_head
      /\ End(m)
  BY DEF Commit
<1>2. Sane /\ task[m] \in {"upgrade", "downgrade"}
  BY <1>1 DEF MigrationInv, Running
<1>3. /\ todo'[m] = <<>> /\ done'[m] = {} /\ task'[m] = "over"
      /\ \A o \in Migrators \ {m} :
            todo'[o] = todo[o] /\ done'[o] = done[o] /\ task'[o] = task[o]
  BY <1>1, <1>2 DEF Sane, End
<1>4. Sane'
  BY <1>1, <1>2, <1>3, EmptySeq DEF Sane, End
<1>5. CASE Revising(m) = {}
  <2>1. at_head' = at_head
    BY <1>1, <1>5 DEF Revising
  <2>2. OnlyOf(m)
    BY <1>1, <1>3, <1>5, <2>1, ViewOfNone DEF OnlyOf
  <2>3. ~Running(m)' /\ Revising(m)' = {}
    BY <1>3 DEF Running, Revising
  <2> QED
    BY <1>3, <1>4, <2>2, <2>3, OwnStep
<1>6. CASE Revising(m) # {}
  <2>1. PICK k \in 0..5 : Sent(m, k)
    BY <1>1, <1>6 DEF MigrationInv, FollowsPlan, NotBegun
  <2>2. k = 5
    BY <1>1, <2>1, EmptySeq DEF Sent
  <2>3. tables' \ {VersionTable} = IF task[m] = "upgrade" THEN AccountingTables ELSE {}
    BY <1>1, <1>2, <2>1, <2>2, ViewOfSent, PartialWhole
  <2>4. at_head' = (task[m] = "upgrade")
    BY <1>1, <1>6 DEF Revising
  <2>5. SchemaWhole'
    BY <1>2, <2>3, <2>4 DEF SchemaWhole
  <2>6. \A o \in Migrators : Revising(o)' = {}
    BY <1>3, <1>6 DEF MigrationInv, Revising
  <2>7. \A o \in Migrators : IF Running(o)' THEN FollowsPlan(o)'
                             ELSE todo'[o] = <<>> /\ done'[o] = {}
    <3>1. ~Running(m)'
      BY <1>3 DEF Running
    <3>2. ASSUME NEW o \in Migrators \ {m}
          PROVE  IF Running(o)' THEN FollowsPlan(o)'
                 ELSE todo'[o] = <<>> /\ done'[o] = {}
      <4>1. Revising(o)' = Revising(o) /\ (Running(o)' <=> Running(o))
        BY <1>3 DEF Revising, Running
      <4>2. NotBegun(o)' <=> NotBegun(o)
        BY <1>3, <4>1 DEF NotBegun
      <4>3. \A j \in 0..5 : Sent(o, j)' <=> Sent(o, j)
        BY <1>3, <4>1 DEF Sent
      <4> QED
        BY <1>3, <4>1, <4>2, <4>3 DEF MigrationInv, FollowsPlan
    <3> QED
      BY <1>3, <3>1, <3>2
  <2> QED
    BY <1>4, <2>5, <2>6, <2>7 DEF MigrationInv
<1> QED
  BY <1>5, <1>6

LEMMA MigrationStep == MigrationInv /\ [Next]_vars => MigrationInv'
<1> SUFFICES ASSUME MigrationInv, [Next]_vars
             PROVE  MigrationInv'
  OBVIOUS
<1>1. CASE UNCHANGED vars
  <2>1. \A m \in Migrators : /\ FollowsPlan(m)' <=> FollowsPlan(m)
                             /\ Revising(m)' = Revising(m)
                             /\ Running(m)' <=> Running(m)
    BY <1>1 DEF vars, FollowsPlan, NotBegun, Sent, Revising, Running
  <2>2. Sane' /\ SchemaWhole'
    BY <1>1 DEF vars, MigrationInv, Sane, SchemaWhole
  <2> QED
    BY <1>1, <2>1, <2>2 DEF vars, MigrationInv
<1>2. ASSUME NEW m \in Migrators, Raise(m) \/ Fail(m)
      PROVE  MigrationInv'
  BY <1>2, EndStep DEF Raise, Fail
<1> QED
  BY <1>1, <1>2, StartStep, ExecuteStep, FoundStep, CommitStep DEF Next, Runs

LEMMA MigrationAlways == Spec => []MigrationInv
BY MigrationInit, MigrationStep, PTL DEF Spec

(* However many upgrades and downgrades overlap, fail or die, the database *)
(* has all the tables of the version it claims or none.                    *)
THEOREM SchemaStaysWhole == Spec => []SchemaWhole
<1>1. MigrationInv => SchemaWhole
  BY DEF MigrationInv
<1> QED
  BY <1>1, MigrationAlways, PTL

(* No statement of a migration is sent while a table it refers to, or that *)
(* refers to it, is missing, or still there.                               *)
THEOREM ReferencesStay == Spec => []ReferencesExist
BY SchemaRefers, MigrationAlways, PTL

-----------------------------------------------------------------------------
(* Part 2: numbers and arrangements, as in PostingsProofs.                 *)

(* Induction up to a bound, from a set of numbers having a least element.  *)
LEMMA NumbersUpTo ==
    ASSUME NEW m \in Nat, NEW T, 0 \in T, \A n \in 0..(m - 1) : n \in T => n + 1 \in T
    PROVE  \A n \in 0..m : n \in T
<1> DEFINE R == OpToRel(<, Nat)
           U == {n \in 0..m : n \notin T}
<1> SUFFICES ASSUME U # {}
             PROVE  FALSE
  OBVIOUS
<1>1. IsWellFoundedOn(R, Nat)
  BY NatLessThanWellFounded
<1>2. \A x, y \in Nat : x < y => <<x, y>> \in R
  BY DEF OpToRel
<1>3. U \in SUBSET Nat
  OBVIOUS
<1>4. PICK n \in U : \A k \in U : ~(<<k, n>> \in R)
  <2> HIDE DEF R, U
  <2> QED
    BY <1>1, <1>3, WFMin
<1>5. n \in 0..m /\ n \notin T /\ n # 0
  OBVIOUS
<1>6. n - 1 \in 0..(m - 1) /\ (n - 1) + 1 = n /\ n - 1 < n /\ n - 1 \in 0..m
  BY <1>5
<1>7. n - 1 \notin U
  <2> HIDE DEF R
  <2> QED
    BY <1>2, <1>3, <1>4, <1>6
<1> QED
  BY <1>5, <1>6, <1>7

(* A map of 1..n to itself that keeps the order is the identity.           *)
LEMMA IncreasingIsIdentity ==
    ASSUME NEW n \in Nat, NEW p \in [1..n -> 1..n],
           \A i, j \in 1..n : i < j => p[i] < p[j]
    PROVE  \A i \in 1..n : p[i] = i
<1> DEFINE Up == {k \in 0..n : k = 0 \/ p[k] >= k}
           Down == {k \in 0..n : k = n \/ p[n - k] <= n - k}
<1>1. \A k \in 0..n : k \in Up
  <2>1. 0 \in Up
    OBVIOUS
  <2>2. ASSUME NEW k \in 0..(n - 1), k \in Up
        PROVE  k + 1 \in Up
    <3>1. k + 1 \in 1..n /\ p[k + 1] \in 1..n
      OBVIOUS
    <3>2. CASE k = 0
      BY <3>1, <3>2
    <3>3. CASE k # 0
      <4>1. k \in 1..n /\ p[k] \in 1..n /\ p[k] >= k /\ p[k] < p[k + 1]
        BY <2>2, <3>1, <3>3
      <4> QED
        BY <3>1, <4>1
    <3> QED
      BY <3>2, <3>3
  <2> HIDE DEF Up
  <2> QED
    BY <2>1, <2>2, NumbersUpTo
<1>2. \A k \in 0..n : k \in Down
  <2>1. 0 \in Down
    <3>1. CASE n = 0
      BY <3>1
    <3>2. CASE n # 0
      <4>1. n - 0 = n /\ n \in 1..n /\ p[n] \in 1..n
        BY <3>2
      <4> QED
        BY <4>1
    <3> QED
      BY <3>1, <3>2
  <2>2. ASSUME NEW k \in 0..(n - 1), k \in Down
        PROVE  k + 1 \in Down
    <3>1. CASE k + 1 = n
      BY <3>1
    <3>2. CASE k + 1 # n
      <4>1. /\ n - k \in 1..n /\ n - (k + 1) \in 1..n
            /\ n - (k + 1) < n - k /\ k # n
        BY <3>2
      <4>2. /\ p[n - k] <= n - k /\ p[n - (k + 1)] < p[n - k]
            /\ p[n - k] \in 1..n /\ p[n - (k + 1)] \in 1..n
        BY <2>2, <4>1
      <4> QED
        BY <4>1, <4>2
    <3> QED
      BY <3>1, <3>2
  <2> HIDE DEF Down
  <2> QED
    BY <2>1, <2>2, NumbersUpTo
<1>3. ASSUME NEW i \in 1..n
      PROVE  p[i] = i
  <2>1. p[i] \in 1..n /\ p[i] >= i
    BY <1>1
  <2>2. n - i \in 0..n /\ n - i # n /\ n - (n - i) = i
    OBVIOUS
  <2>3. p[i] <= i
    BY <1>2, <2>2
  <2> QED
    BY <2>1, <2>3
<1> QED
  BY <1>3

(* A sequence of all elements of R, each before the later ones and after   *)
(* no later one, is the only arrangement of R without inversions.          *)
LEMMA ArrangementIsUnique ==
    ASSUME NEW N \in Nat, NEW R, NEW s \in [1..N -> R], NEW before,
           \A t \in R : \E i \in 1..N : s[i] = t,
           \A i, j \in 1..N : i < j =>
               <<s[i], s[j]>> \in before /\ <<s[j], s[i]>> \notin before
    PROVE  \A f \in SetToSeqs(R) :
              (\A i, j \in DOMAIN f : i < j => <<f[j], f[i]>> \notin before) => f = s
<1> SUFFICES ASSUME NEW f \in SetToSeqs(R),
                    \A i, j \in DOMAIN f : i < j => <<f[j], f[i]>> \notin before
             PROVE  f = s
  OBVIOUS
<1>1. s \in Bijection(1..N, R)
  <2>1. \A i, j \in 1..N : i < j => s[i] # s[j]
    OBVIOUS
  <2>2. \A i, j \in 1..N : s[i] = s[j] => i = j
    BY <2>1
  <2> QED
    BY <2>2 DEF Bijection, Injection, Surjection, IsInjective
<1>2. Cardinality(R) = N
  <2>1. ExistsBijection(1..N, R)
    BY <1>1 DEF ExistsBijection
  <2> QED
    BY <2>1, FS_CountingElements
<1>3. /\ f \in [1..N -> R]
      /\ \A i, j \in 1..N : i # j => f[i] # f[j]
  BY <1>2 DEF SetToSeqs
<1>4. \A i \in 1..N : \E r \in 1..N : s[r] = f[i]
  BY <1>3
<1> DEFINE p == [i \in 1..N |-> CHOOSE r \in 1..N : s[r] = f[i]]
<1>5. p \in [1..N -> 1..N] /\ \A i \in 1..N : s[p[i]] = f[i]
  BY <1>4
<1> HIDE DEF p
<1>6. ASSUME NEW i \in 1..N, NEW j \in 1..N, i < j
      PROVE  p[i] < p[j]
  <2>1. p[i] \in 1..N /\ p[j] \in 1..N
    BY <1>5
  <2>2. p[i] # p[j]
    BY <1>3, <1>5, <1>6
  <2>3. <<f[j], f[i]>> \notin before
    BY <1>3, <1>6
  <2>4. ~(p[j] < p[i])
    BY <1>5, <2>1, <2>3
  <2> QED
    BY <2>1, <2>2, <2>4
<1>7. \A i \in 1..N : p[i] = i
  BY <1>5, <1>6, IncreasingIsIdentity
<1> QED
  BY <1>3, <1>5, <1>7

-----------------------------------------------------------------------------
(* Part 3: columns.                                                        *)

(* The models and the migration declare the same columns.                  *)
LEMMA SameColumns ==
    Columns("declared") = Declared /\ Columns("migrated") = Declared
BY DEF Columns, Declared, Migrated, AccountRow, JournalRow,
       CodeRow, EntryRow, LineRow, AuditRow,
       RecordColumns, record_columns, code_columns

LEMMA SameMigrated == Declared = Migrated
BY SameColumns DEF Columns

Cols(name) == Declared[name]

RecordNames == {"created_at", "updated_at", "extensions"}
CodeNames == {"code", "name", "description"}

(* What declaring a column records of it.                                  *)
LEMMA ColumnForms ==
    /\ \A t : Column(t) = [type |-> t, limit |-> 0, null |-> FALSE]
    /\ \A n : String(n) = [type |-> "text", limit |-> n, null |-> FALSE]
    /\ \A n : Optional(String(n)) = [type |-> "text", limit |-> n, null |-> TRUE]
BY DEF Column, String, Optional

(* The columns of two rows, put together.                                  *)
LEMMA JoinedIs ==
  \A f, g :
           /\ DOMAIN Joined(f, g) = DOMAIN f \cup DOMAIN g
           /\ \A c \in DOMAIN f : Joined(f, g)[c] = f[c]
           /\ \A c \in DOMAIN g \ DOMAIN f : Joined(f, g)[c] = g[c]
BY DEF Joined

(* The columns that all records have, and those of codes.                  *)
LEMMA RecordColumnsAre ==
    /\ DOMAIN RecordColumns = RecordNames
    /\ RecordColumns["created_at"] = [type |-> "time", limit |-> 0, null |-> FALSE]
    /\ RecordColumns["updated_at"] = [type |-> "time", limit |-> 0, null |-> FALSE]
    /\ RecordColumns["extensions"] = [type |-> "json", limit |-> 0, null |-> FALSE]
BY DEF RecordColumns, Column, RecordNames

(* The columns of a record with a code.                                    *)
LEMMA CodeColumnsAre ==
    /\ DOMAIN CodeRow = RecordNames \cup CodeNames
    /\ \A c \in RecordNames : CodeRow[c] = RecordColumns[c]
    /\ CodeRow["code"] = [type |-> "text", limit |-> 64, null |-> FALSE]
    /\ CodeRow["name"] = [type |-> "text", limit |-> 200, null |-> FALSE]
    /\ CodeRow["description"] = [type |-> "text", limit |-> 2000, null |-> TRUE]
<1> DEFINE own == [code |-> String(64), name |-> String(200),
                   description |-> Optional(String(2000))]
<1>1. /\ DOMAIN own = CodeNames
      /\ own["code"] = [type |-> "text", limit |-> 64, null |-> FALSE]
      /\ own["name"] = [type |-> "text", limit |-> 200, null |-> FALSE]
      /\ own["description"] = [type |-> "text", limit |-> 2000, null |-> TRUE]
  BY ColumnForms DEF CodeNames
<1>2. CodeRow = Joined(RecordColumns, own)
  BY DEF CodeRow
<1> HIDE DEF own
<1>3. DOMAIN CodeRow = RecordNames \cup CodeNames
  <2>1. DOMAIN CodeRow = DOMAIN RecordColumns \cup DOMAIN own
    BY <1>2, JoinedIs
  <2> QED
    BY <1>1, <2>1, RecordColumnsAre
<1>4. /\ \A c \in RecordNames : CodeRow[c] = RecordColumns[c]
      /\ \A c \in CodeNames \ RecordNames : CodeRow[c] = own[c]
  BY <1>1, <1>2, JoinedIs, RecordColumnsAre
<1>5. \A c \in CodeNames : c \in CodeNames \ RecordNames
  BY DEF RecordNames, CodeNames
<1>6. "code" \in CodeNames /\ "name" \in CodeNames /\ "description" \in CodeNames
  BY DEF CodeNames
<1> QED
  BY <1>1, <1>3, <1>4, <1>5, <1>6

AccountNames == RecordNames \cup CodeNames \cup {"account_type", "active"}
JournalNames == RecordNames \cup CodeNames
EntryNames == RecordNames \cup {"description", "reference", "lines"}
LineNames == {"id", "position", "side", "amount", "currency", "description"}
AuditNames == {"occurred_at", "action", "record_type", "actor"}

(* The columns of each table.                                              *)
LEMMA AccountColumnsAre ==
    /\ DOMAIN Cols("accounts") = AccountNames
    /\ \A c \in RecordNames \cup CodeNames : Cols("accounts")[c] = CodeRow[c]
    /\ Cols("accounts")["account_type"] = [type |-> "choice", limit |-> 0, null |-> FALSE]
    /\ Cols("accounts")["active"] = [type |-> "flag", limit |-> 0, null |-> FALSE]
<1> DEFINE own == [account_type |-> Column("choice"), active |-> Column("flag")]
<1>1. /\ DOMAIN own = {"account_type", "active"}
      /\ own["account_type"] = [type |-> "choice", limit |-> 0, null |-> FALSE]
      /\ own["active"] = [type |-> "flag", limit |-> 0, null |-> FALSE]
  BY ColumnForms
<1>2. Cols("accounts") = Joined(CodeRow, own)
  BY DEF Cols, Declared, AccountRow
<1> HIDE DEF own
<1>3. DOMAIN Cols("accounts") = AccountNames
  <2>1. DOMAIN Cols("accounts") = DOMAIN CodeRow \cup DOMAIN own
    BY <1>2, JoinedIs
  <2> QED
    BY <1>1, <2>1, CodeColumnsAre DEF AccountNames
<1>4. /\ \A c \in RecordNames \cup CodeNames : Cols("accounts")[c] = CodeRow[c]
      /\ \A c \in {"account_type", "active"} \ (RecordNames \cup CodeNames) :
            Cols("accounts")[c] = own[c]
  BY <1>1, <1>2, JoinedIs, CodeColumnsAre
<1>5. {"account_type", "active"} \ (RecordNames \cup CodeNames) = {"account_type", "active"}
  BY DEF RecordNames, CodeNames
<1> QED
  BY <1>1, <1>3, <1>4, <1>5

LEMMA JournalColumnsAre ==
    /\ DOMAIN Cols("journals") = JournalNames
    /\ \A c \in JournalNames : Cols("journals")[c] = CodeRow[c]
BY CodeColumnsAre DEF Cols, Declared, JournalRow, JournalNames

LEMMA EntryColumnsAre ==
    /\ DOMAIN Cols("journal_entries") = EntryNames
    /\ \A c \in RecordNames : Cols("journal_entries")[c] = RecordColumns[c]
    /\ Cols("journal_entries")["description"] = [type |-> "text", limit |-> 1000, null |-> FALSE]
    /\ Cols("journal_entries")["reference"] = [type |-> "text", limit |-> 200, null |-> TRUE]
    /\ Cols("journal_entries")["lines"] = [type |-> "lines", limit |-> 0, null |-> FALSE]
<1> DEFINE own == [description |-> String(1000),
                   reference |-> Optional(String(200)),
                   lines |-> Column("lines")]
<1>1. /\ DOMAIN own = {"description", "reference", "lines"}
      /\ own["description"] = [type |-> "text", limit |-> 1000, null |-> FALSE]
      /\ own["reference"] = [type |-> "text", limit |-> 200, null |-> TRUE]
      /\ own["lines"] = [type |-> "lines", limit |-> 0, null |-> FALSE]
  BY ColumnForms
<1>2. Cols("journal_entries") = Joined(RecordColumns, own)
  BY DEF Cols, Declared, EntryRow
<1> HIDE DEF own
<1>3. DOMAIN Cols("journal_entries") = EntryNames
  <2>1. DOMAIN Cols("journal_entries") = DOMAIN RecordColumns \cup DOMAIN own
    BY <1>2, JoinedIs
  <2> QED
    BY <1>1, <2>1, RecordColumnsAre DEF EntryNames
<1>4. /\ \A c \in RecordNames : Cols("journal_entries")[c] = RecordColumns[c]
      /\ \A c \in {"description", "reference", "lines"} \ RecordNames :
            Cols("journal_entries")[c] = own[c]
  BY <1>1, <1>2, JoinedIs, RecordColumnsAre
<1>5. {"description", "reference", "lines"} \ RecordNames = {"description", "reference", "lines"}
  BY DEF RecordNames
<1>6. \A c \in {"description", "reference", "lines"} : Cols("journal_entries")[c] = own[c]
  BY <1>4, <1>5
<1>7. /\ Cols("journal_entries")["description"] = own["description"]
      /\ Cols("journal_entries")["reference"] = own["reference"]
      /\ Cols("journal_entries")["lines"] = own["lines"]
  BY <1>6
<1> QED
  BY <1>1, <1>2, <1>3, <1>4, <1>7

LEMMA LineColumnsAre ==
    /\ DOMAIN Cols("journal_lines") = LineNames
    /\ Cols("journal_lines")["id"] = [type |-> "id", limit |-> 0, null |-> FALSE]
    /\ Cols("journal_lines")["position"] = [type |-> "id", limit |-> 0, null |-> FALSE]
    /\ Cols("journal_lines")["side"] = [type |-> "choice", limit |-> 0, null |-> FALSE]
    /\ Cols("journal_lines")["amount"] = [type |-> "amount", limit |-> 0, null |-> FALSE]
    /\ Cols("journal_lines")["currency"] = [type |-> "currency", limit |-> 3, null |-> FALSE]
    /\ Cols("journal_lines")["description"] = [type |-> "text", limit |-> 1000, null |-> TRUE]
<1> DEFINE own == [id |-> Column("id"), position |-> Column("id"),
                   side |-> Column("choice"), amount |-> Column("amount"),
                   currency |-> [type |-> "currency", limit |-> 3, null |-> FALSE],
                   description |-> Optional(String(1000))]
<1>1. /\ DOMAIN own = LineNames
      /\ own["id"] = [type |-> "id", limit |-> 0, null |-> FALSE]
      /\ own["position"] = [type |-> "id", limit |-> 0, null |-> FALSE]
      /\ own["side"] = [type |-> "choice", limit |-> 0, null |-> FALSE]
      /\ own["amount"] = [type |-> "amount", limit |-> 0, null |-> FALSE]
      /\ own["currency"] = [type |-> "currency", limit |-> 3, null |-> FALSE]
      /\ own["description"] = [type |-> "text", limit |-> 1000, null |-> TRUE]
  BY ColumnForms DEF LineNames
<1>2. Cols("journal_lines") = own
  BY DEF Cols, Declared, LineRow, Currency
<1> HIDE DEF own
<1> QED
  BY <1>1, <1>2

LEMMA AuditColumnsAre ==
    /\ DOMAIN Cols("audit_events") = AuditNames
    /\ Cols("audit_events")["occurred_at"] = [type |-> "time", limit |-> 0, null |-> FALSE]
    /\ Cols("audit_events")["action"] = [type |-> "choice", limit |-> 0, null |-> FALSE]
    /\ Cols("audit_events")["record_type"] = [type |-> "text", limit |-> 200, null |-> FALSE]
    /\ Cols("audit_events")["actor"] = [type |-> "text", limit |-> 200, null |-> TRUE]
<1> DEFINE own == [occurred_at |-> Column("time"), action |-> Column("choice"),
                   record_type |-> String(200),
                   actor |-> Optional(String(200))]
<1>1. /\ DOMAIN own = AuditNames
      /\ own["occurred_at"] = [type |-> "time", limit |-> 0, null |-> FALSE]
      /\ own["action"] = [type |-> "choice", limit |-> 0, null |-> FALSE]
      /\ own["record_type"] = [type |-> "text", limit |-> 200, null |-> FALSE]
      /\ own["actor"] = [type |-> "text", limit |-> 200, null |-> TRUE]
  BY ColumnForms DEF AuditNames
<1>2. Cols("audit_events") = own
  BY DEF Cols, Declared, AuditRow
<1> QED
  BY <1>1, <1>2

-----------------------------------------------------------------------------
(* Part 4: values.                                                         *)

(* Null is no value of a column.                                           *)
LEMMA NullIs ==
    /\ Null \notin Text /\ Null \notin Time /\ Null \notin Amount
           /\ Null \notin Int /\ Null \notin {0, 1}
           /\ Null # "asset" /\ Null # "delete" /\ Null \notin Sides
BY NullAssumption DEF Words

(* What the models leave in a column, and no database changes but for the  *)
(* zone of a time and the form of an amount.                               *)
Settled(column, v) ==
    \/ v = Null
    \/ /\ column.type = "text" => v \in Text /\ v.kind # "padded"
       /\ column.type = "currency" =>
             v \in Text /\ v.kind \notin {"padded", "lower"}
       /\ column.type = "time" => v \in Time /\ v.zone = "utc"
       /\ column.type = "amount" => v \in Amount /\ v.form = "integer"

(* Stripping and upper case, on any text.                                  *)
LEMMA StrippedText ==
    ASSUME NEW v \in Text
    PROVE  Stripped(v) \in Text /\ Stripped(v).kind # "padded"
<1>1. /\ v.len \in Nat
      /\ v.kind \in {"upper", "lower", "marked", "other", "padded"}
      /\ v.kind = "padded" => v.len > 0
  BY DEF Text
<1>2. CASE v.kind # "padded"
  BY <1>2 DEF Stripped
<1>3. CASE v.kind = "padded" /\ v.len = 1
  BY <1>3 DEF Stripped, Text
<1>4. CASE v.kind = "padded" /\ v.len # 1
  <2>1. Stripped(v) = [len |-> v.len - 1, kind |-> "upper"] /\ v.len - 1 \in Nat
    BY <1>1, <1>4 DEF Stripped
  <2> QED
    BY <2>1 DEF Text
<1> QED
  BY <1>2, <1>3, <1>4

LEMMA UpperText ==
    ASSUME NEW v \in Text, v.kind # "padded"
    PROVE  /\ UpperCase(v) \in Text
           /\ UpperCase(v).kind \notin {"padded", "lower"}
           /\ UpperCase(v) # v => v.kind = "lower"
<1>1. /\ v \in [len : Nat, kind : {"upper", "lower", "marked", "other", "padded"}]
      /\ v = [len |-> v.len, kind |-> v.kind]
  BY DEF Text
<1>2. UpperCase(v) =
        [len |-> v.len, kind |-> IF v.kind = "lower" THEN "upper" ELSE v.kind]
  BY <1>1 DEF UpperCase
<1> QED
  BY <1>1, <1>2 DEF Text

(* A value as the models leave it, of the type it had.                     *)
LEMMA NormalSettles ==
    ASSUME NEW column, NEW v, Fills(column, v)
    PROVE  /\ Settled(column, Normal(column, v))
           /\ Normal(column, v) = Null <=> v = Null
<1>1. CASE v = Null
  BY <1>1 DEF Settled, Normal
<1>2. CASE v # Null /\ column.type = "text"
  <2>1. v \in Text /\ Normal(column, v) = Stripped(v)
    BY <1>2 DEF Fills, Normal
  <2> QED
    BY <1>2, <2>1, StrippedText, NullAssumption DEF Settled
<1>3. CASE v # Null /\ column.type = "currency"
  <2>1. /\ v \in Text
        /\ Normal(column, v) = UpperCase(Stripped(v))
    BY <1>3 DEF Fills, Normal
  <2>2. Stripped(v) \in Text /\ Stripped(v).kind # "padded"
    BY <2>1, StrippedText
  <2> QED
    BY <1>3, <2>1, <2>2, UpperText, NullAssumption DEF Settled
<1>4. CASE v # Null /\ column.type = "time"
  <2>1. v \in Time /\ Normal(column, v) = InUtc(v)
    BY <1>4 DEF Fills, Normal
  <2>2. InUtc(v) \in Time /\ InUtc(v).zone = "utc"
    BY <2>1 DEF InUtc, Time
  <2> QED
    BY <1>4, <2>1, <2>2, NullAssumption DEF Settled
<1>5. CASE v # Null /\ column.type = "amount"
  <2>1. v \in Amount /\ Normal(column, v) = Integral(v)
    BY <1>5 DEF Fills, Normal
  <2>2. /\ Integral(v) \in Amount
        /\ Integral(v).form = "integer"
    BY <2>1 DEF Integral, Amount
  <2> QED
    BY <1>5, <2>1, <2>2, NullAssumption DEF Settled
<1>6. CASE v # Null /\ column.type \notin {"text", "currency", "time", "amount"}
  BY <1>6 DEF Settled, Normal
<1> QED
  BY <1>1, <1>2, <1>3, <1>4, <1>5, <1>6

(* The models leave a settled value alone, and fill the column with it.    *)
LEMMA SettledStays ==
    ASSUME NEW column, NEW v, Settled(column, v)
    PROVE  Normal(column, v) = v /\ Fills(column, v)
<1>1. CASE v = Null
  BY <1>1 DEF Fills, Normal
<1>2. CASE v # Null /\ column.type = "text"
  BY <1>2 DEF Settled, Fills, Normal, Stripped
<1>3. CASE v # Null /\ column.type = "currency"
  <2>1. v \in Text /\ v.kind \notin {"padded", "lower"}
    BY <1>3 DEF Settled
  <2>2. Stripped(v) = v /\ UpperCase(v) = v
    BY <2>1, UpperText DEF Stripped
  <2> QED
    BY <1>3, <2>1, <2>2 DEF Fills, Normal
<1>4. CASE v # Null /\ column.type = "time"
  <2>1. v \in Time /\ v.zone = "utc"
    BY <1>4 DEF Settled
  <2>2. InUtc(v) = v
    BY <2>1 DEF InUtc, Time
  <2> QED
    BY <1>4, <2>1, <2>2 DEF Fills, Normal
<1>5. CASE v # Null /\ column.type = "amount"
  <2>1. v \in Amount /\ v.form = "integer"
    BY <1>5 DEF Settled
  <2>2. Integral(v) = v
    BY <2>1 DEF Integral, Amount
  <2> QED
    BY <1>5, <2>1, <2>2 DEF Fills, Normal
<1>6. CASE v # Null /\ column.type \notin {"text", "currency", "time", "amount"}
  BY <1>6 DEF Fills, Normal
<1> QED
  BY <1>1, <1>2, <1>3, <1>4, <1>5, <1>6

(* A database keeps a settled text, the instant of a time and the          *)
(* hundredths of an amount; the column types give the value back.          *)
LEMMA KeptAndBack ==
    ASSUME NEW d \in Databases, NEW column, NEW v, Settled(column, v),
           column.type = "amount" /\ v # Null => v.halves % 2 = 0
    PROVE  /\ ColumnResult(column, InColumn(d, column, v)) = v
           /\ InColumn(d, column, v) = Null <=> v = Null
           /\ column.type \notin {"time", "amount"} => InColumn(d, column, v) = v
           /\ column.type = "time" /\ v # Null => InColumn(d, column, v).at = v.at
           /\ column.type = "amount" /\ v # Null =>
                 /\ InColumn(d, column, v).halves = v.halves
                 /\ d = "sqlite" => InColumn(d, column, v).form = "integer"
<1>1. CASE v = Null
  BY <1>1 DEF InColumn, ColumnResult
<1>2. CASE v # Null /\ column.type \in {"text", "currency"}
  <2>1. v.kind # "padded"
    BY <1>2 DEF Settled
  <2>2. InColumn(d, column, v) = v
    BY <1>2, <2>1 DEF InColumn, IsText, Trimmed
  <2> QED
    BY <1>2, <2>2 DEF ColumnResult
<1>3. CASE v # Null /\ column.type = "time"
  <2>1. v \in Time /\ v.zone = "utc"
    BY <1>3 DEF Settled
  <2> DEFINE kept == DateTime(d, v)
  <2>2. InColumn(d, column, v) = kept
    BY <1>3 DEF InColumn, IsText
  <2>3. /\ kept \in Time /\ kept.at = v.at
        /\ InUtc(kept) = v
    BY <2>1 DEF DateTime, InUtc, Time
  <2> HIDE DEF kept
  <2>4. kept # Null
    BY <2>3, NullAssumption
  <2> QED
    BY <1>3, <2>2, <2>3, <2>4 DEF ColumnResult
<1>4. CASE v # Null /\ column.type = "amount"
  <2>1. v \in Amount /\ v.form = "integer"
    BY <1>4 DEF Settled
  <2> DEFINE kept == WholeHundredths(d, v)
  <2>2. InColumn(d, column, v) = kept
    BY <1>4 DEF InColumn, IsText
  <2>3. /\ kept \in Amount /\ kept.halves = v.halves
        /\ d = "sqlite" => kept.form = "integer"
        /\ Integral(kept) = v
    BY <2>1 DEF WholeHundredths, Integral, Amount
  <2> HIDE DEF kept
  <2>4. kept # Null
    BY <2>3, NullAssumption
  <2> QED
    BY <1>4, <2>2, <2>3, <2>4 DEF ColumnResult
<1>5. CASE v # Null /\ column.type \notin {"text", "currency", "time", "amount"}
  BY <1>5 DEF InColumn, IsText, ColumnResult
<1> QED
  BY <1>1, <1>2, <1>3, <1>4, <1>5

(* Whatever a column holds, it comes back as something for that column,    *)
(* which the models make the same of.                                      *)
LEMMA ReadFills ==
    ASSUME NEW d \in Databases, NEW column, column.limit \in Nat, NEW v, Fills(column, v)
    PROVE  /\ Fills(column, InColumn(d, column, v))
           /\ Fills(column, ColumnResult(column, v))
           /\ ColumnResult(column, v) = Null <=> v = Null
           /\ Normal(column, ColumnResult(column, v)) =
                 Normal(column, v)
<1>1. CASE v = Null
  BY <1>1 DEF InColumn, ColumnResult, Fills
<1>2. CASE v # Null /\ column.type \in {"text", "currency"}
  <2>1. v \in Text
    BY <1>2 DEF Fills
  <2>2. ColumnResult(column, v) = v
    BY <1>2 DEF ColumnResult
  <2>3. InColumn(d, column, v) \in {v, Trimmed(column, v)}
    BY <1>2 DEF InColumn, IsText
  <2>4. Trimmed(column, v) \in Text
    <3>1. CASE v.kind = "padded" /\ v.len = column.limit + 1
      <4>1. v.len \in Nat
        BY <2>1 DEF Text
      <4> QED
        BY <3>1 DEF Trimmed, Text
    <3> QED
      BY <2>1, <3>1 DEF Trimmed
  <2> QED
    BY <1>2, <2>1, <2>2, <2>3, <2>4 DEF Fills
<1>3. CASE v # Null /\ column.type = "time"
  <2>1. v \in Time
    BY <1>3 DEF Fills
  <2>2. /\ InColumn(d, column, v) = DateTime(d, v)
        /\ ColumnResult(column, v) = InUtc(v)
    BY <1>3 DEF InColumn, IsText, ColumnResult
  <2>3. /\ DateTime(d, v) \in Time
        /\ InUtc(v) \in Time
        /\ InUtc(InUtc(v)) = InUtc(v)
    BY <2>1 DEF DateTime, InUtc, Time
  <2>4. InUtc(v) # Null
    BY <2>3, NullAssumption
  <2> QED
    BY <1>3, <2>2, <2>3, <2>4 DEF Fills, Normal
<1>4. CASE v # Null /\ column.type = "amount"
  <2>1. v \in Amount
    BY <1>4 DEF Fills
  <2>2. /\ InColumn(d, column, v) = WholeHundredths(d, v)
        /\ ColumnResult(column, v) \in {v, Integral(v)}
    BY <1>4 DEF InColumn, IsText, ColumnResult
  <2>3. /\ WholeHundredths(d, v) \in Amount
        /\ Integral(v) \in Amount
        /\ Integral(Integral(v)) =
              Integral(v)
    BY <2>1 DEF WholeHundredths, Integral, Amount
  <2>4. Integral(v) # Null
    BY <2>3, NullAssumption
  <2> QED
    BY <1>4, <2>1, <2>2, <2>3, <2>4 DEF Fills, Normal
<1>5. CASE v # Null /\ column.type \notin {"text", "currency", "time", "amount"}
  BY <1>5 DEF InColumn, IsText, ColumnResult, Fills
<1> QED
  BY <1>1, <1>2, <1>3, <1>4, <1>5

-----------------------------------------------------------------------------
(* Part 5: lines in the order of their positions.                          *)

(* Of finitely many lines one is last.                                     *)
LEMMA LastLine ==
    ASSUME NEW V, IsFiniteSet(V), \A x \in V : x.position \in Int, V # {}
    PROVE  \E x \in V : \A y \in V : y.position <= x.position
<1> DEFINE C == Cardinality(V)
           HasLast(S) == \E x \in S : \A y \in S : y.position <= x.position
           T == {n \in 0..C : \A S \in SUBSET V :
                    Cardinality(S) = n => S = {} \/ HasLast(S)}
<1>1. C \in Nat
  BY FS_CardinalityType
<1>2. 0 \in T
  <2>1. \A S \in SUBSET V : Cardinality(S) = 0 => S = {}
    BY FS_Subset, FS_EmptySet
  <2> QED
    BY <1>1, <2>1
<1>3. ASSUME NEW n \in 0..(C - 1), n \in T
      PROVE  n + 1 \in T
  <2>1. n + 1 \in 0..C
    BY <1>1
  <2> SUFFICES ASSUME NEW S \in SUBSET V, Cardinality(S) = n + 1, S # {}
               PROVE  HasLast(S)
    BY <2>1
  <2>2. PICK z \in S : TRUE
    OBVIOUS
  <2>3. IsFiniteSet(S) /\ S \ {z} \in SUBSET V /\ Cardinality(S \ {z}) = n
    <3>1. IsFiniteSet(S)
      BY FS_Subset
    <3>2. Cardinality(S \ {z}) = Cardinality(S) - 1
      BY <2>2, <3>1, FS_RemoveElement
    <3> QED
      BY <3>1, <3>2
  <2>4. S \ {z} = {} \/ HasLast(S \ {z})
    BY <1>3, <2>3
  <2>5. CASE S \ {z} = {}
    <3>1. \A y \in S : y = z
      BY <2>5
    <3>2. z.position \in Int
      BY <2>2
    <3> QED
      BY <2>2, <3>1, <3>2
  <2>6. CASE HasLast(S \ {z})
    <3>1. PICK x \in S \ {z} : \A y \in S \ {z} : y.position <= x.position
      BY <2>6
    <3>2. \A y \in S : y.position \in Int /\ (y = z \/ y \in S \ {z})
      OBVIOUS
    <3>3. CASE z.position <= x.position
      BY <3>1, <3>2, <3>3
    <3>4. CASE x.position < z.position
      <4>1. \A y \in S : y.position <= z.position
        BY <2>2, <3>1, <3>2, <3>4
      <4> QED
        BY <2>2, <4>1
    <3> QED
      BY <2>2, <3>1, <3>2, <3>3, <3>4
  <2> QED
    BY <2>4, <2>5, <2>6
<1>4. \A n \in 0..C : n \in T
  <2> HIDE DEF T, C
  <2> QED
    BY <1>1, <1>2, <1>3, NumbersUpTo
<1> QED
  BY <1>1, <1>4

(* Finitely many lines can be arranged by position.                        *)
LEMMA Arranged ==
    ASSUME NEW V, IsFiniteSet(V), \A x \in V : x.position \in Int
    PROVE  \E s \in SetToSeqs(V) :
              \A m, n \in DOMAIN s : m < n => ~InPosition(s[n], s[m])
<1> DEFINE C == Cardinality(V)
           Arranges(s, n, S) ==
               /\ s \in [1..n -> S]
               /\ \A i, j \in 1..n : i # j => s[i] # s[j]
               /\ \A i, j \in 1..n : i < j => ~(s[j].position < s[i].position)
           T == {n \in 0..C : \A S \in SUBSET V :
                    Cardinality(S) = n => \E s : Arranges(s, n, S)}
<1>1. C \in Nat
  BY FS_CardinalityType
<1>2. 0 \in T
  <2>1. \A S \in SUBSET V : Cardinality(S) = 0 => S = {}
    BY FS_Subset, FS_EmptySet
  <2>2. Arranges([i \in 1..0 |-> i], 0, {})
    OBVIOUS
  <2> HIDE DEF Arranges
  <2> QED
    BY <1>1, <2>1, <2>2
<1>3. ASSUME NEW n \in 0..(C - 1), n \in T
      PROVE  n + 1 \in T
  <2>1. n + 1 \in 0..C /\ n \in Nat
    BY <1>1
  <2> HIDE DEF Arranges
  <2> SUFFICES ASSUME NEW S \in SUBSET V, Cardinality(S) = n + 1
               PROVE  \E s : Arranges(s, n + 1, S)
    BY <2>1
  <2> USE DEF Arranges
  <2>2. IsFiniteSet(S) /\ S # {}
    <3>1. IsFiniteSet(S)
      BY FS_Subset
    <3> QED
      BY <2>1, <3>1, FS_EmptySet
  <2>3. PICK z \in S : \A y \in S : y.position <= z.position
    <3>1. \A x \in S : x.position \in Int
      OBVIOUS
    <3> QED
      BY <2>2, <3>1, LastLine
  <2>4. S \ {z} \in SUBSET V /\ Cardinality(S \ {z}) = n
    <3>1. Cardinality(S \ {z}) = Cardinality(S) - 1
      BY <2>2, <2>3, FS_RemoveElement
    <3> QED
      BY <2>1, <3>1
  <2>5. PICK r : Arranges(r, n, S \ {z})
    BY <1>3, <2>4
  <2> DEFINE s == [i \in 1..(n + 1) |-> IF i = n + 1 THEN z ELSE r[i]]
  <2>6. s \in [1..(n + 1) -> S]
    BY <2>1, <2>5
  <2>7. \A i \in 1..(n + 1) :
            \/ i = n + 1 /\ s[i] = z
            \/ i \in 1..n /\ s[i] = r[i] /\ s[i] \in S \ {z}
    BY <2>1, <2>5
  <2>8. \A y \in S : y.position \in Int
    OBVIOUS
  <2> HIDE DEF s
  <2>9. \A i, j \in 1..(n + 1) : i # j => s[i] # s[j]
    BY <2>5, <2>7
  <2>10. ASSUME NEW i \in 1..(n + 1), NEW j \in 1..(n + 1), i < j
         PROVE  ~(s[j].position < s[i].position)
    <3>1. i \in 1..n /\ s[i] = r[i] /\ s[i] \in S
      BY <2>1, <2>7, <2>10
    <3>2. CASE j = n + 1
      <4>1. s[j] = z /\ s[i].position <= z.position
        BY <2>1, <2>3, <2>7, <3>1, <3>2
      <4> QED
        BY <2>3, <2>8, <3>1, <4>1
    <3>3. CASE j \in 1..n
      <4>1. s[j] = r[j]
        BY <2>1, <2>7, <3>3
      <4> QED
        BY <2>5, <2>10, <3>1, <3>3, <4>1
    <3> QED
      BY <2>7, <3>2, <3>3
  <2> QED
    BY <2>6, <2>9, <2>10
<1>4. \A n \in 0..C : n \in T
  <2> HIDE DEF T, C
  <2> QED
    BY <1>1, <1>2, <1>3, NumbersUpTo
<1>5. PICK s : Arranges(s, C, V)
  BY <1>1, <1>4
<1>6. s \in SetToSeqs(V) /\ DOMAIN s = 1..C
  <2>1. s \in SetToSeqs(V)
    BY <1>5 DEF SetToSeqs
  <2> QED
    BY <1>5, <2>1
<1> QED
  BY <1>5, <1>6 DEF InPosition

IsFunction(f) == f = [x \in DOMAIN f |-> f[x]]

Unplaced(line) == [c \in DOMAIN line \ {"position"} |-> line[c]]

(* The lines in order are lines of the set without their positions.        *)
LEMMA SortedLines ==
    ASSUME NEW V, IsFiniteSet(V), \A x \in V : x.position \in Int
    PROVE  \E s \in [1..Cardinality(V) -> V] :
              /\ \A i, j \in 1..Cardinality(V) : i # j => s[i] # s[j]
              /\ Sorted(V) = [n \in 1..Cardinality(V) |-> Unplaced(s[n])]
<1> DEFINE Ordered(t) ==
               \A m, n \in DOMAIN t : m < n => ~InPosition(t[n], t[m])
           s == CHOOSE t \in SetToSeqs(V) : Ordered(t)
<1>1. s \in SetToSeqs(V)
  <2>1. \E t \in SetToSeqs(V) : Ordered(t)
    BY Arranged
  <2> HIDE DEF Ordered
  <2> QED
    BY <2>1
<1>2. Sorted(V) = [n \in DOMAIN s |-> Unplaced(s[n])]
  BY DEF Sorted, Unplaced
<1> HIDE DEF s
<1>3. /\ s \in [1..Cardinality(V) -> V]
      /\ \A i, j \in 1..Cardinality(V) : i # j => s[i] # s[j]
  <2>1. s \in SetToSeqs(V)
    BY <1>1
  <2> QED
    BY <2>1 DEF SetToSeqs
<1> QED
  BY <1>2, <1>3

(* The lines of the set, each with its place in s as its position.         *)
InPlaces(N, s, V) ==
    /\ N \in Nat /\ s \in [1..N -> V]
    /\ \A t \in V : \E i \in 1..N : s[i] = t
    /\ \A n \in 1..N : s[n].position = n - 1

(* Lines that have their places as positions come back in their places.    *)
LEMMA SortedBack ==
    ASSUME NEW N, NEW s, NEW V, InPlaces(N, s, V)
    PROVE  /\ IsFunction(Sorted(V)) /\ DOMAIN Sorted(V) = 1..N
           /\ \A n \in 1..N : Sorted(V)[n] = Unplaced(s[n])
           /\ IsFiniteSet(V) /\ \A x \in V : x.position \in Int
<1>0. /\ N \in Nat /\ s \in [1..N -> V]
      /\ \A t \in V : \E i \in 1..N : s[i] = t
      /\ \A n \in 1..N : s[n].position = n - 1
  BY DEF InPlaces
<1> DEFINE Ordered(t) ==
               \A m, n \in DOMAIN t : m < n => ~InPosition(t[n], t[m])
           f == CHOOSE t \in SetToSeqs(V) : Ordered(t)
           before == {p \in V \X V : p[1].position < p[2].position}
<1>1. \A x \in V : x.position \in Int
  BY <1>0
<1>2. IsFiniteSet(V)
  <2>1. s \in Surjection(1..N, V)
    BY <1>0 DEF Surjection
  <2> QED
    BY <2>1, <1>0, FS_Interval, FS_Surjection
<1>3. \A i, j \in 1..N : i < j =>
          <<s[i], s[j]>> \in before /\ <<s[j], s[i]>> \notin before
  BY <1>0
<1>4. f \in SetToSeqs(V) /\ Ordered(f)
  <2>1. \E t \in SetToSeqs(V) : Ordered(t)
    BY <1>1, <1>2, Arranged
  <2> HIDE DEF Ordered
  <2> QED
    BY <2>1
<1>5. \A i, j \in DOMAIN f : i < j => <<f[j], f[i]>> \notin before
  BY <1>4 DEF InPosition
<1>6. Sorted(V) = [n \in DOMAIN f |-> Unplaced(f[n])]
  BY DEF Sorted, Unplaced
<1> HIDE DEF f, before
<1>7. f = s
  <2>1. f \in SetToSeqs(V)
    BY <1>4
  <2>2. N \in Nat /\ s \in [1..N -> V] /\ \A t \in V : \E i \in 1..N : s[i] = t
    BY <1>0
  <2>3. \A g \in SetToSeqs(V) :
           (\A i, j \in DOMAIN g : i < j => <<g[j], g[i]>> \notin before) => g = s
    BY <1>3, <2>2, ArrangementIsUnique
  <2> QED
    BY <1>5, <2>1, <2>3
<1>8. DOMAIN s = 1..N
  BY <1>0
<1>9. Sorted(V) = [n \in 1..N |-> Unplaced(s[n])]
  BY <1>6, <1>7, <1>8
<1> QED
  BY <1>1, <1>2, <1>9 DEF IsFunction

-----------------------------------------------------------------------------
(* Part 6: records.                                                        *)

LineFields == LineNames \ {"position"}

LineFills(line) ==
    /\ DOMAIN line = LineFields
    /\ \A c \in LineFields : Fills(Cols("journal_lines")[c], line[c])

(* Fields of the types the columns take, with lines in a sequence.         *)
FieldsFill(t, f) ==
    /\ DOMAIN f = DOMAIN Cols(t)
    /\ \A c \in DOMAIN f \ {"lines"} : Fills(Cols(t)[c], f[c])
    /\ t = "journal_entries" =>
           \E N \in Nat : DOMAIN f.lines = 1..N /\ \A n \in 1..N : LineFills(f.lines[n])

SettledLine(line) ==
    /\ IsFunction(line) /\ DOMAIN line = LineFields
    /\ \A c \in LineFields : Settled(Cols("journal_lines")[c], line[c])

(* A record as the models make it, valid or not.                           *)
SettledRecord(t, r) ==
    /\ IsFunction(r) /\ DOMAIN r = DOMAIN Cols(t)
    /\ \A c \in DOMAIN r \ {"lines"} : Settled(Cols(t)[c], r[c])
    /\ t = "journal_entries" =>
           /\ IsFunction(r.lines)
           /\ \E N \in Nat :
                 DOMAIN r.lines = 1..N /\ \A n \in 1..N : SettledLine(r.lines[n])

(* Only entries have lines, and they have them.                            *)
LEMMA LinesAreOfEntries ==
    ASSUME NEW t \in Tables
    PROVE  "lines" \in DOMAIN Cols(t) <=> t = "journal_entries"
BY AccountColumnsAre, JournalColumnsAre, EntryColumnsAre, AuditColumnsAre
   DEF Tables, AccountNames, JournalNames, EntryNames, AuditNames, RecordNames, CodeNames

(* A line the models have normalised is settled, and stays as it is.       *)
LEMMA LineNormal ==
    ASSUME NEW line, LineFills(line)
    PROVE  /\ SettledLine(NormalFields("journal_lines", line))
           /\ \A c \in LineFields :
                 NormalFields("journal_lines", line)[c] = Null <=> line[c] = Null
<1> DEFINE r == NormalFields("journal_lines", line)
<1>1. /\ IsFunction(r) /\ DOMAIN r = LineFields
      /\ \A c \in LineFields : r[c] = Normal(Cols("journal_lines")[c], line[c])
  BY DEF NormalFields, LineFills, Cols, IsFunction
<1> HIDE DEF r
<1>2. ASSUME NEW c \in LineFields
      PROVE  Settled(Cols("journal_lines")[c], r[c]) /\ (r[c] = Null <=> line[c] = Null)
  BY <1>1, NormalSettles DEF LineFills
<1> QED
  BY <1>1, <1>2 DEF SettledLine, r

LEMMA LineStays ==
    ASSUME NEW line, SettledLine(line)
    PROVE  NormalFields("journal_lines", line) = line /\ LineFills(line)
<1>1. ASSUME NEW c \in LineFields
      PROVE  /\ Normal(Cols("journal_lines")[c], line[c]) = line[c]
             /\ Fills(Cols("journal_lines")[c], line[c])
  BY SettledStays DEF SettledLine
<1>2. NormalFields("journal_lines", line) = [c \in LineFields |-> line[c]]
  BY <1>1 DEF SettledLine, NormalFields, Cols
<1> QED
  BY <1>1, <1>2 DEF SettledLine, LineFills, IsFunction

(* What the models make of the fields, column by column.                   *)
LEMMA NormalizedIs ==
    ASSUME NEW t \in Tables, NEW f, DOMAIN f = DOMAIN Cols(t)
    PROVE  /\ IsFunction(Normalized(t, f))
           /\ DOMAIN Normalized(t, f) = DOMAIN Cols(t)
           /\ \A c \in DOMAIN Cols(t) \ {"lines"} :
                 Normalized(t, f)[c] = Normal(Cols(t)[c], f[c])
           /\ t = "journal_entries" =>
                 Normalized(t, f).lines =
                    [n \in DOMAIN f.lines |->
                        NormalFields("journal_lines", f.lines[n])]
<1> DEFINE plain == NormalFields(t, f)
           lines == [n \in DOMAIN f.lines |->
                        NormalFields("journal_lines", f.lines[n])]
<1>1. /\ IsFunction(plain) /\ DOMAIN plain = DOMAIN Cols(t)
      /\ \A c \in DOMAIN Cols(t) : plain[c] = Normal(Cols(t)[c], f[c])
  BY DEF NormalFields, Cols, IsFunction
<1>2. CASE t # "journal_entries"
  <2>1. Normalized(t, f) = plain
    BY <1>2 DEF Normalized
  <2> HIDE DEF plain
  <2> QED
    BY <1>1, <1>2, <2>1
<1>3. CASE t = "journal_entries"
  <2>1. Normalized(t, f) = [plain EXCEPT !.lines = lines]
    BY <1>3 DEF Normalized
  <2>2. "lines" \in DOMAIN plain
    BY <1>1, <1>3, LinesAreOfEntries
  <2> HIDE DEF plain, lines
  <2>3. /\ DOMAIN Normalized(t, f) = DOMAIN plain
        /\ Normalized(t, f).lines = lines
        /\ \A c \in DOMAIN plain \ {"lines"} : Normalized(t, f)[c] = plain[c]
        /\ IsFunction(Normalized(t, f))
    BY <2>1, <2>2 DEF IsFunction
  <2> QED
    BY <1>1, <2>3 DEF lines
<1> QED
  BY <1>2, <1>3

(* So it is with a record.                                                 *)
LEMMA RecordSettled ==
    ASSUME NEW t \in Tables, NEW f, FieldsFill(t, f)
    PROVE  /\ SettledRecord(t, Normalized(t, f))
           /\ \A c \in DOMAIN f \ {"lines"} :
                 Normalized(t, f)[c] = Null <=> f[c] = Null
<1> DEFINE r == Normalized(t, f)
<1>1. DOMAIN f = DOMAIN Cols(t)
  BY DEF FieldsFill
<1>2. /\ IsFunction(r) /\ DOMAIN r = DOMAIN Cols(t)
      /\ \A c \in DOMAIN Cols(t) \ {"lines"} : r[c] = Normal(Cols(t)[c], f[c])
      /\ t = "journal_entries" =>
            r.lines = [n \in DOMAIN f.lines |->
                          NormalFields("journal_lines", f.lines[n])]
  BY <1>1, NormalizedIs
<1> HIDE DEF r
<1>3. ASSUME NEW c \in DOMAIN f \ {"lines"}
      PROVE  Settled(Cols(t)[c], r[c]) /\ (r[c] = Null <=> f[c] = Null)
  <2>1. Fills(Cols(t)[c], f[c]) /\ r[c] = Normal(Cols(t)[c], f[c])
    BY <1>1, <1>2 DEF FieldsFill
  <2> QED
    BY <2>1, NormalSettles
<1>4. ASSUME t = "journal_entries"
      PROVE  /\ IsFunction(r.lines)
             /\ \E N \in Nat :
                   DOMAIN r.lines = 1..N /\ \A n \in 1..N : SettledLine(r.lines[n])
  <2>1. PICK N \in Nat : DOMAIN f.lines = 1..N /\ \A n \in 1..N : LineFills(f.lines[n])
    BY <1>4 DEF FieldsFill
  <2>2. /\ DOMAIN r.lines = 1..N /\ IsFunction(r.lines)
        /\ \A n \in 1..N : r.lines[n] = NormalFields("journal_lines", f.lines[n])
    BY <1>2, <1>4, <2>1 DEF IsFunction
  <2>3. \A n \in 1..N : SettledLine(r.lines[n])
    BY <2>1, <2>2, LineNormal
  <2> QED
    BY <2>2, <2>3
<1> QED
  BY <1>1, <1>2, <1>3, <1>4 DEF SettledRecord, r

LEMMA RecordStays ==
    ASSUME NEW t \in Tables, NEW r, SettledRecord(t, r)
    PROVE  Normalized(t, r) = r /\ FieldsFill(t, r)
<1> DEFINE q == Normalized(t, r)
<1>1. DOMAIN r = DOMAIN Cols(t) /\ IsFunction(r)
  BY DEF SettledRecord
<1>2. /\ IsFunction(q) /\ DOMAIN q = DOMAIN Cols(t)
      /\ \A c \in DOMAIN Cols(t) \ {"lines"} : q[c] = Normal(Cols(t)[c], r[c])
      /\ t = "journal_entries" =>
            q.lines = [n \in DOMAIN r.lines |->
                          NormalFields("journal_lines", r.lines[n])]
  BY <1>1, NormalizedIs
<1> HIDE DEF q
<1>3. ASSUME NEW c \in DOMAIN r \ {"lines"}
      PROVE  q[c] = r[c] /\ Fills(Cols(t)[c], r[c])
  <2>1. Settled(Cols(t)[c], r[c]) /\ q[c] = Normal(Cols(t)[c], r[c])
    BY <1>1, <1>2 DEF SettledRecord
  <2> QED
    BY <2>1, SettledStays
<1>4. ASSUME t = "journal_entries"
      PROVE  /\ q.lines = r.lines
             /\ \E N \in Nat :
                   DOMAIN r.lines = 1..N /\ \A n \in 1..N : LineFills(r.lines[n])
  <2>1. PICK N \in Nat : DOMAIN r.lines = 1..N /\ \A n \in 1..N : SettledLine(r.lines[n])
    BY <1>4 DEF SettledRecord
  <2>2. \A n \in 1..N : /\ NormalFields("journal_lines", r.lines[n]) = r.lines[n]
                        /\ LineFills(r.lines[n])
    BY <2>1, LineStays
  <2>3. q.lines = [n \in 1..N |-> r.lines[n]]
    BY <1>2, <1>4, <2>1, <2>2
  <2>4. r.lines = [n \in 1..N |-> r.lines[n]]
    BY <1>4, <2>1 DEF SettledRecord, IsFunction
  <2> QED
    BY <2>1, <2>2, <2>3, <2>4
<1>5. \A c \in DOMAIN r : q[c] = r[c]
  BY <1>1, <1>3, <1>4, LinesAreOfEntries
<1>6. q = r
  BY <1>1, <1>2, <1>5 DEF IsFunction
<1> QED
  BY <1>1, <1>3, <1>4, <1>6 DEF FieldsFill, q

-----------------------------------------------------------------------------
(* Part 7: valid records.                                                  *)

ValidRecord(t, r) ==
    SettledRecord(t, r) /\ Aware(t, r) /\ Valid(t, r)

(* What has columns is no marker.                                          *)
LEMMA NoMarker ==
    ASSUME NEW t \in Tables, NEW r, DOMAIN r = DOMAIN Cols(t)
    PROVE  r # Raised /\ r # Nothing
<1>1. "raised" \notin DOMAIN Cols(t) /\ "nothing" \notin DOMAIN Cols(t)
  BY AccountColumnsAre, JournalColumnsAre, EntryColumnsAre, AuditColumnsAre
     DEF Tables, AccountNames, JournalNames, EntryNames, AuditNames, RecordNames,
         CodeNames
<1>2. "raised" \in DOMAIN Raised /\ "nothing" \in DOMAIN Nothing
  BY DEF Raised, Nothing
<1> QED
  BY <1>1, <1>2

(* No time is looked for in the lines.                                     *)
LEMMA NoTimeInLines ==
    ASSUME NEW t \in Tables, "lines" \in DOMAIN Cols(t)
    PROVE  Cols(t)["lines"].type # "time"
<1>1. t = "journal_entries"
  BY LinesAreOfEntries
<1> QED
  BY <1>1, EntryColumnsAre

(* Validation lets valid records through, and nothing else.                *)
LEMMA ValidatedIsValid ==
    ASSUME NEW t \in Tables, NEW f, FieldsFill(t, f),
           Validated(t, f) # Raised
    PROVE  /\ Validated(t, f) = Normalized(t, f)
           /\ ValidRecord(t, Validated(t, f))
<1> DEFINE r == Normalized(t, f)
<1>1. Validated(t, f) = r /\ Aware(t, f) /\ Valid(t, f)
  BY DEF Validated
<1>2. /\ SettledRecord(t, r) /\ DOMAIN r = DOMAIN f
      /\ \A c \in DOMAIN f \ {"lines"} : r[c] = Null <=> f[c] = Null
  BY RecordSettled DEF FieldsFill, SettledRecord
<1>3. Normalized(t, r) = r
  BY <1>2, RecordStays
<1>4. DOMAIN f = DOMAIN Cols(t)
  BY DEF FieldsFill
<1>5. Aware(t, r)
  <2> SUFFICES ASSUME NEW c \in DOMAIN r, Cols(t)[c].type = "time"
               PROVE  r[c] # Null /\ r[c].zone # "none"
    BY DEF Aware, Cols
  <2>1. c # "lines"
    BY <1>2, <1>4, NoTimeInLines
  <2>2. f[c] # Null
    BY <1>1, <1>2 DEF Aware, Cols
  <2> HIDE DEF r
  <2>3. r[c] # Null /\ Settled(Cols(t)[c], r[c])
    BY <1>2, <2>1, <2>2 DEF SettledRecord
  <2> QED
    BY <2>3 DEF Settled
<1>6. Valid(t, r)
  <2>1. CASE t # "journal_entries"
    <3> HIDE DEF r
    <3>1. Valid(t, f)
      BY <1>1
    <3>2. Normalized(t, f) = r
      BY DEF r
    <3> QED
      BY <1>3, <2>1, <3>1, <3>2 DEF Valid, Tables
  <2>2. CASE t = "journal_entries"
    <3>1. JournalEntry(f.lines, r)
      BY <1>1, <2>2 DEF Valid
    <3>2. /\ DOMAIN r.lines = DOMAIN f.lines
          /\ \A n \in DOMAIN f.lines :
                r.lines[n] = NormalFields("journal_lines", f.lines[n])
      <4>1. r.lines = [n \in DOMAIN f.lines |->
                          NormalFields("journal_lines", f.lines[n])]
        BY <1>4, <2>2, NormalizedIs
      <4> HIDE DEF r
      <4> QED
        BY <4>1
    <3> HIDE DEF r
    <3>3. ASSUME NEW n \in DOMAIN r.lines
          PROVE  JournalLine(r.lines[n], r.lines[n])
      <4>1. JournalLine(f.lines[n], r.lines[n])
        BY <3>1 DEF JournalEntry
      <4>2. SettledLine(r.lines[n])
        BY <1>2, <2>2 DEF SettledRecord
      <4>3. Settled(Cols("journal_lines")["amount"], r.lines[n]["amount"])
        BY <4>2 DEF SettledLine, LineFields, LineNames
      <4>4. r.lines[n].amount # Null
        <5>1. PICK N \in Nat : DOMAIN f.lines = 1..N /\ \A m \in 1..N : LineFills(f.lines[m])
          BY <2>2 DEF FieldsFill
        <5>2. /\ r.lines[n] = NormalFields("journal_lines", f.lines[n])
              /\ LineFills(f.lines[n])
          BY <3>2, <5>1
        <5>3. "amount" \in LineFields
          BY DEF LineFields, LineNames
        <5>4. r.lines[n]["amount"] = Null <=> f.lines[n]["amount"] = Null
          BY <5>2, <5>3, LineNormal
        <5> QED
          BY <4>1, <5>4 DEF JournalLine
      <4>5. r.lines[n].amount.form = "integer"
        BY <4>3, <4>4, LineColumnsAre DEF Settled
      <4> QED
        BY <4>1, <4>4, <4>5 DEF JournalLine
    <3>4. JournalEntry(r.lines, r)
      BY <3>1, <3>3 DEF JournalEntry
    <3> QED
      BY <1>3, <2>2, <3>4 DEF Valid
  <2> QED
    BY <2>1, <2>2
<1> QED
  BY <1>1, <1>2, <1>5, <1>6 DEF ValidRecord

(* A valid record is validated to itself.                                  *)
LEMMA ValidStays ==
    ASSUME NEW t \in Tables, NEW r, ValidRecord(t, r)
    PROVE  Validated(t, r) = r
BY RecordStays DEF ValidRecord, Validated

-----------------------------------------------------------------------------
(* Part 8: valid records are accepted.                                     *)

CodedPasses(row) ==
    /\ row.code.len \in 1..64 /\ row.code.kind \in {"upper", "lower"}
    /\ row.name.len \in 1..200
    /\ row.updated_at.at >= row.created_at.at

LinePasses(d, row) ==
    /\ row.position >= 0 /\ row.side \in Sides
    /\ row.amount.halves \in 2..2 * MaxMinorUnits
    /\ IF d = "sqlite" THEN row.amount.form = "integer" ELSE row.amount.halves % 2 = 0
    /\ row.currency.len = 3 /\ row.currency.kind = "upper"

Passes(d, name, row) ==
    /\ name \in {"accounts", "journals"} => CodedPasses(row)
    /\ name = "accounts" => row.account_type = "asset"
    /\ name = "journal_entries" =>
           /\ row.updated_at.at >= row.created_at.at
           /\ row.description.len \in 1..1000
    /\ name = "journal_lines" => LinePasses(d, row)
    /\ name = "audit_events" => row.action = "delete"

RowNames == Tables \cup {"journal_lines"}

(* What the CHECKs of a table ask, in either spelling and either dialect.  *)
LEMMA ChecksAre ==
    ASSUME NEW d \in Databases, NEW schema \in {"declared", "migrated"},
           NEW name \in RowNames, NEW row
    PROVE  ChecksPass(d, schema, name, row) <=> Passes(d, name, row)
<1>1. /\ code_checks(d, row) <=> CodedPasses(row)
      /\ code_constraints(d, row) <=> CodedPasses(row)
  BY DEF code_checks, code_constraints, CodedPasses, Databases,
         GlobsCodeOnly, GlobsStart, MatchesCode
<1>2. /\ LineChecks(d, row) <=> LinePasses(d, row)
      /\ line_constraints(d, row) <=> LinePasses(d, row)
  BY DEF LineChecks, line_constraints, LinePasses, Databases,
         GlobsUpperOnly, MatchesCurrency
<1>3. DeclaredChecks(d, name, row) <=> Passes(d, name, row)
  BY <1>1, <1>2 DEF DeclaredChecks, AccountChecks, EntryChecks, Passes
<1>4. MigratedChecks(d, name, row) <=> Passes(d, name, row)
  BY <1>1, <1>2 DEF MigratedChecks, Passes
<1> QED
  BY <1>3, <1>4 DEF ChecksPass

(* What a row has to be, in its columns and by its CHECKs.                 *)
LEMMA RowFitsIs ==
    ASSUME NEW d \in Databases, NEW schema \in {"declared", "migrated"},
           NEW name \in RowNames, NEW row
    PROVE  RowFits(d, schema, name, row)
               <=> /\ \A c \in DOMAIN row : Fits(d, Cols(name)[c], row[c])
                   /\ Passes(d, name, row)
<1>1. Columns(schema) = Declared
  BY SameColumns
<1> QED
  BY <1>1, ChecksAre DEF RowFits, Cols

(* What a column keeps of a settled value that is neither too long nor,    *)
(* without leave, missing.                                                 *)
LEMMA KeptFits ==
    ASSUME NEW d \in Databases, NEW column, NEW v, Settled(column, v),
           column.type = "amount" /\ v # Null => v.halves % 2 = 0,
           column.type # "lines" /\ v = Null => column.null,
           column.type \in {"text", "currency"} /\ v # Null => v.len <= column.limit,
           column.type = "flag" => v \in {0, 1}
    PROVE  Fits(d, column, InColumn(d, column, v))
<1> DEFINE kept == InColumn(d, column, v)
<1>1. /\ kept = Null <=> v = Null
      /\ column.type \notin {"time", "amount"} => kept = v
  BY KeptAndBack
<1> SUFFICES Fits(d, column, kept)
  OBVIOUS
<1> HIDE DEF kept
<1>2. CASE column.type \in {"time", "amount"}
  BY <1>1, <1>2 DEF Fits, IsText
<1>3. CASE column.type \notin {"time", "amount"}
  BY <1>1, <1>3 DEF Fits, IsText
<1> QED
  BY <1>2, <1>3

Kept(d, t, r) == InRow(d, Declared[t], r)

(* A row a settled one is kept as, column by column.                       *)
LEMMA KeptIs ==
    ASSUME NEW d \in Databases, NEW t, NEW r
    PROVE  /\ DOMAIN Kept(d, t, r) = DOMAIN r
           /\ \A c \in DOMAIN r : Kept(d, t, r)[c] = InColumn(d, Cols(t)[c], r[c])
           /\ \A c \in DOMAIN r :
                 Settled(Cols(t)[c], r[c]) /\ Cols(t)[c].type \notin {"time", "amount"} =>
                    Kept(d, t, r)[c] = r[c]
           /\ \A c \in DOMAIN r :
                 Settled(Cols(t)[c], r[c]) /\ Cols(t)[c].type = "time" /\ r[c] # Null =>
                    Kept(d, t, r)[c].at = r[c].at
<1>1. /\ DOMAIN Kept(d, t, r) = DOMAIN r
      /\ \A c \in DOMAIN r : Kept(d, t, r)[c] = InColumn(d, Cols(t)[c], r[c])
  BY DEF Kept, InRow, Cols
<1>2. ASSUME NEW c \in DOMAIN r, Settled(Cols(t)[c], r[c]),
             Cols(t)[c].type \notin {"time", "amount"}
      PROVE  Kept(d, t, r)[c] = r[c]
  BY <1>1, <1>2, KeptAndBack
<1>3. ASSUME NEW c \in DOMAIN r, Settled(Cols(t)[c], r[c]),
             Cols(t)[c].type = "time", r[c] # Null
      PROVE  Kept(d, t, r)[c].at = r[c].at
  BY <1>1, <1>3, KeptAndBack
<1> QED
  BY <1>1, <1>2, <1>3

(* The columns and constraints of records with codes.                      *)
LEMMA CodedColumnsAre ==
    ASSUME NEW t \in {"accounts", "journals"}
    PROVE  /\ JournalNames \subseteq DOMAIN Cols(t)
           /\ Cols(t)["created_at"] = [type |-> "time", limit |-> 0, null |-> FALSE]
           /\ Cols(t)["updated_at"] = [type |-> "time", limit |-> 0, null |-> FALSE]
           /\ Cols(t)["extensions"] = [type |-> "json", limit |-> 0, null |-> FALSE]
           /\ Cols(t)["code"] = [type |-> "text", limit |-> 64, null |-> FALSE]
           /\ Cols(t)["name"] = [type |-> "text", limit |-> 200, null |-> FALSE]
           /\ Cols(t)["description"] = [type |-> "text", limit |-> 2000, null |-> TRUE]
<1>1. /\ JournalNames \subseteq DOMAIN Cols(t)
      /\ \A c \in RecordNames \cup CodeNames : Cols(t)[c] = CodeRow[c]
  BY AccountColumnsAre, JournalColumnsAre DEF AccountNames, JournalNames
<1>2. /\ "created_at" \in RecordNames /\ "updated_at" \in RecordNames
      /\ "extensions" \in RecordNames /\ "code" \in CodeNames
      /\ "name" \in CodeNames /\ "description" \in CodeNames
  BY DEF RecordNames, CodeNames
<1>3. /\ Cols(t)["created_at"] = RecordColumns["created_at"]
      /\ Cols(t)["updated_at"] = RecordColumns["updated_at"]
      /\ Cols(t)["extensions"] = RecordColumns["extensions"]
  BY <1>1, <1>2, CodeColumnsAre
<1>4. /\ Cols(t)["code"] = CodeRow["code"]
      /\ Cols(t)["name"] = CodeRow["name"]
      /\ Cols(t)["description"] = CodeRow["description"]
  BY <1>1, <1>2
<1> QED
  BY <1>1, <1>3, <1>4, CodeColumnsAre, RecordColumnsAre

(* What the models ask of a record with a code, the schema asks too.       *)
LEMMA CodedFits ==
    ASSUME NEW d \in Databases, NEW t \in {"accounts", "journals"}, NEW r,
           SettledRecord(t, r), Aware(t, r), r.extensions # Null,
           RecordModel(r), Coded(r)
    PROVE  /\ \A c \in JournalNames : Fits(d, Cols(t)[c], Kept(d, t, r)[c])
           /\ CodedPasses(Kept(d, t, r))
<1> DEFINE kept == Kept(d, t, r)
<1>1. /\ DOMAIN r = DOMAIN Cols(t) /\ JournalNames \subseteq DOMAIN r
      /\ "lines" \notin JournalNames
      /\ \A c \in JournalNames : Settled(Cols(t)[c], r[c])
  BY CodedColumnsAre DEF SettledRecord, JournalNames, RecordNames, CodeNames
<1>2. /\ "created_at" \in JournalNames /\ "updated_at" \in JournalNames
      /\ "extensions" \in JournalNames /\ "code" \in JournalNames
      /\ "name" \in JournalNames /\ "description" \in JournalNames
  BY DEF JournalNames, RecordNames, CodeNames
<1>3. r["created_at"] # Null /\ r["updated_at"] # Null
  BY <1>1, <1>2, CodedColumnsAre DEF Aware, Cols
<1>4. /\ r["code"] # Null /\ r["code"].len \in 1..64 /\ r["code"].kind \in {"upper", "lower"}
      /\ r["name"] # Null /\ r["name"].len \in 1..200
      /\ r["description"] # Null => r["description"].len <= 2000
      /\ r["updated_at"].at >= r["created_at"].at /\ r["extensions"] # Null
  BY DEF Coded, Lengthy, Described, RecordModel
<1>5. ASSUME NEW c \in JournalNames
      PROVE  Fits(d, Cols(t)[c], kept[c])
  <2>1. c \in {"created_at", "updated_at", "extensions", "code", "name", "description"}
    BY DEF JournalNames, RecordNames, CodeNames
  <2>2. /\ Cols(t)[c].type \notin {"amount", "lines", "flag", "currency"}
        /\ r[c] = Null => Cols(t)[c].null
        /\ Cols(t)[c].type = "text" /\ r[c] # Null => r[c].len <= Cols(t)[c].limit
    BY <1>3, <1>4, <2>1, CodedColumnsAre
  <2>3. kept[c] = InColumn(d, Cols(t)[c], r[c]) /\ Settled(Cols(t)[c], r[c])
    BY <1>1, KeptIs
  <2> HIDE DEF kept
  <2> QED
    BY <2>2, <2>3, KeptFits
<1>6. /\ kept["code"] = r["code"] /\ kept["name"] = r["name"]
      /\ kept["updated_at"].at = r["updated_at"].at
      /\ kept["created_at"].at = r["created_at"].at
  BY <1>1, <1>2, <1>3, KeptIs, CodedColumnsAre
<1> HIDE DEF kept
<1>7. CodedPasses(kept)
  BY <1>4, <1>6 DEF CodedPasses
<1> QED
  BY <1>5, <1>7 DEF kept

LEMMA AccountFits ==
    ASSUME NEW d \in Databases, NEW r, ValidRecord("accounts", r), r.extensions # Null
    PROVE  RowFits(d, "migrated", "accounts", Kept(d, "accounts", r))
<1> DEFINE t == "accounts"
           kept == Kept(d, t, r)
<1>1. /\ SettledRecord(t, r) /\ Aware(t, r) /\ Valid(t, r)
      /\ Normalized(t, r) = r
  BY RecordStays DEF ValidRecord, Tables
<1>2. Account(r)
  BY <1>1 DEF Valid
<1>3. /\ \A c \in JournalNames : Fits(d, Cols(t)[c], kept[c])
      /\ CodedPasses(kept)
  BY <1>1, <1>2, CodedFits DEF Account
<1>4. /\ DOMAIN r = AccountNames /\ DOMAIN kept = AccountNames
      /\ "account_type" \in AccountNames /\ "active" \in AccountNames
      /\ \A c \in AccountNames : Settled(Cols(t)[c], r[c])
  BY <1>1, AccountColumnsAre, KeptIs
     DEF SettledRecord, AccountNames, RecordNames, CodeNames
<1>5. r["account_type"] = "asset" /\ r["active"] \in {0, 1}
  BY <1>2 DEF Account
<1>6. /\ kept["account_type"] = r["account_type"] /\ kept["active"] = r["active"]
      /\ Cols(t)["account_type"] = [type |-> "choice", limit |-> 0, null |-> FALSE]
      /\ Cols(t)["active"] = [type |-> "flag", limit |-> 0, null |-> FALSE]
  BY <1>4, KeptIs, AccountColumnsAre
<1>7. r["account_type"] # Null /\ r["active"] # Null
  BY <1>5, NullIs
<1> HIDE DEF kept
<1>8. /\ Fits(d, Cols(t)["account_type"], kept["account_type"])
      /\ Fits(d, Cols(t)["active"], kept["active"])
  BY <1>5, <1>6, <1>7 DEF Fits, IsText
<1>9. kept["account_type"] = "asset"
  BY <1>5, <1>6
<1>10. \A c \in AccountNames : c \in JournalNames \/ c \in {"account_type", "active"}
  BY DEF AccountNames, JournalNames
<1>11. \A c \in DOMAIN kept : Fits(d, Cols(t)[c], kept[c])
  BY <1>3, <1>4, <1>8, <1>10
<1>12. Passes(d, t, kept)
  BY <1>3, <1>9 DEF Passes
<1> QED
  BY <1>11, <1>12, RowFitsIs DEF RowNames, Tables, kept

LEMMA JournalFits ==
    ASSUME NEW d \in Databases, NEW r, ValidRecord("journals", r), r.extensions # Null
    PROVE  RowFits(d, "migrated", "journals", Kept(d, "journals", r))
<1> DEFINE t == "journals"
           kept == Kept(d, t, r)
<1>1. /\ SettledRecord(t, r) /\ Aware(t, r) /\ Valid(t, r)
      /\ Normalized(t, r) = r
  BY RecordStays DEF ValidRecord, Tables
<1>2. Journal(r)
  BY <1>1 DEF Valid
<1>3. /\ \A c \in JournalNames : Fits(d, Cols(t)[c], kept[c])
      /\ CodedPasses(kept)
  BY <1>1, <1>2, CodedFits DEF Journal
<1>4. DOMAIN kept = JournalNames
  BY <1>1, JournalColumnsAre, KeptIs DEF SettledRecord
<1> HIDE DEF kept
<1>5. Passes(d, t, kept)
  BY <1>3 DEF Passes
<1> QED
  BY <1>3, <1>4, <1>5, RowFitsIs DEF RowNames, Tables, kept

LEMMA AuditFits ==
    ASSUME NEW d \in Databases, NEW r, ValidRecord("audit_events", r)
    PROVE  RowFits(d, "migrated", "audit_events", Kept(d, "audit_events", r))
<1> DEFINE t == "audit_events"
           kept == Kept(d, t, r)
<1>1. /\ SettledRecord(t, r) /\ Aware(t, r) /\ Valid(t, r)
      /\ Normalized(t, r) = r
  BY RecordStays DEF ValidRecord, Tables
<1>2. AuditEvent(r)
  BY <1>1 DEF Valid
<1>3. /\ DOMAIN r = AuditNames /\ DOMAIN kept = AuditNames
      /\ \A c \in AuditNames : /\ Settled(Cols(t)[c], r[c])
                               /\ kept[c] = InColumn(d, Cols(t)[c], r[c])
  <2>1. DOMAIN r = AuditNames /\ "lines" \notin AuditNames
    BY <1>1, AuditColumnsAre DEF SettledRecord, AuditNames
  <2> QED
    BY <1>1, <2>1, KeptIs DEF SettledRecord
<1>4. /\ "occurred_at" \in AuditNames /\ "action" \in AuditNames
      /\ "record_type" \in AuditNames /\ "actor" \in AuditNames
  BY DEF AuditNames
<1>5. r["occurred_at"] # Null
  BY <1>1, <1>3, <1>4, AuditColumnsAre DEF Aware, Cols
<1>6. /\ r["action"] = "delete" /\ r["action"] # Null
      /\ r["record_type"] # Null /\ r["record_type"].len \in 1..200
      /\ r["actor"] # Null => r["actor"].len \in 1..200
  BY <1>2, NullIs DEF AuditEvent, Lengthy
<1>7. ASSUME NEW c \in AuditNames
      PROVE  Fits(d, Cols(t)[c], kept[c])
  <2>1. c \in {"occurred_at", "action", "record_type", "actor"}
    BY DEF AuditNames
  <2>2. /\ Cols(t)[c].type \notin {"amount", "lines", "flag", "currency"}
        /\ r[c] = Null => Cols(t)[c].null
        /\ Cols(t)[c].type = "text" /\ r[c] # Null => r[c].len <= Cols(t)[c].limit
    BY <1>5, <1>6, <2>1, AuditColumnsAre
  <2> HIDE DEF kept
  <2> QED
    BY <1>3, <2>2, KeptFits
<1>8. kept["action"] = r["action"]
  BY <1>3, <1>4, KeptIs, AuditColumnsAre
<1> HIDE DEF kept
<1>9. Passes(d, t, kept)
  BY <1>6, <1>8 DEF Passes
<1> QED
  BY <1>3, <1>7, <1>9, RowFitsIs DEF RowNames, Tables, kept

(* A row of a table with lines, as it is kept.                             *)
LEMMA EntryKept ==
    ASSUME NEW d, NEW row, "lines" \in DOMAIN row
    PROVE  LET t == "journal_entries"
               kept == InColumns(d, Declared, t, row) IN
           /\ IsFunction(kept) /\ DOMAIN kept = DOMAIN row
           /\ \A c \in DOMAIN row \ {"lines"} :
                 kept[c] = InColumn(d, Cols(t)[c], row[c])
           /\ kept.lines = {Kept(d, "journal_lines", line) : line \in row.lines}
<1> DEFINE t == "journal_entries"
           header == InRow(d, Declared[t], row)
           lines == {Kept(d, "journal_lines", line) : line \in row.lines}
<1>1. InColumns(d, Declared, t, row) = [header EXCEPT !.lines = lines]
  BY DEF InColumns, Kept
<1>2. /\ DOMAIN header = DOMAIN row
      /\ \A c \in DOMAIN row : header[c] = InColumn(d, Cols(t)[c], row[c])
  BY DEF InRow, Cols
<1> HIDE DEF header, lines
<1>3. LET kept == [header EXCEPT !.lines = lines] IN
      /\ IsFunction(kept) /\ DOMAIN kept = DOMAIN row
      /\ \A c \in DOMAIN row \ {"lines"} : kept[c] = header[c]
      /\ kept.lines = lines
  BY <1>2 DEF IsFunction
<1> QED
  BY <1>1, <1>2, <1>3 DEF lines

(* The same for an entry, without its lines.                               *)
LEMMA EntryHeaderFits ==
    ASSUME NEW d \in Databases, NEW r, ValidRecord("journal_entries", r),
           r.extensions # Null, NEW row, DOMAIN row = DOMAIN r,
           \A c \in DOMAIN r \ {"lines"} : row[c] = r[c]
    PROVE  RowFits(d, "migrated", "journal_entries",
               InColumns(d, Declared, "journal_entries", row))
<1> DEFINE t == "journal_entries"
           kept == InColumns(d, Declared, t, row)
<1>1. /\ SettledRecord(t, r) /\ Aware(t, r) /\ Valid(t, r)
      /\ Normalized(t, r) = r
  BY RecordStays DEF ValidRecord, Tables
<1>2. JournalEntry(r.lines, r)
  BY <1>1 DEF Valid
<1>3. DOMAIN r = EntryNames /\ "lines" \in DOMAIN row
  BY <1>1, EntryColumnsAre DEF SettledRecord, EntryNames
<1>4. /\ DOMAIN kept = EntryNames
      /\ \A c \in EntryNames \ {"lines"} :
            /\ Settled(Cols(t)[c], r[c])
            /\ kept[c] = InColumn(d, Cols(t)[c], r[c])
  BY <1>1, <1>3, EntryKept DEF SettledRecord
<1>5. /\ "created_at" \in EntryNames \ {"lines"} /\ "updated_at" \in EntryNames \ {"lines"}
      /\ "extensions" \in EntryNames \ {"lines"} /\ "description" \in EntryNames \ {"lines"}
      /\ "reference" \in EntryNames \ {"lines"}
      /\ \A c \in EntryNames \ {"lines"} :
            c \in {"created_at", "updated_at", "extensions", "description", "reference"}
  BY DEF EntryNames, RecordNames
<1>6. /\ Cols(t)["created_at"] = [type |-> "time", limit |-> 0, null |-> FALSE]
      /\ Cols(t)["updated_at"] = [type |-> "time", limit |-> 0, null |-> FALSE]
      /\ Cols(t)["extensions"] = [type |-> "json", limit |-> 0, null |-> FALSE]
  <2>1. "created_at" \in RecordNames /\ "updated_at" \in RecordNames /\ "extensions" \in RecordNames
    BY DEF RecordNames
  <2>2. /\ Cols(t)["created_at"] = RecordColumns["created_at"]
        /\ Cols(t)["updated_at"] = RecordColumns["updated_at"]
        /\ Cols(t)["extensions"] = RecordColumns["extensions"]
    BY <2>1, EntryColumnsAre
  <2> QED
    BY <2>2, RecordColumnsAre
<1>7. r["created_at"] # Null /\ r["updated_at"] # Null
  BY <1>1, <1>3, <1>5, <1>6 DEF Aware, Cols
<1>8. /\ r["description"] # Null /\ r["description"].len \in 1..1000
      /\ r["reference"] # Null => r["reference"].len <= 200
      /\ r["updated_at"].at >= r["created_at"].at /\ r["extensions"] # Null
  BY <1>2 DEF JournalEntry, RecordModel, Lengthy, Described
<1> HIDE DEF kept
<1>9. ASSUME NEW c \in EntryNames \ {"lines"}
      PROVE  Fits(d, Cols(t)[c], kept[c])
  <2>1. /\ Cols(t)[c].type \notin {"amount", "lines", "flag", "currency"}
        /\ r[c] = Null => Cols(t)[c].null
        /\ Cols(t)[c].type = "text" /\ r[c] # Null => r[c].len <= Cols(t)[c].limit
    <3>1. CASE c \in {"created_at", "updated_at", "extensions"}
      BY <1>6, <1>7, <1>8, <3>1
    <3>2. CASE c = "description"
      <4>1. Cols(t)[c] = [type |-> "text", limit |-> 1000, null |-> FALSE]
        BY <3>2, EntryColumnsAre
      <4>2. r[c] # Null /\ r[c].len \in 1..1000
        BY <1>8, <3>2
      <4> HIDE DEF t
      <4> QED
        BY <4>1, <4>2
    <3>3. CASE c = "reference"
      <4>1. Cols(t)[c] = [type |-> "text", limit |-> 200, null |-> TRUE]
        BY <3>3, EntryColumnsAre
      <4>2. r[c] # Null => r[c].len <= 200
        BY <1>8, <3>3
      <4> HIDE DEF t
      <4> QED
        BY <4>1, <4>2
    <3> QED
      BY <1>5, <3>1, <3>2, <3>3
  <2> QED
    BY <1>4, <2>1, KeptFits
<1>10. Fits(d, Cols(t)["lines"], kept["lines"])
  BY EntryColumnsAre DEF Fits
<1>11. /\ kept["description"] = r["description"]
       /\ kept["updated_at"].at = r["updated_at"].at
       /\ kept["created_at"].at = r["created_at"].at
  <2>1. Cols(t)["description"].type = "text"
    BY EntryColumnsAre
  <2> QED
    BY <1>4, <1>5, <1>6, <1>7, <2>1, KeptAndBack
<1>12. Passes(d, t, kept)
  BY <1>8, <1>11 DEF Passes
<1>13. \A c \in DOMAIN kept : Fits(d, Cols(t)[c], kept[c])
  BY <1>4, <1>9, <1>10
<1> QED
  BY <1>12, <1>13, RowFitsIs DEF RowNames, Tables, kept

Placed(line, n) == Joined(line, [position |-> n - 1])

(* A line at its place.                                                    *)
LEMMA PlacedIs ==
    ASSUME NEW line, DOMAIN line = LineFields, IsFunction(line), NEW n \in Nat
    PROVE  /\ DOMAIN Placed(line, n) = LineNames
           /\ Placed(line, n)["position"] = n - 1
           /\ \A c \in LineFields : Placed(line, n)[c] = line[c]
           /\ Unplaced(Placed(line, n)) = line
<1> DEFINE place == [position |-> n - 1]
           p == Placed(line, n)
<1>1. DOMAIN place = {"position"} /\ place["position"] = n - 1
  OBVIOUS
<1> HIDE DEF place
<1>2. p = Joined(line, place)
  BY DEF Placed, place
<1>3. DOMAIN p = DOMAIN line \cup DOMAIN place
  BY <1>2, JoinedIs
<1>4. /\ \A c \in DOMAIN line : p[c] = line[c]
      /\ \A c \in DOMAIN place \ DOMAIN line : p[c] = place[c]
  BY <1>2, JoinedIs
<1> HIDE DEF p
<1>5. /\ DOMAIN p = LineNames /\ p["position"] = n - 1
      /\ DOMAIN p \ {"position"} = LineFields
  BY <1>1, <1>3, <1>4 DEF LineFields, LineNames
<1>6. Unplaced(p) = [c \in LineFields |-> line[c]]
  BY <1>4, <1>5 DEF Unplaced
<1> QED
  BY <1>4, <1>5, <1>6 DEF IsFunction, p

(* And for a line of it.                                                   *)
LEMMA LineFits ==
    ASSUME NEW d \in Databases, NEW line, SettledLine(line),
           JournalLine(line, line), NEW n \in Nat, n > 0
    PROVE  RowFits(d, "migrated", "journal_lines",
               Kept(d, "journal_lines", Placed(line, n)))
<1> DEFINE t == "journal_lines"
           r == Placed(line, n)
           kept == Kept(d, t, r)
<1>1. /\ DOMAIN r = LineNames /\ r["position"] = n - 1
      /\ \A c \in LineFields : r[c] = line[c] /\ Settled(Cols(t)[c], r[c])
  BY PlacedIs DEF SettledLine
<1>2. /\ "id" \in LineFields /\ "side" \in LineFields /\ "amount" \in LineFields
      /\ "currency" \in LineFields /\ "description" \in LineFields
      /\ \A c \in LineNames :
            c \in {"position", "id", "side", "amount", "currency", "description"}
      /\ "position" \in LineNames /\ LineFields \subseteq LineNames
  BY DEF LineFields, LineNames
<1>3. /\ r["id"] # Null /\ r["amount"] # Null
      /\ r["amount"].halves % 2 = 0 /\ r["amount"].halves \in 2..2 * MaxMinorUnits
      /\ r["side"] \in Sides
      /\ r["currency"] # Null /\ r["currency"].len = 3 /\ r["currency"].kind = "upper"
      /\ r["description"] # Null => r["description"].len <= 1000
  BY <1>1, <1>2 DEF JournalLine, Lengthy, Described
<1>4. r["position"] # Null /\ r["position"] >= 0 /\ r["side"] # Null
  <2>1. n - 1 \in Int /\ n - 1 >= 0
    OBVIOUS
  <2> QED
    BY <1>1, <1>3, <2>1, NullIs
<1> HIDE DEF r
<1>5. \A c \in LineNames : Settled(Cols(t)[c], r[c])
  <2>1. Settled(Cols(t)["position"], r["position"])
    BY LineColumnsAre DEF Settled
  <2> QED
    BY <1>1, <2>1 DEF LineFields
<1>6. /\ DOMAIN kept = LineNames
      /\ \A c \in LineNames : kept[c] = InColumn(d, Cols(t)[c], r[c])
  BY <1>1, KeptIs
<1> HIDE DEF kept
<1>7. ASSUME NEW c \in LineNames
      PROVE  Fits(d, Cols(t)[c], kept[c])
  <2>1. /\ Cols(t)[c].type \notin {"lines", "flag"}
        /\ Cols(t)[c].type = "amount" => r[c].halves % 2 = 0
        /\ r[c] = Null => Cols(t)[c].null
        /\ Cols(t)[c].type \in {"text", "currency"} /\ r[c] # Null =>
              r[c].len <= Cols(t)[c].limit
    BY <1>2, <1>3, <1>4, LineColumnsAre
  <2> QED
    BY <1>5, <1>6, <2>1, KeptFits
<1>8. /\ kept["position"] = r["position"] /\ kept["side"] = r["side"]
      /\ kept["currency"] = r["currency"]
  <2>1. /\ Cols(t)["position"].type = "id" /\ Cols(t)["side"].type = "choice"
        /\ Cols(t)["currency"].type = "currency"
    BY LineColumnsAre
  <2> QED
    BY <1>2, <1>5, <1>6, <2>1, KeptAndBack
<1>9. /\ kept["amount"].halves = r["amount"].halves
      /\ d = "sqlite" => kept["amount"].form = "integer"
  BY <1>2, <1>3, <1>5, <1>6, LineColumnsAre, KeptAndBack
<1>10. LinePasses(d, kept)
  BY <1>3, <1>4, <1>8, <1>9 DEF LinePasses
<1>11. Passes(d, t, kept)
  BY <1>10 DEF Passes
<1> QED
  BY <1>6, <1>7, <1>11, RowFitsIs DEF RowNames, kept, r

(* The row of an entry.                                                    *)
LEMMA EntryRowIs ==
    ASSUME NEW r, "lines" \in DOMAIN r
    PROVE  LET row == ToRow("journal_entries", r) IN
           /\ DOMAIN row = DOMAIN r
           /\ \A c \in DOMAIN r \ {"lines"} : row[c] = r[c]
           /\ row.lines = {Placed(r.lines[n], n) : n \in DOMAIN r.lines}
<1> DEFINE lines == {Placed(r.lines[n], n) : n \in DOMAIN r.lines}
<1>1. ToRow("journal_entries", r) = [r EXCEPT !.lines = lines]
  BY DEF ToRow, Placed
<1> HIDE DEF lines
<1>2. LET row == [r EXCEPT !.lines = lines] IN
      /\ DOMAIN row = DOMAIN r
      /\ \A c \in DOMAIN r \ {"lines"} : row[c] = r[c]
      /\ row.lines = lines
  OBVIOUS
<1> QED
  BY <1>1, <1>2 DEF lines

(* What is known of a valid entry.                                         *)
LEMMA EntryValid ==
    ASSUME NEW r, ValidRecord("journal_entries", r)
    PROVE  /\ DOMAIN r = EntryNames /\ "lines" \in EntryNames /\ "extensions" \in EntryNames
           /\ IsFunction(r) /\ IsFunction(r.lines)
           /\ \A m, n \in DOMAIN r.lines : r.lines[m].id = r.lines[n].id => m = n
           /\ \E N \in Nat :
                 /\ DOMAIN r.lines = 1..N
                 /\ \A n \in 1..N : /\ SettledLine(r.lines[n])
                                    /\ JournalLine(r.lines[n], r.lines[n])
<1> DEFINE t == "journal_entries"
<1>1. /\ SettledRecord(t, r) /\ Valid(t, r) /\ Normalized(t, r) = r
  BY RecordStays DEF ValidRecord, Tables
<1>2. JournalEntry(r.lines, r)
  BY <1>1 DEF Valid
<1>3. \A m, n \in DOMAIN r.lines : r.lines[m].id = r.lines[n].id => m = n
  <2>1. IsInjective([n \in DOMAIN r.lines |-> r.lines[n].id])
    BY <1>2 DEF JournalEntry
  <2> QED
    BY <2>1 DEF IsInjective
<1>4. \A n \in DOMAIN r.lines : JournalLine(r.lines[n], r.lines[n])
  BY <1>2 DEF JournalEntry
<1>5. DOMAIN r = EntryNames /\ "lines" \in EntryNames /\ "extensions" \in EntryNames
  BY <1>1, EntryColumnsAre DEF SettledRecord, EntryNames, RecordNames
<1>6. PICK N \in Nat : DOMAIN r.lines = 1..N /\ \A n \in 1..N : SettledLine(r.lines[n])
  BY <1>1 DEF SettledRecord
<1> QED
  BY <1>1, <1>3, <1>4, <1>5, <1>6 DEF SettledRecord

(* What a valid record is mapped to, both databases accept.                *)
LEMMA ValidAccepted ==
    ASSUME NEW d \in Databases, NEW t \in Tables, NEW r, ValidRecord(t, r),
           t # "audit_events" => r.extensions # Null
    PROVE  Accepts(d, "migrated", t, ToRow(t, r))
<1>1. CASE t # "journal_entries"
  <2>1. /\ ToRow(t, r) = r
        /\ InColumns(d, Declared, t, r) = Kept(d, t, r)
    BY <1>1 DEF ToRow, InColumns, Kept
  <2>2. RowFits(d, "migrated", t, Kept(d, t, r))
    BY <1>1, AccountFits, JournalFits, AuditFits DEF Tables
  <2> QED
    BY <1>1, <2>1, <2>2, SameColumns DEF Accepts
<1>2. CASE t = "journal_entries"
  <2> DEFINE row == ToRow("journal_entries", r)
             kept == InColumns(d, Declared, "journal_entries", row)
             K(n) == Kept(d, "journal_lines", Placed(r.lines[n], n))
  <2>1. PICK N \in Nat :
           /\ DOMAIN r.lines = 1..N
           /\ \A n \in 1..N : /\ SettledLine(r.lines[n])
                              /\ JournalLine(r.lines[n], r.lines[n])
    BY <1>2, EntryValid
  <2>2. /\ DOMAIN r = EntryNames /\ "lines" \in EntryNames
        /\ \A m, n \in 1..N : r.lines[m].id = r.lines[n].id => m = n
    BY <1>2, <2>1, EntryValid
  <2>3. /\ DOMAIN row = DOMAIN r
        /\ \A c \in DOMAIN r \ {"lines"} : row[c] = r[c]
        /\ row.lines = {Placed(r.lines[n], n) : n \in 1..N}
    BY <2>1, <2>2, EntryRowIs
  <2> HIDE DEF row
  <2>4. RowFits(d, "migrated", "journal_entries", kept)
    BY <1>2, <2>3, EntryHeaderFits
  <2>5. kept.lines = {K(n) : n \in 1..N}
    <3>1. kept.lines = {Kept(d, "journal_lines", line) : line \in row.lines}
      BY <2>2, <2>3, EntryKept
    <3> HIDE DEF kept
    <3> QED
      BY <2>3, <3>1
  <2>6. ASSUME NEW n \in 1..N
        PROVE  /\ RowFits(d, "migrated", "journal_lines", K(n))
               /\ K(n).id = r.lines[n].id
               /\ K(n).position = n - 1
    <3> DEFINE p == Placed(r.lines[n], n)
    <3>1. /\ SettledLine(r.lines[n]) /\ JournalLine(r.lines[n], r.lines[n])
          /\ n \in Nat /\ n > 0
      BY <2>1
    <3>2. RowFits(d, "migrated", "journal_lines", K(n))
      BY <3>1, LineFits
    <3>3. DOMAIN p = LineNames /\ p["position"] = n - 1 /\ p["id"] = r.lines[n]["id"]
      <4>1. "id" \in LineFields
        BY DEF LineFields, LineNames
      <4> QED
        BY <3>1, <4>1, PlacedIs DEF SettledLine
    <3> HIDE DEF p
    <3>4. Kept(d, "journal_lines", p)["id"] = p["id"]
      <4>1. /\ Cols("journal_lines")["id"].type = "id" /\ "id" \in LineNames
            /\ Settled(Cols("journal_lines")["id"], p["id"])
        BY LineColumnsAre DEF Settled, LineNames
      <4> QED
        BY <3>3, <4>1, KeptIs
    <3>5. Kept(d, "journal_lines", p)["position"] = p["position"]
      <4>1. /\ Cols("journal_lines")["position"].type = "id" /\ "position" \in LineNames
            /\ Settled(Cols("journal_lines")["position"], p["position"])
        BY LineColumnsAre DEF Settled, LineNames
      <4> QED
        BY <3>3, <4>1, KeptIs
    <3> QED
      BY <3>2, <3>3, <3>4, <3>5 DEF p
  <2> HIDE DEF K, kept
  <2>7. ASSUME NEW line \in kept.lines, NEW other \in kept.lines,
               line.id = other.id \/ line.position = other.position
        PROVE  line = other
    <3>1. PICK m \in 1..N : line = K(m)
      BY <2>5
    <3>2. PICK n \in 1..N : other = K(n)
      BY <2>5
    <3>3. /\ line.id = r.lines[m].id /\ line.position = m - 1
          /\ other.id = r.lines[n].id /\ other.position = n - 1
      BY <2>6, <3>1, <3>2
    <3>4. m = n
      BY <2>2, <2>7, <3>3
    <3> QED
      BY <3>1, <3>2, <3>4
  <2>8. \A line \in kept.lines : RowFits(d, "migrated", "journal_lines", line)
    BY <2>5, <2>6
  <2> QED
    BY <1>2, <2>4, <2>7, <2>8, SameColumns DEF Accepts, kept, row
<1> QED
  BY <1>1, <1>2

(* And it is a row as any other.                                           *)
LEMMA ValidWellFormed ==
    ASSUME NEW t \in Tables, NEW r, ValidRecord(t, r)
    PROVE  WellFormed(t, ToRow(t, r))
<1>1. SettledRecord(t, r) /\ FieldsFill(t, r) /\ DOMAIN r = DOMAIN Cols(t)
  BY RecordStays DEF ValidRecord, SettledRecord
<1>2. CASE t # "journal_entries"
  <2>1. ToRow(t, r) = r /\ "lines" \notin DOMAIN r
    BY <1>1, <1>2, LinesAreOfEntries DEF ToRow
  <2> QED
    BY <1>1, <1>2, <2>1 DEF WellFormed, FillsRow, FieldsFill, Cols
<1>3. CASE t = "journal_entries"
  <2> DEFINE row == ToRow("journal_entries", r)
  <2>1. PICK N \in Nat : /\ DOMAIN r.lines = 1..N
                          /\ \A n \in 1..N : /\ SettledLine(r.lines[n])
                                             /\ JournalLine(r.lines[n], r.lines[n])
    BY <1>3, EntryValid
  <2>2. /\ DOMAIN row = DOMAIN r
        /\ \A c \in DOMAIN r \ {"lines"} : row[c] = r[c]
        /\ row.lines = {Placed(r.lines[n], n) : n \in 1..N}
    BY <1>3, <2>1, EntryValid, EntryRowIs
  <2> HIDE DEF row
  <2>3. FillsRow(t, row)
    <3>1. Fills(Cols(t)["lines"], row["lines"])
      BY <1>3, EntryColumnsAre DEF Fills
    <3> QED
      BY <1>1, <2>2, <3>1 DEF FillsRow, FieldsFill, Cols
  <2> DEFINE s == [n \in 1..N |-> Placed(r.lines[n], n)]
  <2>4. ASSUME NEW n \in 1..N
        PROVE  /\ s[n].position = n - 1
               /\ FillsRow("journal_lines", s[n])
               /\ s[n].amount.halves % 2 = 0
    <3> DEFINE p == Placed(r.lines[n], n)
    <3>1. SettledLine(r.lines[n]) /\ LineFills(r.lines[n])
      BY <2>1, LineStays
    <3>2. /\ DOMAIN p = LineNames /\ p["position"] = n - 1
          /\ \A c \in LineFields : p[c] = r.lines[n][c]
      BY <3>1, PlacedIs DEF SettledLine
    <3>3. r.lines[n]["amount"].halves % 2 = 0 /\ "amount" \in LineFields
      BY <2>1 DEF JournalLine, LineFields, LineNames
    <3> HIDE DEF p
    <3>4. Fills(Cols("journal_lines")["position"], p["position"])
      BY LineColumnsAre DEF Fills
    <3>5. \A c \in LineNames : Fills(Cols("journal_lines")[c], p[c])
      BY <3>1, <3>2, <3>4 DEF LineFills, LineFields
    <3>6. FillsRow("journal_lines", p)
      BY <3>2, <3>5, LineColumnsAre DEF FillsRow, Cols
    <3> QED
      BY <3>2, <3>6, <3>3 DEF p
  <2>5. /\ s \in [1..N -> row.lines]
        /\ \A line \in row.lines : \E n \in 1..N : s[n] = line
    BY <2>2
  <2> HIDE DEF s
  <2>6. IsFiniteSet(row.lines) /\ \A line \in row.lines : line.position \in Int
    <3>1. \A n \in 1..N : s[n].position = n - 1
      BY <2>4
    <3> DEFINE V == row.lines
    <3>2. InPlaces(N, s, V)
      BY <2>1, <2>5, <3>1 DEF InPlaces
    <3> HIDE DEF V
    <3>3. IsFiniteSet(V) /\ \A line \in V : line.position \in Int
      BY <3>2, SortedBack
    <3> QED
      BY <3>3 DEF V
  <2>7. \A line \in row.lines :
           FillsRow("journal_lines", line) /\ line.amount.halves % 2 = 0
    BY <2>4, <2>5
  <2> QED
    BY <1>3, <2>3, <2>6, <2>7 DEF WellFormed, row
<1> QED
  BY <1>2, <1>3

-----------------------------------------------------------------------------
(* Part 9: rows are read.                                                  *)

(* What a valid record was stored as is read as that record.               *)
LEMMA LineBack ==
    ASSUME NEW d \in Databases, NEW line, SettledLine(line), NEW n \in Nat,
           JournalLine(line, line)
    PROVE  Results("journal_lines", Kept(d, "journal_lines", Placed(line, n))) =
              Placed(line, n)
<1> DEFINE t == "journal_lines"
           p == Placed(line, n)
           kept == Kept(d, t, p)
<1>1. /\ DOMAIN p = LineNames
      /\ \A c \in LineFields : p[c] = line[c]
  BY PlacedIs DEF SettledLine
<1>2. IsFunction(p)
  BY DEF Placed, Joined, IsFunction
<1>3. "amount" \in LineFields /\ (line["amount"] # Null => line["amount"].halves % 2 = 0)
  BY DEF LineFields, LineNames, JournalLine
<1> HIDE DEF p
<1>4. DOMAIN kept = LineNames /\ \A c \in LineNames : kept[c] = InColumn(d, Cols(t)[c], p[c])
  BY <1>1, KeptIs
<1>5. ASSUME NEW c \in LineNames
      PROVE  ColumnResult(Cols(t)[c], kept[c]) = p[c]
  <2>1. Settled(Cols(t)[c], p[c])
    <3>1. CASE c = "position"
      BY <3>1, LineColumnsAre DEF Settled
    <3>2. CASE c # "position"
      BY <1>1, <3>2 DEF SettledLine, LineFields
    <3> QED
      BY <3>1, <3>2
  <2>2. Cols(t)[c].type = "amount" /\ p[c] # Null => p[c].halves % 2 = 0
    <3>1. Cols(t)[c].type = "amount" => c = "amount"
      BY LineColumnsAre DEF LineNames
    <3> QED
      BY <1>1, <1>3, <3>1
  <2> QED
    BY <1>4, <2>1, <2>2, KeptAndBack
<1> HIDE DEF kept
<1>6. Results(t, kept) = [c \in LineNames |-> p[c]]
  BY <1>4, <1>5 DEF Results, Cols
<1> QED
  BY <1>1, <1>2, <1>6 DEF IsFunction, kept, p

(* The columns of a record, as they come back.                             *)
LEMMA RecordBack ==
    ASSUME NEW d \in Databases, NEW t \in Tables, NEW r, SettledRecord(t, r),
           NEW c \in DOMAIN r \ {"lines"}
    PROVE  ColumnResult(Cols(t)[c], InColumn(d, Cols(t)[c], r[c])) = r[c]
<1>1. Settled(Cols(t)[c], r[c]) /\ c \in DOMAIN Cols(t)
  BY DEF SettledRecord
<1>2. Cols(t)[c].type # "amount"
  <2>1. CASE t \in {"accounts", "journals"}
    <3>1. CASE c \in JournalNames
      BY <2>1, <3>1, CodedColumnsAre DEF JournalNames, RecordNames, CodeNames
    <3>2. CASE c \notin JournalNames
      BY <1>1, <2>1, <3>2, AccountColumnsAre, JournalColumnsAre
         DEF AccountNames, JournalNames
    <3> QED
      BY <3>1, <3>2
  <2>2. CASE t = "journal_entries"
    <3>1. CASE c \in RecordNames
      BY <2>2, <3>1, EntryColumnsAre, RecordColumnsAre DEF RecordNames
    <3>2. CASE c \notin RecordNames
      BY <1>1, <2>2, <3>2, EntryColumnsAre DEF EntryNames
    <3> QED
      BY <3>1, <3>2
  <2>3. CASE t = "audit_events"
    BY <1>1, <2>3, AuditColumnsAre DEF AuditNames
  <2> QED
    BY <2>1, <2>2, <2>3 DEF Tables
<1> QED
  BY <1>1, <1>2, KeptAndBack

(* Every record has extensions.                                            *)
LEMMA ExtensionsColumn ==
    ASSUME NEW t \in Tables, t # "audit_events"
    PROVE  "extensions" \in DOMAIN Cols(t) /\ Cols(t)["extensions"].type = "json"
<1>1. CASE t \in {"accounts", "journals"}
  BY <1>1, CodedColumnsAre DEF JournalNames, RecordNames
<1>2. CASE t = "journal_entries"
  <2>1. "extensions" \in RecordNames /\ "extensions" \in EntryNames
    BY DEF RecordNames, EntryNames
  <2> QED
    BY <1>2, <2>1, EntryColumnsAre, RecordColumnsAre
<1> QED
  BY <1>1, <1>2 DEF Tables

(* A valid record is read as it was written.                               *)
LEMMA ReadBack ==
    ASSUME NEW d \in Databases, NEW t \in Tables, NEW r, ValidRecord(t, r),
           t # "audit_events" => r.extensions # "core"
    PROVE  FromRow(t, InColumns(d, Declared, t, ToRow(t, r))) = r
<1> DEFINE row == ToRow(t, r)
           kept == InColumns(d, Declared, t, row)
           values == Results(t, kept)
<1>1. /\ SettledRecord(t, r) /\ DOMAIN r = DOMAIN Cols(t) /\ IsFunction(r)
      /\ "lines" \in DOMAIN r <=> t = "journal_entries"
  BY LinesAreOfEntries DEF ValidRecord, SettledRecord
<1>2. /\ DOMAIN kept = DOMAIN r
      /\ \A c \in DOMAIN r \ {"lines"} : kept[c] = InColumn(d, Cols(t)[c], r[c])
  <2>1. CASE t # "journal_entries"
    <3>1. kept = Kept(d, t, r)
      BY <2>1 DEF ToRow, InColumns, Kept
    <3> HIDE DEF kept
    <3> QED
      BY <3>1, KeptIs
  <2>2. CASE t = "journal_entries"
    <3>1. DOMAIN row = DOMAIN r /\ \A c \in DOMAIN r \ {"lines"} : row[c] = r[c]
      BY <1>1, <2>2, EntryRowIs
    <3> HIDE DEF row
    <3>2. /\ DOMAIN kept = DOMAIN row
          /\ \A c \in DOMAIN row \ {"lines"} : kept[c] = InColumn(d, Cols(t)[c], row[c])
      BY <1>1, <2>2, <3>1, EntryKept
    <3> QED
      BY <3>1, <3>2
  <2> QED
    BY <2>1, <2>2
<1>3. domain_values(t, kept) = values /\ values # Raised
  <2>1. ASSUME t # "audit_events"
        PROVE  kept.extensions # "core"
    <3>1. /\ "extensions" \in DOMAIN r \ {"lines"}
          /\ Cols(t)["extensions"].type = "json"
      BY <1>1, <2>1, ExtensionsColumn
    <3>2. Settled(Cols(t)["extensions"], r["extensions"])
      BY <1>1, <3>1 DEF SettledRecord
    <3> HIDE DEF kept
    <3> QED
      BY <1>2, <2>1, <3>1, <3>2, KeptAndBack
  <2>2. DOMAIN values = DOMAIN Cols(t)
    BY <1>1, <1>2 DEF Results
  <2> QED
    BY <2>1, <2>2, NoMarker DEF domain_values
<1>4. /\ IsFunction(values) /\ DOMAIN values = DOMAIN r
      /\ \A c \in DOMAIN r \ {"lines"} : values[c] = r[c]
      /\ t = "journal_entries" => values.lines = kept.lines
  <2> HIDE DEF kept
  <2>1. /\ IsFunction(values) /\ DOMAIN values = DOMAIN r
        /\ \A c \in DOMAIN r : values[c] = ColumnResult(Cols(t)[c], kept[c])
    BY <1>2 DEF Results, Cols, IsFunction
  <2> HIDE DEF values
  <2>2. \A c \in DOMAIN r \ {"lines"} : values[c] = r[c]
    BY <1>1, <1>2, <2>1, RecordBack
  <2>3. t = "journal_entries" => values["lines"] = kept["lines"]
    BY <1>1, <2>1, EntryColumnsAre DEF ColumnResult
  <2> QED
    BY <2>1, <2>2, <2>3
<1>5. CASE t # "journal_entries"
  <2> HIDE DEF values
  <2>1. values = r
    BY <1>1, <1>4, <1>5 DEF IsFunction
  <2> HIDE DEF kept
  <2>2. FromRow(t, kept) = Validated(t, r)
    BY <1>3, <1>5, <2>1 DEF FromRow
  <2> QED
    BY <2>2, ValidStays DEF kept, row
<1>6. CASE t = "journal_entries"
  <2> DEFINE lines == {Results("journal_lines", line) : line \in values.lines}
  <2>1. PICK N \in Nat :
           /\ DOMAIN r.lines = 1..N
           /\ \A n \in 1..N : /\ SettledLine(r.lines[n])
                              /\ JournalLine(r.lines[n], r.lines[n])
    BY <1>6, EntryValid
  <2> DEFINE s == [n \in 1..N |-> Placed(r.lines[n], n)]
  <2>2. lines = {s[n] : n \in 1..N}
    <3>1. DOMAIN row = DOMAIN r /\ row.lines = {Placed(r.lines[n], n) : n \in 1..N}
      BY <1>1, <1>6, <2>1, EntryRowIs
    <3> HIDE DEF row
    <3>2. kept.lines = {Kept(d, "journal_lines", line) : line \in row.lines}
      BY <1>1, <1>6, <3>1, EntryKept
    <3> HIDE DEF kept, values
    <3>3. lines = {Results("journal_lines", Kept(d, "journal_lines", Placed(r.lines[n], n))) :
                      n \in 1..N}
      BY <1>4, <1>6, <3>1, <3>2
    <3>4. \A n \in 1..N :
             Results("journal_lines", Kept(d, "journal_lines", Placed(r.lines[n], n))) = s[n]
      BY <2>1, LineBack
    <3> QED
      BY <3>3, <3>4
  <2>3. \A n \in 1..N : s[n].position = n - 1 /\ Unplaced(s[n]) = r.lines[n]
    BY <2>1, PlacedIs DEF SettledLine
  <2>4. s \in [1..N -> lines] /\ \A line \in lines : \E n \in 1..N : s[n] = line
    BY <2>2
  <2> HIDE DEF lines, s, values
  <2>5. /\ IsFunction(Sorted(lines)) /\ DOMAIN Sorted(lines) = 1..N
        /\ \A n \in 1..N : Sorted(lines)[n] = Unplaced(s[n])
    <3>1. s \in [1..N -> lines] /\ \A line \in lines : \E n \in 1..N : s[n] = line
      BY <2>4
    <3>2. \A n \in 1..N : s[n].position = n - 1
      BY <2>3
    <3>3. InPlaces(N, s, lines)
      BY <2>1, <3>1, <3>2 DEF InPlaces
    <3> QED
      BY <3>3, SortedBack
  <2>6. Sorted(lines) = r.lines
    <3> DEFINE f == Sorted(lines)
               g == r.lines
    <3>1. IsFunction(f) /\ IsFunction(g) /\ DOMAIN f = 1..N /\ DOMAIN g = 1..N
      BY <1>6, <2>1, <2>5, EntryValid
    <3>2. \A n \in 1..N : f[n] = g[n]
      BY <2>3, <2>5
    <3> HIDE DEF f, g
    <3>3. f = g
      BY <3>1, <3>2 DEF IsFunction
    <3> QED
      BY <3>3 DEF f, g
  <2>7. [values EXCEPT !.lines = r.lines] = r
    BY <1>1, <1>4, <1>6 DEF IsFunction
  <2> HIDE DEF kept
  <2>8. FromRow(t, kept) = Validated(t, [values EXCEPT !.lines = Sorted(lines)])
    BY <1>3, <1>6 DEF FromRow, lines
  <2> QED
    BY <2>6, <2>7, <2>8, ValidStays DEF kept, row
<1> QED
  BY <1>5, <1>6

(* The limit of a column is a number.                                      *)
LEMMA LimitsAre ==
    /\ \A t \in Tables : \A c \in DOMAIN Cols(t) : Cols(t)[c].limit \in Nat
    /\ \A c \in LineNames : Cols("journal_lines")[c].limit \in Nat
<1>1. \A c \in RecordNames : RecordColumns[c].limit \in Nat
  BY RecordColumnsAre DEF RecordNames
<1>2. \A c \in RecordNames \cup CodeNames : CodeRow[c].limit \in Nat
  BY <1>1, CodeColumnsAre DEF CodeNames
<1>3. \A c \in DOMAIN Cols("accounts") : Cols("accounts")[c].limit \in Nat
  BY <1>2, AccountColumnsAre DEF AccountNames
<1>4. \A c \in DOMAIN Cols("journals") : Cols("journals")[c].limit \in Nat
  BY <1>2, JournalColumnsAre DEF JournalNames
<1>5. \A c \in DOMAIN Cols("journal_entries") : Cols("journal_entries")[c].limit \in Nat
  BY <1>1, EntryColumnsAre DEF EntryNames
<1>6. \A c \in DOMAIN Cols("audit_events") : Cols("audit_events")[c].limit \in Nat
  BY AuditColumnsAre DEF AuditNames
<1>7. \A c \in LineNames : Cols("journal_lines")[c].limit \in Nat
  BY LineColumnsAre DEF LineNames
<1> QED
  BY <1>3, <1>4, <1>5, <1>6, <1>7 DEF Tables

(* The columns of a line, in order, hold what they held.                   *)
LEMMA SortedFill ==
    ASSUME NEW V, IsFiniteSet(V),
           \A x \in V : FillsRow("journal_lines", x) /\ x.position \in Int
    PROVE  \E N \in Nat : /\ DOMAIN Sorted(V) = 1..N
                          /\ \A n \in 1..N : LineFills(Sorted(V)[n])
<1> DEFINE N == Cardinality(V)
<1>1. N \in Nat
  BY FS_CardinalityType
<1>2. PICK s \in [1..N -> V] : Sorted(V) = [n \in 1..N |-> Unplaced(s[n])]
  BY SortedLines
<1>3. ASSUME NEW x \in V
      PROVE  LineFills(Unplaced(x))
  <2>1. DOMAIN x = LineNames /\ \A c \in LineNames : Fills(Cols("journal_lines")[c], x[c])
    BY LineColumnsAre DEF FillsRow, Cols
  <2>2. DOMAIN Unplaced(x) = LineFields /\ \A c \in LineFields : Unplaced(x)[c] = x[c]
    BY <2>1 DEF Unplaced, LineFields
  <2> QED
    BY <2>1, <2>2 DEF LineFills, LineFields
<1> HIDE DEF N
<1>4. DOMAIN Sorted(V) = 1..N /\ \A n \in 1..N : LineFills(Sorted(V)[n])
  BY <1>2, <1>3
<1> QED
  BY <1>1, <1>4

(* What a caller gives has the types of the columns, its lines in order.   *)
LEMMA GivenFills ==
    ASSUME NEW t \in Tables, NEW row, WellFormed(t, row)
    PROVE  /\ FieldsFill(t, Fields(t, row))
           /\ \A c \in DOMAIN row \ {"lines"} : Fields(t, row)[c] = row[c]
<1>1. DOMAIN row = DOMAIN Cols(t) /\ \A c \in DOMAIN row : Fills(Cols(t)[c], row[c])
  BY DEF WellFormed, FillsRow, Cols
<1>2. CASE t # "journal_entries"
  BY <1>1, <1>2 DEF Fields, FieldsFill
<1>3. CASE t = "journal_entries"
  <2> DEFINE f == Fields(t, row)
             V == row.lines
  <2>1. f = [row EXCEPT !.lines = Sorted(V)]
    BY <1>3 DEF Fields
  <2>2. \E N \in Nat : /\ DOMAIN Sorted(V) = 1..N
                       /\ \A n \in 1..N : LineFills(Sorted(V)[n])
    <3>1. /\ IsFiniteSet(V)
          /\ \A x \in V : FillsRow("journal_lines", x) /\ x.position \in Int
      BY <1>3 DEF WellFormed
    <3> HIDE DEF V
    <3> QED
      BY <3>1, SortedFill
  <2>3. "lines" \in DOMAIN row
    BY <1>1, <1>3, LinesAreOfEntries
  <2> HIDE DEF f, V
  <2>4. /\ DOMAIN f = DOMAIN row /\ f.lines = Sorted(V)
        /\ \A c \in DOMAIN row \ {"lines"} : f[c] = row[c]
    BY <2>1, <2>3
  <2> QED
    BY <1>1, <2>2, <2>4 DEF FieldsFill, f
<1> QED
  BY <1>2, <1>3

(* A row, or a line, that was kept and is read.                            *)
LEMMA ResultsFill ==
    ASSUME NEW d \in Databases, NEW name \in Tables \cup {"journal_lines"},
           NEW row, FillsRow(name, row)
    PROVE  LET kept == Kept(d, name, row)
               read == Results(name, kept) IN
           /\ FillsRow(name, read) /\ DOMAIN read = DOMAIN Cols(name)
           /\ \A c \in DOMAIN Cols(name) :
                 /\ Cols(name)[c].type = "id" => read[c] = row[c]
                 /\ Normal(Cols(name)[c], read[c]) =
                       Normal(Cols(name)[c], kept[c])
<1> DEFINE kept == Kept(d, name, row)
           read == Results(name, kept)
<1>1. DOMAIN row = DOMAIN Cols(name) /\ \A c \in DOMAIN row : Fills(Cols(name)[c], row[c])
  BY DEF FillsRow, Cols
<1>2. /\ DOMAIN kept = DOMAIN row
      /\ \A c \in DOMAIN row : kept[c] = InColumn(d, Cols(name)[c], row[c])
  BY KeptIs
<1> HIDE DEF kept
<1>3. /\ DOMAIN read = DOMAIN row
      /\ \A c \in DOMAIN row : read[c] = ColumnResult(Cols(name)[c], kept[c])
  BY <1>2 DEF Results, Cols
<1> HIDE DEF read
<1>4. ASSUME NEW c \in DOMAIN row
      PROVE  /\ Fills(Cols(name)[c], read[c])
             /\ Cols(name)[c].type = "id" => read[c] = row[c]
             /\ Normal(Cols(name)[c], read[c]) = Normal(Cols(name)[c], kept[c])
  <2> DEFINE column == Cols(name)[c]
  <2>1. column.limit \in Nat
    BY <1>1, LimitsAre, LineColumnsAre
  <2>2. kept[c] = InColumn(d, column, row[c]) /\ read[c] = ColumnResult(column, kept[c])
    BY <1>2, <1>3
  <2>3. Fills(column, row[c])
    BY <1>1
  <2> HIDE DEF column
  <2>4. Fills(column, kept[c])
    BY <2>1, <2>2, <2>3, ReadFills
  <2>5. /\ Fills(column, read[c])
        /\ Normal(column, read[c]) = Normal(column, kept[c])
    BY <2>1, <2>2, <2>4, ReadFills
  <2>6. column.type = "id" => kept[c] = row[c] /\ read[c] = kept[c]
    BY <2>2 DEF InColumn, ColumnResult, IsText
  <2> QED
    BY <2>5, <2>6 DEF column
<1> QED
  BY <1>1, <1>3, <1>4 DEF FillsRow, Cols, kept, read

(* A row as it is kept, whoever wrote it.                                  *)
LEMMA RowKept ==
    ASSUME NEW d \in Databases, NEW t \in Tables, NEW row, WellFormed(t, row)
    PROVE  LET kept == InColumns(d, Declared, t, row) IN
           /\ DOMAIN kept = DOMAIN Cols(t)
           /\ \A c \in DOMAIN Cols(t) \ {"lines"} : kept[c] = Kept(d, t, row)[c]
           /\ t = "journal_entries" =>
                 kept.lines = {Kept(d, "journal_lines", line) : line \in row.lines}
<1> DEFINE kept == InColumns(d, Declared, t, row)
<1>1. DOMAIN row = DOMAIN Cols(t)
  BY DEF WellFormed, FillsRow, Cols
<1>2. /\ DOMAIN Kept(d, t, row) = DOMAIN row
      /\ \A c \in DOMAIN row : Kept(d, t, row)[c] = InColumn(d, Cols(t)[c], row[c])
  BY DEF Kept, InRow, Cols
<1>3. CASE t # "journal_entries"
  <2>1. kept = Kept(d, t, row)
    BY <1>3 DEF InColumns, Kept
  <2> QED
    BY <1>1, <1>2, <1>3, <2>1
<1>4. CASE t = "journal_entries"
  <2>1. "lines" \in DOMAIN row
    BY <1>1, <1>4, LinesAreOfEntries
  <2>2. /\ DOMAIN kept = DOMAIN row
        /\ \A c \in DOMAIN row \ {"lines"} :
              kept[c] = InColumn(d, Cols(t)[c], row[c])
        /\ kept.lines = {Kept(d, "journal_lines", line) : line \in row.lines}
    BY <1>4, <2>1, EntryKept
  <2> HIDE DEF kept
  <2> QED
    BY <1>1, <1>2, <2>2 DEF kept
<1> QED
  BY <1>3, <1>4

(* The fields the models are given when a row is read.                     *)
LEMMA ReadFields ==
    ASSUME NEW d \in Databases, NEW t \in Tables, NEW row,
           WellFormed(t, row),
           FromRow(t, InColumns(d, Declared, t, row)) # Raised
    PROVE  \E f : /\ FieldsFill(t, f)
                  /\ FromRow(t, InColumns(d, Declared, t, row)) =
                        Validated(t, f)
                  /\ \A c \in DOMAIN Cols(t) \ {"lines"} :
                        Normal(Cols(t)[c], f[c]) =
                           Normal(Cols(t)[c], Kept(d, t, row)[c])
<1> DEFINE kept == InColumns(d, Declared, t, row)
           plain == Results(t, Kept(d, t, row))
           values == Results(t, kept)
<1>1. /\ DOMAIN kept = DOMAIN Cols(t)
      /\ \A c \in DOMAIN Cols(t) \ {"lines"} : kept[c] = Kept(d, t, row)[c]
      /\ t = "journal_entries" =>
            kept.lines = {Kept(d, "journal_lines", line) : line \in row.lines}
  BY RowKept
<1>2. /\ FillsRow(t, plain) /\ DOMAIN plain = DOMAIN Cols(t)
      /\ \A c \in DOMAIN Cols(t) :
            Normal(Cols(t)[c], plain[c]) = Normal(Cols(t)[c], Kept(d, t, row)[c])
  BY ResultsFill DEF WellFormed
<1>3. FromRow(t, kept) # Raised
  OBVIOUS
<1>4. domain_values(t, kept) = values /\ values # Raised
  <2> HIDE DEF kept
  <2>1. domain_values(t, kept) # Raised
    BY <1>3 DEF FromRow
  <2>2. domain_values(t, kept) = values
    BY <2>1 DEF domain_values
  <2> QED
    BY <2>1, <2>2
<1>5. /\ DOMAIN values = DOMAIN Cols(t)
      /\ \A c \in DOMAIN Cols(t) \ {"lines"} : values[c] = plain[c]
      /\ t = "journal_entries" => values.lines = kept.lines
  <2> HIDE DEF kept
  <2>1. /\ DOMAIN values = DOMAIN kept
        /\ \A c \in DOMAIN kept : values[c] = ColumnResult(Cols(t)[c], kept[c])
    BY DEF Results, Cols
  <2>2. \A c \in DOMAIN Cols(t) :
           plain[c] = ColumnResult(Cols(t)[c], Kept(d, t, row)[c])
    <3>1. DOMAIN Kept(d, t, row) = DOMAIN Cols(t)
      BY KeptIs DEF WellFormed, FillsRow, Cols
    <3> QED
      BY <3>1 DEF Results, Cols
  <2> HIDE DEF values, plain
  <2>3. t = "journal_entries" => values["lines"] = kept["lines"]
    BY <1>1, <2>1, EntryColumnsAre, LinesAreOfEntries DEF ColumnResult
  <2> QED
    BY <1>1, <2>1, <2>2, <2>3
<1>6. \A c \in DOMAIN Cols(t) : Fills(Cols(t)[c], plain[c])
  BY <1>2 DEF FillsRow, Cols
<1>7. CASE t # "journal_entries"
  <2> HIDE DEF kept, values, plain
  <2>1. FromRow(t, kept) = Validated(t, values)
    BY <1>4, <1>7 DEF FromRow
  <2>2. FieldsFill(t, values)
    BY <1>5, <1>6, <1>7 DEF FieldsFill
  <2> QED
    BY <1>2, <1>5, <2>1, <2>2 DEF kept
<1>8. CASE t = "journal_entries"
  <2> DEFINE V == {Results("journal_lines", line) : line \in values.lines}
             f == [values EXCEPT !.lines = Sorted(V)]
             AsRead(line) == Results("journal_lines", Kept(d, "journal_lines", line))
  <2>1. IsFiniteSet(row.lines)
    BY <1>8 DEF WellFormed
  <2>2. ASSUME NEW line \in row.lines
        PROVE  FillsRow("journal_lines", AsRead(line)) /\ AsRead(line).position \in Int
    <3>1. FillsRow("journal_lines", line) /\ line.position \in Int
      BY <1>8 DEF WellFormed
    <3>2. "position" \in DOMAIN Cols("journal_lines") /\ Cols("journal_lines")["position"].type = "id"
      BY LineColumnsAre DEF LineNames
    <3>3. /\ FillsRow("journal_lines", AsRead(line))
          /\ \A c \in DOMAIN Cols("journal_lines") :
                Cols("journal_lines")[c].type = "id" => AsRead(line)[c] = line[c]
      BY <3>1, ResultsFill
    <3> HIDE DEF AsRead
    <3> QED
      BY <3>1, <3>2, <3>3
  <2>3. V = {AsRead(line) : line \in row.lines}
    <3> HIDE DEF values, kept
    <3>1. values.lines = {Kept(d, "journal_lines", line) : line \in row.lines}
      BY <1>1, <1>5, <1>8
    <3> QED
      BY <3>1
  <2> HIDE DEF V, AsRead
  <2>4. IsFiniteSet(V) /\ \A x \in V : FillsRow("journal_lines", x) /\ x.position \in Int
    <3> DEFINE W == {AsRead(line) : line \in row.lines}
               g == [line \in row.lines |-> AsRead(line)]
    <3>1. g \in Surjection(row.lines, W)
      BY DEF Surjection
    <3> HIDE DEF g, W
    <3>2. IsFiniteSet(W)
      BY <2>1, <3>1, FS_Surjection
    <3> QED
      BY <2>2, <2>3, <3>2 DEF W
  <2>5. \E N \in Nat : /\ DOMAIN Sorted(V) = 1..N
                       /\ \A n \in 1..N : LineFills(Sorted(V)[n])
    BY <2>4, SortedFill
  <2>6. FromRow(t, kept) = Validated(t, f)
    <3> HIDE DEF kept
    <3> QED
      BY <1>4, <1>8 DEF FromRow, V
  <2> HIDE DEF kept, values, plain
  <2>7. /\ DOMAIN f = DOMAIN Cols(t) /\ f.lines = Sorted(V)
        /\ \A c \in DOMAIN Cols(t) \ {"lines"} : f[c] = values[c]
    BY <1>5, <1>8, LinesAreOfEntries
  <2> HIDE DEF f
  <2>8. FieldsFill(t, f)
    BY <1>5, <1>6, <2>5, <2>7 DEF FieldsFill
  <2> QED
    BY <1>2, <1>5, <2>6, <2>7, <2>8 DEF kept
<1> QED
  BY <1>7, <1>8

(* A read raises, or returns a valid record with what the columns say.     *)
LEMMA ReadIs ==
    ASSUME NEW d \in Databases, NEW t \in Tables, NEW row,
           WellFormed(t, row), Accepts(d, "migrated", t, row),
           FromRow(t, InColumns(d, Declared, t, row)) # Raised
    PROVE  LET kept == InColumns(d, Declared, t, row)
               r == FromRow(t, kept) IN
           /\ ValidRecord(t, r)
           /\ \A c \in DOMAIN r \ {"lines"} : r[c] = Normal(Cols(t)[c], kept[c])
           /\ t # "audit_events" => r.extensions # Null
<1> DEFINE kept == InColumns(d, Declared, t, row)
           r == FromRow(t, kept)
<1>1. /\ DOMAIN kept = DOMAIN Cols(t)
      /\ \A c \in DOMAIN Cols(t) \ {"lines"} : kept[c] = Kept(d, t, row)[c]
  BY RowKept
<1>2. PICK f :
         /\ FieldsFill(t, f) /\ r = Validated(t, f)
         /\ \A c \in DOMAIN Cols(t) \ {"lines"} :
               Normal(Cols(t)[c], f[c]) = Normal(Cols(t)[c], Kept(d, t, row)[c])
  BY ReadFields
<1>3. r # Raised
  OBVIOUS
<1>4. RowFits(d, "migrated", t, kept)
  BY SameColumns DEF Accepts
<1> HIDE DEF kept, r
<1>5. r = Normalized(t, f) /\ ValidRecord(t, r)
  BY <1>2, <1>3, ValidatedIsValid
<1>6. DOMAIN f = DOMAIN Cols(t)
  BY <1>2 DEF FieldsFill
<1>7. /\ DOMAIN r = DOMAIN Cols(t)
      /\ \A c \in DOMAIN Cols(t) \ {"lines"} : r[c] = Normal(Cols(t)[c], f[c])
  BY <1>5, <1>6, NormalizedIs
<1>8. \A c \in DOMAIN r \ {"lines"} : r[c] = Normal(Cols(t)[c], kept[c])
  BY <1>1, <1>2, <1>7
<1>9. ASSUME t # "audit_events"
      PROVE  r.extensions # Null
  <2>1. "extensions" \in DOMAIN Cols(t) /\ Cols(t)["extensions"].type = "json"
    BY <1>9, ExtensionsColumn
  <2>2. Cols(t)["extensions"].null = FALSE
    BY <1>9, CodedColumnsAre, EntryColumnsAre, RecordColumnsAre DEF Tables, RecordNames
  <2>3. kept["extensions"] # Null
    <3>1. Fits(d, Cols(t)["extensions"], kept["extensions"])
      BY <1>1, <1>4, <2>1, RowFitsIs DEF RowNames
    <3> QED
      BY <2>1, <2>2, <3>1 DEF Fits
  <2>4. r["extensions"] = Normal(Cols(t)["extensions"], kept["extensions"])
    BY <1>7, <1>8, <2>1
  <2> QED
    BY <2>1, <2>3, <2>4 DEF Normal
<1> QED
  BY <1>5, <1>8, <1>9 DEF kept, r

-----------------------------------------------------------------------------
(* Part 10: what is written and read.                                      *)

(* What is stored is what the schema made of what was given, and what was  *)
(* read is what the mappers made of that.                                  *)
SchemaInv ==
    /\ database \in Databases /\ table \in Tables /\ by \in {"mapper", "sql"}
    /\ given = Nothing => stored = Nothing
    /\ given # Nothing => given \in Rows[table]
    /\ given # Nothing /\ by = "mapper" =>
           /\ Extension(table, given) \in {"none", "declared"}
           /\ stored = Stored(database, table, Row(table, given))
    /\ given # Nothing /\ by = "sql" => stored = Stored(database, table, given)
    /\ result # Nothing =>
           stored # Nothing /\ result = FromRow(table, stored)

LEMMA SchemaInit == RowInit => SchemaInv
BY DEF RowInit, SchemaInv

LEMMA WriteKeeps ==
    ASSUME SchemaInv, Write
    PROVE  SchemaInv'
<1>1. PICK row \in Rows[table] :
         /\ given' = row
         /\ \/ /\ by = "mapper" /\ Extension(table, row) \in {"none", "declared"}
               /\ stored' = Stored(database, table, Row(table, row))
            \/ by = "sql" /\ stored' = Stored(database, table, row)
  BY DEF Write
<1>2. /\ given = Nothing
      /\ database' = database /\ table' = table /\ by' = by /\ result' = result
  BY DEF Write
<1>3. stored = Nothing /\ result = Nothing
  BY <1>2 DEF SchemaInv
<1>4. row # Nothing
  <2>1. table \in Tables /\ DOMAIN row = DOMAIN Cols(table)
    BY RowsAssumption DEF SchemaInv, WellFormed, FillsRow, Cols
  <2> QED
    BY <2>1, NoMarker
<1> QED
  BY <1>1, <1>2, <1>3, <1>4 DEF SchemaInv

LEMMA ReadKeeps ==
    ASSUME SchemaInv, Read
    PROVE  SchemaInv'
BY DEF SchemaInv, Read

LEMMA SchemaStep ==
    ASSUME SchemaInv, [RowNext]_rowVars
    PROVE  SchemaInv'
<1>1. CASE Write
  BY <1>1, WriteKeeps
<1>2. CASE Read
  BY <1>2, ReadKeeps
<1>3. CASE UNCHANGED rowVars
  BY <1>3 DEF SchemaInv, rowVars
<1> QED
  BY <1>1, <1>2, <1>3 DEF RowNext

LEMMA SchemaAlways == RowSpec => []SchemaInv
<1>1. SchemaInv /\ [RowNext]_rowVars => SchemaInv'
  BY SchemaStep
<1> QED
  BY <1>1, SchemaInit, PTL DEF RowSpec

(* The fields of a record that is let through.                             *)
LEMMA GivenIsValid ==
    ASSUME NEW t \in Tables, NEW row, WellFormed(t, row),
           Extension(t, row) \in {"none", "declared"},
           Validated(t, Fields(t, row)) # Raised
    PROVE  LET r == Validated(t, Fields(t, row)) IN
           /\ ValidRecord(t, r)
           /\ t # "audit_events" => r.extensions # Null /\ r.extensions # "core"
<1> DEFINE f == Fields(t, row)
           r == Validated(t, f)
<1>1. FieldsFill(t, f) /\ \A c \in DOMAIN row \ {"lines"} : f[c] = row[c]
  BY GivenFills
<1>2. r # Raised /\ DOMAIN row = DOMAIN Cols(t)
  BY DEF WellFormed, FillsRow, Cols
<1> HIDE DEF f
<1>3. r = Normalized(t, f) /\ ValidRecord(t, r)
  BY <1>1, <1>2, ValidatedIsValid
<1> HIDE DEF r
<1>4. ASSUME t # "audit_events"
      PROVE  r.extensions # Null /\ r.extensions # "core"
  <2>1. "extensions" \in DOMAIN Cols(t) /\ Cols(t)["extensions"].type = "json"
    BY <1>4, ExtensionsColumn
  <2>2. row["extensions"] \in {"none", "declared"}
    BY <1>4 DEF Extension
  <2>3. row["extensions"] # Null
    BY <2>2, NullAssumption DEF Words
  <2>4. DOMAIN f = DOMAIN Cols(t)
    BY <1>1 DEF FieldsFill
  <2>5. r["extensions"] = Normal(Cols(t)["extensions"], row["extensions"])
    <3>1. f["extensions"] = row["extensions"]
      BY <1>1, <1>2, <2>1
    <3>2. \A c \in DOMAIN Cols(t) \ {"lines"} : r[c] = Normal(Cols(t)[c], f[c])
      BY <1>3, <2>4, NormalizedIs
    <3> QED
      BY <2>1, <3>1, <3>2
  <2>6. r["extensions"] = row["extensions"]
    BY <2>1, <2>3, <2>5 DEF Normal
  <2> QED
    BY <2>2, <2>3, <2>6
<1> QED
  BY <1>3, <1>4 DEF f, r

(* A valid record is stored as the row it is mapped to.                    *)
LEMMA ValidStored ==
    ASSUME NEW d \in Databases, NEW t \in Tables, NEW r, ValidRecord(t, r),
           t # "audit_events" => r.extensions # Null
    PROVE  LET row == ToRow(t, r) IN
           /\ Stored(d, t, row) = InColumns(d, Declared, t, row)
           /\ Stored(d, t, row) # Nothing
           /\ row # Raised
<1> DEFINE row == ToRow(t, r)
<1>1. WellFormed(t, row) /\ Accepts(d, "migrated", t, row)
  BY ValidWellFormed, ValidAccepted
<1> HIDE DEF row
<1>2. DOMAIN row = DOMAIN Cols(t) /\ row # Raised
  <2>1. DOMAIN row = DOMAIN Cols(t)
    BY <1>1 DEF WellFormed, FillsRow, Cols
  <2> QED
    BY <2>1, NoMarker
<1>3. InColumns(d, Declared, t, row) # Nothing
  BY <1>1, RowKept, NoMarker
<1>4. Stored(d, t, row) = InColumns(d, Declared, t, row)
  BY <1>1, <1>2, SameMigrated DEF Stored
<1> QED
  BY <1>2, <1>3, <1>4 DEF row

(* Whatever is stored was an acceptable row, well formed.                  *)
LEMMA StoredWas ==
    ASSUME SchemaInv, stored # Nothing
    PROVE  \E row : /\ WellFormed(table, row)
                    /\ Accepts(database, "migrated", table, row)
                    /\ stored = InColumns(database, Declared, table, row)
                    /\ by = "sql" => row = given
<1>1. /\ given # Nothing /\ given \in Rows[table] /\ WellFormed(table, given)
      /\ table \in Tables
  BY RowsAssumption DEF SchemaInv
<1>2. ASSUME NEW row, stored = Stored(database, table, row)
      PROVE  /\ row # Raised /\ Accepts(database, "migrated", table, row)
             /\ stored = InColumns(database, Declared, table, row)
  BY <1>2, SameMigrated DEF Stored
<1>3. CASE by = "sql"
  BY <1>1, <1>2, <1>3 DEF SchemaInv
<1>4. CASE by = "mapper"
  <2> DEFINE r == Validated(table, Fields(table, given))
  <2>1. /\ Extension(table, given) \in {"none", "declared"}
        /\ stored = Stored(database, table, Row(table, given))
    BY <1>1, <1>4 DEF SchemaInv
  <2>2. Row(table, given) # Raised
    BY <1>2, <2>1
  <2>3. r # Raised /\ Row(table, given) = ToRow(table, r)
    BY <2>2 DEF Row
  <2>4. ValidRecord(table, r)
    BY <1>1, <2>1, <2>3, GivenIsValid
  <2> HIDE DEF r
  <2>5. WellFormed(table, ToRow(table, r))
    BY <1>1, <2>4, ValidWellFormed
  <2> QED
    BY <1>2, <1>4, <2>1, <2>3, <2>5
<1> QED
  BY <1>3, <1>4 DEF SchemaInv

-----------------------------------------------------------------------------
(* Part 11: the two spellings and the two dialects.                        *)

(* The models and the migration accept the same rows.                      *)
LEMMA SchemasAgree ==
    ASSUME NEW d \in Databases, NEW t \in Tables, NEW row
    PROVE  Accepts(d, "declared", t, row) <=> Accepts(d, "migrated", t, row)
<1>1. ASSUME NEW name \in RowNames, NEW r
      PROVE  RowFits(d, "declared", name, r) <=> RowFits(d, "migrated", name, r)
  BY RowFitsIs
<1>2. t \in RowNames /\ "journal_lines" \in RowNames
  BY DEF RowNames
<1> QED
  BY <1>1, <1>2, SameColumns DEF Accepts

\* Whether a value may stand in a column of either dialect.
Plain(column, v) ==
    \/ column.type = "lines"
    \/ v = Null /\ column.null
    \/ v # Null /\ (column.type = "flag" => v \in {0, 1})

PortableIn(column, v) ==
    v # Null => /\ column.type \in {"text", "currency"} => v.len <= column.limit
                /\ column.type = "amount" => v.form = "integer"

EvenIn(column, v) ==
    column.type = "amount" /\ v # Null /\ v.form = "integer" => v.halves % 2 = 0

(* What a column makes of a portable value, in either dialect.             *)
LEMMA PortableKept ==
    ASSUME NEW d \in Databases, NEW column, column.limit \in Nat,
           NEW v, Fills(column, v), PortableIn(column, v), EvenIn(column, v)
    PROVE  LET kept == InColumn(d, column, v) IN
           /\ kept = Null <=> v = Null
           /\ column.type \notin {"time", "amount"} => kept = v
           /\ column.type = "time" /\ v # Null => kept.at = v.at
           /\ column.type = "amount" /\ v # Null =>
                 /\ kept = [form |-> IF d = "sqlite" THEN "integer" ELSE "numeric",
                            halves |-> v.halves]
                 /\ v = [form |-> "integer", halves |-> v.halves]
                 /\ v.halves % 2 = 0
           /\ Fits(d, column, kept) <=> Plain(column, v)
<1> DEFINE kept == InColumn(d, column, v)
<1>1. CASE v = Null
  <2>1. kept = Null
    BY <1>1 DEF InColumn
  <2> HIDE DEF kept
  <2>2. Fits(d, column, kept) <=> Plain(column, v)
    BY <1>1, <2>1 DEF Fits, Plain
  <2> QED
    BY <1>1, <2>1, <2>2 DEF kept
<1>2. CASE v # Null /\ column.type \in {"text", "currency"}
  <2>1. v \in Text /\ v.len \in Nat /\ v.len <= column.limit
    BY <1>2 DEF Fills, PortableIn, Text
  <2>2. kept = v
    <3>1. Trimmed(column, v) = v
      BY <2>1 DEF Trimmed
    <3> QED
      BY <1>2, <3>1 DEF InColumn, IsText
  <2> HIDE DEF kept
  <2>3. Fits(d, column, kept) <=> Plain(column, v)
    BY <1>2, <2>1, <2>2 DEF Fits, Plain, IsText
  <2> QED
    BY <1>2, <2>2, <2>3 DEF kept
<1>3. CASE v # Null /\ column.type = "time"
  <2>1. v \in Time
    BY <1>3 DEF Fills
  <2> DEFINE time == DateTime(d, v)
  <2>2. kept = time
    BY <1>3 DEF InColumn, IsText
  <2>3. time \in Time /\ time.at = v.at
    BY <2>1 DEF DateTime, Time
  <2> HIDE DEF time, kept
  <2>4. kept # Null
    BY <2>2, <2>3, NullAssumption
  <2>5. Fits(d, column, kept) <=> Plain(column, v)
    BY <1>3, <2>4 DEF Fits, Plain, IsText
  <2> QED
    BY <1>3, <2>2, <2>3, <2>4, <2>5 DEF kept
<1>4. CASE v # Null /\ column.type = "amount"
  <2>1. v \in Amount /\ v.form = "integer" /\ v.halves % 2 = 0
    BY <1>4 DEF Fills, PortableIn, EvenIn
  <2>2. v = [form |-> "integer", halves |-> v.halves]
    BY <2>1 DEF Amount
  <2> DEFINE amount == [form |-> IF d = "sqlite" THEN "integer" ELSE "numeric",
                        halves |-> v.halves]
  <2>3. kept = amount
    BY <1>4, <2>1 DEF InColumn, IsText, WholeHundredths
  <2>4. amount \in Amount
    BY <2>1 DEF Amount
  <2> HIDE DEF kept
  <2>5. kept # Null
    BY <2>3, <2>4, NullAssumption
  <2>6. Fits(d, column, kept) <=> Plain(column, v)
    BY <1>4, <2>5 DEF Fits, Plain, IsText
  <2> QED
    BY <1>4, <2>1, <2>2, <2>3, <2>5, <2>6 DEF kept
<1>5. CASE v # Null /\ column.type \notin {"text", "currency", "time", "amount"}
  <2>1. kept = v
    BY <1>5 DEF InColumn, IsText
  <2> HIDE DEF kept
  <2>2. Fits(d, column, kept) <=> Plain(column, v)
    BY <1>5, <2>1 DEF Fits, Plain, IsText
  <2> QED
    BY <1>5, <2>1, <2>2 DEF kept
<1> QED
  BY <1>1, <1>2, <1>3, <1>4, <1>5

\* The CHECKs of either dialect, of a portable row that is yet to be kept.
PlainPasses(name, row) ==
    /\ name \in {"accounts", "journals"} => CodedPasses(row)
    /\ name = "accounts" => row.account_type = "asset"
    /\ name = "journal_entries" =>
           /\ row.updated_at.at >= row.created_at.at
           /\ row.description.len \in 1..1000
    /\ name = "journal_lines" =>
           /\ row.position >= 0 /\ row.side \in Sides
           /\ row.amount.halves \in 2..2 * MaxMinorUnits
           /\ row.currency.len = 3 /\ row.currency.kind = "upper"
    /\ name = "audit_events" => row.action = "delete"

PortableRow(name, row) ==
    /\ DOMAIN row = DOMAIN Cols(name)
    /\ \A c \in DOMAIN row : /\ Fills(Cols(name)[c], row[c])
                             /\ PortableIn(Cols(name)[c], row[c])
                             /\ EvenIn(Cols(name)[c], row[c])

(* The limits of all columns, and the table that has lines.                *)
LEMMA RowColumns ==
    ASSUME NEW name \in RowNames
    PROVE  /\ \A c \in DOMAIN Cols(name) : Cols(name)[c].limit \in Nat
           /\ "lines" \in DOMAIN Cols(name) =>
                 name = "journal_entries" /\ Cols(name)["lines"].type = "lines"
<1>1. CASE name = "journal_lines"
  BY <1>1, LimitsAre, LineColumnsAre DEF LineNames
<1>2. CASE name \in Tables
  BY <1>2, LimitsAre, LinesAreOfEntries, EntryColumnsAre
<1> QED
  BY <1>1, <1>2 DEF RowNames

(* A portable row passes the CHECKs just if it would without the change    *)
(* that the columns of its database make to it.                            *)
LEMMA PortablePasses ==
    ASSUME NEW d \in Databases, NEW name \in RowNames, NEW row, PortableRow(name, row),
           \A c \in DOMAIN row : Plain(Cols(name)[c], row[c]),
           NEW kept,
           \A c \in DOMAIN row \ {"lines"} : kept[c] = InColumn(d, Cols(name)[c], row[c])
    PROVE  Passes(d, name, kept) <=> PlainPasses(name, row)
<1>1. ASSUME NEW c \in DOMAIN row \ {"lines"},
             Cols(name)[c].type \notin {"time", "amount"}
      PROVE  kept[c] = row[c]
  BY <1>1, RowColumns, PortableKept DEF PortableRow
<1>2. ASSUME NEW c \in DOMAIN row \ {"lines"},
             Cols(name)[c] = [type |-> "time", limit |-> 0, null |-> FALSE]
      PROVE  kept[c].at = row[c].at
  <2>1. row[c] # Null
    BY <1>2 DEF Plain
  <2> QED
    BY <1>2, <2>1, RowColumns, PortableKept DEF PortableRow
<1>3. ASSUME NEW c \in DOMAIN row \ {"lines"},
             Cols(name)[c] = [type |-> "amount", limit |-> 0, null |-> FALSE]
      PROVE  /\ kept[c] = [form |-> IF d = "sqlite" THEN "integer" ELSE "numeric",
                            halves |-> row[c].halves]
             /\ row[c].halves % 2 = 0
  <2>1. row[c] # Null
    BY <1>3 DEF Plain
  <2> QED
    BY <1>3, <2>1, RowColumns, PortableKept DEF PortableRow
<1>4. CASE name \in {"accounts", "journals"}
  <2>1. JournalNames \subseteq DOMAIN row
    BY <1>4, CodedColumnsAre DEF PortableRow
  <2>2. /\ "created_at" \in JournalNames \ {"lines"} /\ "updated_at" \in JournalNames \ {"lines"}
        /\ "code" \in JournalNames \ {"lines"} /\ "name" \in JournalNames \ {"lines"}
    BY DEF JournalNames, RecordNames, CodeNames
  <2>3. /\ Cols(name)["created_at"] = [type |-> "time", limit |-> 0, null |-> FALSE]
        /\ Cols(name)["updated_at"] = [type |-> "time", limit |-> 0, null |-> FALSE]
        /\ Cols(name)["code"].type = "text" /\ Cols(name)["name"].type = "text"
    BY <1>4, CodedColumnsAre
  <2>4. /\ kept["created_at"].at = row["created_at"].at
        /\ kept["updated_at"].at = row["updated_at"].at
        /\ kept["code"] = row["code"] /\ kept["name"] = row["name"]
    BY <1>1, <1>2, <2>1, <2>2, <2>3
  <2>5. CodedPasses(kept) <=> CodedPasses(row)
    BY <2>4 DEF CodedPasses
  <2>6. name = "accounts" => kept["account_type"] = row["account_type"]
    <3> SUFFICES ASSUME name = "accounts"
                 PROVE  kept["account_type"] = row["account_type"]
      OBVIOUS
    <3>1. "account_type" \in DOMAIN row \ {"lines"}
      BY AccountColumnsAre DEF PortableRow, AccountNames
    <3>2. Cols(name)["account_type"].type = "choice"
      BY AccountColumnsAre
    <3> QED
      BY <1>1, <3>1, <3>2
  <2> QED
    BY <1>4, <2>5, <2>6 DEF Passes, PlainPasses
<1>5. CASE name = "journal_entries"
  <2>1. /\ "created_at" \in DOMAIN row \ {"lines"} /\ "updated_at" \in DOMAIN row \ {"lines"}
        /\ "description" \in DOMAIN row \ {"lines"}
    BY <1>5, EntryColumnsAre DEF PortableRow, EntryNames, RecordNames
  <2>2. /\ Cols(name)["created_at"] = [type |-> "time", limit |-> 0, null |-> FALSE]
        /\ Cols(name)["updated_at"] = [type |-> "time", limit |-> 0, null |-> FALSE]
        /\ Cols(name)["description"] = [type |-> "text", limit |-> 1000, null |-> FALSE]
    <3>1. "created_at" \in RecordNames /\ "updated_at" \in RecordNames
      BY DEF RecordNames
    <3>2. /\ Cols(name)["created_at"] = RecordColumns["created_at"]
          /\ Cols(name)["updated_at"] = RecordColumns["updated_at"]
      BY <1>5, <3>1, EntryColumnsAre
    <3> QED
      BY <1>5, <3>2, EntryColumnsAre, RecordColumnsAre
  <2>3. Cols(name)["description"].type = "text"
    BY <2>2
  <2>4. /\ kept["created_at"].at = row["created_at"].at
        /\ kept["updated_at"].at = row["updated_at"].at
        /\ kept["description"] = row["description"]
    BY <1>1, <1>2, <2>1, <2>2, <2>3
  <2> QED
    BY <1>5, <2>4 DEF Passes, PlainPasses
<1>6. CASE name = "journal_lines"
  <2>1. /\ "position" \in DOMAIN row \ {"lines"} /\ "side" \in DOMAIN row \ {"lines"}
        /\ "amount" \in DOMAIN row \ {"lines"} /\ "currency" \in DOMAIN row \ {"lines"}
    BY <1>6, LineColumnsAre DEF PortableRow, LineNames
  <2>2. /\ kept["position"] = row["position"] /\ kept["side"] = row["side"]
        /\ kept["currency"] = row["currency"]
    <3>1. /\ Cols(name)["position"].type = "id" /\ Cols(name)["side"].type = "choice"
          /\ Cols(name)["currency"].type = "currency"
      BY <1>6, LineColumnsAre
    <3> QED
      BY <1>1, <2>1, <3>1
  <2>3. /\ kept["amount"] = [form |-> IF d = "sqlite" THEN "integer" ELSE "numeric",
                             halves |-> row["amount"].halves]
        /\ row["amount"].halves % 2 = 0
    BY <1>6, <1>3, <2>1, LineColumnsAre
  <2>4. /\ kept["amount"].halves = row["amount"].halves
        /\ kept["amount"].halves % 2 = 0
        /\ d = "sqlite" => kept["amount"].form = "integer"
    BY <2>3
  <2>5. LinePasses(d, kept) <=> /\ row.position >= 0 /\ row.side \in Sides
                                /\ row.amount.halves \in 2..2 * MaxMinorUnits
                                /\ row.currency.len = 3 /\ row.currency.kind = "upper"
    BY <2>2, <2>4 DEF LinePasses
  <2> QED
    BY <1>6, <2>5 DEF Passes, PlainPasses
<1>7. CASE name = "audit_events"
  <2>1. "action" \in DOMAIN row \ {"lines"}
    BY <1>7, AuditColumnsAre DEF PortableRow, AuditNames
  <2>2. kept["action"] = row["action"]
    <3>1. Cols(name)["action"].type = "choice"
      BY <1>7, AuditColumnsAre
    <3> QED
      BY <1>1, <2>1, <3>1
  <2> QED
    BY <1>7, <2>2 DEF Passes, PlainPasses
<1> QED
  BY <1>4, <1>5, <1>6, <1>7 DEF RowNames, Tables

(* Whether a portable row fits is no matter of the dialect.                *)
LEMMA PortableFits ==
    ASSUME NEW d \in Databases, NEW name \in RowNames, NEW row, PortableRow(name, row),
           NEW kept, DOMAIN kept = DOMAIN row,
           \A c \in DOMAIN row \ {"lines"} : kept[c] = InColumn(d, Cols(name)[c], row[c])
    PROVE  RowFits(d, "migrated", name, kept)
               <=> /\ \A c \in DOMAIN row : Plain(Cols(name)[c], row[c])
                   /\ PlainPasses(name, row)
<1>1. ASSUME NEW c \in DOMAIN row
      PROVE  Fits(d, Cols(name)[c], kept[c]) <=> Plain(Cols(name)[c], row[c])
  <2>1. CASE c = "lines"
    BY <2>1, RowColumns DEF PortableRow, Fits, Plain
  <2>2. CASE c # "lines"
    BY <2>2, RowColumns, PortableKept DEF PortableRow
  <2> QED
    BY <2>1, <2>2
<1>2. (\A c \in DOMAIN row : Plain(Cols(name)[c], row[c])) =>
          (Passes(d, name, kept) <=> PlainPasses(name, row))
  BY PortablePasses
<1> QED
  BY <1>1, <1>2, RowFitsIs

PlainFits(name, row) ==
    /\ \A c \in DOMAIN row : Plain(Cols(name)[c], row[c])
    /\ PlainPasses(name, row)

(* A portable row and its lines, column by column.                         *)
LEMMA PortableRows ==
    ASSUME NEW t \in Tables, NEW row, WellFormed(t, row), Portable(t, row)
    PROVE  /\ PortableRow(t, row)
           /\ t = "journal_entries" =>
                 \A line \in row.lines : PortableRow("journal_lines", line)
<1>1. ASSUME NEW name \in RowNames, NEW r, FillsRow(name, r), RowPortable(name, r),
             \A c \in DOMAIN r : EvenIn(Cols(name)[c], r[c])
      PROVE  PortableRow(name, r)
  BY <1>1 DEF PortableRow, FillsRow, RowPortable, PortableIn, Cols, IsText
<1>2. \A c \in DOMAIN Cols(t) : Cols(t)[c].type # "amount"
  <2>1. \A c \in RecordNames : RecordColumns[c].type # "amount"
    BY RecordColumnsAre DEF RecordNames
  <2>2. \A c \in RecordNames \cup CodeNames : CodeRow[c].type # "amount"
    BY <2>1, CodeColumnsAre DEF CodeNames
  <2>3. CASE t = "accounts"
    BY <2>2, <2>3, AccountColumnsAre DEF AccountNames
  <2>4. CASE t = "journals"
    BY <2>2, <2>4, JournalColumnsAre DEF JournalNames
  <2>5. CASE t = "journal_entries"
    BY <2>1, <2>5, EntryColumnsAre DEF EntryNames
  <2>6. CASE t = "audit_events"
    BY <2>6, AuditColumnsAre DEF AuditNames
  <2> QED
    BY <2>3, <2>4, <2>5, <2>6 DEF Tables
<1>3. PortableRow(t, row)
  <2>1. FillsRow(t, row) /\ RowPortable(t, row) /\ t \in RowNames
    BY DEF WellFormed, Portable, RowNames
  <2>2. \A c \in DOMAIN row : EvenIn(Cols(t)[c], row[c])
    BY <1>2, <2>1 DEF FillsRow, EvenIn, Cols
  <2> QED
    BY <1>1, <2>1, <2>2
<1>4. ASSUME t = "journal_entries", NEW line \in row.lines
      PROVE  PortableRow("journal_lines", line)
  <2>1. /\ FillsRow("journal_lines", line) /\ RowPortable("journal_lines", line)
        /\ line["amount"] # Null /\ line["amount"].form = "integer" =>
              line["amount"].halves % 2 = 0
    BY <1>4 DEF WellFormed, Portable
  <2>2. DOMAIN line = LineNames
    BY <2>1, LineColumnsAre DEF FillsRow, Cols
  <2>3. \A c \in LineNames : Cols("journal_lines")[c].type = "amount" => c = "amount"
    BY LineColumnsAre DEF LineNames
  <2>4. \A c \in DOMAIN line : EvenIn(Cols("journal_lines")[c], line[c])
    BY <2>1, <2>2, <2>3 DEF EvenIn
  <2> QED
    BY <1>1, <2>1, <2>4 DEF RowNames
<1> QED
  BY <1>3, <1>4

(* Portable lines are kept apart just if they are apart.                   *)
LEMMA PortableLines ==
    ASSUME NEW d \in Databases,
           NEW line, PortableRow("journal_lines", line),
           NEW other, PortableRow("journal_lines", other)
    PROVE  LET a == Kept(d, "journal_lines", line)
               b == Kept(d, "journal_lines", other) IN
           /\ a = b <=> \A c \in LineNames : line[c] = other[c]
           /\ a.id = line.id /\ a.position = line.position
<1> DEFINE a == Kept(d, "journal_lines", line)
           b == Kept(d, "journal_lines", other)
<1>1. /\ DOMAIN line = LineNames /\ DOMAIN other = LineNames
      /\ "id" \in LineNames /\ "position" \in LineNames
  BY LineColumnsAre DEF PortableRow, LineNames
<1>2. /\ \A c \in LineNames : a[c] = InColumn(d, Cols("journal_lines")[c], line[c])
      /\ \A c \in LineNames : b[c] = InColumn(d, Cols("journal_lines")[c], other[c])
      /\ a = b <=> \A c \in LineNames : a[c] = b[c]
  BY <1>1 DEF Kept, InRow, Cols
<1>3. ASSUME NEW c \in LineNames, Cols("journal_lines")[c].type # "amount"
      PROVE  a[c] = line[c] /\ b[c] = other[c]
  <2>1. Cols("journal_lines")[c].type # "time"
    BY LineColumnsAre DEF LineNames
  <2>2. "journal_lines" \in RowNames
    BY DEF RowNames
  <2> HIDE DEF a, b
  <2> QED
    BY <1>1, <1>2, <1>3, <2>1, <2>2, RowColumns, PortableKept DEF PortableRow
<1>4. ASSUME NEW c \in LineNames, Cols("journal_lines")[c].type = "amount"
      PROVE  a[c] = b[c] <=> line[c] = other[c]
  <2> DEFINE Of(v) == [form |-> IF d = "sqlite" THEN "integer" ELSE "numeric",
                       halves |-> v.halves]
             column == Cols("journal_lines")[c]
  <2>1. column.limit \in Nat /\ column.type = "amount"
    BY <1>1, <1>4, RowColumns DEF RowNames, PortableRow
  <2>2. /\ a[c] = Null <=> line[c] = Null
        /\ line[c] # Null => /\ a[c] = Of(line[c])
                             /\ line[c] = [form |-> "integer", halves |-> line[c].halves]
    <3> HIDE DEF a, b, column
    <3>1. /\ a[c] = InColumn(d, column, line[c])
          /\ Fills(column, line[c]) /\ PortableIn(column, line[c]) /\ EvenIn(column, line[c])
      BY <1>1, <1>2 DEF PortableRow, column
    <3> QED
      BY <2>1, <3>1, PortableKept
  <2>3. /\ b[c] = Null <=> other[c] = Null
        /\ other[c] # Null => /\ b[c] = Of(other[c])
                              /\ other[c] = [form |-> "integer", halves |-> other[c].halves]
    <3> HIDE DEF a, b, column
    <3>1. /\ b[c] = InColumn(d, column, other[c])
          /\ Fills(column, other[c]) /\ PortableIn(column, other[c]) /\ EvenIn(column, other[c])
      BY <1>1, <1>2 DEF PortableRow, column
    <3> QED
      BY <2>1, <3>1, PortableKept
  <2> HIDE DEF a, b, column
  <2>4. CASE line[c] = Null \/ other[c] = Null
    BY <2>2, <2>3, <2>4
  <2>5. CASE line[c] # Null /\ other[c] # Null
    <3>1. Of(line[c]) = Of(other[c]) <=> line[c].halves = other[c].halves
      <4>1. Of(line[c]).halves = line[c].halves /\ Of(other[c]).halves = other[c].halves
        OBVIOUS
      <4> QED
        BY <4>1
    <3>2. line[c] = other[c] <=> line[c].halves = other[c].halves
      BY <2>2, <2>3, <2>5
    <3> HIDE DEF Of
    <3> QED
      BY <2>2, <2>3, <2>5, <3>1, <3>2
  <2> QED
    BY <2>4, <2>5
<1>5. Cols("journal_lines")["id"].type = "id" /\ Cols("journal_lines")["position"].type = "id"
  BY LineColumnsAre
<1> HIDE DEF a, b
<1>6. a["id"] = line["id"] /\ a["position"] = line["position"]
  BY <1>1, <1>3, <1>5
<1>7. \A c \in LineNames : a[c] = b[c] <=> line[c] = other[c]
  BY <1>3, <1>4
<1> QED
  BY <1>2, <1>6, <1>7 DEF a, b

PlainAccepts(t, row) ==
    /\ PlainFits(t, row)
    /\ t = "journal_entries" =>
           /\ \A line \in row.lines : PlainFits("journal_lines", line)
           /\ \A line, other \in row.lines :
                  line.id = other.id \/ line.position = other.position =>
                     \A c \in LineNames : line[c] = other[c]

(* Whether a portable row is accepted is no matter of the dialect.         *)
LEMMA PortableAccepts ==
    ASSUME NEW d \in Databases, NEW t \in Tables, NEW row,
           WellFormed(t, row), Portable(t, row)
    PROVE  Accepts(d, "migrated", t, row) <=> PlainAccepts(t, row)
<1> DEFINE kept == InColumns(d, Declared, t, row)
           K(line) == Kept(d, "journal_lines", line)
<1>1. /\ PortableRow(t, row) /\ t \in RowNames /\ "journal_lines" \in RowNames
      /\ t = "journal_entries" =>
            \A line \in row.lines : PortableRow("journal_lines", line)
  BY PortableRows DEF RowNames
<1>2. RowFits(d, "migrated", t, kept) <=> PlainFits(t, row)
  <2>1. DOMAIN row = DOMAIN Cols(t)
    BY <1>1 DEF PortableRow
  <2>2. /\ DOMAIN kept = DOMAIN row
        /\ \A c \in DOMAIN row \ {"lines"} : kept[c] = InColumn(d, Cols(t)[c], row[c])
    BY <2>1, RowKept, KeptIs
  <2> HIDE DEF kept
  <2> QED
    BY <1>1, <2>2, PortableFits DEF PlainFits
<1>3. CASE t # "journal_entries"
  BY <1>2, <1>3, SameColumns DEF Accepts, PlainAccepts
<1>4. CASE t = "journal_entries"
  <2>1. kept.lines = {K(line) : line \in row.lines}
    BY <1>4, RowKept
  <2>2. ASSUME NEW line \in row.lines
        PROVE  RowFits(d, "migrated", "journal_lines", K(line))
                   <=> PlainFits("journal_lines", line)
    <3>1. PortableRow("journal_lines", line)
      BY <1>1, <1>4
    <3>2. /\ DOMAIN K(line) = DOMAIN line
          /\ \A c \in DOMAIN line : K(line)[c] = InColumn(d, Cols("journal_lines")[c], line[c])
      BY KeptIs
    <3> HIDE DEF K
    <3> QED
      BY <1>1, <3>1, <3>2, PortableFits DEF PlainFits
  <2>3. ASSUME NEW line \in row.lines, NEW other \in row.lines
        PROVE  /\ K(line) = K(other) <=> \A c \in LineNames : line[c] = other[c]
               /\ K(line).id = line.id /\ K(line).position = line.position
               /\ K(other).id = other.id /\ K(other).position = other.position
    BY <1>1, <1>4, PortableLines
  <2>4. Accepts(d, "migrated", t, row)
            <=> /\ RowFits(d, "migrated", t, kept)
                /\ \A line \in kept.lines : RowFits(d, "migrated", "journal_lines", line)
                /\ \A line, other \in kept.lines :
                      line.id = other.id \/ line.position = other.position => line = other
    BY <1>4, SameColumns DEF Accepts
  <2> HIDE DEF K, kept
  <2>5. (\A line \in kept.lines : RowFits(d, "migrated", "journal_lines", line))
            <=> \A line \in row.lines : PlainFits("journal_lines", line)
    BY <2>1, <2>2
  <2>6. (\A line, other \in kept.lines :
             line.id = other.id \/ line.position = other.position => line = other)
            <=> \A line, other \in row.lines :
                   line.id = other.id \/ line.position = other.position =>
                      \A c \in LineNames : line[c] = other[c]
    <3>1. (\A line, other \in kept.lines :
               line.id = other.id \/ line.position = other.position => line = other)
              <=> \A line, other \in row.lines :
                     K(line).id = K(other).id \/ K(line).position = K(other).position =>
                        K(line) = K(other)
      BY <2>1
    <3> QED
      BY <2>3, <3>1
  <2> QED
    BY <1>2, <1>4, <2>4, <2>5, <2>6 DEF PlainAccepts
<1> QED
  BY <1>3, <1>4

-----------------------------------------------------------------------------
(* Part 12: the theorems.                                                  *)

(* Whatever row is written by hand, the constraints of models.py would     *)
(* give the answer that those of the migration gave; and so would those of *)
(* the other dialect, if its texts fit and its amounts are integers.       *)
THEOREM ChecksStayAgreed == RowSpec => []ChecksAgree
<1>1. SchemaInv => ChecksAgree
  <2> SUFFICES ASSUME SchemaInv, given # Nothing, by = "sql", NEW db \in Databases,
                      db = database \/ Portable(table, given)
               PROVE  stored # Nothing <=> Accepts(db, "declared", table, given)
    BY DEF ChecksAgree
  <2>1. /\ stored = Stored(database, table, given)
        /\ table \in Tables /\ database \in Databases /\ WellFormed(table, given)
    BY RowsAssumption DEF SchemaInv
  <2>2. given # Raised
    <3>1. DOMAIN given = DOMAIN Cols(table)
      BY <2>1 DEF WellFormed, FillsRow, Cols
    <3> QED
      BY <2>1, <3>1, NoMarker
  <2>3. InColumns(database, Declared, table, given) # Nothing
    BY <2>1, RowKept, NoMarker
  <2>4. stored # Nothing <=> Accepts(database, "migrated", table, given)
    BY <2>1, <2>2, <2>3, SameMigrated DEF Stored
  <2>5. Accepts(database, "migrated", table, given) <=> Accepts(db, "migrated", table, given)
    <3>1. CASE db = database
      BY <3>1
    <3>2. CASE Portable(table, given)
      BY <2>1, <3>2, PortableAccepts
    <3> QED
      BY <3>1, <3>2
  <2> QED
    BY <2>1, <2>4, <2>5, SchemasAgree
<1>2. RowSpec => []SchemaInv
  BY SchemaAlways
<1> QED
  BY <1>1, <1>2, PTL

(* Every stored line has a whole number of hundredths, and if its row was  *)
(* written by hand, the number that was given.                             *)
THEOREM AmountsStayAsWritten == RowSpec => []AmountsExact
<1>1. SchemaInv => AmountsExact
  <2> SUFFICES ASSUME SchemaInv, stored # Nothing, table = "journal_entries"
               PROVE  /\ \A line \in stored.lines : line.amount.halves % 2 = 0
                      /\ by = "sql" =>
                            {<<line.position, line.amount.halves>> : line \in stored.lines}
                               = {<<line.position, line.amount.halves>> : line \in given.lines}
    BY DEF AmountsExact
  <2>1. PICK row : /\ WellFormed(table, row)
                   /\ Accepts(database, "migrated", table, row)
                   /\ stored = InColumns(database, Declared, table, row)
                   /\ by = "sql" => row = given
    BY StoredWas
  <2>2. /\ stored.lines = {Kept(database, "journal_lines", line) : line \in row.lines}
        /\ database \in Databases /\ "journal_lines" \in RowNames
    BY <2>1, RowKept DEF SchemaInv, RowNames
  <2>3. \A line \in stored.lines : RowFits(database, "migrated", "journal_lines", line)
    BY <2>1, SameColumns DEF Accepts
  <2>4. ASSUME NEW line \in row.lines
        PROVE  LET kept == Kept(database, "journal_lines", line) IN
               /\ kept.position = line.position
               /\ kept.amount.halves = line.amount.halves
               /\ kept.amount.halves % 2 = 0
    <3> DEFINE kept == Kept(database, "journal_lines", line)
    <3>1. /\ DOMAIN line = LineNames /\ "position" \in LineNames /\ "amount" \in LineNames
          /\ line["amount"] # Null /\ line["amount"].form = "integer" =>
                line["amount"].halves % 2 = 0
      BY <2>1, LineColumnsAre DEF WellFormed, FillsRow, Cols, LineNames
    <3>2. /\ \A c \in DOMAIN line :
                kept[c] = InColumn(database, Cols("journal_lines")[c], line[c])
          /\ DOMAIN kept = LineNames
      BY <3>1 DEF Kept, InRow, Cols
    <3>3. RowFits(database, "migrated", "journal_lines", kept)
      BY <2>2, <2>3
    <3> HIDE DEF kept
    <3>4. kept["position"] = line["position"]
      BY <3>1, <3>2, LineColumnsAre DEF InColumn, IsText
    <3>5. kept["amount"] = IF line["amount"] = Null THEN Null
                           ELSE WholeHundredths(database, line["amount"])
      BY <3>1, <3>2, LineColumnsAre DEF InColumn, IsText
    <3>6. /\ kept["amount"].halves = line["amount"].halves
          /\ line["amount"] # Null /\ database = "sqlite" =>
                kept["amount"].form = line["amount"].form
      BY <3>5 DEF WholeHundredths
    <3>7. LinePasses(database, kept)
      BY <2>2, <3>3, RowFitsIs DEF Passes
    <3>8. line["amount"] # Null
      <4>1. Fits(database, Cols("journal_lines")["amount"], kept["amount"])
        BY <2>2, <3>1, <3>2, <3>3, RowFitsIs
      <4>2. kept["amount"] # Null
        BY <4>1, LineColumnsAre DEF Fits
      <4> QED
        BY <3>5, <4>2
    <3>9. kept["amount"].halves % 2 = 0
      BY <3>1, <3>6, <3>7, <3>8 DEF LinePasses
    <3> QED
      BY <3>4, <3>6, <3>9 DEF kept
  <2> QED
    BY <2>1, <2>2, <2>4
<1>2. RowSpec => []SchemaInv
  BY SchemaAlways
<1> QED
  BY <1>1, <1>2, PTL

(* A record that the models let through is stored, and read as it was.     *)
THEOREM RecordsComeBack == RowSpec => []RoundTrip
<1>1. SchemaInv => RoundTrip
  <2> DEFINE r == Validated(table, Fields(table, given))
             row == ToRow(table, r)
  <2> SUFFICES ASSUME SchemaInv, given # Nothing, by = "mapper", r # Raised
               PROVE  stored # Nothing /\ result \in {Nothing, r}
    BY DEF RoundTrip
  <2>1. /\ Extension(table, given) \in {"none", "declared"}
        /\ stored = Stored(database, table, Row(table, given))
        /\ table \in Tables /\ database \in Databases /\ WellFormed(table, given)
        /\ result # Nothing => result = FromRow(table, stored)
    BY RowsAssumption DEF SchemaInv
  <2>2. /\ ValidRecord(table, r)
        /\ table # "audit_events" => r.extensions # Null /\ r.extensions # "core"
    BY <2>1, GivenIsValid
  <2>3. Row(table, given) = row
    BY DEF Row
  <2> HIDE DEF r
  <2>4. /\ Stored(database, table, row) =
              InColumns(database, Declared, table, row)
        /\ Stored(database, table, row) # Nothing
    BY <2>1, <2>2, ValidStored
  <2>5. FromRow(table, InColumns(database, Declared, table, row)) = r
    BY <2>1, <2>2, ReadBack
  <2> HIDE DEF row
  <2> QED
    BY <2>1, <2>3, <2>4, <2>5
<1>2. RowSpec => []SchemaInv
  BY SchemaAlways
<1> QED
  BY <1>1, <1>2, PTL

(* Whatever was written by hand, a read raises or returns a record with    *)
(* what the columns say, which the database would take again.              *)
THEOREM ReadsStayValid == RowSpec => []ReadsRaiseOrValid
<1>1. SchemaInv => ReadsRaiseOrValid
  <2> SUFFICES ASSUME SchemaInv, result # Nothing, result # Raised
               PROVE  /\ Accepts(database, "migrated", table,
                                        ToRow(table, result))
                      /\ \A c \in DOMAIN result \ {"lines"} :
                            result[c] = Normal(Declared[table][c], stored[c])
    BY DEF ReadsRaiseOrValid
  <2>1. /\ table \in Tables /\ database \in Databases
        /\ stored # Nothing /\ result = FromRow(table, stored)
    BY DEF SchemaInv
  <2>2. PICK row : /\ WellFormed(table, row)
                   /\ Accepts(database, "migrated", table, row)
                   /\ stored = InColumns(database, Declared, table, row)
    BY <2>1, StoredWas
  <2>3. /\ ValidRecord(table, result)
        /\ \A c \in DOMAIN result \ {"lines"} : result[c] = Normal(Cols(table)[c], stored[c])
        /\ table # "audit_events" => result.extensions # Null
    BY <2>1, <2>2, ReadIs
  <2>4. Accepts(database, "migrated", table, ToRow(table, result))
    BY <2>1, <2>3, ValidAccepted
  <2> QED
    BY <2>3, <2>4 DEF Cols
<1>2. RowSpec => []SchemaInv
  BY SchemaAlways
<1> QED
  BY <1>1, <1>2, PTL
=============================================================================
