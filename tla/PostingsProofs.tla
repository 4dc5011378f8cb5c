---------------------------- MODULE PostingsProofs ----------------------------
(***************************************************************************)
(* A projection resolves every reference unless accounts or journals were  *)
(* listed in an earlier unit than the entries; it has each line once and   *)
(* in order, however the entries were listed; and the CSV file has its     *)
(* rows in its order: for any records, workflows and number of units.      *)
(***************************************************************************)
EXTENDS Postings, LedgerProofs, FiniteSetTheorems, SequenceTheorems

-----------------------------------------------------------------------------
(* Part 1: sorting and flattening.                                         *)

(* Induction up to a bound, from a set of numbers having a least element.  *)
LEMMA NumbersUpTo ==
    ASSUME NEW m \in Nat, NEW T, 0 \in T, \A n \in 0..(m - 1) : n \in T => n + 1 \in T
    PROVE  \A n \in 0..m : n \in T
<1> DEFINE R == OpToRel(<, Nat)
           U == {n \in 0..m : n \notin T}
<1> SUFFICES ASSUME U # {}
             PROVE  FALSE
  OBVIOUS
<1>1. IsWellFoundedOn(R, Nat)
  BY NatLessThanWellFounded
<1>2. \A x, y \in Nat : x < y => <<x, y>> \in R
  BY DEF OpToRel
<1>3. U \in SUBSET Nat
  OBVIOUS
<1>4. PICK n \in U : \A k \in U : ~(<<k, n>> \in R)
  <2> HIDE DEF R, U
  <2> QED
    BY <1>1, <1>3, WFMin
<1>5. n \in 0..m /\ n \notin T /\ n # 0
  OBVIOUS
<1>6. n - 1 \in 0..(m - 1) /\ (n - 1) + 1 = n /\ n - 1 < n /\ n - 1 \in 0..m
  BY <1>5
<1>7. n - 1 \notin U
  <2> HIDE DEF R
  <2> QED
    BY <1>2, <1>3, <1>4, <1>6
<1> QED
  BY <1>5, <1>6, <1>7

(* A map of 1..n to itself that keeps the order is the identity.           *)
LEMMA IncreasingIsIdentity ==
    ASSUME NEW n \in Nat, NEW p \in [1..n -> 1..n],
           \A i, j \in 1..n : i < j => p[i] < p[j]
    PROVE  \A i \in 1..n : p[i] = i
<1> DEFINE Up == {k \in 0..n : k = 0 \/ p[k] >= k}
           Down == {k \in 0..n : k = n \/ p[n - k] <= n - k}
<1>1. \A k \in 0..n : k \in Up
  <2>1. 0 \in Up
    OBVIOUS
  <2>2. ASSUME NEW k \in 0..(n - 1), k \in Up
        PROVE  k + 1 \in Up
    <3>1. k + 1 \in 1..n /\ p[k + 1] \in 1..n
      OBVIOUS
    <3>2. CASE k = 0
      BY <3>1, <3>2
    <3>3. CASE k # 0
      <4>1. k \in 1..n /\ p[k] \in 1..n /\ p[k] >= k /\ p[k] < p[k + 1]
        BY <2>2, <3>1, <3>3
      <4> QED
        BY <3>1, <4>1
    <3> QED
      BY <3>2, <3>3
  <2> HIDE DEF Up
  <2> QED
    BY <2>1, <2>2, NumbersUpTo
<1>2. \A k \in 0..n : k \in Down
  <2>1. 0 \in Down
    <3>1. CASE n = 0
      BY <3>1
    <3>2. CASE n # 0
      <4>1. n - 0 = n /\ n \in 1..n /\ p[n] \in 1..n
        BY <3>2
      <4> QED
        BY <4>1
    <3> QED
      BY <3>1, <3>2
  <2>2. ASSUME NEW k \in 0..(n - 1), k \in Down
        PROVE  k + 1 \in Down
    <3>1. CASE k + 1 = n
      BY <3>1
    <3>2. CASE k + 1 # n
      <4>1. /\ n - k \in 1..n /\ n - (k + 1) \in 1..n
            /\ n - (k + 1) < n - k /\ k # n
        BY <3>2
      <4>2. /\ p[n - k] <= n - k /\ p[n - (k + 1)] < p[n - k]
            /\ p[n - k] \in 1..n /\ p[n - (k + 1)] \in 1..n
        BY <2>2, <4>1
      <4> QED
        BY <4>1, <4>2
    <3> QED
      BY <3>1, <3>2
  <2> HIDE DEF Down
  <2> QED
    BY <2>1, <2>2, NumbersUpTo
<1>3. ASSUME NEW i \in 1..n
      PROVE  p[i] = i
  <2>1. p[i] \in 1..n /\ p[i] >= i
    BY <1>1
  <2>2. n - i \in 0..n /\ n - i # n /\ n - (n - i) = i
    OBVIOUS
  <2>3. p[i] <= i
    BY <1>2, <2>2
  <2> QED
    BY <2>1, <2>3
<1> QED
  BY <1>3

(* g has the elements of the sequences ss up to the ith: all of them, and  *)
(* no others, those of earlier sequences and positions before later ones.  *)
Flattens(g, ss, i) ==
    /\ \A a \in 1..i : \A m \in DOMAIN ss[a] :
          \E k \in DOMAIN g : g[k] = ss[a][m]
    /\ \A k \in DOMAIN g : \E a \in 1..i : \E m \in DOMAIN ss[a] : g[k] = ss[a][m]
    /\ \A k, l \in DOMAIN g : k < l =>
          \E a, b \in 1..i : \E m \in DOMAIN ss[a], n \in DOMAIN ss[b] :
             /\ g[k] = ss[a][m] /\ g[l] = ss[b][n]
             /\ a < b \/ (a = b /\ m < n)

(* A sequence of all elements of R, each before the later ones and after   *)
(* no later one, is the only arrangement of R without inversions.          *)
LEMMA ArrangementIsUnique ==
    ASSUME NEW N \in Nat, NEW R, NEW s \in [1..N -> R], NEW before,
           \A t \in R : \E i \in 1..N : s[i] = t,
           \A i, j \in 1..N : i < j =>
               <<s[i], s[j]>> \in before /\ <<s[j], s[i]>> \notin before
    PROVE  \A f \in SetToSeqs(R) :
              (\A i, j \in DOMAIN f : i < j => <<f[j], f[i]>> \notin before) => f = s
<1> SUFFICES ASSUME NEW f \in SetToSeqs(R),
                    \A i, j \in DOMAIN f : i < j => <<f[j], f[i]>> \notin before
             PROVE  f = s
  OBVIOUS
<1>1. s \in Bijection(1..N, R)
  <2>1. \A i, j \in 1..N : i < j => s[i] # s[j]
    OBVIOUS
  <2>2. \A i, j \in 1..N : s[i] = s[j] => i = j
    BY <2>1
  <2> QED
    BY <2>2 DEF Bijection, Injection, Surjection, IsInjective
<1>2. Cardinality(R) = N
  <2>1. ExistsBijection(1..N, R)
    BY <1>1 DEF ExistsBijection
  <2> QED
    BY <2>1, FS_CountingElements
<1>3. /\ f \in [1..N -> R]
      /\ \A i, j \in 1..N : i # j => f[i] # f[j]
  BY <1>2 DEF SetToSeqs
<1>4. \A i \in 1..N : \E r \in 1..N : s[r] = f[i]
  BY <1>3
<1> DEFINE p == [i \in 1..N |-> CHOOSE r \in 1..N : s[r] = f[i]]
<1>5. p \in [1..N -> 1..N] /\ \A i \in 1..N : s[p[i]] = f[i]
  BY <1>4
<1> HIDE DEF p
<1>6. ASSUME NEW i \in 1..N, NEW j \in 1..N, i < j
      PROVE  p[i] < p[j]
  <2>1. p[i] \in 1..N /\ p[j] \in 1..N
    BY <1>5
  <2>2. p[i] # p[j]
    BY <1>3, <1>5, <1>6
  <2>3. <<f[j], f[i]>> \notin before
    BY <1>3, <1>6
  <2>4. ~(p[j] < p[i])
    BY <1>5, <2>1, <2>3
  <2> QED
    BY <2>1, <2>2, <2>4
<1>7. \A i \in 1..N : p[i] = i
  BY <1>5, <1>6, IncreasingIsIdentity
<1> QED
  BY <1>3, <1>5, <1>7

(* One more sequence.                                                      *)
LEMMA FlattenOneMore ==
    ASSUME NEW S, NEW L \in Nat, NEW ss \in [1..L -> Seq(S)], NEW i \in Nat,
           i + 1 \in 1..L, NEW g \in Seq(S), Flattens(g, ss, i)
    PROVE  Flattens(g \o ss[i + 1], ss, i + 1)
<1> DEFINE t == ss[i + 1]
           h == g \o t
<1>0. \A x, y \in DOMAIN g : x < y =>
          \E a, b \in 1..i : \E m \in DOMAIN ss[a], n \in DOMAIN ss[b] :
             /\ g[x] = ss[a][m] /\ g[y] = ss[b][n]
             /\ a < b \/ (a = b /\ m < n)
  BY DEF Flattens
<1>1. /\ t \in Seq(S) /\ h \in Seq(S)
      /\ Len(g) \in Nat /\ Len(t) \in Nat /\ Len(h) = Len(g) + Len(t)
      /\ DOMAIN g = 1..Len(g) /\ DOMAIN t = 1..Len(t) /\ DOMAIN h = 1..Len(h)
  BY LenProperties, ConcatProperties
<1>2. /\ \A k \in 1..Len(g) : h[k] = g[k] /\ k \in 1..Len(h)
      /\ \A m \in 1..Len(t) : h[Len(g) + m] = t[m] /\ Len(g) + m \in 1..Len(h)
  BY <1>1
<1>3. \A k \in 1..Len(h) :
          \/ k \in 1..Len(g)
          \/ k - Len(g) \in 1..Len(t) /\ Len(g) + (k - Len(g)) = k
  BY <1>1
<1> HIDE DEF h, t
<1>4. \A a \in 1..i : a \in 1..(i + 1) /\ a < i + 1
  OBVIOUS
<1>5. i + 1 \in 1..(i + 1) /\ t = ss[i + 1]
  BY DEF t
<1>6. \A a \in 1..(i + 1) : \A m \in DOMAIN ss[a] :
          \E k \in DOMAIN h : h[k] = ss[a][m]
  <2> SUFFICES ASSUME NEW a \in 1..(i + 1), NEW m \in DOMAIN ss[a]
               PROVE  \E k \in DOMAIN h : h[k] = ss[a][m]
    OBVIOUS
  <2>1. CASE a = i + 1
    BY <1>1, <1>2, <1>5, <2>1
  <2>2. CASE a \in 1..i
    BY <1>1, <1>2, <2>2 DEF Flattens
  <2> QED
    BY <2>1, <2>2
<1>7. \A k \in DOMAIN h : \E a \in 1..(i + 1) : \E m \in DOMAIN ss[a] : h[k] = ss[a][m]
  <2> SUFFICES ASSUME NEW k \in DOMAIN h
               PROVE  \E a \in 1..(i + 1) : \E m \in DOMAIN ss[a] : h[k] = ss[a][m]
    OBVIOUS
  <2>1. CASE k \in 1..Len(g)
    BY <1>1, <1>2, <1>4, <2>1 DEF Flattens
  <2>2. CASE k - Len(g) \in 1..Len(t) /\ Len(g) + (k - Len(g)) = k
    <3>1. h[k] = t[k - Len(g)]
      BY <1>2, <2>2
    <3>2. k - Len(g) \in DOMAIN ss[i + 1]
      BY <1>1, <1>5, <2>2
    <3> QED
      BY <1>5, <3>1, <3>2
  <2> QED
    BY <1>1, <1>3, <2>1, <2>2
<1>8. ASSUME NEW k \in DOMAIN h, NEW l \in DOMAIN h, k < l
      PROVE  \E a, b \in 1..(i + 1) : \E m \in DOMAIN ss[a], n \in DOMAIN ss[b] :
                 /\ h[k] = ss[a][m] /\ h[l] = ss[b][n]
                 /\ a < b \/ (a = b /\ m < n)
  <2>1. CASE k \in 1..Len(g) /\ l \in 1..Len(g)
    <3>0. k \in DOMAIN g /\ l \in DOMAIN g
      BY <1>1, <2>1
    <3>1. PICK a \in 1..i, b \in 1..i : \E m \in DOMAIN ss[a], n \in DOMAIN ss[b] :
              /\ g[k] = ss[a][m] /\ g[l] = ss[b][n]
              /\ a < b \/ (a = b /\ m < n)
      BY <1>0, <1>8, <3>0
    <3>2. h[k] = g[k] /\ h[l] = g[l]
      BY <1>2, <2>1
    <3> QED
      BY <1>4, <3>1, <3>2
  <2>2. CASE k \in 1..Len(g) /\ l - Len(g) \in 1..Len(t) /\ Len(g) + (l - Len(g)) = l
    <3>1. PICK a \in 1..i : \E m \in DOMAIN ss[a] : g[k] = ss[a][m]
      BY <1>1, <2>2 DEF Flattens
    <3>2. h[l] = t[l - Len(g)]
      BY <1>2, <2>2
    <3>3. l - Len(g) \in DOMAIN ss[i + 1]
      BY <1>1, <1>5, <2>2
    <3>4. h[k] = g[k]
      BY <1>2, <2>2
    <3> QED
      BY <1>4, <1>5, <3>1, <3>2, <3>3, <3>4
  <2>3. CASE k \notin 1..Len(g)
    <3> DEFINE m == k - Len(g)
               n == l - Len(g)
    <3>1. /\ m \in 1..Len(t) /\ n \in 1..Len(t) /\ m < n
          /\ Len(g) + m = k /\ Len(g) + n = l
      BY <1>1, <1>3, <1>8, <2>3
    <3> HIDE DEF m, n
    <3>2. h[k] = t[m] /\ h[l] = t[n]
      BY <1>2, <3>1
    <3> QED
      BY <1>1, <1>5, <3>1, <3>2
  <2> QED
    BY <1>1, <1>3, <2>1, <2>2, <2>3
<1> QED
  BY <1>6, <1>7, <1>8 DEF Flattens, h, t

(* What FlattenSeq returns.                                                *)
LEMMA FlattenSeqFlattens ==
    ASSUME NEW S, NEW L \in Nat, NEW ss \in [1..L -> Seq(S)]
    PROVE  /\ FlattenSeq(ss) \in Seq(S)
           /\ Flattens(FlattenSeq(ss), ss, L)
<1>1. ss \in Seq(Seq(S)) /\ Len(ss) = L /\ DOMAIN ss = 1..L
  OBVIOUS
<1>2. CASE L = 0
  <2>1. FlattenSeq(ss) = ss /\ DOMAIN ss = {}
    BY <1>1, <1>2 DEF FlattenSeq
  <2>2. ss = <<>>
    BY <1>1, <1>2
  <2> QED
    BY <1>2, <2>1, <2>2 DEF Flattens
<1>3. CASE L # 0
  <2> DEFINE Step(F) == [i \in 1..L |-> IF i = 1 THEN ss[i] ELSE F[i - 1] \o ss[i]]
             Good(g, n) == /\ g \in [1..n -> Seq(S)]
                           /\ \A i \in 1..n :
                                 g[i] = IF i = 1 THEN ss[i] ELSE g[i - 1] \o ss[i]
             T == {n \in 0..L : \E g : Good(g, n)}
             F == CHOOSE F : F = Step(F)
  <2>1. \E g : Good(g, L)
    <3>1. 0 \in T
      <4>1. Good([i \in 1..0 |-> ss[i]], 0)
        OBVIOUS
      <4>2. 0 \in 0..L
        OBVIOUS
      <4> HIDE DEF Good
      <4> QED
        BY <4>1, <4>2
    <3>2. ASSUME NEW n \in 0..(L - 1), n \in T
          PROVE  n + 1 \in T
      <4>1. PICK g : Good(g, n)
        BY <3>2
      <4> DEFINE last == IF n = 0 THEN ss[1] ELSE g[n] \o ss[n + 1]
                 h == [i \in 1..(n + 1) |-> IF i = n + 1 THEN last ELSE g[i]]
      <4>2. last \in Seq(S)
        <5>1. CASE n = 0
          BY <1>3, <5>1
        <5>2. CASE n # 0
          <6>1. g[n] \in Seq(S) /\ ss[n + 1] \in Seq(S)
            BY <4>1, <5>2
          <6> QED
            BY <5>2, <6>1
        <5> QED
          BY <5>1, <5>2
      <4>3. last = IF n + 1 = 1 THEN ss[n + 1] ELSE g[n] \o ss[n + 1]
        OBVIOUS
      <4> HIDE DEF last
      <4>4. h \in [1..(n + 1) -> Seq(S)]
        BY <4>1, <4>2
      <4>5. ASSUME NEW i \in 1..(n + 1)
            PROVE  h[i] = IF i = 1 THEN ss[i] ELSE h[i - 1] \o ss[i]
        <5>1. CASE i = n + 1
          <6>1. h[i] = last /\ (n # 0 => h[n] = g[n]) /\ i - 1 = n /\ (i # 1 => n # 0)
            BY <5>1
          <6> QED
            BY <4>3, <5>1, <6>1
        <5>2. CASE i \in 1..n
          <6>1. h[i] = g[i] /\ (i # 1 => h[i - 1] = g[i - 1])
            BY <5>2
          <6> QED
            BY <4>1, <5>2, <6>1
        <5> QED
          BY <5>1, <5>2
      <4>6. Good(h, n + 1)
        BY <4>4, <4>5
      <4>7. n + 1 \in 0..L
        OBVIOUS
      <4> HIDE DEF Good, h
      <4> QED
        BY <4>6, <4>7
    <3>3. \A n \in 0..L : n \in T
      <4> HIDE DEF T
      <4> QED
        BY <3>1, <3>2, NumbersUpTo
    <3>4. L \in 0..L
      OBVIOUS
    <3> HIDE DEF Good
    <3> QED
      BY <3>3, <3>4
  <2>2. F = Step(F)
    <3>1. PICK g : Good(g, L)
      BY <2>1
    <3>2. g = Step(g)
      BY <3>1
    <3> QED
      BY <3>2
  <2>3. FlattenSeq(ss) = F[L]
    BY <1>1, <1>3 DEF FlattenSeq
  <2> HIDE DEF F
  <2>4. \A i \in 1..L : F[i] = IF i = 1 THEN ss[i] ELSE F[i - 1] \o ss[i]
    BY <2>2
  <2> DEFINE U == {n \in 0..L : n = 0 \/ (F[n] \in Seq(S) /\ Flattens(F[n], ss, n))}
  <2>5. 0 \in U
    OBVIOUS
  <2>6. ASSUME NEW n \in 0..(L - 1), n \in U
        PROVE  n + 1 \in U
    <3>1. n + 1 \in 1..L /\ ss[n + 1] \in Seq(S) /\ n \in Nat /\ (n + 1) - 1 = n
      OBVIOUS
    <3>2. CASE n = 0
      <4>1. F[n + 1] = ss[1] /\ n + 1 = 1
        BY <2>4, <3>1, <3>2
      <4>2. Flattens(ss[1], ss, 1)
        <5>1. ss[1] \in Seq(S)
          BY <1>3
        <5>2. DOMAIN ss[1] = 1..Len(ss[1]) /\ Len(ss[1]) \in Nat
          BY <5>1
        <5>3. 1 \in 1..1 /\ \A a \in 1..1 : a = 1
          OBVIOUS
        <5> QED
          BY <5>2, <5>3 DEF Flattens
      <4> QED
        BY <3>1, <4>1, <4>2
    <3>3. CASE n # 0
      <4>1. F[n] \in Seq(S) /\ Flattens(F[n], ss, n)
        BY <2>6, <3>3
      <4>2. F[n + 1] = F[n] \o ss[n + 1]
        <5>1. n + 1 # 1
          BY <3>3
        <5> HIDE DEF Step, Good, T, U
        <5> QED
          BY <2>4, <3>1, <5>1
      <4>3. F[n] \o ss[n + 1] \in Seq(S)
        BY <3>1, <4>1
      <4>4. Flattens(F[n] \o ss[n + 1], ss, n + 1)
        BY <3>1, <4>1, FlattenOneMore
      <4>5. F[n + 1] \in Seq(S) /\ Flattens(F[n + 1], ss, n + 1)
        BY <4>2, <4>3, <4>4
      <4> QED
        BY <3>1, <4>5
    <3> QED
      BY <3>2, <3>3
  <2>7. \A n \in 0..L : n \in U
    <3> HIDE DEF U
    <3> QED
      BY <2>5, <2>6, NumbersUpTo
  <2>8. L \in 0..L
    OBVIOUS
  <2> QED
    BY <1>3, <2>3, <2>7, <2>8
<1> QED
  BY <1>2, <1>3

-----------------------------------------------------------------------------
(* Part 2: what is listed resolves.                                        *)

(* L has every entry that was listed, as it was listed.                    *)
HasListed(L) ==
    \A e \in EntryIds : list.entries[e] # Absent => L.entries[e] = list.entries[e]

Resolves(table) ==
    \A e \in EntryIds : list.entries[e] # Absent =>
        IF table = "journals" THEN list.journals[list.entries[e].journal_id] # Absent
        ELSE \A a \in AccountsOf(list.entries[e]) : list.accounts[a] # Absent

Late(table) == listed_in[table] < listed_in["entries"]

(* What a unit reads has been committed and its entries still are; what is *)
(* listed in the current unit is what it reads; listed entries are found   *)
(* in all that is read later.                                              *)
ListInv ==
    /\ db \in WholeLedgers
    /\ unit \in WholeLedgers \cup {NoSnapshot}
    /\ unit # NoSnapshot => KeepsHistory(unit, db)
    /\ units \in Nat \ {0}
    /\ listed_in \in [Tables -> Nat]
    /\ \A table \in Tables : listed_in[table] <= units
    /\ DOMAIN list = Tables
    /\ \A table \in Tables :
          listed_in[table] = units => unit # NoSnapshot /\ list[table] = unit[table]
    /\ listed_in["entries"] # 0 =>
          /\ DOMAIN list.entries = EntryIds
          /\ HasListed(db)
          /\ unit # NoSnapshot => HasListed(unit)
          /\ \A table \in {"accounts", "journals"} : ~Late(table) => Resolves(table)
    /\ outcome = "raised" => \E table \in {"accounts", "journals"} : Late(table)

(* Whole ledgers resolve the references of every entry they hold.          *)
LEMMA WholeResolves ==
    ASSUME NEW L \in WholeLedgers, NEW e \in EntryIds, L.entries[e] # Absent
    PROVE  /\ L.journals[L.entries[e].journal_id] # Absent
           /\ \A a \in AccountsOf(L.entries[e]) : L.accounts[a] # Absent
BY DEF WholeLedgers, Ledgers, Integrity, ReferencesResolve, Present

LEMMA ListInit == Init => ListInv
<1> SUFFICES ASSUME Init
             PROVE  ListInv
  OBVIOUS
<1> QED
  BY EmptyLedgerWhole DEF Init, ListInv, Nothing, Tables

(* Every workflow commits a whole ledger and keeps the entries.            *)
LEMMA WorkflowCommits ==
    ASSUME db \in WholeLedgers, Workflow
    PROVE  \E L \in WholeLedgers : Commits(L) /\ KeepsHistory(db, L)
<1>1. db \in Ledgers
  BY DEF WholeLedgers
<1>2. CASE CreateAccount
  BY <1>1, <1>2, PutAccountWhole, PutAccountStep
     DEF CreateAccount, MayCreateAccount, ServiceStep
<1>3. CASE UpdateAccount
  BY <1>1, <1>3, PutAccountWhole, PutAccountStep
     DEF UpdateAccount, MayUpdateAccount, ServiceStep
<1>4. CASE DeleteAccount
  BY <1>1, <1>4, RemoveAccountWhole, RemovalHistory DEF DeleteAccount
<1>5. CASE CreateJournal
  BY <1>1, <1>5, PutJournalWhole, PutJournalStep
     DEF CreateJournal, MayCreateJournal, ServiceStep
<1>6. CASE UpdateJournal
  BY <1>1, <1>6, PutJournalWhole, PutJournalStep
     DEF UpdateJournal, MayUpdateJournal, ServiceStep
<1>7. CASE DeleteJournal
  BY <1>1, <1>7, RemoveJournalWhole, RemovalHistory DEF DeleteJournal
<1>8. CASE PostEntry
  BY <1>1, <1>8, PutEntryWhole, PutEntryStep, DraftsAssumption
     DEF PostEntry, MayPostEntry, MayCreateEntry, ServiceStep
<1> QED
  BY <1>2, <1>3, <1>4, <1>5, <1>6, <1>7, <1>8 DEF Workflow

(* A commit elsewhere leaves the unit, and the entries listed, in place.   *)
LEMMA WorkflowKeeps ==
    ASSUME ListInv, Workflow
    PROVE  ListInv'
<1>1. PICK L \in WholeLedgers : Commits(L) /\ KeepsHistory(db, L)
  BY WorkflowCommits DEF ListInv
<1>2. /\ db' = L
      /\ unit' = unit /\ units' = units /\ list' = list
      /\ listed_in' = listed_in /\ outcome' = outcome
  BY <1>1 DEF Commits, exporterVars
<1>3. L \in Ledgers /\ db \in Ledgers /\ (unit # NoSnapshot => unit \in Ledgers)
  BY DEF ListInv, WholeLedgers
<1>4. unit # NoSnapshot => KeepsHistory(unit, L)
  BY <1>1, <1>3, KeepsHistoryTransitive DEF ListInv
<1>5. HasListed(db) => HasListed(L)
  BY <1>1, <1>3 DEF HasListed, KeepsHistory, Present, Ledgers
<1> QED
  BY <1>2, <1>4, <1>5 DEF ListInv, HasListed, Resolves, Late

(* Listing a collection.                                                   *)
LEMMA ListKeeps ==
    ASSUME ListInv, NEW table \in Tables, List(table)
    PROVE  ListInv'
<1> DEFINE L == Snapshot
<1>1. /\ L \in WholeLedgers
      /\ L \in Ledgers /\ db \in Ledgers
      /\ L # NoSnapshot
      /\ unit # NoSnapshot => L = unit
  BY NoSnapshotAssumption DEF Snapshot, ListInv, WholeLedgers
<1>2. KeepsHistory(L, db)
  BY KeepsHistoryReflexive DEF Snapshot, ListInv
<1>3. listed_in["entries"] # 0 => HasListed(L)
  BY DEF Snapshot, ListInv
<1>4. /\ outcome = "none" /\ listed_in[table] = 0
      /\ unit' = L
      /\ list' = [list EXCEPT ![table] = L[table]]
      /\ listed_in' = [listed_in EXCEPT ![table] = units]
      /\ db' = db /\ units' = units /\ outcome' = outcome
  BY DEF List
<1>5. /\ DOMAIN list' = Tables
      /\ list'[table] = L[table]
      /\ \A t \in Tables \ {table} : list'[t] = list[t] /\ listed_in'[t] = listed_in[t]
      /\ listed_in'[table] = units
      /\ listed_in' \in [Tables -> Nat]
      /\ \A t \in Tables : listed_in'[t] <= units'
  BY <1>4 DEF ListInv
<1>6. \A t \in Tables : listed_in'[t] = units' => unit' # NoSnapshot /\ list'[t] = unit'[t]
  BY <1>1, <1>4, <1>5 DEF ListInv
<1>7. listed_in'["entries"] # 0 =>
          /\ DOMAIN list'.entries = EntryIds
          /\ HasListed(db)'
          /\ HasListed(unit)'
  <2>1. CASE table = "entries"
    <3>1. list'.entries = L.entries
      BY <1>5, <2>1
    <3> QED
      BY <1>1, <1>2, <1>4, <3>1 DEF HasListed, KeepsHistory, Present, Ledgers
  <2>2. CASE table # "entries"
    <3>1. list'.entries = list.entries /\ listed_in'["entries"] = listed_in["entries"]
      BY <1>5, <2>2 DEF Tables
    <3> QED
      BY <1>3, <1>4, <3>1 DEF HasListed, ListInv
  <2> QED
    BY <2>1, <2>2
<1>8. ASSUME NEW t \in {"accounts", "journals"}, listed_in'["entries"] # 0, ~Late(t)'
      PROVE  Resolves(t)'
  <2>1. CASE listed_in'[t] = units
    \* Listed in this unit: the unit resolves what it holds.
    <3>1. list'[t] = L[t]
      BY <1>4, <1>6, <2>1 DEF ListInv, Tables
    <3>2. \A e \in EntryIds : list'.entries[e] # Absent => L.entries[e] = list'.entries[e]
      BY <1>4, <1>7, <1>8 DEF HasListed
    <3> QED
      BY <1>1, <3>1, <3>2, WholeResolves DEF Resolves
  <2>2. CASE listed_in'[t] # units
    \* Listed before, and the entries before it.
    <3>1. t # table /\ listed_in'[t] = listed_in[t] /\ list'[t] = list[t]
      BY <1>5, <2>2 DEF Tables
    <3>2. listed_in'["entries"] # units
      BY <1>4, <1>5, <1>8, <2>2 DEF Late, Tables, ListInv
    <3>3. /\ listed_in'["entries"] = listed_in["entries"]
          /\ list'.entries = list.entries
      BY <1>5, <3>2 DEF Tables
    <3>4. ~Late(t)
      BY <1>8, <3>1, <3>3 DEF Late
    <3>5. Resolves(t)
      BY <1>8, <3>3, <3>4 DEF ListInv
    <3> QED
      BY <3>1, <3>3, <3>5 DEF Resolves
  <2> QED
    BY <2>1, <2>2
<1> QED
  BY <1>1, <1>2, <1>4, <1>5, <1>6, <1>7, <1>8 DEF ListInv

(* The next unit has read nothing yet.                                     *)
LEMMA NextUnitKeeps ==
    ASSUME ListInv, NextUnit
    PROVE  ListInv'
BY DEF ListInv, NextUnit, HasListed, Resolves, Late

(* If no collection was listed late, everything resolves.                  *)
LEMMA ProjectKeeps ==
    ASSUME ListInv, Project
    PROVE  ListInv'
<1>1. /\ listed_in["entries"] # 0
      /\ UNCHANGED <<db, unit, units, list, listed_in>>
      /\ outcome' = "raised" => Unresolved
  BY DEF Project, Tables
<1>2. ASSUME Unresolved
      PROVE  \E table \in {"accounts", "journals"} : Late(table)
  <2>1. PICK e \in Present(list.entries) :
            \/ list.journals[list.entries[e].journal_id] = Absent
            \/ \E a \in AccountsOf(list.entries[e]) : list.accounts[a] = Absent
    BY <1>2 DEF Unresolved
  <2>2. e \in EntryIds /\ list.entries[e] # Absent
    BY <1>1, <2>1 DEF Present, ListInv
  <2>3. ~Resolves("journals") \/ ~Resolves("accounts")
    BY <2>1, <2>2 DEF Resolves
  <2> QED
    BY <1>1, <2>3 DEF ListInv
<1> QED
  BY <1>1, <1>2 DEF ListInv, HasListed, Resolves, Late

LEMMA ListStep ==
    ASSUME ListInv, [Next]_vars
    PROVE  ListInv'
<1>1. CASE Workflow
  BY <1>1, WorkflowKeeps
<1>2. CASE \E table \in Tables : List(table)
  BY <1>2, ListKeeps
<1>3. CASE NextUnit
  BY <1>3, NextUnitKeeps
<1>4. CASE Project
  BY <1>4, ProjectKeeps
<1>5. CASE ExportCsv
  BY <1>5 DEF ExportCsv, ListInv, HasListed, Resolves, Late
<1>6. CASE StartOver
  BY <1>6 DEF StartOver, ListInv, Nothing, Tables
<1>7. CASE UNCHANGED vars
  BY <1>7 DEF vars, ListInv, HasListed, Resolves, Late
<1> QED
  BY <1>1, <1>2, <1>3, <1>4, <1>5, <1>6, <1>7 DEF Next

(* The projection of an exporter that lists everything in one unit, or the *)
(* entries no later than the rest, never raises, whatever is created,      *)
(* changed, deleted and posted meanwhile.                                  *)
THEOREM ProjectionResolves == Spec => []EntriesFirstResolve
<1>1. ListInv => EntriesFirstResolve
  BY DEF ListInv, EntriesFirstResolve, Late
<1> QED
  BY <1>1, ListInit, ListStep, PTL DEF Spec

-----------------------------------------------------------------------------
(* Part 3: the rows.                                                       *)

(* Every collection has been listed.                                       *)
AllListed ==
    /\ list.entries \in [EntryIds -> OrAbsent(JournalEntry)]
    /\ list.accounts \in [AccountIds -> OrAbsent(Account)]
    /\ list.journals \in [JournalIds -> OrAbsent(Journal)]

(* The orders tell any two entries, and no row comes before itself.        *)
LEMMA EntriesCompare ==
    ASSUME NEW e \in EntryIds, NEW f \in EntryIds, e # f
    PROVE  EntryBefore(e, f) \/ EntryBefore(f, e)
<1>1. e \in Int /\ f \in Int /\ DateOf[e] \in Int /\ DateOf[f] \in Int
  BY EntryIdsAssumption, DateOfAssumption
<1> DEFINE d == DateOf[e]
           g == DateOf[f]
<1>2. d \in Int /\ g \in Int
  BY <1>1
<1>3. EntryBefore(e, f) <=> d < g \/ (d = g /\ e < f)
  BY DEF EntryBefore
<1>4. EntryBefore(f, e) <=> g < d \/ (g = d /\ f < e)
  BY DEF EntryBefore
<1> HIDE DEF d, g
<1> QED
  BY <1>1, <1>2, <1>3, <1>4

LEMMA RowsCompare ==
    ASSUME NEW r \in PostingRow, NEW s \in PostingRow, RowBefore(r, s)
    PROVE  ~RowBefore(s, r) /\ r # s
<1> DEFINE Comparable(t) ==
              t.transaction_date \in Int /\ t.line_position \in Int /\ t.entry_id \in Int
<1>1. \A t \in PostingRow : Comparable(t)
  <2> SUFFICES ASSUME NEW t \in PostingRow
               PROVE  Comparable(t)
    OBVIOUS
  <2>1. t.transaction_date \in Int /\ t.line_position \in Nat /\ t.entry_id \in EntryIds
    BY DEF PostingRow
  <2>2. t.entry_id \in Int
    BY <2>1, EntryIdsAssumption
  <2> QED
    BY <2>1, <2>2
<1>2. ~RowBefore(s, r)
  BY <1>1 DEF RowBefore
<1>3. ~RowBefore(r, r)
  BY <1>1 DEF RowBefore
<1> QED
  BY <1>2, <1>3

(* Any sorted arrangement of the entries has each of them, and dates and   *)
(* then identifiers increase along it.                                     *)
LEMMA EntriesSorted ==
    ASSUME AllListed, NEW ordered \in SortedEntries(Present(list.entries))
    PROVE  \E C \in Nat :
               /\ ordered \in [1..C -> Present(list.entries)]
               /\ \A e \in Present(list.entries) : \E k \in 1..C : ordered[k] = e
               /\ \A i, j \in 1..C : i < j => EntryBefore(ordered[i], ordered[j])
<1> DEFINE P == Present(list.entries)
           C == Cardinality(P)
<1>1. P \subseteq EntryIds
  BY DEF AllListed, Present
<1>2. IsFiniteSet(P)
  BY <1>1, EntryIdsAssumption, FS_Subset
<1>3. C \in Nat
  BY <1>2, FS_CardinalityType
<1>4. /\ ordered \in [1..C -> P]
      /\ \A i, j \in 1..C : i # j => ordered[i] # ordered[j]
      /\ \A i, j \in 1..C : i < j => ~EntryBefore(ordered[j], ordered[i])
  BY DEF SortedEntries, SetToSeqs
<1>5. IsFiniteSet(1..C) /\ Cardinality(1..C) = C
  BY <1>3, FS_Interval
<1> HIDE DEF P, C
<1>6. ordered \in Injection(1..C, P)
  BY <1>4 DEF Injection, IsInjective
<1>7. ordered \in Surjection(1..C, P)
  BY <1>2, <1>5, <1>6, FS_Injection DEF C
<1>8. \A e \in P : \E k \in 1..C : ordered[k] = e
  BY <1>7 DEF Surjection
<1>9. ASSUME NEW i \in 1..C, NEW j \in 1..C, i < j
      PROVE  EntryBefore(ordered[i], ordered[j])
  <2>1. ordered[i] \in EntryIds /\ ordered[j] \in EntryIds
    BY <1>1, <1>4
  <2>2. ordered[i] # ordered[j] /\ ~EntryBefore(ordered[j], ordered[i])
    BY <1>3, <1>4, <1>9
  <2> QED
    BY <2>1, <2>2, EntriesCompare
<1> QED
  BY <1>3, <1>4, <1>8, <1>9 DEF P

(* The rows of one entry: one for each line, with its place.               *)
LEMMA RowsOfEntry ==
    ASSUME AllListed, ~Unresolved, NEW e \in Present(list.entries)
    PROVE  /\ e \in EntryIds /\ list.entries[e] \in JournalEntry
           /\ RowsOf(e) \in Seq(PostingRow)
           /\ DOMAIN RowsOf(e) = DOMAIN list.entries[e].lines
           /\ \A n \in DOMAIN RowsOf(e) :
                 /\ n \in Nat \ {0}
                 /\ RowsOf(e)[n] \in PostingRow
                 /\ RowsOf(e)[n].entry_id = e
                 /\ RowsOf(e)[n].transaction_date = DateOf[e]
                 /\ RowsOf(e)[n].line_position = n - 1
                 /\ RowsOf(e)[n].line_id = list.entries[e].lines[n].id
<1> DEFINE entry == list.entries[e]
           N == Len(entry.lines)
<1>1. e \in EntryIds /\ entry \in JournalEntry /\ DateOf[e] \in Int
  BY DateOfAssumption DEF AllListed, Present, OrAbsent
<1>2. /\ entry.lines \in Seq(JournalLine) /\ entry.journal_id \in JournalIds
      /\ N \in Nat /\ DOMAIN entry.lines = 1..N
      /\ \A n \in 1..N : entry.lines[n] \in JournalLine
  BY <1>1 DEF JournalEntry
<1>3. list.journals[entry.journal_id] \in Journal
  BY <1>2 DEF Unresolved, AllListed, OrAbsent
<1>4. ASSUME NEW n \in 1..N
      PROVE  /\ RowsOf(e)[n] \in PostingRow
             /\ RowsOf(e)[n].entry_id = e
             /\ RowsOf(e)[n].transaction_date = DateOf[e]
             /\ RowsOf(e)[n].line_position = n - 1
             /\ RowsOf(e)[n].line_id = entry.lines[n].id
  <2> DEFINE line == entry.lines[n]
  <2>1. line \in JournalLine /\ n - 1 \in Nat
    BY <1>2
  <2>2. line.account_id \in AccountsOf(entry) /\ line.account_id \in AccountIds
    BY <1>2, <2>1 DEF AccountsOf, JournalLine
  <2>3. list.accounts[line.account_id] \in Account
    BY <2>2 DEF Unresolved, AllListed, OrAbsent
  <2>4. RowsOf(e)[n] =
          [entry_id |-> e, transaction_date |-> DateOf[e],
           journal_code |-> list.journals[entry.journal_id].code,
           line_id |-> line.id, line_position |-> n - 1,
           account_code |-> list.accounts[line.account_id].code,
           side |-> line.side, minor_units |-> line.minor_units,
           currency |-> line.currency]
    BY <1>2 DEF RowsOf, Position, Amount
  <2>5. /\ list.journals[entry.journal_id].code \in Codes
        /\ list.accounts[line.account_id].code \in Codes
    BY <1>3, <2>3 DEF Journal, Account
  <2>6. /\ line.id \in LineIds /\ line.side \in {"debit", "credit"}
        /\ line.minor_units \in Nat /\ line.currency \in Currencies
    BY <2>1 DEF JournalLine
  <2> HIDE DEF line, entry
  <2>7. RowsOf(e)[n] \in PostingRow
    BY <1>1, <2>1, <2>4, <2>5, <2>6 DEF PostingRow
  <2> QED
    BY <2>4, <2>7 DEF line
<1>5. /\ DOMAIN RowsOf(e) = 1..N
      /\ RowsOf(e) = [n \in 1..N |-> RowsOf(e)[n]]
  BY <1>2 DEF RowsOf
<1>6. RowsOf(e) \in Seq(PostingRow)
  <2> HIDE DEF N
  <2>1. RowsOf(e) \in [1..N -> PostingRow]
    BY <1>4, <1>5
  <2> QED
    BY <1>2, <2>1
<1>7. \A n \in 1..N : n \in Nat \ {0}
  BY <1>2
<1>8. DOMAIN RowsOf(e) = DOMAIN entry.lines
  BY <1>2, <1>5
<1> HIDE DEF N
<1> QED
  BY <1>1, <1>4, <1>5, <1>6, <1>7, <1>8

(* What RowsExact says of a sequence of rows, with the order the CSV file  *)
(* sorts by.                                                               *)
Exact(rs) ==
    /\ \A e \in Present(list.entries) : \A n \in DOMAIN list.entries[e].lines :
          \E r \in DOMAIN rs : rs[r].entry_id = e /\ rs[r].line_position = n - 1
    /\ \A r \in DOMAIN rs :
          LET entry == list.entries[rs[r].entry_id]
              n == rs[r].line_position + 1 IN
          entry # Absent /\ n \in DOMAIN entry.lines /\ rs[r].line_id = entry.lines[n].id
    /\ \A r, s \in DOMAIN rs : r < s => RowBefore(rs[r], rs[s])

(* The projection is exact for every arrangement of the entries.           *)
LEMMA ProjectionExact ==
    ASSUME AllListed, ~Unresolved,
           NEW ordered \in SortedEntries(Present(list.entries))
    PROVE  LET rs == FlattenSeq([n \in DOMAIN ordered |-> RowsOf(ordered[n])])
           IN  rs \in Seq(PostingRow) /\ Exact(rs)
<1> DEFINE P == Present(list.entries)
           ss == [n \in DOMAIN ordered |-> RowsOf(ordered[n])]
           rs == FlattenSeq(ss)
<1>1. PICK C \in Nat :
          /\ ordered \in [1..C -> P]
          /\ \A e \in P : \E k \in 1..C : ordered[k] = e
          /\ \A i, j \in 1..C : i < j => EntryBefore(ordered[i], ordered[j])
  BY EntriesSorted
<1>2. ss \in [1..C -> Seq(PostingRow)] /\ \A a \in 1..C : ss[a] = RowsOf(ordered[a])
  BY <1>1, RowsOfEntry
<1>3. rs \in Seq(PostingRow) /\ Flattens(rs, ss, C)
  <2> HIDE DEF ss
  <2> QED
    BY <1>2, FlattenSeqFlattens
<1> HIDE DEF ss, rs, P
\* An element of the ath sequence is the row of a line of the ath entry.
<1>4. ASSUME NEW a \in 1..C, NEW m \in DOMAIN ss[a]
      PROVE  /\ ordered[a] \in P /\ ordered[a] \in EntryIds
             /\ list.entries[ordered[a]] \in JournalEntry
             /\ m \in DOMAIN list.entries[ordered[a]].lines /\ m \in Nat \ {0}
             /\ ss[a][m].entry_id = ordered[a]
             /\ ss[a][m].transaction_date = DateOf[ordered[a]]
             /\ ss[a][m].line_position = m - 1
             /\ ss[a][m].line_id = list.entries[ordered[a]].lines[m].id
  <2>1. ordered[a] \in P
    BY <1>1
  <2>2. ss[a] = RowsOf(ordered[a])
    BY <1>2
  <2> QED
    BY <2>1, <2>2, RowsOfEntry DEF P
<1>5. ASSUME NEW e \in P, NEW n \in DOMAIN list.entries[e].lines
      PROVE  \E r \in DOMAIN rs : rs[r].entry_id = e /\ rs[r].line_position = n - 1
  <2>1. PICK a \in 1..C : ordered[a] = e
    BY <1>1
  <2>2. n \in DOMAIN ss[a]
    BY <1>2, <2>1, RowsOfEntry DEF P
  <2>3. PICK r \in DOMAIN rs : rs[r] = ss[a][n]
    BY <1>3, <2>2 DEF Flattens
  <2> QED
    BY <1>4, <2>1, <2>2, <2>3
<1>6. ASSUME NEW r \in DOMAIN rs
      PROVE  LET entry == list.entries[rs[r].entry_id]
                 n == rs[r].line_position + 1 IN
             entry # Absent /\ n \in DOMAIN entry.lines /\ rs[r].line_id = entry.lines[n].id
  <2>1. PICK a \in 1..C : \E m \in DOMAIN ss[a] : rs[r] = ss[a][m]
    BY <1>3 DEF Flattens
  <2>2. PICK m \in DOMAIN ss[a] : rs[r] = ss[a][m]
    BY <2>1
  <2>3. /\ rs[r].entry_id = ordered[a]
        /\ rs[r].line_position = m - 1 /\ m \in Nat
        /\ rs[r].line_id = list.entries[ordered[a]].lines[m].id
        /\ m \in DOMAIN list.entries[ordered[a]].lines
        /\ list.entries[ordered[a]] \in JournalEntry
    BY <1>4, <2>2
  <2>4. rs[r].line_position + 1 = m
    BY <2>3
  <2> QED
    BY <2>3, <2>4, AbsentAssumption
<1>7. ASSUME NEW r \in DOMAIN rs, NEW s \in DOMAIN rs, r < s
      PROVE  RowBefore(rs[r], rs[s])
  <2>1. PICK a \in 1..C, b \in 1..C : \E m \in DOMAIN ss[a], n \in DOMAIN ss[b] :
            /\ rs[r] = ss[a][m] /\ rs[s] = ss[b][n]
            /\ a < b \/ (a = b /\ m < n)
    BY <1>3, <1>7 DEF Flattens
  <2>2. PICK m \in DOMAIN ss[a], n \in DOMAIN ss[b] :
            /\ rs[r] = ss[a][m] /\ rs[s] = ss[b][n]
            /\ a < b \/ (a = b /\ m < n)
    BY <2>1
  <2>3. /\ rs[r].entry_id = ordered[a] /\ rs[r].transaction_date = DateOf[ordered[a]]
        /\ rs[s].entry_id = ordered[b] /\ rs[s].transaction_date = DateOf[ordered[b]]
        /\ rs[r].line_position = m - 1 /\ rs[s].line_position = n - 1
        /\ m \in Nat /\ n \in Nat
    BY <1>4, <2>2
  <2>4. CASE a < b
    BY <1>1, <2>3, <2>4 DEF EntryBefore, RowBefore
  <2>5. CASE a = b /\ m < n
    BY <2>3, <2>5 DEF RowBefore
  <2> QED
    BY <2>2, <2>4, <2>5
<1> QED
  BY <1>3, <1>5, <1>6, <1>7 DEF Exact, P, rs, ss

(* Rows in order are their only sorted arrangement.                        *)
LEMMA SortedIsUnique ==
    ASSUME NEW rs \in Seq(PostingRow),
           \A r, s \in DOMAIN rs : r < s => RowBefore(rs[r], rs[s]),
           NEW f \in SortedRows({rs[r] : r \in DOMAIN rs})
    PROVE  f = rs
<1> DEFINE N == Len(rs)
           R == {rs[r] : r \in DOMAIN rs}
           before == {p \in PostingRow \X PostingRow : RowBefore(p[1], p[2])}
<1>1. N \in Nat /\ DOMAIN rs = 1..N /\ rs \in [1..N -> R] /\ rs \in [1..N -> PostingRow]
  OBVIOUS
<1>2. \A r, s \in PostingRow : RowBefore(r, s) => ~RowBefore(s, r)
  BY RowsCompare
<1>3. \A i, j \in 1..N : i < j => <<rs[i], rs[j]>> \in before /\ <<rs[j], rs[i]>> \notin before
  <2> HIDE DEF N
  <2> QED
    BY <1>1, <1>2
<1>4. f \in SetToSeqs(R) /\ \A i, j \in DOMAIN f : i < j => <<f[j], f[i]>> \notin before
  BY DEF SortedRows
<1>5. \A t \in R : \E i \in 1..N : rs[i] = t
  BY <1>1
<1> HIDE DEF N, R, before
<1>6. \A g \in SetToSeqs(R) :
         (\A i, j \in DOMAIN g : i < j => <<g[j], g[i]>> \notin before) => g = rs
  BY <1>1, <1>3, <1>5, ArrangementIsUnique
<1> QED
  BY <1>4, <1>6

(* What a listed collection is.                                            *)
Collections == [entries  |-> [EntryIds -> OrAbsent(JournalEntry)],
                accounts |-> [AccountIds -> OrAbsent(Account)],
                journals |-> [JournalIds -> OrAbsent(Journal)]]

(* Rows exist once a projection has made them, of collections that were    *)
(* all listed; they are exact; and the file has them in their order.       *)
RowsInv ==
    /\ TypeOK
    /\ \A table \in Tables : listed_in[table] # 0 => list[table] \in Collections[table]
    /\ outcome # "none" => \A table \in Tables : listed_in[table] # 0
    /\ outcome # "rows" => rows = <<>>
    /\ outcome = "rows" => Exact(rows)
    /\ file \in {<<>>, rows}

LEMMA RowsInit == Init => RowsInv
<1> SUFFICES ASSUME Init
             PROVE  RowsInv
  OBVIOUS
<1>1. db \in Ledgers
  BY EmptyLedgerWhole DEF Init, WholeLedgers
<1>2. list \in Listings
  BY DEF Init, Nothing, Tables, Listings
<1>3. units \in 1..MaxUnits /\ listed_in \in [Tables -> 0..MaxUnits]
  BY MaxUnitsAssumption DEF Init
<1>4. rows \in Seq(PostingRow) /\ file \in Seq(PostingRow)
  BY DEF Init
<1> QED
  BY <1>1, <1>2, <1>3, <1>4 DEF Init, RowsInv, TypeOK

(* Listing.                                                                *)
LEMMA ListRows ==
    ASSUME ListInv, RowsInv, NEW table \in Tables, List(table), ListInv'
    PROVE  RowsInv'
<1>1. Snapshot \in Ledgers
  BY DEF Snapshot, ListInv, WholeLedgers
<1>2. Snapshot[table] \in Collections[table]
  BY <1>1 DEF Ledgers, Collections, Tables
<1>3. /\ list' = [list EXCEPT ![table] = Snapshot[table]]
      /\ listed_in' = [listed_in EXCEPT ![table] = units]
      /\ unit' = Snapshot /\ outcome = "none"
      /\ UNCHANGED <<db, units, outcome, rows, file>>
  BY DEF List
<1>4. list' \in Listings
  <2>1. list \in Listings
    BY DEF RowsInv, TypeOK
  <2> DEFINE C == Snapshot[table]
  <2>2. C \in Collections[table] /\ list' = [list EXCEPT ![table] = C]
    BY <1>2, <1>3
  <2> HIDE DEF C
  <2>3. CASE table = "entries"
    BY <2>1, <2>2, <2>3 DEF Listings, Collections
  <2>4. CASE table = "accounts"
    BY <2>1, <2>2, <2>4 DEF Listings, Collections
  <2>5. CASE table = "journals"
    BY <2>1, <2>2, <2>5 DEF Listings, Collections
  <2> QED
    BY <2>3, <2>4, <2>5 DEF Tables
<1>5. listed_in' \in [Tables -> 0..MaxUnits]
  BY <1>3, MaxUnitsAssumption DEF RowsInv, TypeOK
<1>6. TypeOK'
  BY <1>1, <1>3, <1>4, <1>5 DEF RowsInv, TypeOK
<1>7. \A t \in Tables : listed_in'[t] # 0 => list'[t] \in Collections[t]
  <2> SUFFICES ASSUME NEW t \in Tables, listed_in'[t] # 0
               PROVE  list'[t] \in Collections[t]
    OBVIOUS
  <2>1. DOMAIN list = Tables /\ DOMAIN listed_in = Tables
    BY DEF RowsInv, TypeOK, ListInv
  <2>2. CASE t = table
    BY <1>2, <1>3, <2>1, <2>2
  <2>3. CASE t # table
    BY <1>3, <2>1, <2>3 DEF RowsInv
  <2> QED
    BY <2>2, <2>3
<1> QED
  BY <1>3, <1>6, <1>7 DEF RowsInv

(* The projection: of collections that were all listed.                    *)
LEMMA ProjectRows ==
    ASSUME RowsInv, Project
    PROVE  RowsInv'
<1>1. /\ \A table \in Tables : listed_in[table] # 0
      /\ outcome = "none" /\ rows = <<>> /\ file = <<>>
      /\ UNCHANGED <<db, unit, units, list, listed_in, file>>
  BY DEF Project, RowsInv
<1>2. AllListed
  BY <1>1 DEF RowsInv, Collections, Tables, AllListed
<1>3. CASE Unresolved /\ outcome' = "raised" /\ UNCHANGED rows
  BY <1>1, <1>3 DEF RowsInv, TypeOK
<1>4. CASE /\ ~Unresolved
           /\ outcome' = "rows"
           /\ \E ordered \in SortedEntries(Present(list.entries)) :
                 rows' = FlattenSeq([n \in DOMAIN ordered |-> RowsOf(ordered[n])])
  <2>1. PICK rs : rs = rows'
    OBVIOUS
  <2>2. rs \in Seq(PostingRow) /\ Exact(rs)
    BY <1>2, <1>4, <2>1, ProjectionExact
  <2>3. Exact(rs)'
    BY <1>1, <2>2 DEF Exact
  <2>4. Exact(rows)'
    BY <2>1, <2>3 DEF Exact
  <2>5. TypeOK'
    BY <1>1, <1>4, <2>1, <2>2 DEF RowsInv, TypeOK
  <2> QED
    BY <1>1, <1>4, <2>4, <2>5 DEF RowsInv
<1> QED
  BY <1>3, <1>4 DEF Project

(* The file: its order is the rows' own.                                   *)
LEMMA ExportRows ==
    ASSUME RowsInv, ExportCsv
    PROVE  RowsInv'
<1>1. /\ outcome = "rows"
      /\ UNCHANGED <<db, unit, units, list, listed_in, outcome, rows>>
      /\ file' = rows \/ file' \in SortedRows(Range(rows))
  BY DEF ExportCsv
<1>2. rows \in Seq(PostingRow) /\ \A r, s \in DOMAIN rows : r < s => RowBefore(rows[r], rows[s])
  BY <1>1 DEF RowsInv, TypeOK, Exact
<1>3. file' = rows
  <2>1. Range(rows) = {rows[r] : r \in DOMAIN rows}
    BY DEF Range
  <2>2. PICK f : f = file'
    OBVIOUS
  <2>3. CASE f \in SortedRows({rows[r] : r \in DOMAIN rows})
    BY <1>2, <2>2, <2>3, SortedIsUnique
  <2> QED
    BY <1>1, <2>1, <2>2, <2>3
<1> QED
  BY <1>1, <1>2, <1>3 DEF RowsInv, TypeOK, Exact

LEMMA RowsStep ==
    ASSUME ListInv, RowsInv, [Next]_vars
    PROVE  RowsInv'
<1>1. ListInv'
  BY ListStep
<1>2. db' \in Ledgers
  BY <1>1 DEF ListInv, WholeLedgers
<1>3. CASE Workflow
  <2>1. UNCHANGED <<unit, units, list, listed_in, outcome, rows, file>>
    BY <1>3, WorkflowCommits DEF ListInv, Commits, exporterVars
  <2> QED
    BY <1>2, <2>1 DEF RowsInv, TypeOK, Exact
<1>4. CASE \E table \in Tables : List(table)
  BY <1>1, <1>4, ListRows
<1>5. CASE NextUnit
  <2>1. units' \in 1..MaxUnits
    BY <1>5, MaxUnitsAssumption DEF NextUnit, RowsInv, TypeOK
  <2> QED
    BY <1>5, <2>1 DEF NextUnit, RowsInv, TypeOK
<1>6. CASE Project
  BY <1>6, ProjectRows
<1>7. CASE ExportCsv
  BY <1>7, ExportRows
<1>8. CASE StartOver
  <2>1. /\ list' \in Listings /\ units' \in 1..MaxUnits
        /\ listed_in' \in [Tables -> 0..MaxUnits]
        /\ rows' \in Seq(PostingRow) /\ file' \in Seq(PostingRow)
    BY <1>8, MaxUnitsAssumption DEF StartOver, Nothing, Tables, Listings
  <2> QED
    BY <1>8, <2>1 DEF StartOver, RowsInv, TypeOK
<1>9. CASE UNCHANGED vars
  BY <1>9 DEF vars, RowsInv, TypeOK, Exact
<1> QED
  BY <1>3, <1>4, <1>5, <1>6, <1>7, <1>8, <1>9 DEF Next

LEMMA RowsAlways == Spec => []RowsInv
<1> QED
  BY ListInit, ListStep, RowsInit, RowsStep, PTL DEF Spec

(* The types of the ledger, the lists and the rows.                        *)
THEOREM TypeCorrect == Spec => []TypeOK
<1>1. RowsInv => TypeOK
  BY DEF RowsInv
<1> QED
  BY <1>1, RowsAlways, PTL

(* Each listed line has its row, each row its line, and the rows come in   *)
(* the documented order, however many entries and lines there are and in   *)
(* whatever order they are handed over.                                    *)
THEOREM RowsStayExact == Spec => []RowsExact
<1>1. RowsInv => RowsExact
  <2> SUFFICES ASSUME RowsInv, outcome = "rows"
               PROVE  RowsExact
    BY DEF RowsExact
  <2>1. Exact(rows)
    BY DEF RowsInv
  <2>2. \A r, s \in DOMAIN rows : r < s => InOrder(rows[r], rows[s])
    BY <2>1 DEF Exact, RowBefore, InOrder
  <2> QED
    BY <2>1, <2>2 DEF Exact, RowsExact
<1> QED
  BY <1>1, RowsAlways, PTL

(* Sorting the rows for the file gives the projection back, whatever       *)
(* arrangement of them is handed over.                                     *)
THEOREM FileFollows == Spec => []FileFollowsProjection
<1>1. RowsInv => FileFollowsProjection
  BY DEF RowsInv, FileFollowsProjection
<1> QED
  BY <1>1, RowsAlways, PTL
=============================================================================
