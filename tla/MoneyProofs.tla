----------------------------- MODULE MoneyProofs -----------------------------
(***************************************************************************)
(* Money is exact, and refuses no amount it could hold, for decimals with  *)
(* any number of digits.  The conversions fold over digits, so that the    *)
(* lemmas are inductions over numbers.  They rest on a set of numbers      *)
(* having a least element, which the library states without operators as   *)
(* parameters.                                                             *)
(***************************************************************************)
EXTENDS Money, TLAPS, WellFoundedInduction, SequenceTheorems

-----------------------------------------------------------------------------
(* Part 1: induction and recursion over numbers.                           *)

(* A nonempty set of numbers has a least one.                              *)
LEMMA LeastNumber ==
    ASSUME NEW U \in SUBSET Nat, U # {}
    PROVE  \E n \in U : \A m \in U : n <= m
<1> DEFINE R == OpToRel(<, Nat)
<1>1. IsWellFoundedOn(R, Nat)
  BY NatLessThanWellFounded
<1>2. \A x, y \in Nat : x < y => <<x, y>> \in R
  BY DEF OpToRel
<1> HIDE DEF R
<1>3. PICK n \in U : \A m \in U : ~(<<m, n>> \in R)
  BY <1>1, WFMin
<1>4. ASSUME NEW m \in U
      PROVE  n <= m
  <2>1. n \in Nat /\ m \in Nat /\ ~(m < n)
    BY <1>2, <1>3
  <2> QED
    BY <2>1
<1> QED
  BY <1>4

(* A set with zero and the successors of its members has all numbers.      *)
LEMMA AllNumbers ==
    ASSUME NEW T \in SUBSET Nat, 0 \in T, \A n \in T : n + 1 \in T
    PROVE  \A n \in Nat : n \in T
<1> SUFFICES ASSUME Nat \ T # {}
             PROVE  FALSE
  OBVIOUS
<1>1. PICK n \in Nat \ T : \A m \in Nat \ T : n <= m
  BY LeastNumber
<1>2. n - 1 \in Nat /\ ~(n <= n - 1) /\ (n - 1) + 1 = n
  BY <1>1
<1>3. n - 1 \in T
  BY <1>1, <1>2
<1> QED
  BY <1>1, <1>2, <1>3

(* The same up to a bound.                                                 *)
LEMMA NumbersUpTo ==
    ASSUME NEW m \in Nat, NEW T, 0 \in T, \A n \in 0..(m - 1) : n \in T => n + 1 \in T
    PROVE  \A n \in 0..m : n \in T
<1> DEFINE U == {n \in Nat : n \in T \/ n > m}
<1>1. 0 \in U
  OBVIOUS
<1>2. ASSUME NEW n \in U
      PROVE  n + 1 \in U
  <2>1. CASE n \in 0..(m - 1)
    BY <2>1
  <2>2. CASE n >= m
    BY <2>2
  <2> QED
    BY <2>1, <2>2
<1>3. \A n \in Nat : n \in U
  <2> HIDE DEF U
  <2>1. U \in SUBSET Nat
    BY DEF U
  <2> QED
    BY <1>1, <1>2, <2>1, AllNumbers
<1> QED
  BY <1>3

(* f begins with base, and each of its values is a step from the last one. *)
Recurs(f, base, step) == f[0] = base /\ \A n \in Nat : f[n + 1] = step[<<n, f[n]>>]

(* A value and a step define a function by recursion.                      *)
LEMMA Recursion ==
    ASSUME NEW S, NEW base \in S, NEW step \in [Nat \X S -> S]
    PROVE  \E f \in [Nat -> S] : Recurs(f, base, step)
<1> DEFINE Good(g, n) == /\ g \in [0..n -> S] /\ g[0] = base
                         /\ \A k \in 0..(n - 1) : g[k + 1] = step[<<k, g[k]>>]
           T == {n \in Nat : \E g : Good(g, n)}
<1>1. \A n \in Nat : \E g : Good(g, n)
  <2>1. 0 \in T
    <3>1. Good([k \in 0..0 |-> base], 0)
      OBVIOUS
    <3> QED
      BY <3>1
  <2>2. ASSUME NEW n \in T
        PROVE  n + 1 \in T
    <3>1. PICK g : Good(g, n)
      OBVIOUS
    <3> DEFINE h == [k \in 0..(n + 1) |-> IF k = n + 1 THEN step[<<n, g[n]>>] ELSE g[k]]
    <3>2. step[<<n, g[n]>>] \in S
      BY <3>1
    <3>3. h \in [0..(n + 1) -> S] /\ h[0] = base
      BY <3>1, <3>2
    <3>4. ASSUME NEW k \in 0..n
          PROVE  h[k + 1] = step[<<k, h[k]>>]
      <4>1. CASE k = n
        <5>1. h[n + 1] = step[<<n, g[n]>>] /\ h[n] = g[n]
          OBVIOUS
        <5> QED
          BY <4>1, <5>1
      <4>2. CASE k \in 0..(n - 1)
        <5>1. h[k] = g[k] /\ h[k + 1] = g[k + 1]
          BY <4>2
        <5> QED
          BY <3>1, <4>2, <5>1
      <4> QED
        BY <4>1, <4>2
    <3>5. Good(h, n + 1)
      <4> HIDE DEF h
      <4>1. (n + 1) - 1 = n
        OBVIOUS
      <4> QED
        BY <3>3, <3>4, <4>1
    <3>6. n + 1 \in Nat
      OBVIOUS
    <3> HIDE DEF h, Good
    <3> QED
      BY <3>5, <3>6
  <2>3. \A n \in Nat : n \in T
    <3> HIDE DEF T
    <3>1. T \in SUBSET Nat
      BY DEF T
    <3> QED
      BY <2>1, <2>2, <3>1, AllNumbers
  <2> QED
    BY <2>3
<1>2. ASSUME NEW n \in Nat, NEW g, NEW h, Good(g, n), Good(h, n + 1)
      PROVE  g[n] = h[n]
  <2> DEFINE U == {k \in 0..n : g[k] = h[k]}
  <2>1. 0 \in U
    BY <1>2
  <2>2. ASSUME NEW k \in 0..(n - 1), k \in U
        PROVE  k + 1 \in U
    <3>1. g[k + 1] = step[<<k, g[k]>>] /\ h[k + 1] = step[<<k, h[k]>>]
      BY <1>2
    <3> QED
      BY <2>2, <3>1
  <2>3. \A k \in 0..n : k \in U
    <3> HIDE DEF U
    <3> QED
      BY <2>1, <2>2, NumbersUpTo
  <2> QED
    BY <2>3
<1> DEFINE G(n) == CHOOSE g : Good(g, n)
           f == [n \in Nat |-> G(n)[n]]
<1>3. \A n \in Nat : Good(G(n), n)
  BY <1>1
<1> HIDE DEF G
<1>4. f \in [Nat -> S] /\ f[0] = base
  BY <1>3
<1>5. ASSUME NEW n \in Nat
      PROVE  f[n + 1] = step[<<n, f[n]>>]
  <2>1. G(n)[n] = G(n + 1)[n]
    <3>1. Good(G(n), n) /\ Good(G(n + 1), n + 1)
      BY <1>3
    <3> HIDE DEF Good
    <3> QED
      BY <1>2, <3>1
  <2>2. G(n + 1)[n + 1] = step[<<n, G(n + 1)[n]>>]
    BY <1>3
  <2> QED
    BY <2>1, <2>2
<1> QED
  BY <1>4, <1>5 DEF Recurs

(* Powers of ten.                                                          *)
LEMMA PowersOfTen ==
    /\ PowerOfTen \in [Nat -> Nat]
    /\ PowerOfTen[0] = 1
    /\ \A n \in Nat : PowerOfTen[n + 1] = 10 * PowerOfTen[n]
<1> DEFINE step == [p \in Nat \X Nat |-> 10 * p[2]]
<1>1. PICK f \in [Nat -> Nat] : Recurs(f, 1, step)
  <2> DEFINE N == Nat
             one == 1
  <2>1. step \in [Nat \X N -> N] /\ one \in N
    OBVIOUS
  <2> HIDE DEF step, N, one
  <2>2. \E f \in [Nat -> N] : Recurs(f, one, step)
    BY <2>1, Recursion
  <2> QED
    BY <2>2 DEF N, one
<1>2. f[0] = 1 /\ \A n \in Nat : f[n + 1] = 10 * f[n]
  BY <1>1 DEF Recurs
<1>3. f = [n \in Nat |-> IF n = 0 THEN 1 ELSE 10 * f[n - 1]]
  <2>1. ASSUME NEW n \in Nat, n # 0
        PROVE  f[n] = 10 * f[n - 1]
    <3>1. n - 1 \in Nat /\ (n - 1) + 1 = n
      BY <2>1
    <3> QED
      BY <1>2, <3>1
  <2> QED
    BY <1>1, <1>2, <2>1
<1>4. PowerOfTen = [n \in Nat |-> IF n = 0 THEN 1 ELSE 10 * PowerOfTen[n - 1]]
  BY <1>3 DEF PowerOfTen
<1>5. PowerOfTen[0] = 1 /\ \A n \in Nat : PowerOfTen[n + 1] = 10 * PowerOfTen[n]
  BY <1>4
<1> DEFINE T == {n \in Nat : PowerOfTen[n] \in Nat}
<1>6. \A n \in Nat : n \in T
  <2>1. 0 \in T /\ \A n \in T : n + 1 \in T
    BY <1>5
  <2>2. T \in SUBSET Nat
    OBVIOUS
  <2> HIDE DEF T
  <2> QED
    BY <2>1, <2>2, AllNumbers
<1> QED
  BY <1>4, <1>5, <1>6

-----------------------------------------------------------------------------
(* Part 2: the number that digits make.                                    *)

(* Sets of numbers up to a bound have a maximum.                           *)
LEMMA MaxUpTo ==
    ASSUME NEW n \in Nat, NEW s \in SUBSET (1..n), s # {}
    PROVE  Max(s) \in s /\ \A y \in s : y <= Max(s)
<1> DEFINE T == {k \in Nat : \A r \in SUBSET (1..k) : r # {} => \E x \in r : \A y \in r : x >= y}
<1>1. 0 \in T
  <2>1. 1..0 = {}
    OBVIOUS
  <2> QED
    BY <2>1
<1>2. ASSUME NEW k \in T
      PROVE  k + 1 \in T
  <2>1. ASSUME NEW r \in SUBSET (1..(k + 1)), r # {}
        PROVE  \E x \in r : \A y \in r : x >= y
    <3>1. CASE k + 1 \in r
      BY <3>1
    <3>2. CASE k + 1 \notin r
      <4>1. r \in SUBSET (1..k)
        BY <3>2
      <4> QED
        BY <2>1, <4>1
    <3> QED
      BY <3>1, <3>2
  <2> QED
    BY <2>1
<1>3. n \in T
  <2>1. T \in SUBSET Nat
    OBVIOUS
  <2> HIDE DEF T
  <2> QED
    BY <1>1, <1>2, <2>1, AllNumbers
<1>4. PICK x \in s : \A y \in s : x >= y
  BY <1>3
<1>5. \A y \in s : y \in Int
  OBVIOUS
<1> QED
  BY <1>4, <1>5 DEF Max

(* What is left below the maximum.                                         *)
LEMMA BelowMax ==
    ASSUME NEW n \in Nat, NEW s \in SUBSET (1..n), s # {},
           NEW k \in Nat, s \subseteq 1..(k + 1)
    PROVE  /\ Max(s) \in 1..n
           /\ s \ {Max(s)} \in SUBSET (1..n)
           /\ s \ {Max(s)} \subseteq 1..k
<1>1. Max(s) \in s /\ \A y \in s : y <= Max(s)
  BY MaxUpTo
<1>2. Max(s) \in 1..n /\ Max(s) \in 1..(k + 1)
  BY <1>1
<1>3. ASSUME NEW y \in s \ {Max(s)}
      PROVE  y \in 1..k
  <2>1. y \in 1..(k + 1) /\ y <= Max(s) /\ y # Max(s)
    BY <1>1
  <2> QED
    BY <1>2, <2>1
<1> QED
  BY <1>2, <1>3

(* The equation of the fold has a solution; what it says of a set.         *)
FoldOf(d, F) ==
    /\ F[{}] = 0
    /\ \A s \in SUBSET DOMAIN d : s # {} => F[s] = 10 * F[s \ {Max(s)}] + d[Max(s)]

LEMMA FoldExists ==
    ASSUME NEW n \in Nat, NEW d \in [1..n -> Nat]
    PROVE  \E F \in [SUBSET (1..n) -> Nat] : FoldOf(d, F)
<1> DEFINE X == [SUBSET (1..n) -> Nat]
           Once(F) == [s \in SUBSET (1..n) |->
                          IF s = {} THEN 0 ELSE 10 * F[s \ {Max(s)}] + d[Max(s)]]
           base == [s \in SUBSET (1..n) |-> 0]
           step == [p \in Nat \X X |-> Once(p[2])]
<1>1. ASSUME NEW F \in X
      PROVE  Once(F) \in X
  <2>1. ASSUME NEW s \in SUBSET (1..n), s # {}
        PROVE  10 * F[s \ {Max(s)}] + d[Max(s)] \in Nat
    <3>1. Max(s) \in 1..n /\ s \ {Max(s)} \in SUBSET (1..n)
      BY <2>1, MaxUpTo
    <3>2. d[Max(s)] \in Nat /\ F[s \ {Max(s)}] \in Nat
      BY <3>1
    <3> QED
      BY <3>2
  <2> QED
    BY <2>1
<1>2. PICK f \in [Nat -> X] : Recurs(f, base, step)
  <2>1. base \in X
    OBVIOUS
  <2>2. step \in [Nat \X X -> X]
    <3> HIDE DEF Once, X
    <3> QED
      BY <1>1
  <2> HIDE DEF base, step, X
  <2> QED
    BY <2>1, <2>2, Recursion
<1>3. f[0] = base /\ \A k \in Nat : f[k + 1] = Once(f[k])
  <2> HIDE DEF Once, X, base
  <2> QED
    BY <1>2 DEF Recurs
<1> DEFINE U == {k \in Nat : \A s \in SUBSET (1..n) : s \subseteq 1..k => f[k + 1][s] = f[k][s]}
<1>4. 0 \in U
  <2>1. f[0 + 1] = Once(f[0])
    BY <1>3
  <2>2. ASSUME NEW s \in SUBSET (1..n), s \subseteq 1..0
        PROVE  f[0 + 1][s] = f[0][s]
    <3>1. s = {}
      BY <2>2
    <3>2. Once(f[0])[s] = 0 /\ base[s] = 0
      BY <3>1
    <3> HIDE DEF Once, base
    <3> QED
      BY <1>3, <2>1, <3>2
  <2> HIDE DEF Once, base
  <2> QED
    BY <2>2
<1>5. ASSUME NEW k \in U
      PROVE  k + 1 \in U
  <2>1. ASSUME NEW s \in SUBSET (1..n), s \subseteq 1..(k + 1)
        PROVE  f[(k + 1) + 1][s] = f[k + 1][s]
    <3>1. f[(k + 1) + 1] = Once(f[k + 1]) /\ f[k + 1] = Once(f[k])
      <4> HIDE DEF Once
      <4> QED
        BY <1>3
    <3>2. CASE s = {}
      BY <3>1, <3>2
    <3>3. CASE s # {}
      <4>1. /\ s \ {Max(s)} \in SUBSET (1..n)
            /\ s \ {Max(s)} \subseteq 1..k
        BY <2>1, <3>3, BelowMax
      <4>2. f[k + 1][s \ {Max(s)}] = f[k][s \ {Max(s)}]
        BY <4>1
      <4> QED
        BY <3>1, <3>3, <4>2
    <3> QED
      BY <3>2, <3>3
  <2> QED
    BY <2>1
<1>6. n \in U
  <2>1. U \in SUBSET Nat
    OBVIOUS
  <2> HIDE DEF U
  <2> QED
    BY <1>4, <1>5, <2>1, AllNumbers
<1> DEFINE F == f[n]
<1>7. F \in X
  OBVIOUS
<1>8. \A s \in SUBSET (1..n) : F[s] = Once(F)[s]
  <2>1. f[n + 1] = Once(F)
    <3> HIDE DEF Once
    <3> QED
      BY <1>3
  <2> HIDE DEF Once
  <2> QED
    BY <1>6, <2>1
<1>9. FoldOf(d, F)
  BY <1>8 DEF FoldOf
<1> QED
  BY <1>7, <1>9

(* Number is such a fold.                                                  *)
LEMMA NumberFolds ==
    ASSUME NEW n \in Nat, NEW d \in [1..n -> Nat]
    PROVE  \E F \in [SUBSET (1..n) -> Nat] : FoldOf(d, F) /\ Number(d) = F[1..n]
<1> DEFINE Iter(F) == F = [s \in SUBSET DOMAIN d |->
                              IF s = {} THEN 0 ELSE 10 * F[s \ {Max(s)}] + d[Max(s)]]
           iter == CHOOSE F : Iter(F)
<1>1. DOMAIN d = 1..n
  OBVIOUS
<1>2. PICK G \in [SUBSET (1..n) -> Nat] : FoldOf(d, G)
  BY FoldExists
<1>3. Iter(G)
  BY <1>1, <1>2 DEF FoldOf
<1>4. Iter(iter)
  BY <1>3
<1>5. Number(d) = iter[1..n]
  BY <1>1 DEF Number, FoldLeft, MapThenFoldSet
<1>6. FoldOf(d, iter) /\ DOMAIN iter = SUBSET (1..n)
  <2> HIDE DEF iter
  <2> QED
    BY <1>1, <1>4 DEF FoldOf
<1> HIDE DEF iter
<1> DEFINE U == {k \in Nat : \A s \in SUBSET (1..n) : s \subseteq 1..k => iter[s] \in Nat}
<1>7. 0 \in U
  <2>1. 1..0 = {} /\ iter[{}] = 0
    BY <1>6 DEF FoldOf
  <2>2. ASSUME NEW s \in SUBSET (1..n), s \subseteq 1..0
        PROVE  iter[s] \in Nat
    <3>1. s = {}
      BY <2>1, <2>2
    <3> QED
      BY <2>1, <3>1
  <2> QED
    BY <2>2
<1>8. ASSUME NEW k \in U
      PROVE  k + 1 \in U
  <2>1. ASSUME NEW s \in SUBSET (1..n), s \subseteq 1..(k + 1), s # {}
        PROVE  iter[s] \in Nat
    <3>1. /\ Max(s) \in 1..n
          /\ s \ {Max(s)} \in SUBSET (1..n)
          /\ s \ {Max(s)} \subseteq 1..k
      BY <2>1, BelowMax
    <3>2. iter[s \ {Max(s)}] \in Nat /\ d[Max(s)] \in Nat
      BY <3>1
    <3>3. iter[s] = 10 * iter[s \ {Max(s)}] + d[Max(s)]
      BY <1>1, <1>6, <2>1 DEF FoldOf
    <3> QED
      BY <3>2, <3>3
  <2>2. ASSUME NEW s \in SUBSET (1..n), s = {}
        PROVE  iter[s] \in Nat
    BY <1>6, <2>2 DEF FoldOf
  <2>3. k + 1 \in Nat
    BY <1>8
  <2> QED
    BY <2>1, <2>2, <2>3
<1>9. n \in U
  <2>1. U \in SUBSET Nat
    OBVIOUS
  <2> HIDE DEF U
  <2> QED
    BY <1>7, <1>8, <2>1, AllNumbers
<1>10. iter \in [SUBSET (1..n) -> Nat]
  <2>1. iter = [s \in SUBSET (1..n) |-> iter[s]]
    BY <1>1, <1>4
  <2> QED
    BY <1>9, <2>1
<1> QED
  BY <1>5, <1>6, <1>10

(* The values of the beginnings of d.                                      *)
PartialNumbers(d, n, V) ==
    V \in [0..n -> Nat] /\ V[0] = 0 /\ \A k \in 0..(n - 1) : V[k + 1] = 10 * V[k] + d[k + 1]

LEMMA NumberPrefixes ==
    ASSUME NEW n \in Nat, NEW d \in [1..n -> Nat]
    PROVE  \E V : PartialNumbers(d, n, V) /\ Number(d) = V[n]
<1>1. PICK F \in [SUBSET (1..n) -> Nat] : FoldOf(d, F) /\ Number(d) = F[1..n]
  BY NumberFolds
<1> DEFINE V == [k \in 0..n |-> F[1..k]]
<1>2. V \in [0..n -> Nat] /\ V[n] = F[1..n]
  <2>1. \A k \in 0..n : 1..k \in SUBSET (1..n)
    OBVIOUS
  <2> QED
    BY <2>1
<1>3. V[0] = 0
  <2>1. 1..0 = {} /\ V[0] = F[1..0]
    OBVIOUS
  <2> QED
    BY <1>1, <2>1 DEF FoldOf
<1>4. ASSUME NEW k \in 0..(n - 1)
      PROVE  V[k + 1] = 10 * V[k] + d[k + 1]
  <2> DEFINE s == 1..(k + 1)
  <2>1. s \in SUBSET (1..n) /\ k + 1 \in s
    OBVIOUS
  <2>2. Max(s) \in s /\ \A y \in s : y <= Max(s)
    BY <2>1, MaxUpTo
  <2>3. Max(s) = k + 1
    BY <2>1, <2>2
  <2>4. s \ {k + 1} = 1..k
    OBVIOUS
  <2>5. F[s] = 10 * F[1..k] + d[k + 1]
    <3> HIDE DEF s
    <3> QED
      BY <1>1, <2>1, <2>3, <2>4 DEF FoldOf
  <2> QED
    BY <2>5
<1> QED
  BY <1>1, <1>2, <1>3, <1>4 DEF PartialNumbers

(* Digits that begin alike have beginnings of the same value.              *)
LEMMA PrefixesAgree ==
    ASSUME NEW n \in Nat, NEW m \in 0..n, NEW d, NEW e, NEW V, NEW W,
           PartialNumbers(d, n, V), PartialNumbers(e, m, W), \A k \in 1..m : d[k] = e[k]
    PROVE  \A k \in 0..m : V[k] = W[k]
<1> DEFINE T == {k \in 0..m : V[k] = W[k]}
<1>1. 0 \in T
  BY DEF PartialNumbers
<1>2. ASSUME NEW k \in 0..(m - 1), k \in T
      PROVE  k + 1 \in T
  <2>1. V[k + 1] = 10 * V[k] + d[k + 1] /\ W[k + 1] = 10 * W[k] + e[k + 1]
    BY DEF PartialNumbers
  <2> QED
    BY <1>2, <2>1
<1> QED
  <2> HIDE DEF T
  <2>1. \A k \in 0..m : k \in T
    BY <1>1, <1>2, NumbersUpTo
  <2> QED
    BY <2>1 DEF T

(* A digit more is ten times the number, and the digit.                    *)
LEMMA NumberStep ==
    ASSUME NEW n \in Nat, NEW d \in [1..n -> Nat], NEW k \in 0..n
    PROVE  /\ Number(SubSeq(d, 1, k)) \in Nat
           /\ Number(SubSeq(d, 1, 0)) = 0
           /\ k < n => Number(SubSeq(d, 1, k + 1)) = 10 * Number(SubSeq(d, 1, k)) + d[k + 1]
<1>1. PICK V : PartialNumbers(d, n, V) /\ Number(d) = V[n]
  BY NumberPrefixes
<1>2. ASSUME NEW j \in 0..n
      PROVE  Number(SubSeq(d, 1, j)) = V[j]
  <2> DEFINE e == SubSeq(d, 1, j)
  <2>1. e \in [1..j -> Nat] /\ \A i \in 1..j : d[i] = e[i]
    <3>1. \A i \in 1..j : d[i] \in Nat
      OBVIOUS
    <3>2. /\ e \in Seq(Nat) /\ Len(e) = j
          /\ \A i \in 1..j : e[i] = d[i]
      <4>1. Len(e) = IF 1 <= j THEN j - 1 + 1 ELSE 0
        BY <3>1, SubSeqProperties
      <4>2. e \in Seq(Nat) /\ \A i \in 1..(j - 1 + 1) : e[i] = d[1 + i - 1]
        BY <3>1, SubSeqProperties
      <4> HIDE DEF e
      <4> QED
        BY <4>1, <4>2
    <3> HIDE DEF e
    <3> QED
      BY <3>2
  <2> HIDE DEF e
  <2>2. PICK W : PartialNumbers(e, j, W) /\ Number(e) = W[j]
    BY <2>1, NumberPrefixes
  <2>3. V[j] = W[j]
    BY <1>1, <2>1, <2>2, PrefixesAgree
  <2> QED
    BY <2>2, <2>3 DEF e
<1> QED
  BY <1>1, <1>2 DEF PartialNumbers

-----------------------------------------------------------------------------
(* Part 3: digits cut off, and digits written down.                        *)

(* Powers multiply, and are at least one.                                  *)
LEMMA PowerSum ==
    ASSUME NEW m \in Nat, NEW n \in Nat
    PROVE  /\ PowerOfTen[m + n] = PowerOfTen[m] * PowerOfTen[n]
           /\ PowerOfTen[n] \in Nat /\ PowerOfTen[n] >= 1
<1> DEFINE T == {k \in Nat : /\ PowerOfTen[m + k] = PowerOfTen[m] * PowerOfTen[k]
                             /\ PowerOfTen[k] >= 1}
<1>1. 0 \in T
  BY PowersOfTen
<1>2. ASSUME NEW k \in T
      PROVE  k + 1 \in T
  <2> DEFINE p == PowerOfTen[m]
             q == PowerOfTen[k]
  <2>1. p \in Nat /\ q \in Nat /\ q >= 1 /\ PowerOfTen[m + k] = p * q
    BY PowersOfTen
  <2>2. PowerOfTen[k + 1] = 10 * q /\ PowerOfTen[m + (k + 1)] = 10 * (p * q)
    <3>1. m + (k + 1) = (m + k) + 1 /\ m + k \in Nat
      OBVIOUS
    <3> QED
      BY <2>1, <3>1, PowersOfTen
  <2> HIDE DEF p, q
  <2>3. 10 * (p * q) = p * (10 * q)
    BY <2>1
  <2>4. PowerOfTen[m + (k + 1)] = p * PowerOfTen[k + 1] /\ PowerOfTen[k + 1] >= 1
    BY <2>1, <2>2, <2>3
  <2> QED
    BY <2>4 DEF p
<1>3. n \in T
  <2>1. T \in SUBSET Nat
    OBVIOUS
  <2> HIDE DEF T
  <2> QED
    BY <1>1, <1>2, <2>1, AllNumbers
<1> QED
  BY <1>3, PowersOfTen

(* What the digits from the m-th on add: less than a power of ten, and     *)
(* nothing only if they are zeros.                                         *)
LEMMA CutNumber ==
    ASSUME NEW n \in Nat, NEW d \in [1..n -> 0..9], NEW m \in 0..n
    PROVE  \E rest \in 0..(PowerOfTen[n - m] - 1) :
               /\ Number(d) = Number(SubSeq(d, 1, m)) * PowerOfTen[n - m] + rest
               /\ rest = 0 <=> \A i \in (m + 1)..n : d[i] = 0
<1> DEFINE V(k) == Number(SubSeq(d, 1, k))
           Splits(j, rest) ==
               /\ rest \in 0..(PowerOfTen[j] - 1)
               /\ V(m + j) = V(m) * PowerOfTen[j] + rest
               /\ rest = 0 <=> \A i \in (m + 1)..(m + j) : d[i] = 0
           T == {j \in 0..(n - m) : \E rest : Splits(j, rest)}
<1>1. d \in [1..n -> Nat] /\ d \in Seq(Nat) /\ Len(d) = n
  OBVIOUS
<1>2. \A k \in 0..n : V(k) \in Nat /\ (k < n => V(k + 1) = 10 * V(k) + d[k + 1])
  BY <1>1, NumberStep
<1> HIDE DEF V
<1>3. 0 \in T
  <2> DEFINE x == V(m)
  <2>1. x \in Nat /\ m + 0 = m /\ (m + 1)..(m + 0) = {}
    BY <1>2
  <2>2. V(m + 0) = x
    BY <2>1
  <2> HIDE DEF x
  <2>3. x = x * 1 + 0
    BY <2>1
  <2>4. 0 \in 0..(PowerOfTen[0] - 1)
    BY PowersOfTen
  <2>5. V(m + 0) = x * PowerOfTen[0] + 0
    BY <2>2, <2>3, PowersOfTen
  <2>6. Splits(0, 0)
    BY <2>1, <2>4, <2>5 DEF x
  <2>7. 0 \in 0..(n - m)
    OBVIOUS
  <2> HIDE DEF Splits
  <2> QED
    BY <2>6, <2>7
<1>4. ASSUME NEW j \in 0..(n - m - 1), j \in T
      PROVE  j + 1 \in T
  <2>1. PICK rest : Splits(j, rest)
    BY <1>4
  <2> DEFINE p == PowerOfTen[j]
             x == V(m)
             c == d[m + j + 1]
  <2>2. /\ p \in Nat /\ x \in Nat /\ c \in 0..9 /\ rest \in 0..(p - 1)
        /\ PowerOfTen[j + 1] = 10 * p
        /\ V(m + j) = x * p + rest
        /\ V(m + (j + 1)) = 10 * V(m + j) + c
    <3>1. m + j \in 0..n /\ m + j < n /\ m + (j + 1) = (m + j) + 1 /\ m + j + 1 \in 1..n
      OBVIOUS
    <3> QED
      BY <1>2, <2>1, <3>1, PowersOfTen
  <2>3. \A i \in (m + 1)..(m + (j + 1)) : i \in (m + 1)..(m + j) \/ i = m + j + 1
    OBVIOUS
  <2>4. m + j + 1 \in (m + 1)..(m + (j + 1)) /\ (m + 1)..(m + j) \subseteq (m + 1)..(m + (j + 1))
    OBVIOUS
  <2>5. rest = 0 <=> \A i \in (m + 1)..(m + j) : d[i] = 0
    BY <2>1
  <2> HIDE DEF p, x, c
  <2>6. 10 * rest + c \in 0..(10 * p - 1) /\ (10 * rest + c = 0 <=> rest = 0 /\ c = 0)
    BY <2>2
  <2>7. 10 * (x * p + rest) + c = x * (10 * p) + (10 * rest + c)
    <3>1. 10 * (x * p) = x * (10 * p)
      BY <2>2
    <3>2. x * p \in Nat
      BY <2>2
    <3> QED
      BY <2>2, <3>1, <3>2
  <2>8. 10 * rest + c = 0 <=> \A i \in (m + 1)..(m + (j + 1)) : d[i] = 0
    BY <2>3, <2>4, <2>5, <2>6 DEF c
  <2>9. Splits(j + 1, 10 * rest + c)
    BY <2>2, <2>6, <2>7, <2>8 DEF x
  <2> QED
    BY <2>9
<1>5. n - m \in T
  <2>1. n - m \in Nat
    OBVIOUS
  <2> HIDE DEF T
  <2>2. \A j \in 0..(n - m - 1) : j \in T => j + 1 \in T
    BY <1>4
  <2>3. \A j \in 0..(n - m) : j \in T
    BY <1>3, <2>1, <2>2, NumbersUpTo
  <2> QED
    BY <2>1, <2>3
<1>6. V(n) = Number(d)
  BY <1>1, SubSeqFull DEF V
<1> QED
  BY <1>5, <1>6 DEF V

(* Division by ten times a number.                                         *)
LEMMA DivideByTen ==
    ASSUME NEW n \in Nat, NEW p \in Nat, p >= 1
    PROVE  /\ n \div p \in Nat
           /\ n \div p = 10 * (n \div (10 * p)) + ((n \div p) % 10)
<1> DEFINE q == n \div p
           r == n % p
           a == q \div 10
           b == q % 10
<1>1. q \in Nat /\ r \in 0..(p - 1) /\ n = q * p + r
  OBVIOUS
<1>2. a \in Nat /\ b \in 0..9 /\ q = 10 * a + b
  <2> HIDE DEF q
  <2> QED
    BY <1>1
<1> HIDE DEF q, r, a, b
<1>3. n = a * (10 * p) + (b * p + r)
  BY <1>1, <1>2
<1>4. b * p + r \in 0..(10 * p - 1)
  <2>1. b * p <= 9 * p /\ b * p >= 0
    BY <1>2
  <2> QED
    BY <1>1, <1>2, <2>1
<1>5. n \div (10 * p) = a
  <2> DEFINE t == 10 * p
             u == b * p + r
  <2>1. t \in Nat /\ t >= 1 /\ u \in 0..(t - 1) /\ n = a * t + u
    BY <1>3, <1>4
  <2> HIDE DEF t, u
  <2>2. n \div t = a
    BY <1>2, <2>1
  <2> QED
    BY <2>2 DEF t
<1> QED
  BY <1>1, <1>2, <1>5 DEF q, b

(* A number has as many digits as are written down.                        *)
LEMMA DigitsLength ==
    ASSUME NEW n \in Nat
    PROVE  \E k \in 1..(n + 1) : n < PowerOfTen[k] /\ (k = 1 \/ n >= PowerOfTen[k - 1])
<1> DEFINE T == {k \in Nat : PowerOfTen[k] > k}
           U == {k \in Nat : k >= 1 /\ n < PowerOfTen[k]}
<1>1. 0 \in T /\ \A k \in T : k + 1 \in T
  BY PowersOfTen
<1>2. n + 1 \in T
  <2>1. T \in SUBSET Nat
    OBVIOUS
  <2> HIDE DEF T
  <2> QED
    BY <1>1, <2>1, AllNumbers
<1>3. n + 1 \in U
  BY <1>2, PowersOfTen
<1>4. PICK k \in U : \A m \in U : k <= m
  BY <1>3, LeastNumber
<1>5. k \in 1..(n + 1)
  BY <1>3, <1>4
<1>6. CASE k # 1
  <2>1. k - 1 \in Nat /\ k - 1 >= 1 /\ k - 1 \notin U
    BY <1>4, <1>6
  <2>2. PowerOfTen[k - 1] \in Nat
    BY <2>1, PowersOfTen
  <2> QED
    BY <1>4, <1>5, <2>1, <2>2
<1> QED
  BY <1>4, <1>5, <1>6

(* The digits written down are those of the number.                        *)
LEMMA DigitsExact ==
    ASSUME NEW n \in Nat
    PROVE  DigitsOf(n) \in Seq(0..9) /\ DigitsOf(n) # <<>> /\ Number(DigitsOf(n)) = n
<1> DEFINE Fits(k) == n < PowerOfTen[k] /\ (k = 1 \/ n >= PowerOfTen[k - 1])
           length == CHOOSE k \in 1..(n + 1) : Fits(k)
           d == [i \in 1..length |-> (n \div PowerOfTen[length - i]) % 10]
<1>1. DigitsOf(n) = d
  BY DEF DigitsOf
<1>2. length \in 1..(n + 1) /\ n < PowerOfTen[length]
  BY DigitsLength
<1> HIDE DEF length
<1>3. \A k \in Nat : PowerOfTen[k] \in Nat /\ PowerOfTen[k] >= 1
  BY PowerSum
<1>4. d \in [1..length -> 0..9] /\ d \in [1..length -> Nat]
  <2>1. ASSUME NEW i \in 1..length
        PROVE  (n \div PowerOfTen[length - i]) % 10 \in 0..9
    <3>1. length - i \in Nat
      BY <1>2
    <3>2. n \div PowerOfTen[length - i] \in Nat
      BY <1>3, <3>1, DivideByTen
    <3> QED
      BY <3>2
  <2> QED
    BY <2>1
<1>5. d \in Seq(0..9) /\ d \in Seq(Nat) /\ Len(d) = length /\ d # <<>>
  <2>1. length \in Nat \ {0}
    BY <1>2
  <2> HIDE DEF d
  <2> QED
    BY <1>4, <2>1
<1> DEFINE V(k) == Number(SubSeq(d, 1, k))
           T == {k \in 0..length : V(k) = n \div PowerOfTen[length - k]}
<1> HIDE DEF d
<1>6. 0 \in T
  <2>1. V(0) = 0
    BY <1>2, <1>4, NumberStep
  <2>2. n \div PowerOfTen[length] = 0
    BY <1>2, <1>3
  <2>3. length - 0 = length
    BY <1>2
  <2> QED
    BY <1>2, <2>1, <2>2, <2>3
<1>7. ASSUME NEW k \in 0..(length - 1), k \in T
      PROVE  k + 1 \in T
  <2> DEFINE p == PowerOfTen[length - (k + 1)]
  <2>1. length - (k + 1) \in Nat /\ length - k = (length - (k + 1)) + 1
    BY <1>2
  <2>2. p \in Nat /\ p >= 1 /\ PowerOfTen[length - k] = 10 * p
    BY <1>3, <2>1, PowersOfTen
  <2>3. V(k + 1) = 10 * V(k) + d[k + 1]
    <3>1. length \in Nat /\ k \in 0..length /\ k < length
      BY <1>2
    <3> QED
      BY <1>4, <3>1, NumberStep
  <2>4. d[k + 1] = (n \div p) % 10
    <3>1. k + 1 \in 1..length
      BY <1>2
    <3> QED
      BY <3>1 DEF d
  <2>5. V(k + 1) = n \div p
    <3> HIDE DEF V, p
    <3>1. V(k) = n \div (10 * p)
      BY <1>7, <2>2
    <3> QED
      BY <2>2, <2>3, <2>4, <3>1, DivideByTen
  <2> QED
    BY <1>2, <2>5
<1>8. V(length) = n
  <2>1. length \in T
    <3>1. length \in Nat
      BY <1>2
    <3> HIDE DEF T
    <3> QED
      BY <1>6, <1>7, <3>1, NumbersUpTo
  <2>2. length - length = 0 /\ n \div 1 = n
    BY <1>2
  <2> QED
    BY <2>1, <2>2, PowersOfTen
<1>9. SubSeq(d, 1, length) = d
  BY <1>5, SubSeqFull
<1> QED
  BY <1>1, <1>5, <1>8, <1>9

-----------------------------------------------------------------------------
(* Part 4: the conversions.                                                *)

(* A decimal callers may give, or that a record may hold.                  *)
Usable(d) == d \in Decimal /\ d.digits # <<>> /\ d.exponent >= -Places

(* What the parts of a usable decimal are.                                 *)
LEMMA UsableFacts ==
    ASSUME NEW d, Usable(d)
    PROVE  /\ d.negative \in BOOLEAN /\ d.exponent \in Int /\ d.digits \in Seq(0..9)
           /\ Len(d.digits) \in Nat /\ d.digits \in [1..Len(d.digits) -> 0..9]
           /\ d.digits \in [1..Len(d.digits) -> Nat]
           /\ Number(d.digits) \in Nat
           /\ d.exponent + Places \in Nat
           /\ PowerOfTen[d.exponent + Places] \in Nat /\ PowerOfTen[d.exponent + Places] >= 1
           /\ Scaled(d) \in Nat
<1>1. /\ d.negative \in BOOLEAN /\ d.exponent \in Int /\ d.digits \in Seq(0..9)
      /\ d.exponent + Places \in Nat
  BY PlacesAssumption DEF Usable, Decimal
<1>2. Len(d.digits) \in Nat /\ d.digits \in [1..Len(d.digits) -> 0..9]
  BY <1>1
<1>3. d.digits \in [1..Len(d.digits) -> Nat] /\ d.digits \in Seq(Nat)
  BY <1>2
<1>4. Number(d.digits) \in Nat
  <2>1. Number(SubSeq(d.digits, 1, Len(d.digits))) \in Nat
    BY <1>2, <1>3, NumberStep
  <2> QED
    BY <1>3, <2>1, SubSeqFull
<1>5. PowerOfTen[d.exponent + Places] \in Nat /\ PowerOfTen[d.exponent + Places] >= 1
  BY <1>1, PowerSum
<1> QED
  BY <1>1, <1>2, <1>3, <1>4, <1>5 DEF Scaled

(* Zero is written with zeros only.                                        *)
LEMMA ZeroNumber ==
    ASSUME NEW d, Usable(d)
    PROVE  IsZero(d) <=> Number(d.digits) = 0
<1> DEFINE n == Len(d.digits)
<1>1. n \in Nat /\ d.digits \in [1..n -> 0..9] /\ d.digits \in [1..n -> Nat]
  BY UsableFacts
<1>2. PICK rest \in 0..(PowerOfTen[n - 0] - 1) :
          /\ Number(d.digits) = Number(SubSeq(d.digits, 1, 0)) * PowerOfTen[n - 0] + rest
          /\ rest = 0 <=> \A i \in (0 + 1)..n : d.digits[i] = 0
  <2>1. 0 \in 0..n
    BY <1>1
  <2> HIDE DEF n
  <2> QED
    BY <1>1, <2>1, CutNumber
<1>3. Number(SubSeq(d.digits, 1, 0)) = 0 /\ PowerOfTen[n - 0] \in Nat
  <2>1. 0 \in 0..n /\ n - 0 \in Nat
    BY <1>1
  <2> HIDE DEF n
  <2>2. Number(SubSeq(d.digits, 1, 0)) = 0
    BY <1>1, <2>1, NumberStep
  <2> QED
    BY <2>1, <2>2, PowersOfTen
<1>4. Number(d.digits) = rest
  BY <1>2, <1>3
<1>5. DOMAIN d.digits = (0 + 1)..n
  BY <1>1
<1> QED
  BY <1>2, <1>4, <1>5 DEF IsZero

(* A positive factor may be cancelled.                                     *)
LEMMA Cancel ==
    ASSUME NEW a \in Nat, NEW b \in Nat, NEW p \in Nat, p >= 1
    PROVE  (a * p = b * p => a = b) /\ (a * p <= b * p => a <= b) /\ (a <= b => a * p <= b * p)
<1>1. ASSUME a < b
      PROVE  a * p < b * p
  <2>1. PICK c \in Nat : b = a + c /\ c >= 1
    <3>1. b - a \in Nat /\ b = a + (b - a) /\ b - a >= 1
      BY <1>1
    <3> QED
      BY <3>1
  <2>2. b * p = a * p + c * p /\ c * p >= 1 /\ a * p \in Nat /\ c * p \in Nat
    BY <2>1
  <2> QED
    BY <2>2
<1>2. ASSUME b < a
      PROVE  b * p < a * p
  <2>1. PICK c \in Nat : a = b + c /\ c >= 1
    <3>1. a - b \in Nat /\ a = b + (a - b) /\ a - b >= 1
      BY <1>2
    <3> QED
      BY <3>1
  <2>2. a * p = b * p + c * p /\ c * p >= 1 /\ b * p \in Nat /\ c * p \in Nat
    BY <2>1
  <2> QED
    BY <2>2
<1>3. a * p \in Nat /\ b * p \in Nat
  OBVIOUS
<1> QED
  BY <1>1, <1>2, <1>3

(* Places dropped, and those between the smallest place and the second.    *)
LEMMA DroppedPlaces ==
    ASSUME NEW e \in Int, e + Places \in Nat, e + 2 < 0
    PROVE  0 - (e + 2) \in Nat /\ Places - 2 = (0 - (e + 2)) + (e + Places)
BY PlacesAssumption

(* What is accepted is converted exactly, and fits.                        *)
LEMMA ConversionExact ==
    ASSUME NEW d, Usable(d), Accepted(d)
    PROVE  /\ to_minor_units(d) \in 0..MaxMinorUnits
           /\ to_minor_units(d) * PowerOfTen[Places - 2] = Scaled(d)
<1> DEFINE u == to_minor_units(d)
           p == PowerOfTen[Places - 2]
           n == Len(d.digits)
           z == PowerOfTen[d.exponent + Places]
           s == Shift(d)
<1>1. Places - 2 \in Nat /\ p \in Nat /\ p >= 1
  BY PlacesAssumption, PowerSum
<1>2. /\ d.exponent \in Int /\ n \in Nat /\ d.digits \in [1..n -> 0..9]
      /\ Number(d.digits) \in Nat /\ d.exponent + Places \in Nat /\ z \in Nat /\ z >= 1
      /\ Scaled(d) = Number(d.digits) * z /\ Scaled(d) \in Nat
  BY UsableFacts DEF Scaled
<1>3. s = d.exponent + 2 /\ s \in Int
  BY <1>2 DEF Shift
<1>4. u \in Nat /\ u * p = Scaled(d)
  <2>1. CASE IsZero(d)
    <3>1. Number(d.digits) = 0
      BY <2>1, ZeroNumber
    <3>2. u = 0
      BY <2>1 DEF to_minor_units
    <3> HIDE DEF u, p, z
    <3> QED
      BY <1>1, <1>2, <3>1, <3>2
  <2>2. CASE ~IsZero(d) /\ s >= 0
    <3> DEFINE y == PowerOfTen[s]
               N == Number(d.digits)
    <3>1. u = N * y
      BY <1>3, <2>2 DEF to_minor_units
    <3>2. z = y * p /\ y \in Nat
      <4>1. d.exponent + Places = s + (Places - 2) /\ s \in Nat
        BY <1>2, <1>3, <2>2, PlacesAssumption
      <4> QED
        BY <1>1, <4>1, PowerSum
    <3> HIDE DEF u, p, z, y, N
    <3>3. (N * y) * p = N * (y * p) /\ N * y \in Nat
      BY <1>1, <1>2, <3>2 DEF N
    <3> QED
      BY <1>2, <3>1, <3>2, <3>3 DEF N
  <2>3. CASE ~IsZero(d) /\ s < 0
    <3> DEFINE m == n + s
               N == Number(SubSeq(d.digits, 1, m))
               y == PowerOfTen[n - m]
    <3>1. \A i \in (m + 1)..n : i \in 1..n => d.digits[i] = 0
      <4>1. ~Fractional(d)
        BY <2>3 DEF Accepted
      <4>2. \A i \in DOMAIN d.digits : i > n + s => d.digits[i] = 0
        BY <2>3, <4>1 DEF Fractional, CutOff
      <4>3. DOMAIN d.digits = 1..n
        BY <1>2
      <4>4. n \in Nat /\ s \in Int
        BY <1>2, <1>3
      <4> HIDE DEF n, s
      <4> QED
        BY <4>2, <4>3, <4>4
    <3>2. m \in 0..n
      <4>1. CASE m < 0
        <5>1. m \in Int /\ DOMAIN d.digits = 1..n
          BY <1>2, <1>3
        <5>2. \A i \in DOMAIN d.digits : d.digits[i] = 0
          <6> HIDE DEF m, n
          <6> QED
            BY <1>2, <3>1, <4>1, <5>1
        <5> QED
          BY <2>3, <5>2 DEF IsZero
      <4> QED
        BY <1>2, <1>3, <2>3, <4>1
    <3>3. PICK rest \in 0..(y - 1) :
              /\ Number(d.digits) = N * y + rest
              /\ rest = 0 <=> \A i \in (m + 1)..n : d.digits[i] = 0
      <4> HIDE DEF m, n
      <4> QED
        BY <1>2, <3>2, CutNumber
    <3>4. rest = 0
      BY <1>2, <3>1, <3>2, <3>3
    <3>5. u = N
      BY <2>3 DEF to_minor_units
    <3>6. N \in Nat
      <4>1. d.digits \in [1..n -> Nat]
        BY UsableFacts
      <4> HIDE DEF m, n
      <4> QED
        BY <1>2, <3>2, <4>1, NumberStep
    <3>7. p = y * z /\ y \in Nat
      <4>1. n - m \in Nat /\ Places - 2 = (n - m) + (d.exponent + Places)
        <5>1. n - m = 0 - s
          BY <1>2, <1>3
        <5>2. 0 - s \in Nat /\ Places - 2 = (0 - s) + (d.exponent + Places)
          BY <1>2, <1>3, <2>3, DroppedPlaces
        <5> QED
          BY <5>1, <5>2
      <4> QED
        BY <1>2, <4>1, PowerSum
    <3> HIDE DEF u, p, z, y, N
    <3>8. N * (y * z) = (N * y) * z /\ N * y \in Nat
      BY <1>2, <3>6, <3>7
    <3> QED
      BY <1>2, <3>3, <3>4, <3>5, <3>6, <3>7, <3>8
  <2> QED
    BY <1>3, <2>1, <2>2, <2>3
<1>5. u * p <= MaxMinorUnits * p
  <2>1. ~(Scaled(d) > MaxMinorUnits * p)
    BY DEF Accepted, OutOfRange
  <2>2. MaxMinorUnits * p \in Nat
    BY <1>1, MaxMinorUnitsAssumption
  <2> HIDE DEF u, p
  <2> QED
    BY <1>2, <1>4, <2>1, <2>2
<1>6. u <= MaxMinorUnits
  <2> HIDE DEF u, p
  <2> QED
    BY <1>1, <1>4, <1>5, Cancel, MaxMinorUnitsAssumption
<1> QED
  <2> HIDE DEF u
  <2>1. u \in 0..MaxMinorUnits
    BY <1>4, <1>6, MaxMinorUnitsAssumption
  <2> QED
    BY <1>4, <2>1 DEF u

(* What is refused is no number of hundredths in range.                    *)
LEMMA RefusalsRight ==
    ASSUME NEW d, Usable(d), ~Accepted(d), NEW k \in 0..MaxMinorUnits
    PROVE  k * PowerOfTen[Places - 2] # (IF d.negative THEN -1 ELSE 1) * Scaled(d)
<1> DEFINE p == PowerOfTen[Places - 2]
           n == Len(d.digits)
           z == PowerOfTen[d.exponent + Places]
           s == Shift(d)
           N == Number(d.digits)
<1>1. Places - 2 \in Nat /\ p \in Nat /\ p >= 1 /\ k \in Nat /\ k * p \in Nat
  <2>1. Places - 2 \in Nat /\ p \in Nat /\ p >= 1 /\ k \in Nat
    BY PlacesAssumption, MaxMinorUnitsAssumption, PowerSum
  <2> HIDE DEF p
  <2> QED
    BY <2>1
<1>2. /\ d.exponent \in Int /\ n \in Nat /\ d.digits \in [1..n -> 0..9]
      /\ N \in Nat /\ d.exponent + Places \in Nat /\ z \in Nat /\ z >= 1
      /\ Scaled(d) = N * z /\ Scaled(d) \in Nat
  BY UsableFacts DEF Scaled
<1>3. s = d.exponent + 2 /\ s \in Int
  BY <1>2 DEF Shift
<1>4. CASE d.negative /\ ~IsZero(d)
  <2>1. N >= 1
    BY <1>2, <1>4, ZeroNumber
  <2>2. N * z >= 1
    <3> HIDE DEF N, z
    <3> QED
      BY <1>2, <2>1
  <2> QED
    BY <1>1, <1>2, <1>4, <2>2
<1>5. CASE Scaled(d) > MaxMinorUnits * p
  <2>1. k * p <= MaxMinorUnits * p /\ MaxMinorUnits * p \in Nat
    <3> HIDE DEF p
    <3> QED
      BY <1>1, Cancel, MaxMinorUnitsAssumption
  <2>2. k * p < Scaled(d) /\ Scaled(d) > 0
    BY <1>1, <1>2, <1>5, <2>1
  <2> QED
    BY <1>1, <1>2, <2>2
<1>6. CASE ~IsZero(d) /\ ~d.negative /\ Fractional(d)
  <2> SUFFICES ASSUME k * p = N * z
               PROVE  FALSE
    BY <1>2, <1>6
  <2> DEFINE y == PowerOfTen[0 - s]
  <2>1. s < 0 /\ \E i \in CutOff(d) : d.digits[i] # 0
    BY <1>6 DEF Fractional
  <2>2. PICK i \in 1..n : i > n + s /\ d.digits[i] # 0
    BY <1>2, <2>1 DEF CutOff
  <2>3. p = y * z /\ y \in Nat /\ y >= 1
    <3>1. 0 - s \in Nat /\ Places - 2 = (0 - s) + (d.exponent + Places)
      BY <1>2, <1>3, <2>1, DroppedPlaces
    <3> QED
      BY <1>2, <3>1, PowerSum
  <2>4. k * y = N
    <3> HIDE DEF p, y, z, N
    <3>1. (k * y) * z = N * z /\ k * y \in Nat
      BY <1>1, <1>2, <2>3
    <3> QED
      BY <1>2, <3>1, Cancel
  <2>5. CASE n + s >= 0
    <3> DEFINE m == n + s
               V == Number(SubSeq(d.digits, 1, m))
    <3>1. m \in 0..n /\ n - m = 0 - s
      <4>1. d.exponent \in Int /\ n \in Nat /\ s \in Int
        BY <1>2, <1>3
      <4> HIDE DEF n, s
      <4> QED
        BY <4>1, <2>1, <2>5
    <3>2. PICK rest \in 0..(y - 1) :
              /\ N = V * y + rest
              /\ rest = 0 <=> \A j \in (m + 1)..n : d.digits[j] = 0
      <4>1. \E rest \in 0..(PowerOfTen[n - m] - 1) :
                /\ N = V * PowerOfTen[n - m] + rest
                /\ rest = 0 <=> \A j \in (m + 1)..n : d.digits[j] = 0
        <5> HIDE DEF m, n
        <5> QED
          BY <1>2, <3>1, CutNumber
      <4>2. PowerOfTen[n - m] = y
        BY <3>1
      <4> HIDE DEF y, N, V, m, n
      <4> QED
        BY <4>1, <4>2
    <3>3. i \in (m + 1)..n
      <4>1. d.exponent \in Int /\ n \in Nat /\ s \in Int
        BY <1>2, <1>3
      <4> HIDE DEF n, s
      <4> QED
        BY <4>1, <2>2
    <3>4. rest # 0
      BY <2>2, <3>2, <3>3
    <3>5. V \in Nat
      <4>1. d.digits \in [1..n -> Nat]
        BY UsableFacts
      <4> HIDE DEF m, n
      <4> QED
        BY <1>2, <3>1, <4>1, NumberStep
    <3>6. k * y = V * y + rest /\ rest >= 1 /\ rest < y
      BY <2>3, <2>4, <3>2, <3>4
    <3> HIDE DEF y, V
    <3>7. CASE k <= V
      <4>1. k * y <= V * y /\ V * y \in Nat /\ k * y \in Nat
        BY <1>1, <2>3, <3>5, <3>7, Cancel
      <4> QED
        BY <3>6, <4>1
    <3>8. CASE k >= V + 1
      <4>1. (V + 1) * y <= k * y /\ (V + 1) * y = V * y + y
        BY <1>1, <2>3, <3>5, <3>8, Cancel
      <4>2. V * y \in Nat /\ k * y \in Nat
        BY <1>1, <2>3, <3>5
      <4> QED
        BY <2>3, <3>6, <4>1, <4>2
    <3> QED
      BY <1>1, <3>5, <3>7, <3>8
  <2>6. CASE n + s < 0
    <3>1. N < y
      <4> DEFINE q == PowerOfTen[n]
                 r == PowerOfTen[0 - (n + s)]
      <4>1. y = q * r /\ q \in Nat /\ r \in Nat /\ r >= 1
        <5>1. 0 - (n + s) \in Nat /\ 0 - s = n + (0 - (n + s))
          <6>1. d.exponent \in Int /\ n \in Nat /\ s \in Int
            BY <1>2, <1>3
          <6> HIDE DEF n, s
          <6> QED
            BY <6>1, <2>6
        <5>2. /\ PowerOfTen[n + (0 - (n + s))] = q * r
              /\ q \in Nat /\ r \in Nat /\ r >= 1
          <6> HIDE DEF n, s
          <6> QED
            BY <1>2, <5>1, PowerSum
        <5> HIDE DEF q, r
        <5> QED
          BY <5>1, <5>2
      <4>2. N < q
        <5>1. 0 \in 0..n /\ n - 0 = n
          BY <1>2
        <5>2. PICK rest \in 0..(q - 1) : N = Number(SubSeq(d.digits, 1, 0)) * q + rest
          <6>1. n \in Nat /\ d.digits \in [1..n -> 0..9]
            BY UsableFacts
          <6> HIDE DEF n
          <6> QED
            BY <5>1, <6>1, CutNumber
        <5>3. Number(SubSeq(d.digits, 1, 0)) = 0
          <6>1. d.digits \in [1..n -> Nat]
            BY UsableFacts
          <6> HIDE DEF n
          <6> QED
            BY <1>2, <5>1, <6>1, NumberStep
        <5> QED
          BY <4>1, <5>2, <5>3
      <4> HIDE DEF y, q, r, N
      <4>3. q * 1 <= q * r
        BY <4>1
      <4> QED
        BY <1>2, <4>1, <4>2, <4>3
    <3>2. N >= 1
      BY <1>2, <1>6, ZeroNumber
    <3>3. k >= 1
      <4> HIDE DEF y, N
      <4> QED
        BY <1>1, <2>3, <2>4, <3>2
    <3>4. k * y >= y
      <4> HIDE DEF y
      <4> QED
        BY <1>1, <2>3, <3>3
    <3> QED
      BY <1>2, <2>3, <2>4, <3>1, <3>4
  <2> QED
    BY <1>2, <1>3, <2>5, <2>6
<1> QED
  BY <1>4, <1>5, <1>6 DEF Accepted, OutOfRange

(* What a record holds and a row gives back.                               *)
LEMMA MinorUnitsBack ==
    ASSUME NEW k \in 0..MaxMinorUnits
    PROVE  /\ Usable(from_minor_units(k)) /\ Accepted(from_minor_units(k))
           /\ ~from_minor_units(k).negative /\ from_minor_units(k).exponent = -2
           /\ Scaled(from_minor_units(k)) = k * PowerOfTen[Places - 2]
           /\ to_minor_units(from_minor_units(k)) = k
           /\ IsZero(from_minor_units(k)) <=> k = 0
<1> DEFINE d == from_minor_units(k)
           p == PowerOfTen[Places - 2]
<1>1. k \in Nat /\ k <= MaxMinorUnits /\ Places - 2 \in Nat /\ p \in Nat /\ p >= 1
  BY MaxMinorUnitsAssumption, PlacesAssumption, PowerSum
<1>2. DigitsOf(k) \in Seq(0..9) /\ DigitsOf(k) # <<>> /\ Number(DigitsOf(k)) = k
  BY <1>1, DigitsExact
<1>3. d.negative = FALSE /\ d.exponent = -2 /\ d.digits = DigitsOf(k)
  BY DEF from_minor_units
<1>4. Usable(d)
  BY <1>2, PlacesAssumption DEF from_minor_units, Usable, Decimal
<1>5. Scaled(d) = k * p
  <2>1. -2 + Places = Places - 2
    BY PlacesAssumption
  <2> QED
    BY <1>2, <1>3, <2>1 DEF Scaled
<1> HIDE DEF d, p
<1>6. Accepted(d)
  <2>1. k * p <= MaxMinorUnits * p /\ k * p \in Nat /\ MaxMinorUnits * p \in Nat
    BY <1>1, Cancel, MaxMinorUnitsAssumption
  <2>2. ~OutOfRange(d)
    BY <1>3, <1>5, <2>1 DEF OutOfRange, p
  <2>3. ~Fractional(d)
    BY <1>3 DEF Fractional, Shift
  <2> QED
    BY <2>2, <2>3 DEF Accepted
<1>7. to_minor_units(d) = k
  <2>1. to_minor_units(d) \in Nat /\ to_minor_units(d) * p = k * p
    BY <1>4, <1>5, <1>6, ConversionExact, MaxMinorUnitsAssumption DEF p
  <2> QED
    BY <1>1, <2>1, Cancel
<1>8. IsZero(d) <=> k = 0
  BY <1>2, <1>3, <1>4, ZeroNumber
<1> QED
  BY <1>3, <1>4, <1>5, <1>6, <1>7, <1>8 DEF d, p

-----------------------------------------------------------------------------
(* Part 5: the way of an amount.                                           *)

(* A record, or a row, holds a whole number of hundredths in range, which  *)
(* is what the caller gave; a row does not hold zero.                      *)
Held(k) ==
    /\ amount = from_minor_units(k)
    /\ k * PowerOfTen[Places - 2] = Scaled(given)
    /\ place = "row" => units = k /\ k # 0

Shown(d) == d \in Decimal /\ ~d.negative /\ d.exponent = -2

MoneyInv ==
    /\ given \in Given
    /\ place \in {"caller", "refused", "record", "row"}
    /\ Shown(amount)
    /\ units \in 0..MaxMinorUnits
    /\ place = "refused" => ~Accepted(given)
    /\ place \in {"record", "row"} => \E k \in 0..MaxMinorUnits : Held(k)

LEMMA GivenUsable ==
    ASSUME given \in Given
    PROVE  Usable(given)
BY GivenAssumption DEF Usable

LEMMA MoneyInit == Init => MoneyInv
<1>1. 0 \in 0..MaxMinorUnits
  BY MaxMinorUnitsAssumption
<1>2. Shown(from_minor_units(0))
  BY <1>1, MinorUnitsBack DEF Usable, Shown
<1> QED
  BY <1>1, <1>2 DEF Init, MoneyInv, Nothing

(* Every step leaves the record or row with the amount the caller gave.    *)
LEMMA MoneyStep == MoneyInv /\ [Next]_vars => MoneyInv'
<1> SUFFICES ASSUME MoneyInv, [Next]_vars
             PROVE  MoneyInv'
  OBVIOUS
<1>1. CASE Refuse
  BY <1>1 DEF Refuse, MoneyInv
<1>2. CASE Construct
  <2>1. PICK k \in 0..MaxMinorUnits :
            k = to_minor_units(given) /\ k * PowerOfTen[Places - 2] = Scaled(given)
    BY <1>2, GivenUsable, ConversionExact DEF MoneyInv, Construct
  <2>2. amount' = from_minor_units(k)
    BY <1>2, <2>1 DEF Construct, normalize_amount
  <2>3. Shown(amount')
    BY <2>1, <2>2, MinorUnitsBack DEF Usable, Shown
  <2>4. given' = given /\ units' = units /\ place' = "record"
    BY <1>2 DEF Construct
  <2>5. Held(k)'
    BY <2>1, <2>2, <2>4 DEF Held
  <2> QED
    BY <2>1, <2>3, <2>4, <2>5 DEF MoneyInv
<1>3. ASSUME Copy \/ Store \/ Fetch
      PROVE  MoneyInv'
  <2>1. PICK k \in 0..MaxMinorUnits : Held(k)
    BY <1>3 DEF MoneyInv, Copy, Store, Fetch
  <2>2. to_minor_units(from_minor_units(k)) = k /\ Shown(from_minor_units(k))
    BY MinorUnitsBack DEF Usable, Shown
  <2>3. amount' = from_minor_units(k) /\ (place' = "row" => units' = k /\ k # 0)
    <3>1. CASE Copy \/ Fetch
      <4>1. place' = "record"
        BY <3>1 DEF Copy, Fetch
      <4>2. amount' = from_minor_units(k)
        BY <2>1, <2>2, <3>1 DEF Held, Copy, Fetch, normalize_amount
      <4> QED
        BY <4>1, <4>2
    <3>2. CASE Store
      <4>1. amount = from_minor_units(k)
        BY <2>1 DEF Held
      <4>2. /\ amount' = amount /\ units' = to_minor_units(amount)
            /\ ~IsZero(amount)
        BY <3>2 DEF Store
      <4>3. k # 0
        <5>1. k = 0 => IsZero(from_minor_units(k))
          BY MinorUnitsBack
        <5> QED
          BY <4>1, <4>2, <5>1
      <4> QED
        BY <2>2, <4>1, <4>2, <4>3
    <3> QED
      BY <1>3, <3>1, <3>2
  <2>4. /\ given' = given /\ place' \in {"record", "row"}
        /\ units' = units \/ units' = k
    BY <1>3, <2>1, <2>2 DEF Held, Copy, Store, Fetch
  <2>5. Held(k)'
    BY <2>1, <2>3, <2>4 DEF Held
  <2> QED
    BY <2>2, <2>3, <2>4, <2>5 DEF MoneyInv
<1>4. CASE UNCHANGED vars
  BY <1>4 DEF vars, MoneyInv, Held
<1> QED
  BY <1>1, <1>2, <1>3, <1>4 DEF Next

LEMMA MoneyInvAlways == Spec => []MoneyInv
BY MoneyInit, MoneyStep, PTL DEF Spec

(* Records show decimals that are not negative, with two places; rows hold *)
(* at least one hundredth, and no more than the maximum.                   *)
THEOREM TypeCorrect == Spec => []TypeOK
<1>1. ASSUME MoneyInv
      PROVE  TypeOK
  <2>1. place = "row" => units > 0
    BY <1>1, MaxMinorUnitsAssumption DEF MoneyInv, Held
  <2> QED
    BY <1>1, <2>1 DEF MoneyInv, TypeOK, Shown
<1> QED
  BY <1>1, MoneyInvAlways, PTL

(* An amount of any number of digits, however often it is copied, stored   *)
(* and fetched, stays what the caller gave.                                *)
THEOREM AmountsStayExact == Spec => []AmountExact
<1>1. ASSUME MoneyInv
      PROVE  AmountExact
  <2>1. ASSUME NEW k \in 0..MaxMinorUnits, Held(k)
        PROVE  AmountExact
    BY <2>1, MinorUnitsBack DEF Held, AmountExact
  <2> QED
    BY <1>1, <2>1 DEF MoneyInv, AmountExact
<1> QED
  BY <1>1, MoneyInvAlways, PTL

(* Only what is no whole number of hundredths in range is refused, however *)
(* it is written.                                                          *)
THEOREM RefusalsStayRight == Spec => []RefusedRightly
<1>1. MoneyInv => RefusedRightly
  BY GivenUsable, RefusalsRight DEF MoneyInv, RefusedRightly
<1> QED
  BY <1>1, MoneyInvAlways, PTL
=============================================================================
