----------------------------- MODULE Induction ------------------------------
(***************************************************************************)
(* Induction on the natural numbers for the provers.  The theorems of the  *)
(* library take the property that is proved as an operator; here it is a   *)
(* set, of the numbers that have it.                                       *)
(***************************************************************************)
EXTENDS Integers, WellFoundedInduction, TLAPS

\* Zenon proves the steps that name no other prover.
USE Zenon

LessThan == {p \in Nat \X Nat : p[1] < p[2]}

\* No infinite sequence of naturals descends.
LEMMA LessThanWellFounded == IsWellFoundedOn(LessThan, Nat)
BY NatLessThanWellFounded DEF OpToRel, LessThan

\* A set of naturals that has an element has a least one.
LEMMA LeastNatural ==
    ASSUME NEW T \in SUBSET Nat, T # {}
    PROVE  \E m \in T : \A k \in T : m <= k
<1>1. PICK m \in T : \A k \in T : ~(<<k, m>> \in LessThan)
  BY Zenon, LessThanWellFounded, WFMin
<1>2. ASSUME NEW k \in T
      PROVE  m <= k
  <2>1. <<k, m>> \in Nat \X Nat /\ <<k, m>>[1] = k /\ <<k, m>>[2] = m
    OBVIOUS
  <2>2. ~(<<k, m>>[1] < <<k, m>>[2])
    BY <1>1, <2>1 DEF LessThan
  <2> QED
    BY <2>1, <2>2, SMT
<1> QED
  BY <1>2

\* A set with zero, and with the successor of every natural it has, has them all.
LEMMA NaturalInduction ==
    ASSUME NEW S, 0 \in S, \A n \in Nat : n \in S => n + 1 \in S
    PROVE  Nat \subseteq S
<1> SUFFICES ASSUME Nat \ S # {}
             PROVE  FALSE
  OBVIOUS
<1>1. PICK m \in Nat \ S : \A k \in Nat \ S : m <= k
  BY Zenon, LeastNatural
<1>2. m # 0 /\ m - 1 \in Nat /\ m - 1 \notin Nat \ S
  BY <1>1, SMT
<1> QED
  BY <1>1, <1>2, SMT

\* A set that has each of the first numbers up to n whenever it has the ones above has
\* them all.
LEMMA DownwardInduction ==
    ASSUME NEW n \in Nat, NEW S, \A j \in 1..n : (\A k \in j + 1..n : k \in S) => j \in S
    PROVE  1..n \subseteq S
<1> DEFINE T == {d \in Nat : \A k \in 1..n : k > n - d => k \in S}
<1>1. 0 \in T
  BY SMT
<1>2. ASSUME NEW d \in Nat, d \in T
      PROVE  d + 1 \in T
  <2>1. ASSUME NEW k \in 1..n, k > n - (d + 1)
        PROVE  k \in S
    <3>1. \A m \in k + 1..n : m \in 1..n /\ m > n - d
      BY <2>1, SMT
    <3>2. \A m \in k + 1..n : m \in S
      BY <1>2, <3>1
    <3> QED
      BY <3>2
  <2> QED
    BY <2>1, SMT
<1>3. n \in T
  <2> HIDE DEF T
  <2> QED
    BY <1>1, <1>2, NaturalInduction
<1>4. \A k \in 1..n : k > n - n
  BY SMT
<1> QED
  BY <1>3, <1>4

-----------------------------------------------------------------------------
(* Partial sums: what a function says that is defined by recursion on the  *)
(* number of its summands.                                                 *)

Sums(s, a, n) ==
    s \in [0..n -> Int] /\ s[0] = 0 /\ \A k \in 1..n : s[k] = s[k - 1] + a[k]

\* Numbers have partial sums.
LEMMA SumsExist ==
    ASSUME NEW n \in Nat, NEW a, \A k \in 1..n : a[k] \in Int
    PROVE  \E s : Sums(s, a, n)
<1> DEFINE S == {m \in Nat : m <= n => \E s : Sums(s, a, m)}
<1>1. 0 \in S
  <2> DEFINE s == [k \in 0..0 |-> 0]
  <2>1. Sums(s, a, 0)
    BY SMT DEF Sums
  <2> QED
    BY <2>1, SMT
<1>2. ASSUME NEW m \in Nat, m \in S, m + 1 <= n
      PROVE  \E t : Sums(t, a, m + 1)
  <2>1. PICK s : Sums(s, a, m)
    BY <1>2, SMT
  <2> DEFINE t == [k \in 0..m + 1 |-> IF k = m + 1 THEN s[m] + a[m + 1] ELSE s[k]]
  <2>2. s[m] \in Int /\ a[m + 1] \in Int
    BY <1>2, <2>1, SMT DEF Sums
  <2>3. t \in [0..m + 1 -> Int] /\ t[0] = 0
    BY <2>1, <2>2, SMT DEF Sums
  <2>4. ASSUME NEW k \in 1..m + 1
        PROVE  t[k] = t[k - 1] + a[k]
    <3>1. k \in 0..m + 1 /\ k - 1 \in 0..m + 1 /\ k - 1 # m + 1
      BY SMT
    <3>2. t[k - 1] = s[k - 1]
      BY <3>1
    <3>3. CASE k = m + 1
      <4>1. (m + 1) - 1 = m
        BY SMT
      <4> QED
        BY <3>1, <3>2, <3>3, <4>1
    <3>4. CASE k # m + 1
      <4>1. k \in 1..m
        BY <3>4, SMT
      <4> QED
        BY <2>1, <3>1, <3>2, <3>4, <4>1 DEF Sums
    <3> QED
      BY <3>3, <3>4
  <2> HIDE DEF t
  <2> QED
    BY <2>3, <2>4 DEF Sums
<1>3. \A m \in Nat : m \in S => m + 1 \in S
  BY <1>2, SMT
<1>4. n \in S
  <2> HIDE DEF S
  <2> QED
    BY <1>1, <1>3, NaturalInduction
<1> QED
  BY <1>4, SMT

\* They are what the recursion computes.
LEMMA SumsComputed ==
    ASSUME NEW n \in Nat, NEW a, NEW s, Sums(s, a, n),
           NEW f, \A k \in 0..n : f[k] = IF k = 0 THEN 0 ELSE f[k - 1] + a[k]
    PROVE  f[n] = s[n]
<1> DEFINE S == {m \in Nat : m <= n => f[m] = s[m]}
<1>2. 0 \in S
  BY SMT DEF Sums
<1>3. \A m \in Nat : m \in S => m + 1 \in S
  <2> SUFFICES ASSUME NEW m \in Nat, m \in S, m + 1 <= n
               PROVE  f[m + 1] = s[m + 1]
    BY SMT
  <2>1. m + 1 \in 0..n /\ m + 1 \in 1..n /\ m + 1 # 0 /\ (m + 1) - 1 = m /\ f[m] = s[m]
    BY SMT
  <2>2. f[m + 1] = f[m] + a[m + 1]
    BY <2>1
  <2>3. s[m + 1] = s[m] + a[m + 1]
    BY <2>1 DEF Sums
  <2> QED
    BY <2>1, <2>2, <2>3
<1>4. n \in S
  <2> HIDE DEF S
  <2> QED
    BY <1>2, <1>3, NaturalInduction
<1> QED
  BY <1>4, SMT

-----------------------------------------------------------------------------
(* Remainders.                                                             *)

\* A number is its quotient times the divisor, and the remainder.
LEMMA Remainder ==
    ASSUME NEW n \in Int, NEW d \in Nat \ {0}
    PROVE  /\ n \div d \in Int /\ n % d \in Int
           /\ n = d * (n \div d) + (n % d)
           /\ 0 <= n % d /\ n % d < d
  BY SMT

\* Only one number is the remainder.
LEMMA RemainderIs ==
    ASSUME NEW n \in Int, NEW d \in Nat \ {0}, NEW q \in Int, NEW r \in Int,
           n = d * q + r, 0 <= r, r < d
    PROVE  n % d = r
  BY SMT

\* Numbers with the same remainder keep it when another is added to both.
LEMMA SameRemainder ==
    ASSUME NEW d \in Nat \ {0}, NEW x \in Int, NEW y \in Int, NEW z \in Int, x % d = y % d
    PROVE  (x + z) % d = (y + z) % d
<1> DEFINE p == x \div d
           q == y \div d
           u == (y + z) \div d
           r == y % d
           v == (y + z) % d
<1>1. y + z \in Int /\ x + z \in Int
  BY SMT
<1>2. p \in Int /\ q \in Int /\ r \in Int /\ x = d * p + r /\ y = d * q + r
  BY Remainder
<1>3. u \in Int /\ v \in Int /\ y + z = d * u + v /\ 0 <= v /\ v < d
  BY <1>1, Remainder
<1> HIDE DEF p, q, u, r, v
<1>4. (p - q) + u \in Int /\ x + z = d * ((p - q) + u) + v
  BY <1>2, <1>3, SMT
<1>5. (x + z) % d = v
  BY <1>1, <1>3, <1>4, RemainderIs
<1> QED
  BY <1>5 DEF v
=============================================================================
