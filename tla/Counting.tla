------------------------------ MODULE Counting -------------------------------
(***************************************************************************)
(* Facts about natural numbers and finite sets that the proofs of several  *)
(* modules rest on.  The induction theorems of the library speak of an     *)
(* operator; that the order of the naturals is well-founded speaks of sets *)
(* only, and an inductive argument becomes one about the least exception.  *)
(***************************************************************************)
EXTENDS Integers, Sequences, FiniteSetTheorems, WellFoundedInduction, TLAPS

(* Every set of naturals that is not empty has a least element.            *)
LEMMA LeastExists ==
  ASSUME NEW T \in SUBSET Nat, T # {}
  PROVE  \E m \in T : \A n \in T : m <= n
<1> DEFINE Below == {ss \in Nat \X Nat : ss[1] < ss[2]}
<1>1. OpToRel(<, Nat) = Below
  BY DEF OpToRel
<1>2. IsWellFoundedOn(Below, Nat)
  BY <1>1, NatLessThanWellFounded, Zenon
<1>3. \E m \in T : \A n \in T : <<n, m>> \notin Below
  <2> HIDE DEF Below
  <2> QED
    BY <1>2, WFMin
<1>4. ASSUME NEW m \in T, NEW n \in T, <<n, m>> \notin Below PROVE m <= n
  <2>1. ~(n < m)
    BY <1>4
  <2> QED
    BY <2>1
<1> HIDE DEF Below
<1> QED
  BY <1>3, <1>4

(* A sequence of numbers that only grows and takes the values from 1 to k  *)
(* counts from 1 to k.                                                     *)
LEMMA CountsUp ==
  ASSUME NEW n \in Nat, NEW k \in Nat, NEW s,
         {s[i] : i \in 1..n} = 1..k,
         \A i \in 1..n : \A j \in 1..(i - 1) : s[j] < s[i]
  PROVE  n = k /\ \A i \in 1..n : s[i] = i
<1> DEFINE T == {i \in 1..n : s[i] # i}
<1>1. T = {}
  <2> SUFFICES ASSUME T # {} PROVE FALSE
    OBVIOUS
  <2>1. PICK i \in T : \A j \in T : i <= j
    <3>1. T \in SUBSET Nat
      OBVIOUS
    <3> HIDE DEF T
    <3> QED
      BY <3>1, LeastExists
  <2>2. i \in 1..n /\ s[i] # i /\ s[i] \in 1..k
    OBVIOUS
  <2>3. \A j \in 1..(i - 1) : s[j] = j
    <3> TAKE j \in 1..(i - 1)
    <3>1. j \in 1..n /\ j < i
      BY <2>2
    <3> QED
      BY <2>1, <3>1
  <2>4. s[i] > i
    <3>1. CASE i = 1
      BY <2>2, <3>1
    <3>2. CASE i > 1
      <4>1. i - 1 \in 1..(i - 1) /\ s[i - 1] = i - 1
        BY <2>2, <2>3, <3>2
      <4>2. s[i - 1] < s[i]
        BY <2>2, <4>1
      <4> QED
        BY <2>2, <4>1, <4>2
    <3> QED
      BY <2>2, <3>1, <3>2
  <2>5. i \in 1..k
    BY <2>2, <2>4
  <2>6. PICK j \in 1..n : s[j] = i
    BY <2>5
  <2>7. CASE j < i
    BY <2>2, <2>3, <2>6, <2>7
  <2>8. CASE j > i
    <3>1. s[i] < s[j]
      BY <2>2, <2>8
    <3> QED
      BY <2>2, <2>4, <2>6, <3>1
  <2> QED
    BY <2>2, <2>4, <2>6, <2>7, <2>8
<1>2. \A i \in 1..n : s[i] = i
  BY <1>1
<1>3. {s[i] : i \in 1..n} = 1..n
  BY <1>2
<1>4. n = k
  <2>1. n > k => n \in 1..n /\ n \notin 1..k
    OBVIOUS
  <2>2. k > n => k \in 1..k /\ k \notin 1..n
    OBVIOUS
  <2> QED
    BY <1>3, <2>1, <2>2
<1> QED
  BY <1>2, <1>4

(* R is a strict and total order of the members of S.                      *)
Orders(R, S) ==
  /\ \A i \in S : <<i, i>> \notin R
  /\ \A i, j \in S : i = j \/ <<i, j>> \in R \/ <<j, i>> \in R
  /\ \A i, j, k \in S : <<i, j>> \in R /\ <<j, k>> \in R => <<i, k>> \in R

(* The place of each member of S: how many of them are not behind it.      *)
Places(R, S) == [i \in S |-> Cardinality({j \in S : <<i, j>> \notin R})]

(* f[1] to f[n] are the members of S, in their order.                      *)
InOrder(R, S, n, f) ==
  /\ \A p \in 1..n : f[p] \in S
  /\ \A i \in S : \E p \in 1..n : f[p] = i
  /\ \A p, q \in 1..n : p < q => <<f[p], f[q]>> \in R

(* The members of a finite set stand at the places 1, 2 and so on.         *)
LEMMA Ranking ==
  ASSUME NEW S, IsFiniteSet(S), NEW R, Orders(R, S)
  PROVE  /\ Cardinality(S) \in Nat
         /\ \A i \in S : Places(R, S)[i] \in 1..Cardinality(S)
         /\ \A i, j \in S : <<i, j>> \in R => Places(R, S)[i] < Places(R, S)[j]
         /\ \A p \in 1..Cardinality(S) : \E i \in S : Places(R, S)[i] = p
<1> USE DEF Orders
<1> DEFINE place == Places(R, S)
           UpTo(i) == {j \in S : <<i, j>> \notin R}
           n == Cardinality(S)
<1>1. n \in Nat
  BY FS_CardinalityType
<1>2. ASSUME NEW i \in S
      PROVE  /\ UpTo(i) \in SUBSET S /\ IsFiniteSet(UpTo(i)) /\ i \in UpTo(i)
             /\ place[i] = Cardinality(UpTo(i)) /\ place[i] \in 1..n
  <2>1. UpTo(i) \in SUBSET S /\ i \in UpTo(i) /\ place[i] = Cardinality(UpTo(i))
    BY DEF Places
  <2>2. IsFiniteSet(UpTo(i)) /\ Cardinality(UpTo(i)) <= n
    BY <2>1, FS_Subset
  <2>3. Cardinality(UpTo(i)) \in Nat
    BY <2>2, FS_CardinalityType
  <2>4. Cardinality(UpTo(i)) # 0
    BY <2>1, <2>2, FS_EmptySet
  <2> HIDE DEF UpTo
  <2> QED
    BY <1>1, <2>1, <2>2, <2>3, <2>4
<1>3. ASSUME NEW i \in S, NEW j \in S, <<i, j>> \in R PROVE place[i] < place[j]
  <2>1. UpTo(i) \in SUBSET UpTo(j)
    <3> SUFFICES ASSUME NEW k \in UpTo(i) PROVE k \in UpTo(j)
      OBVIOUS
    <3>1. k \in S /\ <<i, k>> \notin R
      OBVIOUS
    <3>2. <<j, k>> \notin R
      BY <1>3, <3>1
    <3> QED
      BY <3>1, <3>2
  <2>2. j \in UpTo(j) /\ j \notin UpTo(i)
    BY <1>3
  <2>3. /\ Cardinality(UpTo(i)) <= Cardinality(UpTo(j))
        /\ Cardinality(UpTo(j)) # Cardinality(UpTo(i))
    <3> HIDE DEF UpTo
    <3> QED
      BY <1>2, <2>1, <2>2, FS_Subset
  <2> HIDE DEF UpTo
  <2> QED
    BY <1>1, <1>2, <2>3
<1>4. \A p \in 1..n : \E i \in S : place[i] = p
  <2>1. place \in [S -> 1..n]
    BY <1>2 DEF Places
  <2>2. \A i, j \in S : place[i] = place[j] => i = j
    <3> SUFFICES ASSUME NEW i \in S, NEW j \in S, place[i] = place[j] PROVE i = j
      OBVIOUS
    <3>0. place[i] \in 1..n
      BY <1>2, Zenon
    <3>1. ~(place[i] < place[j]) /\ ~(place[j] < place[i])
      <4> HIDE DEF n
      <4> QED
        BY <1>1, <3>0
    <3> QED
      BY <1>3, <3>1
  <2>3. place \in Injection(S, 1..n)
    BY <2>1, <2>2 DEF Injection, IsInjective
  <2>4. IsFiniteSet(1..n) /\ Cardinality(1..n) = n
    BY <1>1, FS_Interval
  <2>5. place \in Surjection(S, 1..n)
    BY <2>3, <2>4, FS_Injection
  <2> QED
    BY <2>5 DEF Surjection
<1> QED
  BY <1>1, <1>2, <1>3, <1>4

(* A set can be written down in order in one way only.                     *)
LEMMA OneOrder ==
  ASSUME NEW S, NEW R, Orders(R, S), NEW m \in Nat, NEW n \in Nat, NEW f, NEW g,
         InOrder(R, S, m, f), InOrder(R, S, n, g)
  PROVE  m = n /\ \A p \in 1..n : f[p] = g[p]
<1> USE DEF Orders, InOrder
<1> DEFINE T == {p \in Nat : p \in 1..m /\ p \in 1..n /\ f[p] # g[p]}
<1>1. T = {}
  <2> SUFFICES ASSUME T # {} PROVE FALSE
    OBVIOUS
  <2>1. PICK p \in T : \A q \in T : p <= q
    <3>1. T \in SUBSET Nat
      OBVIOUS
    <3> HIDE DEF T
    <3> QED
      BY <3>1, LeastExists
  <2>2. p \in 1..m /\ p \in 1..n /\ f[p] # g[p] /\ f[p] \in S /\ g[p] \in S
    OBVIOUS
  <2>3. \A q \in 1..(p - 1) : f[q] = g[q]
    <3> TAKE q \in 1..(p - 1)
    <3>1. q \in Nat /\ q \in 1..m /\ q \in 1..n /\ ~(p <= q)
      BY <2>2
    <3> QED
      BY <2>1, <3>1
  <2>4. <<g[p], f[p]>> \in R
    <3>1. PICK q \in 1..n : g[q] = f[p]
      BY <2>2
    <3>2. CASE q < p
      <4>1. q \in 1..(p - 1) /\ q \in 1..m /\ f[q] = f[p]
        BY <2>2, <2>3, <3>1, <3>2
      <4> QED
        BY <2>2, <3>2, <4>1
    <3>3. CASE p < q
      BY <2>2, <3>1, <3>3
    <3>4. q # p
      BY <2>2, <3>1
    <3>5. q < p \/ p < q
      BY <2>2, <3>4
    <3> QED
      BY <3>2, <3>3, <3>5
  <2>5. <<f[p], g[p]>> \in R
    <3>1. PICK q \in 1..m : f[q] = g[p]
      BY <2>2
    <3>2. CASE q < p
      <4>1. q \in 1..(p - 1) /\ q \in 1..n /\ g[q] = g[p]
        BY <2>2, <2>3, <3>1, <3>2
      <4> QED
        BY <2>2, <3>2, <4>1
    <3>3. CASE p < q
      BY <2>2, <3>1, <3>3
    <3>4. q # p
      BY <2>2, <3>1
    <3>5. q < p \/ p < q
      BY <2>2, <3>4
    <3> QED
      BY <3>2, <3>3, <3>5
  <2> QED
    BY <2>2, <2>4, <2>5
<1>2. \A p \in 1..m : p \in 1..n => f[p] = g[p]
  BY <1>1
<1> HIDE DEF T
<1>3. ~(m < n)
  <2> SUFFICES ASSUME m < n PROVE FALSE
    OBVIOUS
  <2>1. m + 1 \in 1..n /\ g[m + 1] \in S
    OBVIOUS
  <2>2. PICK q \in 1..m : f[q] = g[m + 1]
    BY <2>1
  <2>3. q \in 1..n /\ q < m + 1 /\ g[q] = g[m + 1]
    BY <1>2, <2>2
  <2>4. <<g[q], g[m + 1]>> \in R
    BY <2>1, <2>3
  <2> QED
    BY <2>1, <2>3, <2>4
<1>4. ~(n < m)
  <2> SUFFICES ASSUME n < m PROVE FALSE
    OBVIOUS
  <2>1. n + 1 \in 1..m /\ f[n + 1] \in S
    OBVIOUS
  <2>2. PICK q \in 1..n : g[q] = f[n + 1]
    BY <2>1
  <2>3. q \in 1..m /\ q < n + 1 /\ f[q] = f[n + 1]
    BY <1>2, <2>2
  <2>4. <<f[q], f[n + 1]>> \in R
    BY <2>1, <2>3
  <2> QED
    BY <2>1, <2>3, <2>4
<1> QED
  BY <1>2, <1>3, <1>4
=============================================================================
