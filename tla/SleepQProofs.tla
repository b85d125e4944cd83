----------------------------- MODULE SleepQProofs ----------------------------
(* What the operations of a sleep queue do to its contents and its order. *)
EXTENDS SleepQLaws, TLAPS, FiniteSetTheorems, SequenceTheorems, WellFoundedInduction

USE ZenonT(40)

\* A nonempty set of natural numbers has a least element.
LEMMA LeastNat ==
    ASSUME NEW T \in SUBSET Nat, T # {}
    PROVE  \E k \in T : \A j \in T : k <= j
<1> DEFINE L == OpToRel(<, Nat)
<1>1. \E x \in T : \A y \in T : ~ (<<y, x>> \in L)
  BY NatLessThanWellFounded, WFMin
<1>2. \A x, y \in Nat : <<y, x>> \in L <=> y < x
  BY DEF OpToRel
<1> HIDE DEF L
<1>3. PICK x \in T : \A y \in T : ~ (<<y, x>> \in L)
  BY <1>1
<1>4. \A y \in T : x <= y
  <2> TAKE y \in T
  <2>1. x \in Nat /\ y \in Nat
    OBVIOUS
  <2>2. ~(y < x)
    BY <1>2, <1>3, <2>1
  <2>3. QED
    BY SMTT(30), <2>1, <2>2
<1>5. QED
  BY <1>4

\* The loop of sleepq_insert() stops behind the last of the leading threads whose
\* priority is at least p.
LEMMA PlaceProperties ==
    ASSUME NEW T, NEW q \in Seq(T), NEW pri \in [T -> Int], NEW p \in Int
    PROVE  /\ Place(q, pri, p) \in 1 .. Len(q) + 1
           /\ \A j \in 1 .. Place(q, pri, p) - 1 : p <= pri[q[j]]
           /\ Place(q, pri, p) <= Len(q) => pri[q[Place(q, pri, p)]] < p
<1> DEFINE Less == {i \in 1 .. Len(q) : pri[q[i]] < p}
           Walked == {i \in DOMAIN q : \A j \in 1 .. i : p <= pri[q[j]]}
<1>1. Len(q) \in Nat /\ DOMAIN q = 1 .. Len(q) /\ \A i \in 1 .. Len(q) : pri[q[i]] \in Int
  BY SMTT(30)
<1>2. PICK m \in 0 .. Len(q) : /\ \A j \in 1 .. m : p <= pri[q[j]]
                               /\ m < Len(q) => pri[q[m + 1]] < p
  <2>1. CASE Less = {}
    <3>1. \A j \in 1 .. Len(q) : p <= pri[q[j]]
      BY SMTT(30), <1>1, <2>1
    <3>2. QED
      BY SMTT(30), <1>1, <3>1
  <2>2. CASE Less # {}
    <3>1. Less \in SUBSET Nat
      BY SMTT(30), <1>1
    <3>2. PICK k \in Less : \A j \in Less : k <= j
      BY <2>2, <3>1, LeastNat
    <3>3. k \in 1 .. Len(q) /\ pri[q[k]] < p
      BY <3>2
    <3>4. \A j \in 1 .. k - 1 : p <= pri[q[j]]
      BY SMTT(30), <1>1, <3>2, <3>3
    <3>5. k - 1 \in 0 .. Len(q) /\ (k - 1) + 1 = k
      BY SMTT(30), <1>1, <3>3
    <3>6. QED
      BY <3>3, <3>4, <3>5
  <2>3. QED
    BY <2>1, <2>2
<1>3. Walked = 1 .. m
  BY SMTT(30), <1>1, <1>2
<1>4. Cardinality(1 .. m) = m
  BY SMTT(30), <1>2, FS_Interval
<1>5. Place(q, pri, p) = 1 + m
  BY <1>3, <1>4 DEF Place
<1>6. QED
  BY SMTT(30), <1>1, <1>2, <1>5

\* What linking a thread before the k-th of a queue yields.
LEMMA LinkAtProperties ==
    ASSUME NEW T, NEW q \in Seq(T), NEW t \in T, NEW k \in 1 .. Len(q) + 1
    PROVE  /\ LinkAt(q, k, t) \in Seq(T)
           /\ Len(LinkAt(q, k, t)) = Len(q) + 1
           /\ \A i \in 1 .. Len(q) + 1 : LinkAt(q, k, t)[i] =
                 IF i < k THEN q[i] ELSE IF i = k THEN t ELSE q[i - 1]
<1> DEFINE a == SubSeq(q, 1, k - 1)
           c == SubSeq(q, k, Len(q))
<1>1. Len(q) \in Nat /\ \A i \in 1 .. Len(q) : q[i] \in T
  BY SMTT(30)
<1>2. /\ a \in Seq(T) /\ Len(a) = k - 1
      /\ \A i \in 1 .. k - 1 : a[i] = q[i]
  <2>1. \A i \in 1 .. k - 1 : q[i] \in T
    BY SMTT(30), <1>1
  <2>2. /\ a \in Seq(T) /\ Len(a) = IF 1 <= k - 1 THEN (k - 1) - 1 + 1 ELSE 0
        /\ \A i \in 1 .. (k - 1) - 1 + 1 : a[i] = q[1 + i - 1]
    BY SMTT(30), <2>1, SubSeqProperties
  <2>3. QED
    BY SMTT(30), <1>1, <2>2
<1>3. /\ c \in Seq(T) /\ Len(c) = Len(q) - k + 1
      /\ \A i \in 1 .. Len(q) - k + 1 : c[i] = q[k + i - 1]
  <2>1. \A i \in k .. Len(q) : q[i] \in T
    BY SMTT(30), <1>1
  <2>2. /\ c \in Seq(T) /\ Len(c) = IF k <= Len(q) THEN Len(q) - k + 1 ELSE 0
        /\ \A i \in 1 .. Len(q) - k + 1 : c[i] = q[k + i - 1]
    BY SMTT(30), <1>1, <2>1, SubSeqProperties
  <2>3. QED
    BY SMTT(30), <1>1, <2>2
<1> HIDE DEF a, c
<1> DEFINE o == <<t>>
<1>4. o \in Seq(T) /\ Len(o) = 1 /\ o[1] = t
  BY SMTT(30)
<1> HIDE DEF o
<1>5. /\ a \o o \in Seq(T) /\ Len(a \o o) = k
      /\ \A i \in 1 .. k : (a \o o)[i] = IF i < k THEN q[i] ELSE t
  <2>1. /\ a \o o \in Seq(T) /\ Len(a \o o) = (k - 1) + 1
        /\ \A i \in 1 .. (k - 1) + 1 : (a \o o)[i] =
              IF i <= k - 1 THEN a[i] ELSE o[i - (k - 1)]
    <3>1. /\ a \o o \in Seq(T) /\ Len(a \o o) = Len(a) + Len(o)
          /\ \A i \in 1 .. Len(a) + Len(o) : (a \o o)[i] =
                IF i <= Len(a) THEN a[i] ELSE o[i - Len(a)]
      BY <1>2, <1>4, ConcatProperties
    <3>2. Len(a) = k - 1 /\ Len(o) = 1
      BY <1>2, <1>4
    <3>3. QED
      BY <3>1, <3>2
  <2>2. k \in Nat /\ (k - 1) + 1 = k
    BY SMTT(30), <1>1
  <2>3. ASSUME NEW i \in 1 .. k PROVE (a \o o)[i] = IF i < k THEN q[i] ELSE t
    <3>1. (a \o o)[i] = IF i <= k - 1 THEN a[i] ELSE o[i - (k - 1)]
      BY <2>1, <2>2
    <3>2. CASE i < k
      BY SMTT(30), <1>2, <2>2, <3>1, <3>2
    <3>3. CASE i = k
      <4>1. i - (k - 1) = 1 /\ ~(i <= k - 1)
        BY SMTT(30), <2>2, <3>3
      <4>2. o[i - (k - 1)] = t
        BY <1>4, <4>1
      <4>3. QED
        BY SMTT(30), <3>1, <3>3, <4>1, <4>2
    <3>4. i < k \/ i = k
      BY SMTT(30), <2>2
    <3>5. QED
      BY <3>2, <3>3, <3>4
  <2>4. QED
    BY <2>1, <2>2, <2>3
<1> DEFINE b == a \o o
<1>6. b \in Seq(T) /\ Len(b) = k /\ \A i \in 1 .. k : b[i] = IF i < k THEN q[i] ELSE t
  BY <1>5
<1>7. LinkAt(q, k, t) = b \o c
  BY DEF LinkAt, a, c, o
<1> HIDE DEF b
<1>8. /\ b \o c \in Seq(T) /\ Len(b \o c) = k + (Len(q) - k + 1)
      /\ \A i \in 1 .. k + (Len(q) - k + 1) : (b \o c)[i] =
            IF i <= k THEN b[i] ELSE c[i - k]
  <2>1. /\ b \o c \in Seq(T) /\ Len(b \o c) = Len(b) + Len(c)
        /\ \A i \in 1 .. Len(b) + Len(c) : (b \o c)[i] =
              IF i <= Len(b) THEN b[i] ELSE c[i - Len(b)]
    BY <1>3, <1>6, ConcatProperties
  <2>2. QED
    BY <1>3, <1>6, <2>1
<1>9. k + (Len(q) - k + 1) = Len(q) + 1
  BY SMTT(30), <1>1
<1>10. \A i \in 1 .. Len(q) + 1 : (b \o c)[i] =
          IF i < k THEN q[i] ELSE IF i = k THEN t ELSE q[i - 1]
  <2> SUFFICES ASSUME NEW i \in 1 .. Len(q) + 1
               PROVE (b \o c)[i] = IF i < k THEN q[i] ELSE IF i = k THEN t ELSE q[i - 1]
    OBVIOUS
  <2>1. CASE i <= k
    BY SMTT(30), <1>6, <1>8, <1>9, <2>1
  <2>2. CASE i > k
    <3>1. i - k \in 1 .. Len(q) - k + 1 /\ k + (i - k) - 1 = i - 1
      BY SMTT(30), <1>1, <2>2
    <3>2. (b \o c)[i] = c[i - k]
      BY SMTT(30), <1>8, <1>9, <2>2
    <3>3. QED
      BY SMTT(30), <1>3, <2>2, <3>1, <3>2
  <2>3. i <= k \/ i > k
    BY SMTT(30), <1>1
  <2>4. QED
    BY <2>1, <2>2, <2>3
<1>11. QED
  BY <1>7, <1>8, <1>9, <1>10

\* What unlinking the k-th thread of a queue yields.
LEMMA UnlinkAtProperties ==
    ASSUME NEW T, NEW q \in Seq(T), NEW k \in 1 .. Len(q)
    PROVE  /\ UnlinkAt(q, k) \in Seq(T)
           /\ Len(UnlinkAt(q, k)) = Len(q) - 1
           /\ \A i \in 1 .. Len(q) - 1 : UnlinkAt(q, k)[i] =
                 IF i < k THEN q[i] ELSE q[i + 1]
<1> DEFINE a == SubSeq(q, 1, k - 1)
           c == SubSeq(q, k + 1, Len(q))
<1>1. Len(q) \in Nat /\ \A i \in 1 .. Len(q) : q[i] \in T
  BY SMTT(30)
<1>2. /\ a \in Seq(T) /\ Len(a) = k - 1
      /\ \A i \in 1 .. k - 1 : a[i] = q[i]
  <2>1. \A i \in 1 .. k - 1 : q[i] \in T
    BY SMTT(30), <1>1
  <2>2. /\ a \in Seq(T) /\ Len(a) = IF 1 <= k - 1 THEN (k - 1) - 1 + 1 ELSE 0
        /\ \A i \in 1 .. (k - 1) - 1 + 1 : a[i] = q[1 + i - 1]
    BY SMTT(30), <2>1, SubSeqProperties
  <2>3. QED
    BY SMTT(30), <1>1, <2>2
<1>3. /\ c \in Seq(T) /\ Len(c) = Len(q) - k
      /\ \A i \in 1 .. Len(q) - k : c[i] = q[k + i]
  <2>1. \A i \in k + 1 .. Len(q) : q[i] \in T
    BY SMTT(30), <1>1
  <2>2. /\ c \in Seq(T) /\ Len(c) = IF k + 1 <= Len(q) THEN Len(q) - (k + 1) + 1 ELSE 0
        /\ \A i \in 1 .. Len(q) - (k + 1) + 1 : c[i] = q[(k + 1) + i - 1]
    BY SMTT(30), <1>1, <2>1, SubSeqProperties
  <2>3. QED
    BY SMTT(30), <1>1, <2>2
<1>4. UnlinkAt(q, k) = a \o c
  BY DEF UnlinkAt
<1> HIDE DEF a, c
<1>5. /\ a \o c \in Seq(T) /\ Len(a \o c) = (k - 1) + (Len(q) - k)
      /\ \A i \in 1 .. (k - 1) + (Len(q) - k) : (a \o c)[i] =
            IF i <= k - 1 THEN a[i] ELSE c[i - (k - 1)]
  <2>1. /\ a \o c \in Seq(T) /\ Len(a \o c) = Len(a) + Len(c)
        /\ \A i \in 1 .. Len(a) + Len(c) : (a \o c)[i] =
              IF i <= Len(a) THEN a[i] ELSE c[i - Len(a)]
    BY <1>2, <1>3, ConcatProperties
  <2>2. QED
    BY <1>2, <1>3, <2>1
<1>6. (k - 1) + (Len(q) - k) = Len(q) - 1
  BY SMTT(30), <1>1
<1>7. ASSUME NEW i \in 1 .. Len(q) - 1
      PROVE  (a \o c)[i] = IF i < k THEN q[i] ELSE q[i + 1]
  <2>1. CASE i < k
    BY SMTT(30), <1>1, <1>2, <1>5, <1>6, <2>1
  <2>2. CASE i >= k
    <3>1. i - (k - 1) \in 1 .. Len(q) - k /\ k + (i - (k - 1)) = i + 1
      BY SMTT(30), <1>1, <2>2
    <3>2. (a \o c)[i] = c[i - (k - 1)]
      BY SMTT(30), <1>1, <1>5, <1>6, <2>2
    <3>3. QED
      BY SMTT(30), <1>3, <2>2, <3>1, <3>2
  <2>3. i < k \/ i >= k
    BY SMTT(30), <1>1
  <2>4. QED
    BY <2>1, <2>2, <2>3
<1>8. QED
  BY <1>4, <1>5, <1>6, <1>7

\* sleepq_insert() adds t and nobody else; it keeps a queue without duplicates
\* free of them, and an ordered queue in order.
LEMMA InsertProperties ==
    ASSUME NEW T, NEW q \in Seq(T), NEW pri \in [T -> Int], NEW t \in T
    PROVE  LET n == SleepqInsert(q, pri, t)
           IN  /\ n \in Seq(T)
               /\ Len(n) = Len(q) + 1
               /\ \A u : OnQueue(n, u) <=> OnQueue(q, u) \/ u = t
               /\ ~OnQueue(q, t) /\ IsInjective(q) => IsInjective(n)
               /\ Sorted(q, pri) => Sorted(n, pri)
<1> DEFINE n == SleepqInsert(q, pri, t)
           k == Place(q, pri, pri[t])
<1>1. pri[t] \in Int /\ Len(q) \in Nat /\ DOMAIN q = 1 .. Len(q)
      /\ \A i \in 1 .. Len(q) : pri[q[i]] \in Int
  BY SMTT(30)
<1>2. /\ k \in 1 .. Len(q) + 1
      /\ \A j \in 1 .. k - 1 : pri[t] <= pri[q[j]]
      /\ k <= Len(q) => pri[q[k]] < pri[t]
  BY <1>1, PlaceProperties
<1>3. n = LinkAt(q, k, t)
  BY DEF SleepqInsert
<1> HIDE DEF n, k
<1>4. /\ n \in Seq(T) /\ Len(n) = Len(q) + 1
      /\ \A i \in 1 .. Len(q) + 1 : n[i] =
            IF i < k THEN q[i] ELSE IF i = k THEN t ELSE q[i - 1]
  <2>1. /\ LinkAt(q, k, t) \in Seq(T)
        /\ Len(LinkAt(q, k, t)) = Len(q) + 1
        /\ \A i \in 1 .. Len(q) + 1 : LinkAt(q, k, t)[i] =
              IF i < k THEN q[i] ELSE IF i = k THEN t ELSE q[i - 1]
    BY SMTT(30), <1>2, LinkAtProperties
  <2>2. QED
    BY <1>3, <2>1
<1>5. DOMAIN n = 1 .. Len(q) + 1
  BY SMTT(30), <1>4
<1>6. ASSUME NEW u PROVE OnQueue(n, u) <=> OnQueue(q, u) \/ u = t
  <2>1. ASSUME NEW i \in 1 .. Len(q) + 1, n[i] = u
        PROVE  OnQueue(q, u) \/ u = t
    <3>1. CASE i < k
      <4>1. i \in DOMAIN q /\ q[i] = u
        BY SMTT(30), <1>1, <1>2, <1>4, <2>1, <3>1
      <4>2. QED
        BY <4>1 DEF OnQueue
    <3>2. CASE i = k
      BY SMTT(30), <1>1, <1>2, <1>4, <2>1, <3>2
    <3>3. CASE i > k
      <4>1. i - 1 \in DOMAIN q /\ q[i - 1] = u
        BY SMTT(30), <1>1, <1>2, <1>4, <2>1, <3>3
      <4>2. QED
        BY <4>1 DEF OnQueue
    <3>4. QED
      BY SMTT(30), <1>1, <1>2, <3>1, <3>2, <3>3
  <2>2. ASSUME NEW i \in 1 .. Len(q), q[i] = u
        PROVE  OnQueue(n, u)
    <3>1. CASE i < k
      <4>1. i \in 1 .. Len(q) + 1 /\ n[i] = u
        BY SMTT(30), <1>1, <1>4, <2>2, <3>1
      <4>2. QED
        BY <1>5, <4>1 DEF OnQueue
    <3>2. CASE i >= k
      <4>1. i + 1 \in 1 .. Len(q) + 1 /\ ~(i + 1 < k) /\ i + 1 # k /\ (i + 1) - 1 = i
        BY SMTT(30), <1>1, <1>2, <2>2, <3>2
      <4>2. n[i + 1] = u
        BY SMTT(30), <1>4, <2>2, <4>1
      <4>3. QED
        BY <1>5, <4>1, <4>2 DEF OnQueue
    <3>3. QED
      BY SMTT(30), <1>1, <1>2, <3>1, <3>2
  <2>3. OnQueue(n, t)
    <3>1. n[k] = t
      BY SMTT(30), <1>2, <1>4
    <3>2. QED
      BY <1>2, <1>5, <3>1 DEF OnQueue
  <2>4. QED
    BY <1>1, <1>5, <2>1, <2>2, <2>3 DEF OnQueue
<1>7. ASSUME ~OnQueue(q, t), IsInjective(q) PROVE IsInjective(n)
  <2>1. \A i, j \in 1 .. Len(q) : q[i] = q[j] => i = j
    BY <1>1, <1>7 DEF IsInjective
  <2>2. \A i \in 1 .. Len(q) : q[i] # t
    BY <1>1, <1>7 DEF OnQueue
  <2>3. ASSUME NEW i \in 1 .. Len(q) + 1, NEW j \in 1 .. Len(q) + 1, n[i] = n[j], i < j
        PROVE  FALSE
    <3>1. CASE j < k
      <4>1. n[i] = q[i] /\ n[j] = q[j] /\ i \in 1 .. Len(q) /\ j \in 1 .. Len(q) /\ i # j
        BY SMTT(30), <1>1, <1>2, <1>4, <2>3, <3>1
      <4>2. QED
        BY <2>1, <2>3, <4>1
    <3>2. CASE j = k
      BY SMTT(30), <1>1, <1>2, <1>4, <2>2, <2>3, <3>2
    <3>3. CASE j > k /\ i < k
      <4>1. n[i] = q[i] /\ n[j] = q[j - 1] /\ i \in 1 .. Len(q) /\ j - 1 \in 1 .. Len(q)
            /\ i # j - 1
        BY SMTT(30), <1>1, <1>2, <1>4, <3>3
      <4>2. QED
        BY <2>1, <2>3, <4>1
    <3>4. CASE j > k /\ i = k
      <4>1. n[i] = t /\ n[j] = q[j - 1] /\ j - 1 \in 1 .. Len(q)
        BY SMTT(30), <1>1, <1>2, <1>4, <3>4
      <4>2. QED
        BY <2>2, <2>3, <4>1
    <3>5. CASE j > k /\ i > k
      <4>1. n[i] = q[i - 1] /\ n[j] = q[j - 1] /\ i - 1 \in 1 .. Len(q)
            /\ j - 1 \in 1 .. Len(q) /\ i - 1 # j - 1
        BY SMTT(30), <1>1, <1>2, <1>4, <2>3, <3>5
      <4>2. QED
        BY <2>1, <2>3, <4>1
    <3>6. QED
      BY SMTT(30), <1>1, <1>2, <3>1, <3>2, <3>3, <3>4, <3>5
  <2>4. \A i, j \in 1 .. Len(q) + 1 : i = j \/ i < j \/ j < i
    BY SMTT(30), <1>1
  <2>5. QED
    BY <1>5, <2>3, <2>4 DEF IsInjective
<1>8. ASSUME Sorted(q, pri) PROVE Sorted(n, pri)
  <2>1. \A i, j \in 1 .. Len(q) : i < j => pri[q[i]] >= pri[q[j]]
    BY <1>1, <1>8 DEF Sorted
  <2>2. ASSUME k <= Len(q), NEW j \in k .. Len(q) PROVE pri[q[j]] <= pri[t]
    <3>1. j = k \/ k < j
      BY SMTT(30), <1>1, <1>2, <2>2
    <3>2. pri[q[k]] >= pri[q[j]]
      BY SMTT(30), <1>1, <1>2, <2>1, <2>2, <3>1
    <3>3. QED
      BY SMTT(30), <1>1, <1>2, <2>2, <3>2
  <2>3. ASSUME NEW i \in 1 .. Len(q) + 1, NEW j \in 1 .. Len(q) + 1, i < j
        PROVE  pri[n[i]] >= pri[n[j]]
    <3>1. CASE j < k
      <4>1. n[i] = q[i] /\ n[j] = q[j] /\ i \in 1 .. Len(q) /\ j \in 1 .. Len(q)
        BY SMTT(30), <1>1, <1>2, <1>4, <2>3, <3>1
      <4>2. QED
        BY <2>1, <2>3, <4>1
    <3>2. CASE j = k
      <4>1. n[i] = q[i] /\ n[j] = t /\ i \in 1 .. k - 1 /\ i \in 1 .. Len(q)
        BY SMTT(30), <1>1, <1>2, <1>4, <2>3, <3>2
      <4>2. QED
        BY <1>1, <1>2, <4>1
    <3>3. CASE j > k /\ i < k
      <4>1. n[i] = q[i] /\ n[j] = q[j - 1] /\ i \in 1 .. Len(q) /\ j - 1 \in 1 .. Len(q)
            /\ i < j - 1
        BY SMTT(30), <1>1, <1>2, <1>4, <3>3
      <4>2. QED
        BY <2>1, <4>1
    <3>4. CASE j > k /\ i = k
      <4>1. n[i] = t /\ n[j] = q[j - 1] /\ j - 1 \in k .. Len(q) /\ k <= Len(q)
        BY SMTT(30), <1>1, <1>2, <1>4, <3>4
      <4>2. pri[q[j - 1]] <= pri[t] /\ pri[q[j - 1]] \in Int
        BY SMTT(30), <1>1, <1>2, <2>2, <4>1
      <4>3. QED
        BY <1>1, <4>1, <4>2
    <3>5. CASE j > k /\ i > k
      <4>1. n[i] = q[i - 1] /\ n[j] = q[j - 1] /\ i - 1 \in 1 .. Len(q)
            /\ j - 1 \in 1 .. Len(q) /\ i - 1 < j - 1
        BY SMTT(30), <1>1, <1>2, <1>4, <2>3, <3>5
      <4>2. QED
        BY <2>1, <4>1
    <3>6. QED
      BY SMTT(30), <1>1, <1>2, <2>3, <3>1, <3>2, <3>3, <3>4, <3>5
  <2>4. QED
    BY <1>5, <2>3 DEF Sorted
<1>9. QED
  BY <1>4, <1>6, <1>7, <1>8 DEF n

\* sleepq_dequeue() takes t off a queue without duplicates, and nobody else; the
\* order of the others stays.
LEMMA DequeueProperties ==
    ASSUME NEW T, NEW q \in Seq(T), NEW t, IsInjective(q)
    PROVE  LET n == SleepqDequeue(q, t)
           IN  /\ n \in Seq(T)
               /\ Len(n) = IF OnQueue(q, t) THEN Len(q) - 1 ELSE Len(q)
               /\ \A u : OnQueue(n, u) <=> OnQueue(q, u) /\ u # t
               /\ IsInjective(n)
               /\ \A pri \in [T -> Int] : Sorted(q, pri) => Sorted(n, pri)
               /\ \A pri \in [T -> Int] : \A p :
                     Sorted(q, pri) => Sorted(n, [pri EXCEPT ![t] = p])
<1> DEFINE n == SleepqDequeue(q, t)
<1>1. Len(q) \in Nat /\ DOMAIN q = 1 .. Len(q) /\ \A i \in 1 .. Len(q) : q[i] \in T
  BY SMTT(30)
<1>2. \A i, j \in 1 .. Len(q) : q[i] = q[j] => i = j
  BY <1>1 DEF IsInjective
<1>3. CASE ~OnQueue(q, t)
  <2>1. n = q
    BY <1>3 DEF SleepqDequeue
  <2>2. \A i \in 1 .. Len(q) : q[i] # t
    BY <1>1, <1>3 DEF OnQueue
  <2>3. \A pri \in [T -> Int] : \A p : \A i \in 1 .. Len(q) :
           [pri EXCEPT ![t] = p][q[i]] = pri[q[i]]
    BY <1>1, <2>2
  <2>4. \A pri \in [T -> Int] : \A p : Sorted(q, pri) => Sorted(q, [pri EXCEPT ![t] = p])
    BY <1>1, <2>3 DEF Sorted
  <2>5. \A u : OnQueue(q, u) <=> OnQueue(q, u) /\ u # t
    BY <1>3
  <2> HIDE DEF n
  <2>6. QED
    BY <1>3, <2>1, <2>4, <2>5 DEF n
<1>4. CASE OnQueue(q, t)
  <2> DEFINE k == CHOOSE i \in DOMAIN q : q[i] = t
  <2>1. k \in 1 .. Len(q) /\ q[k] = t
    BY <1>1, <1>4 DEF OnQueue
  <2>2. n = UnlinkAt(q, k)
    BY <1>4 DEF SleepqDequeue
  <2> HIDE DEF n, k
  <2>3. /\ n \in Seq(T) /\ Len(n) = Len(q) - 1
        /\ \A i \in 1 .. Len(q) - 1 : n[i] = IF i < k THEN q[i] ELSE q[i + 1]
    BY <2>1, <2>2, UnlinkAtProperties
  <2>4. DOMAIN n = 1 .. Len(q) - 1
    BY SMTT(30), <2>3
  <2> DEFINE at(i) == IF i < k THEN i ELSE i + 1
  <2>5. \A i \in 1 .. Len(q) - 1 : at(i) \in 1 .. Len(q) /\ at(i) # k /\ n[i] = q[at(i)]
    BY SMTT(30), <1>1, <2>1, <2>3
  <2>6. \A i, j \in 1 .. Len(q) - 1 : i < j => at(i) < at(j)
    BY SMTT(30), <1>1, <2>1
  <2>7. \A j \in 1 .. Len(q) : j # k => \E i \in 1 .. Len(q) - 1 : at(i) = j
    <3> SUFFICES ASSUME NEW j \in 1 .. Len(q), j # k
                 PROVE  \E i \in 1 .. Len(q) - 1 : at(i) = j
      OBVIOUS
    <3>1. CASE j < k
      BY SMTT(30), <1>1, <2>1, <3>1
    <3>2. CASE j > k
      <4>1. j - 1 \in 1 .. Len(q) - 1 /\ at(j - 1) = j
        BY SMTT(30), <1>1, <2>1, <3>2
      <4>2. QED
        BY <4>1
    <3>3. QED
      BY SMTT(30), <1>1, <2>1, <3>1, <3>2
  <2> HIDE DEF at
  <2>8. ASSUME NEW u PROVE OnQueue(n, u) <=> OnQueue(q, u) /\ u # t
    <3>1. ASSUME NEW i \in 1 .. Len(q) - 1, n[i] = u PROVE OnQueue(q, u) /\ u # t
      BY <1>1, <1>2, <2>1, <2>5, <3>1 DEF OnQueue
    <3>2. ASSUME NEW j \in 1 .. Len(q), q[j] = u, u # t PROVE OnQueue(n, u)
      BY <2>1, <2>4, <2>5, <2>7, <3>2 DEF OnQueue
    <3>3. QED
      BY <1>1, <2>4, <3>1, <3>2 DEF OnQueue
  <2>9. IsInjective(n)
    <3>1. ASSUME NEW i \in 1 .. Len(q) - 1, NEW j \in 1 .. Len(q) - 1, n[i] = n[j], i < j
          PROVE  FALSE
      <4>1. at(i) = at(j) /\ at(i) < at(j) /\ at(i) \in Int
        BY SMTT(30), <1>1, <1>2, <2>5, <2>6, <3>1
      <4>2. QED
        BY SMTT(30), <4>1
    <3>2. \A i, j \in 1 .. Len(q) - 1 : i = j \/ i < j \/ j < i
      BY SMTT(30), <1>1
    <3>3. QED
      BY <2>4, <3>1, <3>2 DEF IsInjective
  <2>10. ASSUME NEW pri \in [T -> Int], Sorted(q, pri)
         PROVE  \A i, j \in 1 .. Len(q) - 1 : i < j => pri[n[i]] >= pri[n[j]]
    BY <1>1, <2>5, <2>6, <2>10 DEF Sorted
  <2>11. \A i \in 1 .. Len(q) - 1 : n[i] # t
    BY <2>4, <2>8 DEF OnQueue
  <2>12. \A pri \in [T -> Int] : Sorted(q, pri) => Sorted(n, pri)
    BY <2>4, <2>10 DEF Sorted
  <2>13. ASSUME NEW pri \in [T -> Int], NEW p, Sorted(q, pri)
         PROVE  Sorted(n, [pri EXCEPT ![t] = p])
    <3> DEFINE new == [pri EXCEPT ![t] = p]
    <3>1. \A i \in 1 .. Len(q) - 1 : new[n[i]] = pri[n[i]]
      BY <1>1, <2>5, <2>11
    <3> HIDE DEF new
    <3>2. \A i, j \in 1 .. Len(q) - 1 : i < j => new[n[i]] >= new[n[j]]
      BY <2>10, <2>13, <3>1
    <3>3. Sorted(n, new)
      BY <2>4, <3>2 DEF Sorted
    <3>4. QED
      BY <3>3 DEF new
  <2>14. QED
    BY <1>4, <2>3, <2>8, <2>9, <2>12, <2>13 DEF n
<1>5. QED
  BY <1>3, <1>4

\* The first thread of a queue leaves it: sema_v(), wakeups and t_release().
LEMMA TailProperties ==
    ASSUME NEW T, NEW q \in Seq(T), q # <<>>, IsInjective(q)
    PROVE  /\ Head(q) \in T /\ Tail(q) \in Seq(T) /\ Len(Tail(q)) = Len(q) - 1
           /\ OnQueue(q, Head(q))
           /\ \A u : OnQueue(Tail(q), u) <=> OnQueue(q, u) /\ u # Head(q)
           /\ IsInjective(Tail(q))
           /\ \A pri \in [T -> Int] : Sorted(q, pri) =>
                 /\ Sorted(Tail(q), pri)
                 /\ \A u : OnQueue(q, u) => pri[u] <= pri[Head(q)]
<1>1. /\ Len(q) \in Nat \ {0} /\ DOMAIN q = 1 .. Len(q)
      /\ \A i \in 1 .. Len(q) : q[i] \in T
  BY SMTT(30)
<1>2. \A i, j \in 1 .. Len(q) : q[i] = q[j] => i = j
  BY <1>1 DEF IsInjective
<1> DEFINE n == Tail(q)
<1>3. /\ Head(q) = q[1] /\ Head(q) \in T /\ n \in Seq(T) /\ Len(n) = Len(q) - 1
      /\ \A i \in 1 .. Len(q) - 1 : n[i] = q[i + 1]
  BY SMTT(30), HeadTailProperties
<1>4. DOMAIN n = 1 .. Len(q) - 1
  BY SMTT(30), <1>3
<1> HIDE DEF n
<1>5. ASSUME NEW u PROVE OnQueue(n, u) <=> OnQueue(q, u) /\ u # Head(q)
  <2>1. ASSUME NEW i \in 1 .. Len(q) - 1, n[i] = u PROVE OnQueue(q, u) /\ u # Head(q)
    <3>1. i + 1 \in 1 .. Len(q) /\ i + 1 # 1 /\ 1 \in 1 .. Len(q)
      BY SMTT(30), <1>1
    <3>2. QED
      BY <1>1, <1>2, <1>3, <2>1, <3>1 DEF OnQueue
  <2>2. ASSUME NEW j \in 1 .. Len(q), q[j] = u, u # Head(q) PROVE OnQueue(n, u)
    <3>1. j # 1
      BY <1>3, <2>2
    <3>2. j - 1 \in 1 .. Len(q) - 1 /\ (j - 1) + 1 = j
      BY SMTT(30), <1>1, <3>1
    <3>3. n[j - 1] = u
      BY <1>3, <2>2, <3>2
    <3>4. QED
      BY <1>4, <3>2, <3>3 DEF OnQueue
  <2>3. QED
    BY <1>1, <1>4, <2>1, <2>2 DEF OnQueue
<1>6. IsInjective(n)
  <2>1. ASSUME NEW i \in 1 .. Len(q) - 1, NEW j \in 1 .. Len(q) - 1, n[i] = n[j]
        PROVE  i = j
    <3>1. i + 1 \in 1 .. Len(q) /\ j + 1 \in 1 .. Len(q)
      BY SMTT(30), <1>1
    <3>2. i + 1 = j + 1
      BY <1>2, <1>3, <2>1, <3>1
    <3>3. QED
      BY SMTT(30), <1>1, <3>2
  <2>2. QED
    BY <1>4, <2>1 DEF IsInjective
<1>7. ASSUME NEW pri \in [T -> Int], Sorted(q, pri)
      PROVE  Sorted(n, pri) /\ \A u : OnQueue(q, u) => pri[u] <= pri[Head(q)]
  <2>1. \A i, j \in 1 .. Len(q) : i < j => pri[q[i]] >= pri[q[j]]
    BY <1>1, <1>7 DEF Sorted
  <2>2. ASSUME NEW i \in 1 .. Len(q) - 1, NEW j \in 1 .. Len(q) - 1, i < j
        PROVE  pri[n[i]] >= pri[n[j]]
    <3>1. i + 1 \in 1 .. Len(q) /\ j + 1 \in 1 .. Len(q) /\ i + 1 < j + 1
      BY SMTT(30), <1>1, <2>2
    <3>2. QED
      BY <1>3, <2>1, <3>1
  <2>3. ASSUME NEW j \in 1 .. Len(q) PROVE pri[q[j]] <= pri[Head(q)]
    <3>1. pri[q[j]] \in Int /\ 1 \in 1 .. Len(q) /\ (j = 1 \/ 1 < j)
      BY SMTT(30), <1>1
    <3>2. QED
      BY SMTT(30), <1>3, <2>1, <3>1
  <2>4. QED
    BY <1>1, <1>4, <2>2, <2>3 DEF Sorted, OnQueue
<1>8. OnQueue(q, Head(q))
  BY SMTT(30), <1>1, <1>3 DEF OnQueue
<1>9. QED
  BY <1>3, <1>5, <1>6, <1>7, <1>8 DEF n

(* The laws that the proofs about locks cite. *)

\* Subsets of a finite set of threads are counted as one expects.
THEOREM FiniteLawsHold == ASSUME NEW T, IsFiniteSet(T) PROVE FiniteLaws(T)
<1>1. Cardinality({}) = 0
  BY FS_EmptySet
<1>2. ASSUME NEW S \in SUBSET T
      PROVE  /\ Cardinality(S) \in Nat
             /\ Cardinality(S) = 0 => S = {}
             /\ Cardinality(S) = 1 => \E x \in T : S = {x}
             /\ \A x \in T \ S : Cardinality(S \cup {x}) = Cardinality(S) + 1
             /\ \A U \in SUBSET S : Cardinality(U) <= Cardinality(S)
  <2>1. IsFiniteSet(S) /\ Cardinality(S) \in Nat
    BY FS_Subset, FS_CardinalityType
  <2>2. Cardinality(S) = 0 => S = {}
    BY <2>1, FS_EmptySet
  <2>3. Cardinality(S) = 1 => \E x \in T : S = {x}
    <3>1. Cardinality(S) = 1 => \E x : S = {x}
      BY <2>1, FS_Singleton
    <3>2. QED
      BY <3>1
  <2>4. \A x \in T \ S : Cardinality(S \cup {x}) = Cardinality(S) + 1
    BY <2>1, FS_AddElement
  <2>5. \A U \in SUBSET S : Cardinality(U) <= Cardinality(S)
    BY <2>1, FS_Subset
  <2>6. QED
    BY <2>1, <2>2, <2>3, <2>4, <2>5
<1>3. QED
  BY <1>1, <1>2 DEF FiniteLaws

\* sleepq_insert(), sleepq_dequeue() and taking the first thread keep a sleep
\* queue ordered by priority, without duplicates, and lose nobody.
THEOREM QueueLawsHold == ASSUME NEW T PROVE QueueLaws(T)
<1>1. InsertLaw(T)
  BY InsertProperties DEF InsertLaw
<1>2. DequeueLaw(T)
  BY DequeueProperties DEF DequeueLaw
<1>3. TailLaw(T)
  BY TailProperties DEF TailLaw
<1>4. QED
  BY <1>1, <1>2, <1>3 DEF QueueLaws
==============================================================================
