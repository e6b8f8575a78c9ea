-------------------------- MODULE Documents_proofs --------------------------
(***************************************************************************)
(* Proofs about the documents: first that replicas of one document put     *)
(* together agree and drop nothing (CrdtReplicas), for every set of        *)
(* replicas and documents and any number of edits, then about the rounds   *)
(* that exchange them (DocumentSync), for every set of documents and       *)
(* changes.                                                                *)
(***************************************************************************)
EXTENDS DocumentSync, CrdtReplicas, Integers, FiniteSetTheorems, SequenceTheorems, WellFoundedInduction, TLAPS

----------------------------------------------------------------------------
(* Induction, and the ranks of the elements of a finite ordered set        *)

LEMMA LeastNatural ==
  ASSUME NEW S \in SUBSET Nat, S # {}
  PROVE  \E n \in S : \A m \in S : n <= m
<1> DEFINE Under(n) == 0 .. (n - 1)
           T == {Under(n) : n \in S}
<1>1. IsWellFoundedOn(StrictSubsetOrdering(Nat), FiniteSubsetsOf(Nat))
  BY FS_StrictSubsetOrderingWellFounded
<1>2. T \subseteq FiniteSubsetsOf(Nat) /\ T # {}
  <2>1. ASSUME NEW n \in S PROVE Under(n) \in FiniteSubsetsOf(Nat)
    <3>1. n \in Int /\ n - 1 \in Int
      OBVIOUS
    <3>2. IsFiniteSet(Under(n)) /\ Under(n) \in SUBSET Nat
      BY <3>1, FS_Interval
    <3> QED
      BY <3>2 DEF FiniteSubsetsOf
  <2> QED
    BY <2>1
<1>3. PICK x \in T : \A y \in T : <<y, x>> \notin StrictSubsetOrdering(Nat)
  <2> HIDE DEF T
  <2> QED
    BY <1>1, <1>2, WFMin
<1>4. PICK n \in S : x = Under(n)
  BY <1>3
<1>5. ASSUME NEW m \in S, m < n PROVE FALSE
  <2>1. Under(m) \subseteq Under(n) /\ Under(m) # Under(n)
    BY <1>5
  <2>2. Under(m) \in SUBSET Nat /\ Under(n) \in SUBSET Nat
    OBVIOUS
  <2>3. <<Under(m), Under(n)>> \in StrictSubsetOrdering(Nat)
    <3> HIDE DEF Under
    <3> QED
      BY <2>1, <2>2 DEF StrictSubsetOrdering
  <2> QED
    BY <2>3, <1>3, <1>4
<1> QED
  BY <1>5

\* What is true of the first number, and of each number if of the one before
\* it, is true of all: S is the set of the numbers it is true of.
LEMMA UpToN ==
  ASSUME NEW N \in Nat, NEW S, 0 \in S,
         \A n \in 1 .. N : n - 1 \in S => n \in S
  PROVE  \A n \in 0 .. N : n \in S
<1> DEFINE Bad == {n \in 0 .. N : n \notin S}
<1>1. SUFFICES ASSUME Bad # {} PROVE FALSE
  OBVIOUS
<1>2. PICK n \in Bad : \A m \in Bad : n <= m
  <2>1. Bad \in SUBSET Nat
    OBVIOUS
  <2> HIDE DEF Bad
  <2> QED
    BY <1>1, <2>1, LeastNatural
<1>3. n # 0 /\ n \in 1 .. N /\ n - 1 \in 0 .. N /\ n - 1 < n
  BY <1>2
<1>4. n - 1 \in S
  BY <1>2, <1>3
<1> QED
  BY <1>2, <1>3, <1>4

Orders(R, S) ==
  /\ \A i \in S : <<i, i>> \notin R
  /\ \A i, j, k \in S : <<i, j>> \in R /\ <<j, k>> \in R => <<i, k>> \in R
  /\ \A i, j \in S : i = j \/ <<i, j>> \in R \/ <<j, i>> \in R

Lower(R, S, i) == {j \in S : <<j, i>> \in R}

LEMMA LowerGrows ==
  ASSUME NEW S, IsFiniteSet(S), NEW R, Orders(R, S), NEW i \in S, NEW j \in S, <<i, j>> \in R
  PROVE  Cardinality(Lower(R, S, i)) < Cardinality(Lower(R, S, j))
<1>1. Lower(R, S, i) \subseteq Lower(R, S, j)
  BY DEF Orders, Lower
<1>2. i \in Lower(R, S, j) /\ i \notin Lower(R, S, i)
  BY DEF Orders, Lower
<1>3. IsFiniteSet(Lower(R, S, j)) /\ IsFiniteSet(Lower(R, S, i))
  BY FS_Subset DEF Lower
<1>4. Cardinality(Lower(R, S, i)) \in Nat /\ Cardinality(Lower(R, S, j)) \in Nat
  BY <1>3, FS_CardinalityType
<1>5. Cardinality(Lower(R, S, i)) <= Cardinality(Lower(R, S, j))
      /\ Cardinality(Lower(R, S, i)) # Cardinality(Lower(R, S, j))
  BY <1>1, <1>2, <1>3, FS_Subset
<1> QED
  BY <1>4, <1>5

LEMMA Ranks ==
  ASSUME NEW S, IsFiniteSet(S), NEW R, Orders(R, S)
  PROVE  /\ \A i \in S : Cardinality(Lower(R, S, i)) \in 0 .. Cardinality(S) - 1
         /\ \A i, j \in S : Cardinality(Lower(R, S, i)) = Cardinality(Lower(R, S, j)) => i = j
         /\ \A n \in 1 .. Cardinality(S) : \E i \in S : Cardinality(Lower(R, S, i)) = n - 1
<1> DEFINE N == Cardinality(S)
           f == [i \in S |-> Cardinality(Lower(R, S, i))]
<1>1. N \in Nat
  BY FS_CardinalityType
<1>2. ASSUME NEW i \in S PROVE f[i] \in 0 .. N - 1
  <2>1. Lower(R, S, i) \subseteq S \ {i}
    BY DEF Orders, Lower
  <2>2. IsFiniteSet(S \ {i}) /\ Cardinality(S \ {i}) = N - 1
    BY FS_RemoveElement
  <2>3. IsFiniteSet(Lower(R, S, i)) /\ Cardinality(Lower(R, S, i)) <= N - 1
    BY <2>1, <2>2, FS_Subset
  <2>4. Cardinality(Lower(R, S, i)) \in Nat
    BY <2>3, FS_CardinalityType
  <2> QED
    BY <1>1, <2>3, <2>4
<1>3. ASSUME NEW i \in S, NEW j \in S, f[i] = f[j] PROVE i = j
  <2>1. Cardinality(Lower(R, S, i)) \in Nat /\ Cardinality(Lower(R, S, j)) \in Nat
    BY <1>2, <1>1
  <2>2. SUFFICES ASSUME i # j PROVE FALSE
    OBVIOUS
  <2>3. <<i, j>> \in R \/ <<j, i>> \in R
    BY <2>2 DEF Orders
  <2>4. Cardinality(Lower(R, S, i)) < Cardinality(Lower(R, S, j))
        \/ Cardinality(Lower(R, S, j)) < Cardinality(Lower(R, S, i))
    BY <2>3, LowerGrows
  <2> QED
    BY <1>3, <2>1, <2>4
<1>4. f \in Injection(S, 0 .. N - 1)
  <2> HIDE DEF N
  <2>1. f \in [S -> 0 .. N - 1]
    BY <1>2
  <2> HIDE DEF f
  <2> QED
    BY <1>3, <2>1 DEF Injection, IsInjective
<1>5. IsFiniteSet(0 .. N - 1) /\ Cardinality(0 .. N - 1) = N
  <2>1. 0 \in Int /\ N - 1 \in Int
    BY <1>1
  <2>2. IsFiniteSet(0 .. N - 1) /\ Cardinality(0 .. N - 1) = IF 0 > N - 1 THEN 0 ELSE (N - 1) - 0 + 1
    <3> HIDE DEF N
    <3> QED BY <2>1, FS_Interval
  <2> QED
    BY <1>1, <2>2
<1>6. f \in Surjection(S, 0 .. N - 1)
  <2> HIDE DEF f
  <2> QED BY <1>4, <1>5, FS_Injection
<1>7. ASSUME NEW n \in 1 .. N PROVE \E i \in S : f[i] = n - 1
  <2>1. n - 1 \in 0 .. N - 1
    BY <1>1
  <2> HIDE DEF f
  <2> QED BY <2>1, <1>6 DEF Surjection
<1> QED
  BY <1>2, <1>3, <1>7

----------------------------------------------------------------------------
(* The names of operations, and sequences made from sets and sequences     *)

Name == (Nat \ {0}) \X Nat

Places == Name \cup {Root}

BeforeOn(S) == {p \in S \X S : Before(p[1], p[2])}

LEMMA BeforeOrders ==
  ASSUME NEW S \in SUBSET Places
  PROVE  Orders(BeforeOn(S), S)
<1>1. \A i \in S : i[1] \in Nat /\ i[2] \in Nat /\ i = <<i[1], i[2]>>
  BY DEF Places, Name, Root
<1>2. \A i, j \in S : <<i, j>> \in BeforeOn(S) <=> Before(i, j)
  BY DEF BeforeOn
<1>3. \A i \in S : ~ Before(i, i)
  BY <1>1 DEF Before
<1>4. \A i, j, k \in S : Before(i, j) /\ Before(j, k) => Before(i, k)
  BY <1>1 DEF Before
<1>5. \A i, j \in S : i = j \/ Before(i, j) \/ Before(j, i)
  BY <1>1 DEF Before
<1> QED
  BY <1>2, <1>3, <1>4, <1>5 DEF Orders

LEMMA BeforeLower ==
  ASSUME NEW S, NEW i \in S
  PROVE  Lower(BeforeOn(S), S, i) = {j \in S : Before(j, i)}
BY DEF Lower, BeforeOn

\* A sequence that is written as a function is the whole of its own subsequences.
LEMMA WholeSequence ==
  ASSUME NEW N \in Nat, NEW f, f = [n \in 1 .. N |-> f[n]]
  PROVE  SubSeq(f, 1, N) = f
<1> DEFINE X == {f[n] : n \in 1 .. N}
           s == SubSeq(f, 1, N)
<1>1. 1 \in Int /\ N \in Int /\ \A n \in 1 .. N : f[n] \in X
  OBVIOUS
<1>2. f \in Seq(X) /\ Len(f) = N
  <2>1. f \in [1 .. N -> X]
    BY <1>1
  <2> HIDE DEF X
  <2> QED BY <2>1
<1> HIDE DEF X
<1>3. s \in Seq(X) /\ Len(s) = (IF 1 <= N THEN N - 1 + 1 ELSE 0) /\ \A n \in 1 .. N - 1 + 1 : s[n] = f[1 + n - 1]
  BY <1>1, SubSeqProperties
<1> HIDE DEF s
<1>4. Len(s) = N /\ \A n \in 1 .. N : s[n] = f[n]
  <2>1. N - 1 + 1 = N /\ (N < 1 => N = 0) /\ \A n \in 1 .. N : 1 + n - 1 = n
    OBVIOUS
  <2>2. \A n \in 1 .. N : s[n] = f[1 + n - 1]
    BY <1>3, <2>1
  <2>3. Len(s) = N
    BY <1>3, <2>1
  <2> QED BY <2>1, <2>2, <2>3
<1>5. s = f
  BY <1>2, <1>3, <1>4, SeqEqual
<1> QED
  BY <1>5 DEF s

\* InOrder lists a finite set of names, each once.
LEMMA InOrderProperties ==
  ASSUME NEW S \in SUBSET Places, IsFiniteSet(S)
  PROVE  /\ Cardinality(S) \in Nat
         /\ InOrder(S) \in [1 .. Cardinality(S) -> S]
         /\ \A i \in S : \E k \in 1 .. Cardinality(S) : InOrder(S)[k] = i
         /\ \A k, l \in 1 .. Cardinality(S) : InOrder(S)[k] = InOrder(S)[l] => k = l
<1> DEFINE N == Cardinality(S)
           rank(i) == Cardinality({j \in S : Before(j, i)})
<1>1. N \in Nat
  BY FS_CardinalityType
<1>2. Orders(BeforeOn(S), S)
  BY BeforeOrders
<1>3. /\ \A i \in S : rank(i) \in 0 .. N - 1
      /\ \A i, j \in S : rank(i) = rank(j) => i = j
      /\ \A n \in 1 .. N : \E i \in S : rank(i) = n - 1
  <2>1. ASSUME NEW i \in S PROVE rank(i) = Cardinality(Lower(BeforeOn(S), S, i))
    <3>1. Lower(BeforeOn(S), S, i) = {j \in S : Before(j, i)}
      BY BeforeLower
    <3> QED BY <3>1
  <2> HIDE DEF rank
  <2> QED
    BY <1>2, <2>1, Ranks
<1>4. InOrder(S) = [k \in 1 .. N |-> CHOOSE i \in S : rank(i) = k - 1]
  <2> DEFINE f == [k \in 1 .. N |-> CHOOSE i \in S : rank(i) = k - 1]
  <2>1. InOrder(S) = SubSeq(f, 1, N)
    BY DEF InOrder
  <2>2. f = [k \in 1 .. N |-> f[k]]
    <3> HIDE DEF N, rank
    <3> QED OBVIOUS
  <2> HIDE DEF f
  <2>3. SubSeq(f, 1, N) = f
    BY <1>1, <2>2, WholeSequence
  <2> QED BY <2>1, <2>3 DEF f
<1> HIDE DEF N, rank
<1>5. ASSUME NEW k \in 1 .. N PROVE InOrder(S)[k] \in S /\ rank(InOrder(S)[k]) = k - 1
  BY <1>3, <1>4
<1>6. InOrder(S) \in [1 .. N -> S]
  BY <1>4, <1>5
<1>7. ASSUME NEW i \in S PROVE \E k \in 1 .. N : InOrder(S)[k] = i
  <2>1. rank(i) + 1 \in 1 .. N /\ (rank(i) + 1) - 1 = rank(i)
    BY <1>1, <1>3
  <2> QED
    BY <2>1, <1>3, <1>5
<1>8. ASSUME NEW k \in 1 .. N, NEW l \in 1 .. N, InOrder(S)[k] = InOrder(S)[l] PROVE k = l
  BY <1>1, <1>5, <1>8
<1> QED
  BY <1>1, <1>6, <1>7, <1>8 DEF N

Distinct(s) == \A k, l \in DOMAIN s : s[k] = s[l] => k = l

LEMMA InOrderIsSeq ==
  ASSUME NEW S \in SUBSET Places, IsFiniteSet(S)
  PROVE  /\ InOrder(S) \in Seq(S)
         /\ Range(InOrder(S)) = S
         /\ Distinct(InOrder(S))
<1> DEFINE s == InOrder(S)
           N == Cardinality(S)
<1>1. N \in Nat /\ s \in [1 .. N -> S]
  BY InOrderProperties
<1>2. DOMAIN s = 1 .. N
  BY <1>1
<1>3. s \in Seq(S)
  <2> HIDE DEF s, N
  <2> QED BY <1>1
<1>4. \A i \in S : \E k \in 1 .. N : s[k] = i
  BY InOrderProperties
<1>5. \A k, l \in 1 .. N : s[k] = s[l] => k = l
  BY InOrderProperties
<1>6. Range(s) = S
  <2> HIDE DEF s, N
  <2> QED BY <1>1, <1>2, <1>4 DEF Range
<1>7. Distinct(s)
  <2> HIDE DEF s, N
  <2> QED BY <1>2, <1>5 DEF Distinct
<1> QED
  BY <1>3, <1>6, <1>7

LessOn(S) == {p \in S \X S : p[1] < p[2]}

LEMMA LessOrders ==
  ASSUME NEW S \in SUBSET Nat
  PROVE  Orders(LessOn(S), S)
<1>1. \A i, j \in S : <<i, j>> \in LessOn(S) <=> i < j
  BY DEF LessOn
<1>2. \A i \in S : i \in Nat
  OBVIOUS
<1>3. \A i \in S : ~(i < i)
  BY <1>2
<1>4. \A i, j, k \in S : i < j /\ j < k => i < k
  BY <1>2
<1>5. \A i, j \in S : i = j \/ i < j \/ j < i
  BY <1>2
<1> QED
  BY <1>1, <1>3, <1>4, <1>5 DEF Orders

\* Only keeps what is in the set, in order, and nothing else.
LEMMA OnlyProperties ==
  ASSUME NEW X, NEW s \in Seq(X), NEW S
  PROVE  /\ Only(s, S) \in Seq(X)
         /\ Range(Only(s, S)) = Range(s) \cap S
         /\ Distinct(s) => Distinct(Only(s, S))
<1> DEFINE at == {k \in DOMAIN s : s[k] \in S}
           N == Cardinality(at)
           rank(k) == Cardinality({j \in at : j < k})
           nth(n) == CHOOSE k \in at : rank(k) = n - 1
           o == Only(s, S)
<1>1. DOMAIN s = 1 .. Len(s) /\ Len(s) \in Nat
  OBVIOUS
<1>2. at \in SUBSET Nat /\ IsFiniteSet(at)
  <2>1. IsFiniteSet(1 .. Len(s))
    <3>1. 1 \in Int /\ Len(s) \in Int
      BY <1>1
    <3> QED BY <3>1, FS_Interval
  <2> QED
    BY <1>1, <2>1, FS_Subset
<1>3. N \in Nat
  BY <1>2, FS_CardinalityType
<1>4. ASSUME NEW i \in at PROVE rank(i) = Cardinality(Lower(LessOn(at), at, i))
  <2>1. Lower(LessOn(at), at, i) = {j \in at : j < i}
    BY DEF Lower, LessOn
  <2> QED
    BY <2>1
<1>5. Orders(LessOn(at), at)
  <2> HIDE DEF at
  <2> QED BY <1>2, LessOrders
<1>6. /\ \A i \in at : rank(i) \in 0 .. N - 1
      /\ \A i, j \in at : rank(i) = rank(j) => i = j
      /\ \A n \in 1 .. N : \E i \in at : rank(i) = n - 1
  <2> DEFINE R == LessOn(at)
  <2>1. IsFiniteSet(at) /\ Orders(R, at)
    BY <1>2, <1>5
  <2>2. \A i \in at : rank(i) = Cardinality(Lower(R, at, i))
    BY <1>4
  <2> HIDE DEF R, at, rank
  <2>3. /\ \A i \in at : Cardinality(Lower(R, at, i)) \in 0 .. N - 1
        /\ \A i, j \in at : Cardinality(Lower(R, at, i)) = Cardinality(Lower(R, at, j)) => i = j
        /\ \A n \in 1 .. N : \E i \in at : Cardinality(Lower(R, at, i)) = n - 1
    BY <2>1, Ranks
  <2> HIDE DEF N
  <2> QED BY <2>2, <2>3
<1>7. o = [n \in 1 .. N |-> s[nth(n)]]
  <2> DEFINE f == [n \in 1 .. N |-> s[nth(n)]]
  <2>1. o = SubSeq(f, 1, N)
    BY DEF Only
  <2>2. f = [n \in 1 .. N |-> f[n]]
    OBVIOUS
  <2> HIDE DEF f
  <2>3. SubSeq(f, 1, N) = f
    BY <1>3, <2>2, WholeSequence
  <2> HIDE DEF o
  <2> QED BY <2>1, <2>3 DEF f
<1>8. \A k \in at : k \in DOMAIN s /\ s[k] \in S /\ s[k] \in X
  BY <1>1
<1>9. \A k \in DOMAIN s : s[k] \in S => k \in at
  OBVIOUS
<1> HIDE DEF at, N, rank
<1>10. ASSUME NEW n \in 1 .. N PROVE nth(n) \in at /\ rank(nth(n)) = n - 1
  BY <1>6
<1>11. \A n, m \in 1 .. N : nth(n) = nth(m) => n = m
  BY <1>3, <1>10
<1> HIDE DEF nth
<1>12. DOMAIN o = 1 .. N /\ \A n \in 1 .. N : o[n] = s[nth(n)]
  BY <1>7
<1>13. o \in Seq(X)
  <2>1. o \in [1 .. N -> X]
    BY <1>7, <1>8, <1>10
  <2> HIDE DEF o
  <2> QED BY <2>1, <1>3
<1>14. ASSUME NEW k \in at PROVE \E n \in 1 .. N : nth(n) = k
  <2>1. rank(k) + 1 \in 1 .. N /\ (rank(k) + 1) - 1 = rank(k)
    BY <1>3, <1>6
  <2> QED
    BY <2>1, <1>6, <1>10
<1> HIDE DEF o
<1>15. Range(o) = Range(s) \cap S
  <2>1. ASSUME NEW x \in Range(o) PROVE x \in Range(s) \cap S
    BY <2>1, <1>8, <1>10, <1>12 DEF Range
  <2>2. ASSUME NEW x \in Range(s), x \in S PROVE x \in Range(o)
    <3>1. PICK k \in DOMAIN s : x = s[k]
      BY DEF Range
    <3>2. PICK n \in 1 .. N : nth(n) = k
      BY <1>9, <1>14, <2>2, <3>1
    <3> QED
      BY <1>12, <3>1, <3>2 DEF Range
  <2> QED
    BY <2>1, <2>2
<1>16. ASSUME Distinct(s) PROVE Distinct(o)
  <2>1. ASSUME NEW n \in 1 .. N, NEW m \in 1 .. N, o[n] = o[m] PROVE n = m
    BY <1>8, <1>10, <1>11, <1>12, <1>16, <2>1 DEF Distinct
  <2> QED
    BY <2>1, <1>12 DEF Distinct
<1> QED
  BY <1>13, <1>15, <1>16 DEF o

Flattens(w, n, seqs) == w = [i \in 1 .. n |-> IF i = 1 THEN seqs[i] ELSE w[i - 1] \o seqs[i]]

LEMMA FlattenExists ==
  ASSUME NEW seqs, NEW N \in Nat \ {0}
  PROVE  \E w : Flattens(w, N, seqs)
<1> DEFINE S == {n \in Nat : \E w : Flattens(w, n + 1, seqs)}
<1>1. 0 \in S
  <2> DEFINE v == [i \in 1 .. 1 |-> seqs[i]]
  <2>1. v = [i \in 1 .. 1 |-> IF i = 1 THEN seqs[i] ELSE v[i - 1] \o seqs[i]]
    <3>1. \A i \in 1 .. 1 : i = 1
      OBVIOUS
    <3> QED BY <3>1
  <2>2. 0 + 1 = 1 /\ 0 \in Nat
    OBVIOUS
  <2> HIDE DEF v
  <2>3. Flattens(v, 1, seqs)
    BY <2>1 DEF Flattens
  <2>4. \E w : Flattens(w, 0 + 1, seqs)
    BY <2>2, <2>3
  <2> QED BY <2>2, <2>4
<1>2. ASSUME NEW n \in 1 .. N, n - 1 \in S PROVE n \in S
  <2>1. PICK w : Flattens(w, n, seqs)
    <3>1. (n - 1) + 1 = n
      OBVIOUS
    <3> QED BY <1>2, <3>1
  <2> DEFINE v == [i \in 1 .. n + 1 |-> IF i = n + 1 THEN w[n] \o seqs[n + 1] ELSE w[i]]
  <2>2. ASSUME NEW i \in 1 .. n + 1
        PROVE  v[i] = IF i = 1 THEN seqs[i] ELSE v[i - 1] \o seqs[i]
    <3>1. CASE i = n + 1
      <4>1. i # 1 /\ i - 1 = n /\ n \in 1 .. n + 1 /\ n # n + 1
        BY <3>1
      <4> QED BY <3>1, <4>1
    <3>2. CASE i = 1
      <4>1. i \in 1 .. n /\ i # n + 1
        BY <3>2
      <4>2. w[i] = seqs[i]
        BY <2>1, <3>2, <4>1 DEF Flattens
      <4> QED BY <3>2, <4>1, <4>2
    <3>3. CASE i # n + 1 /\ i # 1
      <4>1. i \in 1 .. n /\ i - 1 \in 1 .. n + 1 /\ i - 1 # n + 1
        BY <3>3
      <4>2. w[i] = w[i - 1] \o seqs[i]
        BY <2>1, <3>3, <4>1 DEF Flattens
      <4> QED BY <3>3, <4>1, <4>2
    <3> QED BY <3>1, <3>2, <3>3
  <2>3. Flattens(v, n + 1, seqs)
    <3>1. v = [i \in 1 .. n + 1 |-> v[i]]
      OBVIOUS
    <3> HIDE DEF v
    <3> QED BY <3>1, <2>2 DEF Flattens
  <2>4. n \in Nat
    OBVIOUS
  <2> QED
    BY <2>3, <2>4
<1>3. N - 1 \in S
  <2> HIDE DEF S
  <2> QED BY <1>1, <1>2, UpToN
<1>4. (N - 1) + 1 = N
  OBVIOUS
<1> QED
  BY <1>3, <1>4

\* FlattenSeq has the elements of all the sequences, each once if the
\* sequences have it once and no two have the same.
LEMMA FlattenProperties ==
  ASSUME NEW X, NEW seqs \in Seq(Seq(X))
  PROVE  /\ FlattenSeq(seqs) \in Seq(X)
         /\ Range(FlattenSeq(seqs)) = UNION {Range(seqs[k]) : k \in DOMAIN seqs}
         /\ (/\ \A k \in DOMAIN seqs : Distinct(seqs[k])
             /\ \A k, l \in DOMAIN seqs : k # l => Range(seqs[k]) \cap Range(seqs[l]) = {})
            => Distinct(FlattenSeq(seqs))
<1> DEFINE N == Len(seqs)
           f == FlattenSeq(seqs)
<1>1. N \in Nat /\ DOMAIN seqs = 1 .. N /\ \A k \in 1 .. N : seqs[k] \in Seq(X)
  OBVIOUS
<1>2. CASE N = 0
  <2>1. seqs = <<>> /\ f = <<>>
    BY <1>1, <1>2 DEF FlattenSeq
  <2>2. DOMAIN seqs = {}
    BY <1>1, <1>2
  <2>3. f \in Seq(X) /\ DOMAIN f = {}
    <3>1. <<>> \in Seq(X) /\ DOMAIN <<>> = {}
      OBVIOUS
    <3> HIDE DEF f
    <3> QED BY <2>1, <3>1
  <2>4. UNION {Range(seqs[k]) : k \in DOMAIN seqs} = {}
    BY <2>2
  <2>5. Range(f) = {}
    <3> HIDE DEF f
    <3> QED BY <2>3 DEF Range
  <2>6. Distinct(f)
    <3> HIDE DEF f
    <3> QED BY <2>3 DEF Distinct
  <2> QED
    BY <2>3, <2>4, <2>5, <2>6
<1>3. CASE N # 0
  <2> DEFINE w == CHOOSE v : Flattens(v, N, seqs)
             Part(k) == UNION {Range(seqs[j]) : j \in 1 .. k}
             Apart(k) == /\ \A j \in 1 .. k : Distinct(seqs[j])
                         /\ \A j, l \in 1 .. k : j # l => Range(seqs[j]) \cap Range(seqs[l]) = {}
             Good(k) == w[k] \in Seq(X) /\ Range(w[k]) = Part(k) /\ (Apart(k) => Distinct(w[k]))
             S == {n \in Nat : Good(n + 1)}
  <2>1. f = w[N]
    BY <1>3 DEF FlattenSeq, Flattens
  <2>2. N \in Nat \ {0}
    BY <1>1, <1>3
  <2>3. Flattens(w, N, seqs)
    <3> HIDE DEF N
    <3> QED BY <2>2, FlattenExists
  <2> HIDE DEF w, N, f
  <2>4. w[1] = seqs[1] /\ \A k \in 2 .. N : w[k] = w[k - 1] \o seqs[k]
    <3>1. 1 \in 1 .. N /\ \A k \in 2 .. N : k \in 1 .. N /\ k # 1
      BY <2>2
    <3> QED BY <2>3, <3>1 DEF Flattens
  <2>5. Good(1)
    <3>1. 1 .. 1 = {1} /\ 1 \in 1 .. N
      BY <2>2
    <3> QED BY <1>1, <2>4, <3>1
  <2>6. ASSUME NEW k \in 2 .. N, Good(k - 1) PROVE Good(k)
    <3> DEFINE s == w[k - 1]
               t == seqs[k]
               u == s \o t
    <3>1. k \in 1 .. N /\ s \in Seq(X) /\ t \in Seq(X)
      BY <1>1, <2>6
    <3>2. w[k] = u
      BY <2>4
    <3> HIDE DEF s, t
    <3>3. /\ u \in Seq(X)
          /\ DOMAIN u = 1 .. Len(s) + Len(t)
          /\ DOMAIN s = 1 .. Len(s) /\ DOMAIN t = 1 .. Len(t)
          /\ Len(s) \in Nat /\ Len(t) \in Nat
          /\ \A i \in 1 .. Len(s) + Len(t) : u[i] = IF i <= Len(s) THEN s[i] ELSE t[i - Len(s)]
      BY <3>1, ConcatProperties
    <3> HIDE DEF u
    <3>4. Range(u) = Range(s) \cup Range(t)
      <4>1. ASSUME NEW x \in Range(u) PROVE x \in Range(s) \cup Range(t)
        <5>1. PICK i \in DOMAIN u : x = u[i]
          BY DEF Range
        <5>2. CASE i <= Len(s)
          <6>1. i \in DOMAIN s /\ x = s[i]
            BY <3>3, <5>1, <5>2
          <6> QED BY <6>1 DEF Range
        <5>3. CASE ~(i <= Len(s))
          <6>1. i - Len(s) \in DOMAIN t /\ x = t[i - Len(s)]
            BY <3>3, <5>1, <5>3
          <6> QED BY <6>1 DEF Range
        <5> QED BY <5>2, <5>3
      <4>2. ASSUME NEW x \in Range(s) PROVE x \in Range(u)
        <5>1. PICK i \in DOMAIN s : x = s[i]
          BY DEF Range
        <5>2. i \in DOMAIN u /\ u[i] = x
          BY <3>3, <5>1
        <5> QED BY <5>2 DEF Range
      <4>3. ASSUME NEW x \in Range(t) PROVE x \in Range(u)
        <5>1. PICK i \in DOMAIN t : x = t[i]
          BY DEF Range
        <5>2. i + Len(s) \in DOMAIN u /\ u[i + Len(s)] = x
          BY <3>3, <5>1
        <5> QED BY <5>2 DEF Range
      <4> QED BY <4>1, <4>2, <4>3
    <3>5. 1 .. k = (1 .. k - 1) \cup {k} /\ k \notin 1 .. k - 1
      OBVIOUS
    <3>6. Part(k) = Part(k - 1) \cup Range(t)
      BY <3>5 DEF t
    <3>7. Range(s) = Part(k - 1)
      BY <2>6 DEF s
    <3>8. ASSUME Apart(k) PROVE Distinct(u)
      <4>1. Distinct(s) /\ Distinct(t)
        BY <2>6, <3>5, <3>8 DEF s, t
      <4>2. Range(s) \cap Range(t) = {}
        <5>1. ASSUME NEW j \in 1 .. k - 1 PROVE Range(seqs[j]) \cap Range(seqs[k]) = {}
          <6>1. j \in 1 .. k /\ k \in 1 .. k /\ j # k
            OBVIOUS
          <6> QED BY <3>8, <6>1
        <5> QED BY <3>7, <5>1 DEF t
      <4>3. ASSUME NEW i \in DOMAIN u, NEW j \in DOMAIN u, u[i] = u[j] PROVE i = j
        <5>1. \A n \in DOMAIN u : \/ n <= Len(s) /\ n \in DOMAIN s /\ u[n] = s[n] /\ u[n] \in Range(s)
                                  \/ ~(n <= Len(s)) /\ n - Len(s) \in DOMAIN t /\ u[n] = t[n - Len(s)]
                                     /\ u[n] \in Range(t)
          <6> TAKE n \in DOMAIN u
          <6>1. CASE n <= Len(s)
            <7>1. n \in DOMAIN s /\ u[n] = s[n]
              BY <3>3, <6>1
            <7> QED BY <6>1, <7>1 DEF Range
          <6>2. CASE ~(n <= Len(s))
            <7>1. n - Len(s) \in DOMAIN t /\ u[n] = t[n - Len(s)]
              BY <3>3, <6>2
            <7> QED BY <6>2, <7>1 DEF Range
          <6> QED BY <6>1, <6>2
        <5>2. i \in Nat /\ j \in Nat
          BY <3>3
        <5>3. CASE i <= Len(s) /\ j <= Len(s)
          BY <4>1, <4>3, <5>1, <5>3 DEF Distinct
        <5>4. CASE ~(i <= Len(s)) /\ ~(j <= Len(s))
          <6>1. i - Len(s) = j - Len(s)
            BY <4>1, <4>3, <5>1, <5>4 DEF Distinct
          <6> QED BY <3>3, <5>2, <6>1
        <5>5. CASE (i <= Len(s)) # (j <= Len(s))
          BY <4>2, <4>3, <5>1, <5>5
        <5> QED BY <5>3, <5>4, <5>5
      <4> QED BY <4>3 DEF Distinct
    <3> HIDE DEF Part, Apart
    <3> QED
      BY <3>2, <3>3, <3>4, <3>6, <3>7, <3>8
  <2>7. Good(N)
    <3>1. 0 \in S
      <4>1. 0 + 1 = 1
        OBVIOUS
      <4> HIDE DEF Good
      <4> QED BY <2>5, <4>1
    <3>2. ASSUME NEW n \in 1 .. N - 1, n - 1 \in S PROVE n \in S
      <4>1. (n - 1) + 1 = n /\ n + 1 \in 2 .. N /\ (n + 1) - 1 = n /\ n \in Nat
        BY <2>2
      <4> HIDE DEF Good
      <4> QED BY <2>6, <3>2, <4>1
    <3>3. N - 1 \in Nat /\ N - 1 \in 0 .. N - 1 /\ (N - 1) + 1 = N
      BY <2>2
    <3>4. N - 1 \in S
      <4> HIDE DEF S
      <4> QED BY <3>1, <3>2, <3>3, UpToN
    <3> HIDE DEF Good
    <3> QED BY <3>3, <3>4
  <2> QED
    BY <1>1, <2>1, <2>7 DEF N, f
<1> QED
  BY <1>2, <1>3

\* A list reversed has the same elements, each as often.
LEMMA ReverseProperties ==
  ASSUME NEW X, NEW s \in Seq(X)
  PROVE  /\ Reverse(s) \in Seq(X)
         /\ Range(Reverse(s)) = Range(s)
         /\ Distinct(s) => Distinct(Reverse(s))
<1> DEFINE n == Len(s)
           r == Reverse(s)
<1>1. n \in Nat /\ DOMAIN s = 1 .. n
  OBVIOUS
<1>2. r = [i \in 1 .. n |-> s[(n - i) + 1]]
  BY DEF Reverse
<1>3. \A i \in 1 .. n : (n - i) + 1 \in 1 .. n /\ (n - ((n - i) + 1)) + 1 = i
  BY <1>1
<1>4. r \in Seq(X)
  <2>1. \A i \in 1 .. n : s[i] \in X
    BY <1>1
  <2>2. r \in [1 .. n -> X]
    <3> HIDE DEF n, r
    <3> QED BY <1>2, <1>3, <2>1
  <2> HIDE DEF n, r
  <2> QED BY <1>1, <2>2
<1> HIDE DEF n, r
<1>5. DOMAIN r = 1 .. n /\ \A i \in 1 .. n : r[i] = s[(n - i) + 1]
  BY <1>2
<1>6. Range(r) = Range(s)
  <2>1. ASSUME NEW x \in Range(r) PROVE x \in Range(s)
    BY <1>1, <1>3, <1>5 DEF Range
  <2>2. ASSUME NEW x \in Range(s) PROVE x \in Range(r)
    <3>1. PICK i \in 1 .. n : x = s[i]
      BY <1>1 DEF Range
    <3>2. (n - i) + 1 \in 1 .. n /\ r[(n - i) + 1] = s[i]
      BY <1>3, <1>5
    <3> QED BY <1>5, <3>1, <3>2 DEF Range
  <2> QED BY <2>1, <2>2
<1>7. ASSUME Distinct(s) PROVE Distinct(r)
  <2>1. ASSUME NEW i \in 1 .. n, NEW j \in 1 .. n, r[i] = r[j] PROVE i = j
    <3>1. (n - i) + 1 = (n - j) + 1
      BY <1>1, <1>3, <1>5, <1>7, <2>1 DEF Distinct
    <3> QED BY <1>1, <3>1
  <2> QED BY <2>1, <1>5 DEF Distinct
<1> QED
  BY <1>4, <1>6, <1>7 DEF r

----------------------------------------------------------------------------
(* The order of a list: each element stands after its place, one before it *)

LinkedList(d, list) ==
  /\ IsFiniteSet(DOMAIN d.ops)
  /\ DOMAIN d.ops \subseteq Name
  /\ \A i \in Inserted(d, list) :
       /\ d.ops[i].after \in Inserted(d, list) \cup {Root}
       /\ Before(d.ops[i].after, i)

Kids(d, list, p) == {i \in Inserted(d, list) : d.ops[i].after = p}

NextOnes(d, list, p) == Reverse(InOrder(Kids(d, list, p)))

Chain(f, d, list, p) ==
  FlattenSeq([k \in DOMAIN NextOnes(d, list, p) |-> <<NextOnes(d, list, p)[k]>> \o f[NextOnes(d, list, p)[k]]])

Follows(f, d, list, S) ==
  DOMAIN f = S /\ f = [p \in S |-> f[p]] /\ \A p \in S : f[p] = Chain(f, d, list, p)

LEMMA NextOnesProperties ==
  ASSUME NEW d, NEW list, LinkedList(d, list), NEW p
  PROVE  /\ NextOnes(d, list, p) \in Seq(Inserted(d, list))
         /\ Range(NextOnes(d, list, p)) = Kids(d, list, p)
         /\ Distinct(NextOnes(d, list, p))
<1> DEFINE S == Kids(d, list, p)
           s == InOrder(S)
<1>1. S \in SUBSET Places /\ IsFiniteSet(S) /\ S \subseteq Inserted(d, list)
  <2>1. S \subseteq DOMAIN d.ops /\ S \subseteq Inserted(d, list)
    BY DEF Kids, Inserted
  <2> QED
    BY <2>1, FS_Subset DEF LinkedList, Places
<1>2. s \in Seq(S) /\ Range(s) = S /\ Distinct(s)
  <2> HIDE DEF S
  <2> QED BY <1>1, InOrderIsSeq
<1>3. s \in Seq(Inserted(d, list))
  <2> HIDE DEF s, S
  <2> QED BY <1>1, <1>2
<1>4. NextOnes(d, list, p) = Reverse(s)
  BY DEF NextOnes
<1> HIDE DEF s, S
<1>5. Reverse(s) \in Seq(Inserted(d, list)) /\ Range(Reverse(s)) = S /\ Distinct(Reverse(s))
  BY <1>2, <1>3, ReverseProperties
<1> QED
  BY <1>4, <1>5 DEF S

\* A chain looks at the elements that stand directly after its place, and no
\* others.
LEMMA ChainSame ==
  ASSUME NEW d, NEW list, LinkedList(d, list), NEW p, NEW f, NEW g,
         \A i \in Kids(d, list, p) : f[i] = g[i]
  PROVE  Chain(f, d, list, p) = Chain(g, d, list, p)
<1> DEFINE s == NextOnes(d, list, p)
<1>1. Range(s) = Kids(d, list, p)
  BY NextOnesProperties
<1>2. \A k \in DOMAIN s : f[s[k]] = g[s[k]]
  BY <1>1 DEF Range
<1>3. [k \in DOMAIN s |-> <<s[k]>> \o f[s[k]]] = [k \in DOMAIN s |-> <<s[k]>> \o g[s[k]]]
  <2> HIDE DEF s
  <2> QED BY <1>2
<1> QED
  BY <1>3 DEF Chain

LaterOnes(d, list, p) == {i \in Inserted(d, list) : Before(p, i)}

Upper(d, list, n) == {p \in Inserted(d, list) \cup {Root} : Cardinality(LaterOnes(d, list, p)) < n}

LEMMA KidsAreUpper ==
  ASSUME NEW d, NEW list, LinkedList(d, list), NEW p \in Inserted(d, list) \cup {Root},
         NEW i \in Kids(d, list, p)
  PROVE  /\ Before(p, i)
         /\ Cardinality(LaterOnes(d, list, i)) \in Nat
         /\ Cardinality(LaterOnes(d, list, p)) \in Nat
         /\ Cardinality(LaterOnes(d, list, i)) < Cardinality(LaterOnes(d, list, p))
<1>1. Before(p, i) /\ i \in Inserted(d, list)
  BY DEF Kids, LinkedList
<1>2. \A j \in Inserted(d, list) \cup {Root} : j[1] \in Nat /\ j[2] \in Nat /\ j = <<j[1], j[2]>>
  <2>1. Inserted(d, list) \cup {Root} \subseteq Places
    BY DEF LinkedList, Places, Inserted
  <2>2. \A j \in Places : j[1] \in Nat /\ j[2] \in Nat /\ j = <<j[1], j[2]>>
    BY DEF Places, Name, Root
  <2> QED BY <2>1, <2>2
<1>3. LaterOnes(d, list, i) \subseteq LaterOnes(d, list, p)
  BY <1>1, <1>2 DEF LaterOnes, Before
<1>4. i \in LaterOnes(d, list, p) /\ i \notin LaterOnes(d, list, i)
  BY <1>1, <1>2 DEF LaterOnes, Before
<1>5. IsFiniteSet(LaterOnes(d, list, p)) /\ IsFiniteSet(LaterOnes(d, list, i))
  <2>1. LaterOnes(d, list, p) \subseteq DOMAIN d.ops /\ LaterOnes(d, list, i) \subseteq DOMAIN d.ops
    BY DEF LaterOnes, Inserted
  <2> QED BY <2>1, FS_Subset DEF LinkedList
<1>6. Cardinality(LaterOnes(d, list, i)) \in Nat /\ Cardinality(LaterOnes(d, list, p)) \in Nat
  BY <1>5, FS_CardinalityType
<1>7. Cardinality(LaterOnes(d, list, i)) <= Cardinality(LaterOnes(d, list, p))
      /\ Cardinality(LaterOnes(d, list, i)) # Cardinality(LaterOnes(d, list, p))
  BY <1>3, <1>4, <1>5, FS_Subset
<1> QED
  BY <1>1, <1>6, <1>7

\* The recursive definition of the order has a value.
LEMMA OrderExists ==
  ASSUME NEW d, NEW list, LinkedList(d, list)
  PROVE  \E f : Follows(f, d, list, Inserted(d, list) \cup {Root})
<1> DEFINE all == Inserted(d, list) \cup {Root}
           N == Cardinality(Inserted(d, list))
           S == {n \in Nat : \E f : Follows(f, d, list, Upper(d, list, n))}
<1>1. IsFiniteSet(Inserted(d, list)) /\ N \in Nat
  <2>1. Inserted(d, list) \subseteq DOMAIN d.ops
    BY DEF Inserted
  <2> QED BY <2>1, FS_Subset, FS_CardinalityType DEF LinkedList
<1>2. \A p \in all : Cardinality(LaterOnes(d, list, p)) \in 0 .. N
  <2> TAKE p \in all
  <2>1. LaterOnes(d, list, p) \subseteq Inserted(d, list)
    BY DEF LaterOnes
  <2>2. Cardinality(LaterOnes(d, list, p)) \in Nat /\ Cardinality(LaterOnes(d, list, p)) <= N
    BY <1>1, <2>1, FS_Subset, FS_CardinalityType
  <2> QED BY <1>1, <2>2
<1>3. Upper(d, list, 0) = {} /\ Upper(d, list, N + 1) = all
  BY <1>1, <1>2 DEF Upper
<1>4. 0 \in S
  <2>1. Follows([p \in {} |-> p], d, list, Upper(d, list, 0))
    BY <1>3 DEF Follows
  <2> QED BY <2>1
<1>5. ASSUME NEW n \in 1 .. N + 1, n - 1 \in S PROVE n \in S
  <2>1. PICK g : Follows(g, d, list, Upper(d, list, n - 1))
    BY <1>5
  <2> DEFINE f == [p \in Upper(d, list, n) |-> Chain(g, d, list, p)]
  <2>2. Upper(d, list, n - 1) \subseteq Upper(d, list, n)
    BY <1>1, <1>2 DEF Upper
  <2>3. ASSUME NEW p \in Upper(d, list, n), NEW i \in Kids(d, list, p)
        PROVE  i \in Upper(d, list, n - 1)
    <3>1. p \in all /\ Cardinality(LaterOnes(d, list, p)) < n
      BY DEF Upper
    <3>2. i \in all
      BY DEF Kids
    <3>3. /\ Cardinality(LaterOnes(d, list, i)) \in Nat
          /\ Cardinality(LaterOnes(d, list, p)) \in Nat
          /\ Cardinality(LaterOnes(d, list, i)) < Cardinality(LaterOnes(d, list, p))
      BY <3>1, KidsAreUpper
    <3>4. Cardinality(LaterOnes(d, list, i)) < n - 1
      BY <1>1, <3>1, <3>3
    <3> QED BY <3>2, <3>4 DEF Upper
  <2>4. ASSUME NEW p \in Upper(d, list, n - 1) PROVE f[p] = g[p]
    BY <2>1, <2>2 DEF Follows
  <2>5. ASSUME NEW p \in Upper(d, list, n) PROVE f[p] = Chain(f, d, list, p)
    <3>1. \A i \in Kids(d, list, p) : g[i] = f[i]
      BY <2>3, <2>4
    <3>2. Chain(g, d, list, p) = Chain(f, d, list, p)
      <4> HIDE DEF f
      <4> QED BY <3>1, ChainSame
    <3> QED BY <3>2
  <2>6. Follows(f, d, list, Upper(d, list, n))
    BY <2>5 DEF Follows
  <2>7. n \in Nat
    BY <1>1
  <2> HIDE DEF f
  <2> QED BY <2>6, <2>7
<1>6. N + 1 \in S
  <2>1. N + 1 \in Nat /\ N + 1 \in 0 .. N + 1
    BY <1>1
  <2> HIDE DEF S, N
  <2> QED BY <1>4, <1>5, <2>1, UpToN
<1> QED
  BY <1>3, <1>6

\* What the elements of the chain of a place are: they come after the place,
\* each but the first ones follows another, and none is there twice.
Chained(d, list, p, s) ==
  /\ s \in Seq(Inserted(d, list))
  /\ Distinct(s)
  /\ Kids(d, list, p) \subseteq Range(s)
  /\ \A i \in Range(s) : Before(p, i) /\ Kids(d, list, i) \subseteq Range(s)
  /\ \A i \in Range(s) : d.ops[i].after = p \/ d.ops[i].after \in Range(s)

\* The chains of two places that stand after the same one have nothing in common.
LEMMA SiblingsApart ==
  ASSUME NEW d, NEW list, LinkedList(d, list), NEW p,
         NEW b \in Kids(d, list, p), NEW c \in Kids(d, list, p), b # c,
         NEW s, Chained(d, list, b, s), NEW t, Chained(d, list, c, t)
  PROVE  ({b} \cup Range(s)) \cap ({c} \cup Range(t)) = {}
<1> DEFINE all == Inserted(d, list)
           X == ({b} \cup Range(s)) \cap ({c} \cup Range(t))
<1>1. SUFFICES ASSUME X # {} PROVE FALSE
  OBVIOUS
<1>2. /\ all \subseteq Name /\ IsFiniteSet(all)
      /\ b \in all /\ c \in all /\ d.ops[b].after = p /\ d.ops[c].after = p
      /\ Before(p, b) /\ Before(p, c)
      /\ Range(s) \subseteq all /\ Range(t) \subseteq all
  <2>1. all \subseteq DOMAIN d.ops
    BY DEF Inserted
  <2>2. all \subseteq Name /\ IsFiniteSet(all)
    BY <2>1, FS_Subset DEF LinkedList
  <2>3. b \in all /\ c \in all /\ d.ops[b].after = p /\ d.ops[c].after = p
    BY DEF Kids
  <2>4. Before(p, b) /\ Before(p, c)
    BY <2>3 DEF LinkedList
  <2>5. Range(s) \subseteq all /\ Range(t) \subseteq all
    BY DEF Chained, Range
  <2> QED BY <2>2, <2>3, <2>4, <2>5
<1>3. \A x, y, z \in all \cup {Root} : (Before(x, y) /\ Before(y, z) => Before(x, z)) /\ ~ Before(x, x)
  <2>1. all \cup {Root} \subseteq Places
    BY <1>2 DEF Places
  <2>2. Orders(BeforeOn(all \cup {Root}), all \cup {Root})
    BY <2>1, BeforeOrders
  <2>3. \A x, y \in all \cup {Root} : <<x, y>> \in BeforeOn(all \cup {Root}) <=> Before(x, y)
    BY DEF BeforeOn
  <2> HIDE DEF all
  <2> QED BY <2>2, <2>3 DEF Orders
<1>4. p \in all \cup {Root}
  BY <1>2 DEF LinkedList
<1>5. PICK x \in X : \A y \in X : ~ Before(y, x)
  <2>1. X \in SUBSET all /\ IsFiniteSet(X)
    BY <1>2, FS_Subset
  <2>2. InOrder(X) \in Seq(X)
    <3> HIDE DEF X
    <3> QED BY <1>2, <2>1, InOrderIsSeq DEF Places
  <2>3. Orders(BeforeOn(X), X)
    <3> HIDE DEF X
    <3> QED BY <1>2, <2>1, BeforeOrders DEF Places
  <2>4. Cardinality(X) \in Nat \ {0}
    <3> HIDE DEF X
    <3> QED BY <1>1, <2>1, FS_EmptySet, FS_CardinalityType
  <2>5. PICK x \in X : Cardinality(Lower(BeforeOn(X), X, x)) = 1 - 1
    <3>1. 1 \in 1 .. Cardinality(X)
      BY <2>4
    <3> DEFINE R == BeforeOn(X)
    <3> HIDE DEF X, R
    <3> QED BY <2>1, <2>3, <3>1, Ranks DEF R
  <2>6. Lower(BeforeOn(X), X, x) = {}
    <3>1. Lower(BeforeOn(X), X, x) \subseteq X
      BY DEF Lower
    <3> HIDE DEF X
    <3> QED BY <2>1, <2>5, <3>1, FS_Subset, FS_EmptySet
  <2>7. {j \in X : Before(j, x)} = {}
    <3> HIDE DEF X
    <3> QED BY <2>6, BeforeLower
  <2> QED BY <2>7
<1>6. x # b
  <2>1. SUFFICES ASSUME x = b PROVE FALSE
    OBVIOUS
  <2>2. b \in Range(t)
    BY <1>5, <2>1
  <2>3. p \in Range(t) \/ p = c
    BY <1>2, <2>2 DEF Chained
  <2>4. Before(c, p) \/ p = c
    BY <2>3 DEF Chained
  <2> QED BY <1>2, <1>3, <1>4, <2>4
<1>7. x # c
  <2>1. SUFFICES ASSUME x = c PROVE FALSE
    OBVIOUS
  <2>2. c \in Range(s)
    BY <1>5, <2>1
  <2>3. p \in Range(s) \/ p = b
    BY <1>2, <2>2 DEF Chained
  <2>4. Before(b, p) \/ p = b
    BY <2>3 DEF Chained
  <2> QED BY <1>2, <1>3, <1>4, <2>4
<1>8. x \in Range(s) /\ x \in Range(t)
  BY <1>5, <1>6, <1>7
<1>9. d.ops[x].after \in X /\ Before(d.ops[x].after, x)
  BY <1>2, <1>8 DEF Chained, LinkedList
<1> QED
  BY <1>5, <1>9

\* If the chains of the elements that stand directly after a place are right,
\* the chain of the place is.
LEMMA ChainIsChained ==
  ASSUME NEW d, NEW list, LinkedList(d, list), NEW p \in Inserted(d, list) \cup {Root},
         NEW f, \A i \in Kids(d, list, p) : Chained(d, list, i, f[i])
  PROVE  Chained(d, list, p, Chain(f, d, list, p))
<1> DEFINE all == Inserted(d, list)
           next == NextOnes(d, list, p)
           part == [k \in DOMAIN next |-> <<next[k]>> \o f[next[k]]]
           s == Chain(f, d, list, p)
<1>1. next \in Seq(all) /\ Range(next) = Kids(d, list, p) /\ Distinct(next)
  BY NextOnesProperties
<1>2. s = FlattenSeq(part)
  BY DEF Chain
<1>3. \A i, j, k \in all \cup {Root} : (Before(i, j) /\ Before(j, k) => Before(i, k)) /\ ~ Before(i, i)
  <2>1. all \cup {Root} \subseteq Places
    BY DEF Places, LinkedList, Inserted
  <2>2. Orders(BeforeOn(all \cup {Root}), all \cup {Root})
    BY <2>1, BeforeOrders
  <2>3. \A i, j \in all \cup {Root} : <<i, j>> \in BeforeOn(all \cup {Root}) <=> Before(i, j)
    BY DEF BeforeOn
  <2> HIDE DEF all
  <2> QED BY <2>2, <2>3 DEF Orders
<1>4. Kids(d, list, p) \subseteq all /\ \A i \in Kids(d, list, p) : Before(p, i) /\ d.ops[i].after = p
  BY DEF Kids, LinkedList
<1> HIDE DEF next, s, all
<1>5. ASSUME NEW k \in DOMAIN next
      PROVE  /\ next[k] \in Kids(d, list, p)
             /\ part[k] \in Seq(all)
             /\ Range(part[k]) = {next[k]} \cup Range(f[next[k]])
             /\ Distinct(part[k])
  <2> DEFINE c == next[k]
             t == f[c]
  <2>1. c \in Kids(d, list, p)
    BY <1>1 DEF Range
  <2>2. Chained(d, list, c, t) /\ c \in all
    BY <1>4, <2>1
  <2>3. part[k] = <<c>> \o t
    OBVIOUS
  <2> HIDE DEF part, c, t
  <2>4. t \in Seq(all) /\ Distinct(t) /\ \A i \in Range(t) : Before(c, i) /\ i \in all
    BY <2>2 DEF Chained, all, Range
  <2>5. c \notin Range(t)
    BY <1>3, <2>2, <2>4
  <2> DEFINE u == <<c>>
             v == u \o t
  <2>6. u \in Seq(all) /\ Len(u) = 1 /\ u[1] = c
    BY <2>2
  <2> HIDE DEF u
  <2>7. /\ v \in Seq(all)
        /\ DOMAIN v = 1 .. 1 + Len(t) /\ DOMAIN t = 1 .. Len(t) /\ Len(t) \in Nat
        /\ \A i \in 1 .. 1 + Len(t) : v[i] = IF i <= 1 THEN u[i] ELSE t[i - 1]
    <3>1. t \in Seq(all) /\ DOMAIN t = 1 .. Len(t) /\ Len(t) \in Nat
      BY <2>4
    <3> HIDE DEF v
    <3>2. /\ v \in Seq(all) /\ Len(v) = Len(u) + Len(t)
          /\ \A i \in 1 .. Len(u) + Len(t) : v[i] = IF i <= Len(u) THEN u[i] ELSE t[i - Len(u)]
      BY <2>6, <3>1, ConcatProperties DEF v
    <3>3. DOMAIN v = 1 .. Len(v)
      BY <3>2
    <3> QED BY <2>6, <3>1, <3>2, <3>3
  <2> HIDE DEF v
  <2>8. v[1] = c /\ \A i \in DOMAIN v \ {1} : i - 1 \in DOMAIN t /\ v[i] = t[i - 1]
    BY <2>6, <2>7
  <2>9. Range(v) = {c} \cup Range(t)
    <3>1. ASSUME NEW x \in Range(v) PROVE x \in {c} \cup Range(t)
      BY <2>8 DEF Range
    <3>2. c \in Range(v)
      <4>1. 1 \in DOMAIN v
        BY <2>7
      <4> QED BY <2>8, <4>1 DEF Range
    <3>3. ASSUME NEW x \in Range(t) PROVE x \in Range(v)
      <4>1. PICK i \in DOMAIN t : x = t[i]
        BY DEF Range
      <4>2. i + 1 \in DOMAIN v /\ v[i + 1] = x
        BY <2>7, <4>1
      <4> QED BY <4>2 DEF Range
    <3> QED BY <3>1, <3>2, <3>3
  <2>10. Distinct(v)
    <3>1. ASSUME NEW i \in DOMAIN v, NEW j \in DOMAIN v, v[i] = v[j] PROVE i = j
      <4>1. CASE i = 1 /\ j = 1
        BY <4>1
      <4>2. CASE i = 1 /\ j # 1
        <5>1. v[j] \in Range(t)
          BY <2>8, <4>2 DEF Range
        <5> QED BY <2>5, <2>8, <3>1, <4>2, <5>1
      <4>3. CASE i # 1 /\ j = 1
        <5>1. v[i] \in Range(t)
          BY <2>8, <4>3 DEF Range
        <5> QED BY <2>5, <2>8, <3>1, <4>3, <5>1
      <4>4. CASE i # 1 /\ j # 1
        <5>1. i - 1 = j - 1
          BY <2>4, <2>8, <3>1, <4>4 DEF Distinct
        <5> QED BY <2>7, <5>1
      <4> QED BY <4>1, <4>2, <4>3, <4>4
    <3> QED BY <3>1 DEF Distinct
  <2> QED BY <2>1, <2>3, <2>7, <2>9, <2>10 DEF u, v, c, t
<1>6. part \in Seq(Seq(all)) /\ DOMAIN part = DOMAIN next
  <2>1. DOMAIN next = 1 .. Len(next) /\ Len(next) \in Nat
    BY <1>1
  <2>2. part \in [1 .. Len(next) -> Seq(all)]
    <3>1. \A k \in DOMAIN next : part[k] \in Seq(all)
      BY <1>5
    <3>2. part = [k \in DOMAIN next |-> part[k]]
      OBVIOUS
    <3>3. DOMAIN part = DOMAIN next
      OBVIOUS
    <3> HIDE DEF part
    <3> QED BY <2>1, <3>1, <3>2
  <2>3. DOMAIN part = DOMAIN next
    OBVIOUS
  <2> HIDE DEF part
  <2> QED BY <2>1, <2>2, <2>3
<1>7. ASSUME NEW k \in DOMAIN next, NEW l \in DOMAIN next, k # l
      PROVE  Range(part[k]) \cap Range(part[l]) = {}
  <2>1. next[k] # next[l]
    BY <1>1, <1>7 DEF Distinct
  <2>2. next[k] \in Kids(d, list, p) /\ next[l] \in Kids(d, list, p)
    BY <1>5
  <2>3. ({next[k]} \cup Range(f[next[k]])) \cap ({next[l]} \cup Range(f[next[l]])) = {}
    BY <2>1, <2>2, SiblingsApart
  <2> HIDE DEF part
  <2> QED BY <1>5, <2>3
<1> HIDE DEF part
<1>8. /\ s \in Seq(all)
      /\ Range(s) = UNION {Range(part[k]) : k \in DOMAIN part}
      /\ Distinct(s)
  BY <1>2, <1>5, <1>6, <1>7, FlattenProperties
<1>9. ASSUME NEW i \in Range(s)
      PROVE  \E c \in Kids(d, list, p) : i \in {c} \cup Range(f[c])
  BY <1>5, <1>6, <1>8
<1>10. ASSUME NEW c \in Kids(d, list, p) PROVE {c} \cup Range(f[c]) \subseteq Range(s)
  <2>1. PICK k \in DOMAIN next : next[k] = c
    BY <1>1 DEF Range
  <2>2. Range(part[k]) = {c} \cup Range(f[c])
    BY <1>5, <2>1
  <2> QED BY <1>6, <1>8, <2>1, <2>2
<1>11. Kids(d, list, p) \subseteq Range(s)
  BY <1>10
<1>12. ASSUME NEW i \in Range(s)
       PROVE  /\ Before(p, i) /\ Kids(d, list, i) \subseteq Range(s)
              /\ d.ops[i].after = p \/ d.ops[i].after \in Range(s)
  <2>1. PICK c \in Kids(d, list, p) : i \in {c} \cup Range(f[c])
    BY <1>9
  <2>2. Chained(d, list, c, f[c]) /\ c \in all
    BY <1>4
  <2>3. Range(f[c]) \subseteq all
    BY <2>2 DEF Chained, all, Range
  <2>4. p \in all \cup {Root}
    BY DEF all
  <2>5. CASE i = c
    <3>1. Kids(d, list, c) \subseteq Range(f[c])
      BY <2>2 DEF Chained
    <3> QED BY <1>4, <1>10, <2>5, <3>1
  <2>6. CASE i \in Range(f[c])
    <3>1. /\ Before(c, i) /\ Kids(d, list, i) \subseteq Range(f[c])
          /\ d.ops[i].after = c \/ d.ops[i].after \in Range(f[c])
      BY <2>2, <2>6 DEF Chained
    <3>2. Before(p, i)
      BY <1>3, <1>4, <2>2, <2>3, <2>4, <2>6, <3>1
    <3> QED BY <1>10, <3>1, <3>2
  <2> QED BY <2>1, <2>5, <2>6
<1> QED
  BY <1>8, <1>11, <1>12 DEF Chained, s, all

LEMMA OrderIsChained ==
  ASSUME NEW d, NEW list, LinkedList(d, list),
         NEW f, Follows(f, d, list, Inserted(d, list) \cup {Root})
  PROVE  Chained(d, list, Root, f[Root])
<1> DEFINE all == Inserted(d, list) \cup {Root}
           Bad == {p \in all : ~ Chained(d, list, p, f[p])}
           size(p) == Cardinality(LaterOnes(d, list, p))
<1>1. SUFFICES ASSUME Bad # {} PROVE FALSE
  OBVIOUS
<1>2. ASSUME NEW p \in all PROVE size(p) \in Nat
  <2>1. LaterOnes(d, list, p) \subseteq DOMAIN d.ops
    BY DEF LaterOnes, Inserted
  <2>2. IsFiniteSet(LaterOnes(d, list, p))
    BY <2>1, FS_Subset DEF LinkedList
  <2> QED BY <2>2, FS_CardinalityType
<1>3. PICK p \in Bad : \A q \in Bad : size(p) <= size(q)
  <2> DEFINE T == {size(q) : q \in Bad}
  <2>1. T \in SUBSET Nat /\ T # {}
    BY <1>1, <1>2
  <2>2. PICK n \in T : \A m \in T : n <= m
    <3> HIDE DEF T
    <3> QED BY <2>1, LeastNatural
  <2>3. PICK p \in Bad : n = size(p)
    OBVIOUS
  <2> HIDE DEF Bad, size
  <2> QED BY <2>2, <2>3
<1>4. ASSUME NEW i \in Kids(d, list, p) PROVE Chained(d, list, i, f[i])
  <2>1. p \in Inserted(d, list) \cup {Root}
    OBVIOUS
  <2>2. size(i) \in Nat /\ size(p) \in Nat /\ size(i) < size(p)
    <3> HIDE DEF Bad
    <3> QED BY <2>1, KidsAreUpper
  <2>3. i \in all
    BY DEF Kids
  <2>4. i \notin Bad
    <3> HIDE DEF Bad, size
    <3> QED BY <1>3, <2>2
  <2> QED BY <2>3, <2>4
<1>5. Chained(d, list, p, Chain(f, d, list, p))
  BY <1>4, ChainIsChained
<1>6. f[p] = Chain(f, d, list, p)
  BY DEF Follows
<1> QED
  BY <1>5, <1>6

\* The order of a list has every element, once.
LEMMA OrderedProperties ==
  ASSUME NEW d, NEW list, LinkedList(d, list)
  PROVE  /\ Ordered(d, list) \in Seq(Inserted(d, list))
         /\ Range(Ordered(d, list)) = Inserted(d, list)
         /\ Distinct(Ordered(d, list))
<1> DEFINE all == Inserted(d, list)
           from == CHOOSE f : f = [p \in all \cup {Root} |-> Chain(f, d, list, p)]
<1>1. Ordered(d, list) = from[Root]
  BY DEF Ordered, Chain, NextOnes, Kids
<1>2. PICK f : Follows(f, d, list, all \cup {Root})
  BY OrderExists
<1>3. f = [p \in all \cup {Root} |-> Chain(f, d, list, p)]
  <2>1. \A p \in all \cup {Root} : f[p] = Chain(f, d, list, p)
    BY <1>2 DEF Follows
  <2>2. f = [p \in all \cup {Root} |-> f[p]]
    BY <1>2 DEF Follows
  <2> QED BY <2>1, <2>2
<1>4. from = [p \in all \cup {Root} |-> Chain(from, d, list, p)]
  BY <1>3
<1> HIDE DEF from
<1>5. Follows(from, d, list, all \cup {Root})
  <2>1. DOMAIN from = all \cup {Root}
    BY <1>4
  <2>2. \A p \in all \cup {Root} : from[p] = Chain(from, d, list, p)
    BY <1>4
  <2>3. from = [p \in all \cup {Root} |-> from[p]]
    <3>1. from = [p \in DOMAIN from |-> from[p]]
      BY <1>4
    <3> QED BY <2>1, <3>1
  <2> QED BY <2>1, <2>2, <2>3 DEF Follows
<1> DEFINE s == from[Root]
<1>6. Chained(d, list, Root, s)
  BY <1>5, OrderIsChained
<1>7. Range(s) \subseteq all
  BY <1>6 DEF Chained, Range
<1>8. all \subseteq Range(s)
  <2> DEFINE Bad == all \ Range(s)
  <2>1. SUFFICES ASSUME Bad # {} PROVE FALSE
    OBVIOUS
  <2>2. Bad \in SUBSET Places /\ IsFiniteSet(Bad)
    <3>1. Bad \subseteq DOMAIN d.ops
      BY DEF Inserted
    <3> HIDE DEF Bad
    <3> QED BY <3>1, FS_Subset DEF LinkedList, Places
  <2>3. PICK x \in Bad : \A y \in Bad : ~ Before(y, x)
    <3>1. Orders(BeforeOn(Bad), Bad)
      <4> HIDE DEF Bad
      <4> QED BY <2>2, BeforeOrders
    <3>2. 1 \in 1 .. Cardinality(Bad)
      <4> HIDE DEF Bad
      <4>1. Cardinality(Bad) \in Nat \ {0}
        BY <2>1, <2>2, FS_EmptySet, FS_CardinalityType
      <4> QED BY <4>1
    <3>3. PICK x \in Bad : Cardinality(Lower(BeforeOn(Bad), Bad, x)) = 1 - 1
      <4> DEFINE R == BeforeOn(Bad)
      <4> HIDE DEF Bad, R
      <4> QED BY <2>2, <3>1, <3>2, Ranks DEF R
    <3>4. Lower(BeforeOn(Bad), Bad, x) = {}
      <4>1. Lower(BeforeOn(Bad), Bad, x) \subseteq Bad
        BY DEF Lower
      <4> HIDE DEF Bad
      <4> QED BY <2>2, <3>3, <4>1, FS_Subset, FS_EmptySet
    <3> HIDE DEF Bad
    <3> QED BY <3>4, BeforeLower
  <2>4. d.ops[x].after \in all \cup {Root} /\ Before(d.ops[x].after, x)
    BY DEF LinkedList
  <2>5. d.ops[x].after \in Range(s) \cup {Root}
    BY <2>3, <2>4
  <2>6. x \in Kids(d, list, d.ops[x].after)
    BY DEF Kids
  <2> QED BY <1>6, <2>5, <2>6 DEF Chained
<1> QED
  BY <1>1, <1>6, <1>7, <1>8 DEF Chained

----------------------------------------------------------------------------
(* Documents that are well formed, and what an edit may do to one          *)

StandsWell(ops, i) ==
  \/ ops[i].after = Root
  \/ /\ ops[i].after \in DOMAIN ops
     /\ ops[ops[i].after].key = "" /\ ops[ops[i].after].obj = ops[i].obj
     /\ Before(ops[i].after, i)

WellFormed(d) ==
  /\ IsFiniteSet(DOMAIN d.ops)
  /\ DOMAIN d.ops \subseteq Name /\ d.gone \subseteq Name
  /\ d.top \in Nat
  /\ \A i \in DOMAIN d.ops \cup d.gone : i[1] <= d.top
  /\ \A i \in DOMAIN d.ops : d.ops[i].key = "" => StandsWell(d.ops, i)

LEMMA NameParts ==
  ASSUME NEW i \in Name
  PROVE  i[1] \in Nat /\ i[1] # 0 /\ i[2] \in Nat /\ i = <<i[1], i[2]>> /\ i # Root /\ Before(Root, i)
BY DEF Name, Root, Before

LEMMA WellFormedIsLinked ==
  ASSUME NEW d, WellFormed(d), NEW list
  PROVE  LinkedList(d, list)
<1>1. ASSUME NEW i \in Inserted(d, list)
      PROVE  d.ops[i].after \in Inserted(d, list) \cup {Root} /\ Before(d.ops[i].after, i)
  <2>1. i \in DOMAIN d.ops /\ d.ops[i].obj = list /\ d.ops[i].key = "" /\ i \in Name
    BY DEF Inserted, WellFormed
  <2>2. StandsWell(d.ops, i)
    BY <2>1 DEF WellFormed
  <2>3. Before(Root, i)
    BY <2>1, NameParts
  <2> QED
    BY <2>1, <2>2, <2>3 DEF StandsWell, Inserted
<1> QED
  BY <1>1 DEF LinkedList, WellFormed

\* A sequence that has nothing twice is as long as its range is large.
LEMMA DistinctLength ==
  ASSUME NEW X, NEW s \in Seq(X), Distinct(s)
  PROVE  IsFiniteSet(Range(s)) /\ Cardinality(Range(s)) = Len(s) /\ Len(s) \in Nat
<1> DEFINE n == Len(s)
<1>1. n \in Nat /\ DOMAIN s = 1 .. n /\ s \in [1 .. n -> X]
  BY LenProperties
<1>2. IsFiniteSet(1 .. n) /\ Cardinality(1 .. n) = n
  <2>1. 1 \in Int /\ n \in Int
    BY <1>1
  <2>2. IsFiniteSet(1 .. n) /\ Cardinality(1 .. n) = IF 1 > n THEN 0 ELSE n - 1 + 1
    <3> HIDE DEF n
    <3> QED BY <2>1, FS_Interval
  <2> QED BY <1>1, <2>2
<1> HIDE DEF n
<1>3. s \in Surjection(1 .. n, Range(s))
  <2>1. s \in [1 .. n -> Range(s)]
    BY <1>1 DEF Range
  <2>2. \A x \in Range(s) : \E k \in 1 .. n : s[k] = x
    BY <1>1 DEF Range
  <2> QED BY <2>1, <2>2 DEF Surjection
<1>4. s \in Injection(1 .. n, Range(s))
  <2>1. \A k, l \in 1 .. n : s[k] = s[l] => k = l
    BY <1>1 DEF Distinct
  <2>2. s \in [1 .. n -> Range(s)]
    BY <1>3 DEF Surjection
  <2> QED BY <2>1, <2>2 DEF Injection, IsInjective
<1>5. s \in Bijection(1 .. n, Range(s))
  BY <1>3, <1>4 DEF Bijection
<1>6. IsFiniteSet(Range(s)) /\ Cardinality(Range(s)) = n
  <2> DEFINE I == 1 .. n
             T == Range(s)
  <2>1. ExistsBijection(I, T) /\ IsFiniteSet(I) /\ Cardinality(I) = n
    BY <1>2, <1>5 DEF ExistsBijection
  <2> HIDE DEF I, T
  <2>2. IsFiniteSet(T) /\ Cardinality(T) = Cardinality(I)
    BY <2>1, FS_SameCardinalityBij, FS_Bijection
  <2> QED BY <2>1, <2>2 DEF T
<1> QED
  BY <1>1, <1>6 DEF n

\* What is read from a list are the elements that are not erased, each once.
LEMMA ElementsProperties ==
  ASSUME NEW d, WellFormed(d), NEW list
  PROVE  /\ Elements(d, list) \in Seq(Inserted(d, list))
         /\ Range(Elements(d, list)) = Inserted(d, list) \ d.gone
         /\ Distinct(Elements(d, list))
         /\ Len(Elements(d, list)) \in Nat
         /\ IsFiniteSet(Inserted(d, list) \ d.gone)
         /\ Len(Elements(d, list)) = Cardinality(Inserted(d, list) \ d.gone)
<1> DEFINE all == Inserted(d, list)
           kept == all \ d.gone
           s == Ordered(d, list)
           o == Elements(d, list)
<1>1. s \in Seq(all) /\ Range(s) = all /\ Distinct(s)
  BY WellFormedIsLinked, OrderedProperties
<1>2. o = Only(s, kept)
  BY DEF Elements
<1>3. all \cap kept = kept
  OBVIOUS
<1> HIDE DEF s, o, all, kept
<1>4. o \in Seq(all) /\ Range(o) = kept /\ Distinct(o)
  BY <1>1, <1>2, <1>3, OnlyProperties
<1>5. IsFiniteSet(Range(o)) /\ Cardinality(Range(o)) = Len(o) /\ Len(o) \in Nat
  BY <1>4, DistinctLength
<1> QED
  BY <1>4, <1>5 DEF o, all, kept

\* A name that an edit makes of the document d to become e.
IsNew(A, d, e, i) == i[2] \in A /\ i[1] > d.top /\ i[1] <= e.top

\* The document d becomes e by edits of the actors A: they make new operations,
\* none under a key of N, and hide or erase none under a key of K.
Grows(A, K, N, d, e) ==
  /\ WellFormed(d) /\ WellFormed(e)
  /\ d.top <= e.top
  /\ \A i \in DOMAIN e.ops :
       \/ i \in DOMAIN d.ops /\ e.ops[i] = d.ops[i]
       \/ IsNew(A, d, e, i) /\ e.ops[i].key \notin N
  /\ \A i \in DOMAIN d.ops : d.ops[i].key \in K \cup {""} => i \in DOMAIN e.ops
  /\ \A i \in e.gone \ d.gone :
       \/ i \in DOMAIN d.ops /\ d.ops[i].key \notin K
       \/ IsNew(A, d, e, i) /\ (i \in DOMAIN e.ops => e.ops[i].key \notin K)

\* What was known before is not new; what was new stays new.
LEMMA OldIsNotNew ==
  ASSUME NEW d, WellFormed(d), NEW i \in DOMAIN d.ops \cup d.gone, NEW A, NEW e
  PROVE  ~ IsNew(A, d, e, i)
<1>1. d.top \in Nat /\ i[1] \in Nat /\ i[1] <= d.top
  BY NameParts DEF WellFormed
<1> QED
  BY <1>1 DEF IsNew

LEMMA NewStaysNew ==
  ASSUME NEW A, NEW d, NEW e, NEW f, d.top \in Nat, e.top \in Nat, f.top \in Nat, e.top <= f.top,
         NEW i \in Name, IsNew(A, d, e, i)
  PROVE  IsNew(A, d, f, i)
<1>1. i[1] \in Nat
  BY NameParts
<1> QED
  BY <1>1 DEF IsNew

LEMMA NextIsNew ==
  ASSUME NEW A, NEW d, NEW e, NEW f, d.top \in Nat, e.top \in Nat, f.top = e.top + 1, d.top <= e.top,
         NEW a \in A
  PROVE  IsNew(A, d, f, <<e.top + 1, a>>) /\ d.top <= f.top /\ e.top <= f.top
BY DEF IsNew

LEMMA GrowsFromItself ==
  ASSUME NEW A, NEW K, NEW N, NEW d, WellFormed(d)
  PROVE  Grows(A, K, N, d, d)
<1>1. d.top <= d.top
  <2>1. d.top \in Nat
    BY DEF WellFormed
  <2> QED BY <2>1
<1> QED
  BY <1>1 DEF Grows

LEMMA GrowsWeaken ==
  ASSUME NEW A, NEW K, NEW N, NEW d, NEW e, Grows(A, K, N, d, e),
         NEW A2, A \subseteq A2, NEW N2 \in SUBSET N
  PROVE  Grows(A2, K, N2, d, e)
BY DEF Grows, IsNew

LEMMA NewDocWellFormed == WellFormed(NewDoc)
<1>1. DOMAIN NewDoc.ops = {} /\ NewDoc.gone = {} /\ NewDoc.top = 0
  BY DEF NewDoc
<1> QED
  BY <1>1, FS_EmptySet DEF WellFormed

\* The next name is new.
LEMMA NextName ==
  ASSUME NEW d, WellFormed(d), NEW a \in Nat
  PROVE  /\ <<d.top + 1, a>> \in Name
         /\ <<d.top + 1, a>> \notin DOMAIN d.ops
         /\ <<d.top + 1, a>> \notin d.gone
         /\ \A i \in DOMAIN d.ops : Before(i, <<d.top + 1, a>>)
<1>1. d.top \in Nat
  BY DEF WellFormed
<1>2. <<d.top + 1, a>> \in Name
  BY <1>1 DEF Name
<1>3. \A i \in DOMAIN d.ops \cup d.gone : i[1] \in Nat /\ i[1] <= d.top
  BY NameParts DEF WellFormed
<1>4. <<d.top + 1, a>> \notin DOMAIN d.ops \cup d.gone
  BY <1>1, <1>3
<1>5. \A i \in DOMAIN d.ops : Before(i, <<d.top + 1, a>>)
  BY <1>1, <1>3 DEF Before
<1> QED
  BY <1>2, <1>4, <1>5

LEMMA WriteTop ==
  ASSUME NEW d, WellFormed(d), NEW a, NEW op, NEW hides
  PROVE  /\ Write(d, a, op, hides).top = d.top + 1
         /\ Write(d, a, op, hides).top \in Nat
         /\ \A i \in DOMAIN d.ops \cup d.gone \cup {<<d.top + 1, a>>} : i[1] <= Write(d, a, op, hides).top
<1>1. d.top \in Nat /\ d.top + 1 \in Nat
  <2>1. d.top \in Nat
    BY DEF WellFormed
  <2> QED BY <2>1
<1>2. Write(d, a, op, hides).top = d.top + 1
  BY DEF Write
<1>3. \A i \in DOMAIN d.ops \cup d.gone : i[1] <= d.top + 1
  <2>1. \A i \in DOMAIN d.ops \cup d.gone : i[1] \in Nat /\ i[1] <= d.top
    BY NameParts DEF WellFormed
  <2> QED BY <1>1, <2>1
<1>4. <<d.top + 1, a>>[1] <= d.top + 1
  BY <1>1
<1> QED
  BY <1>1, <1>2, <1>3, <1>4

\* The document e becomes f by the operation op named new, which hides others.
Writes(e, f, new, op, hides) ==
  /\ f.top = e.top + 1 /\ f.gone = e.gone \cup hides
  /\ DOMAIN f.ops = {new} \cup (DOMAIN e.ops \ hides)
  /\ f.ops[new] = op
  /\ \A i \in DOMAIN e.ops \ hides : f.ops[i] = e.ops[i]

\* One write: a new operation that hides others, under keys that it may hide.
LEMMA GrowsWrite ==
  ASSUME NEW A \in SUBSET Nat, NEW K, NEW N, NEW d, NEW e, Grows(A, K, N, d, e),
         NEW a \in A, NEW op, NEW hides \in SUBSET DOMAIN e.ops,
         op.key \notin N,
         \A i \in hides : e.ops[i].key \notin K \cup {""},
         op.key = "" => \/ op.after = Root
                        \/ /\ op.after \in DOMAIN e.ops
                           /\ e.ops[op.after].key = "" /\ e.ops[op.after].obj = op.obj
  PROVE  /\ Grows(A, K, N, d, Write(e, a, op, hides))
         /\ Writes(e, Write(e, a, op, hides), <<e.top + 1, a>>, op, hides)
<1> DEFINE new == <<e.top + 1, a>>
           f == Write(e, a, op, hides)
<1>1. WellFormed(d) /\ WellFormed(e)
  BY DEF Grows
<1>2. /\ new \in Name /\ new \notin DOMAIN e.ops /\ new \notin e.gone
      /\ \A i \in DOMAIN e.ops : Before(i, new)
  BY <1>1, NextName
<1>3. /\ f.top = e.top + 1 /\ f.gone = e.gone \cup hides
      /\ f.ops = [i \in {new} \cup (DOMAIN e.ops \ hides) |-> IF i = new THEN op ELSE e.ops[i]]
  BY DEF Write
<1>4. new[1] = e.top + 1 /\ new[2] = a /\ e.top \in Nat /\ d.top \in Nat
  BY <1>1 DEF WellFormed
<1> HIDE DEF f, new
<1>5. /\ DOMAIN f.ops = {new} \cup (DOMAIN e.ops \ hides)
      /\ f.ops[new] = op
      /\ \A i \in DOMAIN e.ops \ hides : f.ops[i] = e.ops[i]
  BY <1>2, <1>3
<1>6. WellFormed(f)
  <2>1. IsFiniteSet(DOMAIN f.ops)
    <3>1. IsFiniteSet(DOMAIN e.ops \ hides)
      BY <1>1, FS_Subset DEF WellFormed
    <3>2. IsFiniteSet((DOMAIN e.ops \ hides) \cup {new})
      BY <3>1, FS_AddElement
    <3>3. DOMAIN f.ops = (DOMAIN e.ops \ hides) \cup {new}
      BY <1>5
    <3> QED BY <3>2, <3>3
  <2>2. DOMAIN f.ops \subseteq Name /\ f.gone \subseteq Name
    BY <1>1, <1>2, <1>3, <1>5 DEF WellFormed
  <2>3. f.top \in Nat /\ \A i \in DOMAIN f.ops \cup f.gone : i[1] <= f.top
    <3>1. f.top \in Nat /\ \A i \in DOMAIN e.ops \cup e.gone \cup {new} : i[1] <= f.top
      BY <1>1, WriteTop DEF f, new
    <3>2. DOMAIN f.ops \cup f.gone \subseteq DOMAIN e.ops \cup e.gone \cup {new}
      BY <1>3, <1>5
    <3> QED BY <3>1, <3>2
  <2>4. ASSUME NEW i \in DOMAIN f.ops, f.ops[i].key = "" PROVE StandsWell(f.ops, i)
    <3>1. \A j \in DOMAIN e.ops : e.ops[j].key = "" => j \in DOMAIN f.ops /\ f.ops[j] = e.ops[j]
      BY <1>5
    <3>2. CASE i = new
      BY <1>2, <1>5, <2>4, <3>1, <3>2 DEF StandsWell
    <3>3. CASE i # new
      <4>1. i \in DOMAIN e.ops /\ f.ops[i] = e.ops[i]
        BY <1>5, <3>3
      <4>2. StandsWell(e.ops, i)
        BY <1>1, <2>4, <4>1 DEF WellFormed
      <4> QED BY <3>1, <4>1, <4>2 DEF StandsWell
    <3> QED BY <3>2, <3>3
  <2> QED BY <2>1, <2>2, <2>3, <2>4 DEF WellFormed
<1>7. f.top \in Nat /\ d.top <= e.top
  BY <1>6 DEF Grows, WellFormed
<1>8. d.top <= f.top /\ e.top <= f.top /\ IsNew(A, d, f, new)
  BY <1>3, <1>4, <1>7, NextIsNew DEF new
<1>14. \A i \in Name : IsNew(A, d, e, i) => IsNew(A, d, f, i)
  BY <1>4, <1>7, <1>8, NewStaysNew
<1>9. DOMAIN e.ops \subseteq Name /\ e.gone \subseteq Name
  BY <1>1 DEF WellFormed
<1>10. ASSUME NEW i \in DOMAIN f.ops
       PROVE  \/ i \in DOMAIN d.ops /\ f.ops[i] = d.ops[i]
              \/ IsNew(A, d, f, i) /\ f.ops[i].key \notin N
  <2>1. CASE i = new
    BY <1>5, <1>8, <2>1
  <2>2. CASE i # new
    <3>1. i \in DOMAIN e.ops /\ f.ops[i] = e.ops[i]
      BY <1>5, <2>2
    <3> QED BY <1>9, <1>14, <3>1 DEF Grows
  <2> QED BY <2>1, <2>2
<1>11. ASSUME NEW i \in DOMAIN d.ops, d.ops[i].key \in K \cup {""} PROVE i \in DOMAIN f.ops
  <2>1. i \in DOMAIN e.ops
    BY <1>11 DEF Grows
  <2>2. e.ops[i] = d.ops[i]
    <3>1. ~ IsNew(A, d, e, i)
      BY <1>1, OldIsNotNew
    <3> QED BY <2>1, <3>1 DEF Grows
  <2> QED BY <1>5, <1>11, <2>1, <2>2
<1>12. ASSUME NEW i \in f.gone \ d.gone
       PROVE  \/ i \in DOMAIN d.ops /\ d.ops[i].key \notin K
              \/ IsNew(A, d, f, i) /\ (i \in DOMAIN f.ops => f.ops[i].key \notin K)
  <2>1. CASE i \in e.gone
    <3>1. i # new
      BY <1>2, <2>1
    <3>2. i \in DOMAIN f.ops => i \in DOMAIN e.ops /\ f.ops[i] = e.ops[i]
      BY <1>5, <3>1
    <3>3. i \in Name
      BY <1>9, <2>1
    <3> QED BY <1>14, <2>1, <3>2, <3>3 DEF Grows
  <2>2. CASE i \in hides
    <3>1. i \in DOMAIN e.ops /\ e.ops[i].key \notin K /\ i \notin DOMAIN f.ops
      BY <1>2, <1>5, <2>2
    <3>2. (i \in DOMAIN d.ops /\ e.ops[i] = d.ops[i]) \/ IsNew(A, d, e, i)
      BY <3>1 DEF Grows
    <3>3. i \in Name
      BY <1>9, <3>1
    <3> QED BY <1>14, <3>1, <3>2, <3>3
  <2> QED BY <1>3, <2>1, <2>2
<1>13. Grows(A, K, N, d, f)
  BY <1>1, <1>6, <1>8, <1>10, <1>11, <1>12 DEF Grows
<1> QED
  BY <1>3, <1>5, <1>13 DEF f, new, Writes

\* What is shown under a key that holds something is one of what it holds.
LEMMA GetIsThere ==
  ASSUME NEW d, WellFormed(d), NEW obj, NEW key, Has(d, obj, key)
  PROVE  Get(d, obj, key) \in Values(d, obj, key)
<1> DEFINE S == Values(d, obj, key)
           N == Cardinality(S)
           R == BeforeOn(S)
<1>1. S \in SUBSET Places /\ IsFiniteSet(S) /\ S # {}
  <2>1. S \subseteq DOMAIN d.ops
    BY DEF Values
  <2>2. S # {}
    BY DEF Has
  <2> HIDE DEF S
  <2> QED BY <2>1, <2>2, FS_Subset DEF WellFormed, Places
<1>2. Get(d, obj, key) = CHOOSE i \in S : \A j \in S \ {i} : Before(j, i)
  BY DEF Get, Newest
<1>3. \A i, j \in S : <<j, i>> \in R => Before(j, i)
  BY DEF BeforeOn
<1> HIDE DEF S
<1>4. Orders(R, S)
  BY <1>1, BeforeOrders
<1> HIDE DEF R
<1>5. N \in Nat /\ N \in 1 .. N
  <2>1. N \in Nat /\ N # 0
    BY <1>1, FS_EmptySet, FS_CardinalityType
  <2> QED BY <2>1
<1>6. PICK i \in S : Cardinality(Lower(R, S, i)) = N - 1
  BY <1>1, <1>4, <1>5, Ranks
<1>7. Lower(R, S, i) = S \ {i}
  <2>1. Lower(R, S, i) \subseteq S \ {i}
    BY <1>4 DEF Lower, Orders
  <2>2. IsFiniteSet(S \ {i}) /\ Cardinality(S \ {i}) = N - 1
    BY <1>1, FS_RemoveElement
  <2> QED BY <1>6, <2>1, <2>2, FS_Subset
<1>8. \A j \in S \ {i} : Before(j, i)
  BY <1>3, <1>7 DEF Lower
<1> QED
  BY <1>2, <1>8 DEF S

----------------------------------------------------------------------------
(* What the operations of Automerge do to a document                       *)

LEMMA GrowsPut ==
  ASSUME NEW A \in SUBSET Nat, NEW K, NEW N, NEW d, NEW e, Grows(A, K, N, d, e),
         NEW a \in A, NEW obj, NEW key, NEW val, key # "", key \notin N,
         key \notin K \/ Values(e, obj, key) = {}
  PROVE  Grows(A, K, N, d, Put(e, a, obj, key, val))
<1> DEFINE hides == Values(e, obj, key)
           op == Op(obj, key, val, Root)
<1>1. hides \subseteq DOMAIN e.ops /\ \A i \in hides : e.ops[i].key \notin K \cup {""}
  BY DEF Values
<1>2. op.key = key
  BY DEF Op
<1>3. Put(e, a, obj, key, val) = e \/ Put(e, a, obj, key, val) = Write(e, a, op, hides)
  BY DEF Put
<1> HIDE DEF hides, op
<1>4. Grows(A, K, N, d, Write(e, a, op, hides))
  BY <1>1, <1>2, GrowsWrite
<1> QED
  BY <1>3, <1>4

LEMMA GrowsPutObject ==
  ASSUME NEW A \in SUBSET Nat, NEW K, NEW N, NEW d, NEW e, Grows(A, K, N, d, e),
         NEW a \in A, NEW obj, NEW key, key \notin N,
         Values(e, obj, key) = {} \/ (key # "" /\ key \notin K)
  PROVE  Grows(A, K, N, d, PutObject(e, a, obj, key))
<1> DEFINE hides == Values(e, obj, key)
           op == Op(obj, key, "object", Root)
<1>1. hides \subseteq DOMAIN e.ops /\ \A i \in hides : e.ops[i].key \notin K \cup {""}
  BY DEF Values
<1>2. op.key = key /\ op.after = Root
  BY DEF Op
<1>3. PutObject(e, a, obj, key) = Write(e, a, op, hides)
  BY DEF PutObject
<1> HIDE DEF hides, op
<1>4. Grows(A, K, N, d, Write(e, a, op, hides))
  BY <1>1, <1>2, GrowsWrite
<1> QED
  BY <1>3, <1>4

LEMMA GrowsEnsure ==
  ASSUME NEW A \in SUBSET Nat, NEW K, NEW N, NEW d, NEW e, Grows(A, K, N, d, e),
         NEW a \in A, NEW obj, NEW key, key \notin N
  PROVE  Grows(A, K, N, d, EnsureMap(e, a, obj, key)) /\ Grows(A, K, N, d, EnsureList(e, a, obj, key))
<1>1. CASE Has(e, obj, key)
  BY <1>1 DEF EnsureMap, EnsureList
<1>2. CASE ~ Has(e, obj, key)
  <2>1. Values(e, obj, key) = {}
    BY <1>2 DEF Has
  <2>2. Grows(A, K, N, d, PutObject(e, a, obj, key))
    BY <2>1, GrowsPutObject
  <2> QED BY <1>2, <2>2 DEF EnsureMap, EnsureList
<1> QED BY <1>1, <1>2

\* Hiding or erasing operations without writing one: keys are hidden, list
\* elements stay.
Dropped(d, e, S) ==
  /\ e.top = d.top + 1
  /\ e.gone = d.gone \cup S
  /\ S \subseteq DOMAIN d.ops
  /\ DOMAIN e.ops \subseteq DOMAIN d.ops
  /\ \A i \in DOMAIN e.ops : e.ops[i] = d.ops[i]
  /\ \A i \in DOMAIN d.ops : i \in DOMAIN e.ops \/ (i \in S /\ d.ops[i].key # "")

LEMMA DroppedTop ==
  ASSUME NEW d, NEW e, NEW S, WellFormed(d), Dropped(d, e, S)
  PROVE  e.top \in Nat /\ d.top <= e.top /\ \A i \in DOMAIN d.ops \cup d.gone : i[1] <= e.top
<1>1. d.top \in Nat
  BY DEF WellFormed
<1>2. e.top = d.top + 1
  BY DEF Dropped
<1>3. \A i \in DOMAIN d.ops \cup d.gone : i[1] \in Nat /\ i[1] <= d.top
  BY NameParts DEF WellFormed
<1> QED BY <1>1, <1>2, <1>3

LEMMA GrowsDropped ==
  ASSUME NEW A, NEW K, NEW N, NEW d, NEW e, Grows(A, K, N, d, e),
         NEW f, NEW S, Dropped(e, f, S), \A i \in S : e.ops[i].key \notin K
  PROVE  Grows(A, K, N, d, f)
<1>1. WellFormed(d) /\ WellFormed(e)
  BY DEF Grows
<1>2. f.top \in Nat /\ e.top <= f.top /\ \A i \in DOMAIN e.ops \cup e.gone : i[1] <= f.top
  BY <1>1, DroppedTop
<1>3. d.top \in Nat /\ e.top \in Nat /\ d.top <= e.top
  BY <1>1 DEF WellFormed, Grows
<1>4. d.top <= f.top
  BY <1>2, <1>3
<1>5. \A i \in Name : IsNew(A, d, e, i) => IsNew(A, d, f, i)
  BY <1>2, <1>3, NewStaysNew
<1>6. DOMAIN e.ops \subseteq Name /\ e.gone \subseteq Name
  BY <1>1 DEF WellFormed
<1>7. WellFormed(f)
  <2>1. IsFiniteSet(DOMAIN f.ops)
    <3>1. DOMAIN f.ops \subseteq DOMAIN e.ops /\ IsFiniteSet(DOMAIN e.ops)
      BY <1>1 DEF Dropped, WellFormed
    <3> QED BY <3>1, FS_Subset
  <2>2. DOMAIN f.ops \subseteq Name /\ f.gone \subseteq Name
    BY <1>6 DEF Dropped
  <2>3. \A i \in DOMAIN f.ops \cup f.gone : i[1] <= f.top
    <3>1. DOMAIN f.ops \cup f.gone \subseteq DOMAIN e.ops \cup e.gone
      BY DEF Dropped
    <3> QED BY <1>2, <3>1
  <2>4. ASSUME NEW i \in DOMAIN f.ops, f.ops[i].key = "" PROVE StandsWell(f.ops, i)
    <3>1. i \in DOMAIN e.ops /\ f.ops[i] = e.ops[i]
      BY DEF Dropped
    <3>2. StandsWell(e.ops, i)
      BY <1>1, <2>4, <3>1 DEF WellFormed
    <3>3. \A j \in DOMAIN e.ops : e.ops[j].key = "" => j \in DOMAIN f.ops /\ f.ops[j] = e.ops[j]
      BY DEF Dropped
    <3> QED BY <3>1, <3>2, <3>3 DEF StandsWell
  <2> QED BY <1>2, <2>1, <2>2, <2>3, <2>4 DEF WellFormed
<1>8. ASSUME NEW i \in DOMAIN f.ops
      PROVE  \/ i \in DOMAIN d.ops /\ f.ops[i] = d.ops[i]
             \/ IsNew(A, d, f, i) /\ f.ops[i].key \notin N
  <2>1. i \in DOMAIN e.ops /\ f.ops[i] = e.ops[i]
    BY DEF Dropped
  <2> QED BY <1>5, <1>6, <2>1 DEF Grows
<1>9. ASSUME NEW i \in DOMAIN d.ops, d.ops[i].key \in K \cup {""} PROVE i \in DOMAIN f.ops
  <2>1. i \in DOMAIN e.ops
    BY <1>9 DEF Grows
  <2>2. e.ops[i] = d.ops[i]
    <3>1. ~ IsNew(A, d, e, i)
      BY <1>1, OldIsNotNew
    <3> QED BY <2>1, <3>1 DEF Grows
  <2> QED BY <1>9, <2>1, <2>2 DEF Dropped
<1>10. ASSUME NEW i \in f.gone \ d.gone
       PROVE  \/ i \in DOMAIN d.ops /\ d.ops[i].key \notin K
              \/ IsNew(A, d, f, i) /\ (i \in DOMAIN f.ops => f.ops[i].key \notin K)
  <2>1. i \in DOMAIN f.ops => i \in DOMAIN e.ops /\ f.ops[i] = e.ops[i]
    BY DEF Dropped
  <2>2. CASE i \in e.gone
    BY <1>5, <1>6, <2>1, <2>2 DEF Grows
  <2>3. CASE i \in S
    <3>1. i \in DOMAIN e.ops /\ e.ops[i].key \notin K
      BY <2>3 DEF Dropped
    <3>2. (i \in DOMAIN d.ops /\ e.ops[i] = d.ops[i]) \/ IsNew(A, d, e, i)
      BY <3>1 DEF Grows
    <3> QED BY <1>5, <1>6, <2>1, <3>1, <3>2
  <2> QED BY <2>2, <2>3 DEF Dropped
<1> QED
  BY <1>1, <1>4, <1>7, <1>8, <1>9, <1>10 DEF Grows

LEMMA GrowsDelete ==
  ASSUME NEW A, NEW K, NEW N, NEW d, NEW e, Grows(A, K, N, d, e),
         NEW obj, NEW key, key # "", key \notin K
  PROVE  Grows(A, K, N, d, Delete(e, obj, key))
<1> DEFINE old == Values(e, obj, key)
           f == [ops |-> Without(e.ops, old), gone |-> e.gone \cup old, top |-> e.top + 1]
<1>1. old \subseteq DOMAIN e.ops /\ \A i \in old : e.ops[i].key = key
  BY DEF Values
<1>2. Delete(e, obj, key) = e \/ Delete(e, obj, key) = f
  BY DEF Delete
<1> HIDE DEF old
<1>3. Dropped(e, f, old)
  BY <1>1 DEF Dropped, Without
<1> HIDE DEF f
<1>4. Grows(A, K, N, d, f)
  BY <1>1, <1>3, GrowsDropped
<1> QED
  BY <1>2, <1>4

LEMMA GrowsErase ==
  ASSUME NEW A, NEW K, NEW N, NEW d, NEW e, Grows(A, K, N, d, e),
         NEW S \in SUBSET DOMAIN e.ops, \A i \in S : e.ops[i].key \notin K
  PROVE  Grows(A, K, N, d, Erase(e, S))
<1> DEFINE f == [ops |-> e.ops, gone |-> e.gone \cup S, top |-> e.top + 1]
<1>1. Erase(e, S) = e \/ Erase(e, S) = f
  BY DEF Erase
<1>2. f.ops = e.ops /\ f.gone = e.gone \cup S /\ f.top = e.top + 1
  OBVIOUS
<1> HIDE DEF f
<1>3. Dropped(e, f, S)
  BY <1>2 DEF Dropped
<1>4. Grows(A, K, N, d, f)
  BY <1>3, GrowsDropped
<1> QED
  BY <1>1, <1>4

\* An index that insert accepts.
Fits(d, list, index) == index = 0 \/ index \in 1 .. Len(Elements(d, list))

\* The document e becomes f by one more list element, of the name new.
Adds(e, f, new, list, val) ==
  /\ f.top = e.top + 1 /\ f.gone = e.gone
  /\ DOMAIN f.ops = {new} \cup DOMAIN e.ops
  /\ \A i \in DOMAIN e.ops : f.ops[i] = e.ops[i]
  /\ f.ops[new].obj = list /\ f.ops[new].key = "" /\ f.ops[new].val = val

LEMMA GrowsInsert ==
  ASSUME NEW A \in SUBSET Nat, NEW K, NEW N, NEW d, NEW e, Grows(A, K, N, d, e),
         NEW a \in A, NEW list, NEW index, NEW val, "" \notin N, Fits(e, list, index)
  PROVE  /\ Grows(A, K, N, d, Insert(e, a, list, index, val))
         /\ Adds(e, Insert(e, a, list, index, val), <<e.top + 1, a>>, list, val)
<1> DEFINE after == IF index = 0 THEN Root ELSE Elements(e, list)[index]
           op == Op(list, "", val, after)
           s == Elements(e, list)
<1>1. Insert(e, a, list, index, val) = Write(e, a, op, {})
  BY DEF Insert
<1>2. op.obj = list /\ op.key = "" /\ op.val = val /\ op.after = after
  BY DEF Op
<1>3. WellFormed(e)
  BY DEF Grows
<1>4. after = Root \/ after \in Inserted(e, list)
  <2>1. CASE index = 0
    BY <2>1
  <2>2. CASE index # 0
    <3>1. s \in Seq(Inserted(e, list)) /\ index \in 1 .. Len(s)
      BY <1>3, <2>2, ElementsProperties DEF Fits
    <3> HIDE DEF s
    <3>2. s[index] \in Inserted(e, list)
      BY <3>1, ElementOfSeq
    <3> QED BY <2>2, <3>2 DEF s
  <2> QED BY <2>1, <2>2
<1>5. \/ op.after = Root
      \/ op.after \in DOMAIN e.ops /\ e.ops[op.after].key = "" /\ e.ops[op.after].obj = op.obj
  BY <1>2, <1>4 DEF Inserted
<1> DEFINE f == Write(e, a, op, {})
           hides == {}
<1>6. DOMAIN e.ops \ hides = DOMAIN e.ops /\ e.gone \cup hides = e.gone /\ hides \in SUBSET DOMAIN e.ops
  OBVIOUS
<1>7. \A i \in hides : e.ops[i].key \notin K \cup {""}
  OBVIOUS
<1>11. op.key \notin N
  BY <1>2
<1>12. op.key = "" => \/ op.after = Root
                     \/ /\ op.after \in DOMAIN e.ops
                        /\ e.ops[op.after].key = "" /\ e.ops[op.after].obj = op.obj
  BY <1>5
<1> HIDE DEF op, after
<1>8. /\ Grows(A, K, N, d, Write(e, a, op, hides))
      /\ Writes(e, Write(e, a, op, hides), <<e.top + 1, a>>, op, hides)
  <2> HIDE DEF hides
  <2> QED BY <1>6, <1>7, <1>11, <1>12, GrowsWrite
<1>9. f = Write(e, a, op, hides) /\ f = Insert(e, a, list, index, val)
  BY <1>1
<1> HIDE DEF f, hides
<1>10. Adds(e, f, <<e.top + 1, a>>, list, val)
  BY <1>2, <1>6, <1>8, <1>9 DEF Adds, Writes
<1> QED
  BY <1>8, <1>9, <1>10

\* A list is longer by one after an insertion.
Longer(e, f, list) ==
  Len(Elements(f, list)) = Len(Elements(e, list)) + 1 /\ Len(Elements(e, list)) \in Nat

LEMMA InsertLength ==
  ASSUME NEW A \in SUBSET Nat, NEW K, NEW N, NEW d, NEW e, Grows(A, K, N, d, e),
         NEW a \in A, NEW list, NEW index, NEW val, "" \notin N, Fits(e, list, index)
  PROVE  Longer(e, Insert(e, a, list, index, val), list)
<1> DEFINE f == Insert(e, a, list, index, val)
           new == <<e.top + 1, a>>
           old == Inserted(e, list) \ e.gone
<1>1. WellFormed(e) /\ WellFormed(f)
  <2>1. Grows(A, K, N, d, f)
    BY GrowsInsert
  <2> QED BY <2>1 DEF Grows
<1>2. new \notin DOMAIN e.ops /\ new \notin e.gone
  BY <1>1, NextName
<1>3. /\ f.gone = e.gone /\ DOMAIN f.ops = {new} \cup DOMAIN e.ops
      /\ \A i \in DOMAIN e.ops : f.ops[i] = e.ops[i]
      /\ f.ops[new].obj = list /\ f.ops[new].key = ""
  <2>1. Adds(e, f, new, list, val)
    BY GrowsInsert
  <2> QED BY <2>1 DEF Adds
<1> HIDE DEF f, new
<1>4. Inserted(f, list) \ f.gone = old \cup {new} /\ new \notin old
  BY <1>2, <1>3 DEF Inserted
<1>5. /\ IsFiniteSet(old) /\ Len(Elements(e, list)) = Cardinality(old) /\ Len(Elements(e, list)) \in Nat
      /\ Len(Elements(f, list)) = Cardinality(Inserted(f, list) \ f.gone)
  BY <1>1, ElementsProperties
<1> HIDE DEF old
<1>6. Cardinality(old \cup {new}) = Cardinality(old) + 1
  BY <1>4, <1>5, FS_AddElement
<1> QED
  BY <1>4, <1>5, <1>6 DEF f, Longer

\* What two documents that agree know together is well formed.
LEMMA MergeProperties ==
  ASSUME NEW d, NEW e, WellFormed(d), WellFormed(e), Agree(d, e)
  PROVE  /\ WellFormed(Merge(d, e))
         /\ DOMAIN Merge(d, e).ops \subseteq DOMAIN d.ops \cup DOMAIN e.ops
         /\ Merge(d, e).gone = d.gone \cup e.gone
         /\ \A i \in DOMAIN Merge(d, e).ops \cap DOMAIN d.ops : Merge(d, e).ops[i] = d.ops[i]
         /\ \A i \in DOMAIN Merge(d, e).ops \cap DOMAIN e.ops : Merge(d, e).ops[i] = e.ops[i]
         /\ \A i \in DOMAIN d.ops : i \in DOMAIN Merge(d, e).ops \/ (i \in d.gone \cup e.gone /\ d.ops[i].key # "")
         /\ \A i \in DOMAIN e.ops : i \in DOMAIN Merge(d, e).ops \/ (i \in d.gone \cup e.gone /\ e.ops[i].key # "")
         /\ d.top <= Merge(d, e).top /\ e.top <= Merge(d, e).top
<1> DEFINE m == Merge(d, e)
           all == [i \in DOMAIN d.ops \cup DOMAIN e.ops |-> IF i \in DOMAIN d.ops THEN d.ops[i] ELSE e.ops[i]]
           hidden == {i \in m.gone \cap DOMAIN all : all[i].key # ""}
<1>1. m.ops = Without(all, hidden) /\ m.gone = d.gone \cup e.gone
      /\ m.top = IF d.top > e.top THEN d.top ELSE e.top
  BY DEF Merge
<1>2. DOMAIN all = DOMAIN d.ops \cup DOMAIN e.ops
  OBVIOUS
<1>3. \A i \in DOMAIN d.ops : all[i] = d.ops[i]
  OBVIOUS
<1>4. \A i \in DOMAIN e.ops : all[i] = e.ops[i]
  BY DEF Agree
<1> HIDE DEF m, all
<1>5. DOMAIN m.ops = DOMAIN all \ hidden /\ \A i \in DOMAIN all \ hidden : m.ops[i] = all[i]
  BY <1>1 DEF Without
<1>6. /\ DOMAIN m.ops \subseteq DOMAIN d.ops \cup DOMAIN e.ops
      /\ \A i \in DOMAIN m.ops \cap DOMAIN d.ops : m.ops[i] = d.ops[i]
      /\ \A i \in DOMAIN m.ops \cap DOMAIN e.ops : m.ops[i] = e.ops[i]
  BY <1>2, <1>3, <1>4, <1>5
<1>7. /\ \A i \in DOMAIN d.ops : i \in DOMAIN m.ops \/ (i \in d.gone \cup e.gone /\ d.ops[i].key # "")
      /\ \A i \in DOMAIN e.ops : i \in DOMAIN m.ops \/ (i \in d.gone \cup e.gone /\ e.ops[i].key # "")
  BY <1>1, <1>2, <1>3, <1>4, <1>5
<1>8. m.top \in Nat /\ d.top <= m.top /\ e.top <= m.top
  <2>1. d.top \in Nat /\ e.top \in Nat
    BY DEF WellFormed
  <2>2. m.top = IF d.top > e.top THEN d.top ELSE e.top
    BY <1>1
  <2> QED BY <2>1, <2>2
<1>9. \A i \in DOMAIN d.ops \cup d.gone \cup DOMAIN e.ops \cup e.gone : i[1] <= m.top
  <2>1. d.top \in Nat /\ e.top \in Nat
    BY DEF WellFormed
  <2>2. \A i \in DOMAIN d.ops \cup d.gone : i[1] \in Nat /\ i[1] <= d.top
    BY NameParts DEF WellFormed
  <2>3. \A i \in DOMAIN e.ops \cup e.gone : i[1] \in Nat /\ i[1] <= e.top
    BY NameParts DEF WellFormed
  <2> QED BY <1>8, <2>1, <2>2, <2>3
<1>10. WellFormed(m)
  <2>1. IsFiniteSet(DOMAIN m.ops)
    <3>1. IsFiniteSet(DOMAIN d.ops \cup DOMAIN e.ops)
      BY FS_Union DEF WellFormed
    <3> QED BY <1>6, <3>1, FS_Subset
  <2>2. DOMAIN m.ops \subseteq Name /\ m.gone \subseteq Name
    BY <1>1, <1>6 DEF WellFormed
  <2>3. \A i \in DOMAIN m.ops \cup m.gone : i[1] <= m.top
    BY <1>1, <1>6, <1>9
  <2>4. ASSUME NEW i \in DOMAIN m.ops, m.ops[i].key = "" PROVE StandsWell(m.ops, i)
    <3>1. CASE i \in DOMAIN d.ops
      <4>1. m.ops[i] = d.ops[i] /\ StandsWell(d.ops, i)
        BY <1>6, <2>4, <3>1 DEF WellFormed
      <4>2. \A j \in DOMAIN d.ops : d.ops[j].key = "" => j \in DOMAIN m.ops /\ m.ops[j] = d.ops[j]
        BY <1>6, <1>7
      <4> QED BY <4>1, <4>2 DEF StandsWell
    <3>2. CASE i \in DOMAIN e.ops
      <4>1. m.ops[i] = e.ops[i] /\ StandsWell(e.ops, i)
        BY <1>6, <2>4, <3>2 DEF WellFormed
      <4>2. \A j \in DOMAIN e.ops : e.ops[j].key = "" => j \in DOMAIN m.ops /\ m.ops[j] = e.ops[j]
        BY <1>6, <1>7
      <4> QED BY <4>1, <4>2 DEF StandsWell
    <3> QED BY <1>6, <3>1, <3>2
  <2> QED BY <1>8, <2>1, <2>2, <2>3, <2>4 DEF WellFormed
<1> QED
  BY <1>1, <1>6, <1>7, <1>8, <1>10 DEF m

----------------------------------------------------------------------------
(* What the operations of CrdtDocuments do to a document                   *)

\* The keys that edits write and hide.
Fields == {"epoch", "title", "seq", "actor", "parent_id", "payload", "data", "id", "status", "collection_id"}

\* The keys of K and N, which an edit leaves alone, are none that it writes.
Free(K, N) ==
  /\ \A key \in Fields : key \notin K /\ key \notin N
  /\ "tombstone" \notin K
  /\ "" \notin K /\ "" \notin N
  /\ "edit_clock" \notin N /\ "built_in" \notin N /\ "content_entries" \notin N

LEMMA FreeFields ==
  ASSUME NEW K, NEW N, Free(K, N)
  PROVE  /\ "epoch" \notin K /\ "title" \notin K /\ "seq" \notin K /\ "actor" \notin K
         /\ "parent_id" \notin K /\ "payload" \notin K /\ "data" \notin K /\ "id" \notin K
         /\ "status" \notin K /\ "collection_id" \notin K /\ "tombstone" \notin K /\ "" \notin K
         /\ "epoch" \notin N /\ "title" \notin N /\ "seq" \notin N /\ "actor" \notin N
         /\ "parent_id" \notin N /\ "payload" \notin N /\ "data" \notin N /\ "id" \notin N
         /\ "status" \notin N /\ "collection_id" \notin N /\ "" \notin N
         /\ "edit_clock" \notin N /\ "built_in" \notin N /\ "content_entries" \notin N
BY DEF Free, Fields

LEMMA GrowsSetClock ==
  ASSUME NEW A \in SUBSET Nat, NEW K, NEW N, Free(K, N), NEW d, NEW e, Grows(A, K, N, d, e),
         NEW a \in A, NEW x, NEW clock
  PROVE  Grows(A, K, N, d, SetClock(e, a, x, clock))
<1> DEFINE d1 == EnsureMap(e, a, x, "edit_clock")
           c == Get(d1, x, "edit_clock")
           d2 == Put(d1, a, c, "actor", clock[2])
<1>1. SetClock(e, a, x, clock) = Put(d2, a, c, "seq", clock[1])
  BY DEF SetClock
<1>2. Grows(A, K, N, d, d1)
  BY FreeFields, GrowsEnsure
<1> HIDE DEF d1, c
<1>3. Grows(A, K, N, d, d2)
  BY <1>2, FreeFields, GrowsPut
<1> HIDE DEF d2
<1>4. Grows(A, K, N, d, Put(d2, a, c, "seq", clock[1]))
  BY <1>3, FreeFields, GrowsPut
<1> QED
  BY <1>1, <1>4

LEMMA GrowsBumpClock ==
  ASSUME NEW A \in SUBSET Nat, NEW K, NEW N, Free(K, N), NEW d, NEW e, Grows(A, K, N, d, e),
         NEW a \in A, NEW x
  PROVE  Grows(A, K, N, d, BumpClock(e, a, x))
<1> DEFINE clock == <<Clock(e, x)[1] + 1, a>>
<1>1. BumpClock(e, a, x) = SetClock(e, a, x, clock)
  BY DEF BumpClock
<1> HIDE DEF clock
<1> QED
  BY <1>1, GrowsSetClock

LEMMA GrowsClearTombstone ==
  ASSUME NEW A, NEW K, NEW N, Free(K, N), NEW d, NEW e, Grows(A, K, N, d, e), NEW x
  PROVE  Grows(A, K, N, d, ClearTombstone(e, x))
BY FreeFields, GrowsDelete DEF ClearTombstone

\* A tombstone where no key is kept.
LEMMA GrowsSetTombstone ==
  ASSUME NEW A \in SUBSET Nat, NEW d, NEW e, Grows(A, {}, {}, d, e), NEW a \in A, NEW x
  PROVE  Grows(A, {}, {}, d, SetTombstone(e, a, x))
<1> DEFINE d1 == EnsureMap(e, a, x, "tombstone")
           t == Get(d1, x, "tombstone")
           none == {}
<1>1. SetTombstone(e, a, x) = Put(d1, a, t, "deleted", TRUE)
  BY DEF SetTombstone
<1>2. "tombstone" \notin none /\ "deleted" \notin none
  OBVIOUS
<1> HIDE DEF none
<1>3. Grows(A, none, none, d, e)
  BY DEF none
<1>4. Grows(A, none, none, d, d1)
  BY <1>2, <1>3, GrowsEnsure
<1> HIDE DEF d1, t
<1>5. Grows(A, none, none, d, Put(d1, a, t, "deleted", TRUE))
  BY <1>2, <1>4, GrowsPut
<1> QED
  BY <1>1, <1>5 DEF none

LEMMA GrowsWritePayload ==
  ASSUME NEW A \in SUBSET Nat, NEW K, NEW N, Free(K, N), NEW d, NEW e, Grows(A, K, N, d, e),
         NEW a \in A, NEW x, NEW data
  PROVE  Grows(A, K, N, d, WritePayload(e, a, x, data))
<1> DEFINE d0 == Delete(e, x, "payload")
           d1 == PutObject(d0, a, x, "payload")
           p == Get(d1, x, "payload")
<1>1. WritePayload(e, a, x, data) = Put(d1, a, p, "data", data)
  BY DEF WritePayload
<1>2. Grows(A, K, N, d, d0)
  BY FreeFields, GrowsDelete
<1> HIDE DEF d0
<1>3. Grows(A, K, N, d, d1)
  BY <1>2, FreeFields, GrowsPutObject
<1> HIDE DEF d1, p
<1>4. Grows(A, K, N, d, Put(d1, a, p, "data", data))
  BY <1>3, FreeFields, GrowsPut
<1> QED
  BY <1>1, <1>4

LEMMA GrowsAddLast ==
  ASSUME NEW A \in SUBSET Nat, NEW K, NEW N, Free(K, N), NEW d, NEW e, Grows(A, K, N, d, e),
         NEW a \in A, NEW list, NEW val
  PROVE  Grows(A, K, N, d, AddLast(e, a, list, val))
<1> DEFINE n == Len(Elements(e, list))
<1>1. n \in Nat
  BY ElementsProperties DEF Grows
<1>2. n = 0 \/ n \in 1 .. n
  BY <1>1
<1>3. Fits(e, list, n)
  BY <1>2 DEF Fits
<1>4. AddLast(e, a, list, val) = Insert(e, a, list, n, val)
  BY DEF AddLast
<1> HIDE DEF n
<1>5. "" \notin N
  BY FreeFields
<1>6. Grows(A, K, N, d, Insert(e, a, list, n, val))
  BY <1>3, <1>5, GrowsInsert
<1> QED
  BY <1>4, <1>6

LEMMA GrowsAddEntry ==
  ASSUME NEW A \in SUBSET Nat, NEW K, NEW N, Free(K, N), NEW d, NEW e, Grows(A, K, N, d, e),
         NEW a \in A, NEW x, NEW id, NEW data
  PROVE  Grows(A, K, N, d, AddEntry(e, a, x, id, data))
<1> DEFINE list == EntryLists(e, x)[1]
           d1 == AddLast(e, a, list, "object")
           y == Last(Elements(d1, list))
           d2 == Put(d1, a, y, "id", id)
<1>1. AddEntry(e, a, x, id, data) = WritePayload(d2, a, y, data)
  BY DEF AddEntry
<1> HIDE DEF list
<1>2. Grows(A, K, N, d, d1)
  BY GrowsAddLast
<1> HIDE DEF d1, y
<1>3. Grows(A, K, N, d, d2)
  BY <1>2, FreeFields, GrowsPut
<1> HIDE DEF d2
<1> QED
  BY <1>1, <1>3, GrowsWritePayload

LEMMA SeqOfParts ==
  ASSUME NEW X, NEW n \in Nat, NEW f, f = [k \in 1 .. n |-> f[k]], \A k \in 1 .. n : f[k] \in X
  PROVE  f \in Seq(X)
<1>1. f \in [1 .. n -> X]
  OBVIOUS
<1> QED
  BY <1>1

\* What GetAll lists are names of operations.
LEMMA GetAllProperties ==
  ASSUME NEW d, WellFormed(d), NEW obj, NEW key
  PROVE  /\ GetAll(d, obj, key) \in Seq(DOMAIN d.ops)
         /\ Range(GetAll(d, obj, key)) = Values(d, obj, key)
<1> DEFINE S == Values(d, obj, key)
<1>1. S \subseteq DOMAIN d.ops
  BY DEF Values
<1> HIDE DEF S
<1>2. IsFiniteSet(S) /\ S \in SUBSET Places
  BY <1>1, FS_Subset DEF WellFormed, Places
<1>3. InOrder(S) \in Seq(S) /\ Range(InOrder(S)) = S
  BY <1>2, InOrderIsSeq
<1>4. InOrder(S) \in Seq(DOMAIN d.ops)
  BY <1>1, <1>3
<1> QED
  BY <1>3, <1>4 DEF GetAll, S

LEMMA EntryListsProperties ==
  ASSUME NEW d, WellFormed(d), NEW e
  PROVE  EntryLists(d, e) \in Seq(DOMAIN d.ops)
<1> DEFINE X == DOMAIN d.ops
           bags == GetAll(d, e, "built_in")
           parts == [k \in DOMAIN bags |-> GetAll(d, bags[k], "content_entries")]
<1>1. DOMAIN bags = 1 .. Len(bags) /\ Len(bags) \in Nat
  BY GetAllProperties
<1>2. EntryLists(d, e) = FlattenSeq(parts)
  BY DEF EntryLists
<1>3. \A k \in DOMAIN bags : parts[k] \in Seq(X)
  BY GetAllProperties
<1>4. parts = [k \in 1 .. Len(bags) |-> parts[k]]
  BY <1>1
<1> HIDE DEF parts, bags, X
<1>5. parts \in Seq(Seq(X))
  BY <1>1, <1>3, <1>4, SeqOfParts
<1>6. FlattenSeq(parts) \in Seq(X)
  BY <1>5, FlattenProperties
<1> QED
  BY <1>2, <1>6 DEF X

\* The entry objects of a thing are elements of lists.
LEMMA EntryObjectsProperties ==
  ASSUME NEW d, WellFormed(d), NEW e, NEW id
  PROVE  /\ EntryObjects(d, e, id) \in Seq({i \in DOMAIN d.ops : d.ops[i].key = ""})
         /\ Range(EntryObjects(d, e, id)) \subseteq {i \in DOMAIN d.ops : d.ops[i].key = ""}
<1> DEFINE X == {i \in DOMAIN d.ops : d.ops[i].key = ""}
           lists == EntryLists(d, e)
           parts == [k \in DOMAIN lists |-> Elements(d, lists[k])]
           all == FlattenSeq(parts)
           some == {x \in Range(all) : Scalar(d, x, "id", "") = id}
<1>1. DOMAIN lists = 1 .. Len(lists) /\ Len(lists) \in Nat
  BY EntryListsProperties
<1>2. EntryObjects(d, e, id) = Only(all, some)
  BY DEF EntryObjects
<1>3. \A k \in DOMAIN lists : parts[k] \in Seq(X)
  <2> TAKE k \in DOMAIN lists
  <2>1. Elements(d, lists[k]) \in Seq(Inserted(d, lists[k]))
    BY ElementsProperties
  <2>2. Inserted(d, lists[k]) \subseteq X
    BY DEF Inserted
  <2>3. Elements(d, lists[k]) \in Seq(X)
    <3> HIDE DEF X, lists
    <3> QED BY <2>1, <2>2, SeqMonotonic
  <2> QED BY <2>3
<1>4. parts = [k \in 1 .. Len(lists) |-> parts[k]]
  BY <1>1
<1> HIDE DEF parts, lists, X
<1>5. parts \in Seq(Seq(X))
  BY <1>1, <1>3, <1>4, SeqOfParts
<1>6. all \in Seq(X)
  BY <1>5, FlattenProperties
<1> HIDE DEF all, some
<1>7. Only(all, some) \in Seq(X)
  BY <1>6, OnlyProperties
<1> DEFINE s == Only(all, some)
<1> HIDE DEF s
<1>8. Range(s) \subseteq X
  BY <1>7 DEF Range, s
<1> QED
  BY <1>2, <1>7, <1>8 DEF X, s

\* The payloads of several entries, written one after the other.
UpdateSteps(f, n, d, a, seq, data) ==
  f = [m \in 0 .. n |-> IF m = 0 THEN d ELSE WritePayload(f[m - 1], a, seq[m], data)]

LEMMA UpdateExists ==
  ASSUME NEW d, NEW a, NEW seq, NEW data, NEW N \in Nat
  PROVE  \E f : UpdateSteps(f, N, d, a, seq, data)
<1> DEFINE S == {n \in Nat : \E f : UpdateSteps(f, n, d, a, seq, data)}
<1>1. 0 \in S
  <2> DEFINE v == [m \in 0 .. 0 |-> d]
  <2>1. v = [m \in 0 .. 0 |-> IF m = 0 THEN d ELSE WritePayload(v[m - 1], a, seq[m], data)]
    <3>1. \A m \in 0 .. 0 : m = 0
      OBVIOUS
    <3> QED BY <3>1
  <2> HIDE DEF v
  <2>2. UpdateSteps(v, 0, d, a, seq, data)
    BY <2>1 DEF UpdateSteps
  <2> QED BY <2>2
<1>2. ASSUME NEW n \in 1 .. N, n - 1 \in S PROVE n \in S
  <2>1. PICK f : UpdateSteps(f, n - 1, d, a, seq, data)
    BY <1>2
  <2> DEFINE step(m, x) == WritePayload(x, a, seq[m], data)
             g == [m \in 0 .. n |-> IF m = n THEN step(n, f[n - 1]) ELSE f[m]]
  <2>2. f = [m \in 0 .. n - 1 |-> IF m = 0 THEN d ELSE step(m, f[m - 1])]
    BY <2>1 DEF UpdateSteps
  <2> HIDE DEF step
  <2>3. ASSUME NEW m \in 0 .. n
        PROVE  g[m] = IF m = 0 THEN d ELSE step(m, g[m - 1])
    <3>1. CASE m = n
      <4>1. m # 0 /\ m - 1 = n - 1 /\ n - 1 \in 0 .. n /\ n - 1 # n
        BY <3>1
      <4> QED BY <3>1, <4>1
    <3>2. CASE m # n /\ m = 0
      <4>1. m \in 0 .. n - 1
        BY <3>2
      <4>2. f[m] = d
        BY <2>2, <3>2, <4>1
      <4> QED BY <3>2, <4>2
    <3>3. CASE m # n /\ m # 0
      <4>1. m \in 0 .. n - 1 /\ m - 1 \in 0 .. n /\ m - 1 # n
        BY <3>3
      <4>2. f[m] = step(m, f[m - 1])
        BY <2>2, <3>3, <4>1
      <4> QED BY <3>3, <4>1, <4>2
    <3> QED BY <3>1, <3>2, <3>3
  <2>4. g = [m \in 0 .. n |-> g[m]]
    OBVIOUS
  <2> HIDE DEF g
  <2>5. g = [m \in 0 .. n |-> IF m = 0 THEN d ELSE step(m, g[m - 1])]
    BY <2>3, <2>4
  <2>6. UpdateSteps(g, n, d, a, seq, data)
    BY <2>5 DEF UpdateSteps, step
  <2>7. n \in Nat
    OBVIOUS
  <2> QED BY <2>6, <2>7
<1>3. N \in S
  <2>1. N \in 0 .. N
    OBVIOUS
  <2> HIDE DEF S
  <2> QED BY <1>1, <1>2, <2>1, UpToN
<1> QED
  BY <1>3

LEMMA UpdateDone ==
  ASSUME NEW d, NEW a, NEW seq, NEW data, NEW N \in Nat
  PROVE  LET done == CHOOSE f : UpdateSteps(f, N, d, a, seq, data)
         IN  /\ done[0] = d
             /\ \A n \in 1 .. N : done[n] = WritePayload(done[n - 1], a, seq[n], data)
<1> DEFINE done == CHOOSE f : UpdateSteps(f, N, d, a, seq, data)
           step(m, x) == WritePayload(x, a, seq[m], data)
<1>1. UpdateSteps(done, N, d, a, seq, data)
  BY UpdateExists
<1> HIDE DEF done
<1>2. done = [m \in 0 .. N |-> IF m = 0 THEN d ELSE step(m, done[m - 1])]
  BY <1>1 DEF UpdateSteps
<1> HIDE DEF step
<1>3. 0 \in 0 .. N /\ \A n \in 1 .. N : n \in 0 .. N /\ n # 0
  OBVIOUS
<1>4. done[0] = d /\ \A n \in 1 .. N : done[n] = step(n, done[n - 1])
  BY <1>2, <1>3
<1> QED
  BY <1>4 DEF done, step

LEMMA GrowsUpdateEntry ==
  ASSUME NEW A \in SUBSET Nat, NEW K, NEW N, Free(K, N), NEW d, NEW e, Grows(A, K, N, d, e),
         NEW a \in A, NEW x, NEW id, NEW data
  PROVE  Grows(A, K, N, d, UpdateEntry(e, a, x, id, data))
<1> DEFINE all == EntryObjects(e, x, id)
           n == Len(all)
           done == CHOOSE f : UpdateSteps(f, n, e, a, all, data)
           S == {m \in 0 .. n : Grows(A, K, N, d, done[m])}
<1>1. n \in Nat
  <2>1. WellFormed(e)
    BY DEF Grows
  <2> DEFINE X == {i \in DOMAIN e.ops : e.ops[i].key = ""}
  <2>2. all \in Seq(X)
    BY <2>1, EntryObjectsProperties
  <2> HIDE DEF all, X
  <2> QED BY <2>2, LenProperties
<1>2. UpdateEntry(e, a, x, id, data) = done[n]
  BY DEF UpdateEntry, WritePayloads, UpdateSteps
<1> HIDE DEF all, n
<1>3. done[0] = e /\ \A m \in 1 .. n : done[m] = WritePayload(done[m - 1], a, all[m], data)
  BY <1>1, UpdateDone
<1> HIDE DEF done
<1>4. 0 \in S
  BY <1>1, <1>3
<1>5. \A m \in 1 .. n : m - 1 \in S => m \in S
  <2> TAKE m \in 1 .. n
  <2> HAVE m - 1 \in S
  <2>1. Grows(A, K, N, d, WritePayload(done[m - 1], a, all[m], data))
    BY GrowsWritePayload
  <2> QED BY <1>1, <1>3, <2>1
<1>6. n \in S
  <2>1. n \in 0 .. n
    BY <1>1
  <2> HIDE DEF S
  <2> QED BY <1>1, <1>4, <1>5, <2>1, UpToN
<1> QED
  BY <1>2, <1>6

LEMMA GrowsEraseElements ==
  ASSUME NEW A, NEW K, NEW N, Free(K, N), NEW d, NEW e, Grows(A, K, N, d, e),
         NEW S \in SUBSET {i \in DOMAIN e.ops : e.ops[i].key = ""}
  PROVE  Grows(A, K, N, d, Erase(e, S))
<1>1. "" \notin K
  BY FreeFields
<1>2. S \in SUBSET DOMAIN e.ops /\ \A i \in S : e.ops[i].key \notin K
  BY <1>1
<1> QED
  BY <1>2, GrowsErase

LEMMA GrowsDeleteEntry ==
  ASSUME NEW A, NEW K, NEW N, Free(K, N), NEW d, NEW e, Grows(A, K, N, d, e), NEW x, NEW id
  PROVE  Grows(A, K, N, d, DeleteEntry(e, x, id))
<1>1. Range(EntryObjects(e, x, id)) \subseteq {i \in DOMAIN e.ops : e.ops[i].key = ""}
  BY EntryObjectsProperties DEF Grows
<1> QED
  BY <1>1, GrowsEraseElements DEF DeleteEntry

LEMMA GrowsEnsureEntries ==
  ASSUME NEW A \in SUBSET Nat, NEW K, NEW N, Free(K, N), NEW d, NEW e, Grows(A, K, N, d, e), NEW a \in A, NEW x
  PROVE  Grows(A, K, N, d, EnsureEntries(e, a, x))
<1> DEFINE d1 == EnsureMap(e, a, x, "built_in")
<1>1. Grows(A, K, N, d, d1)
  BY FreeFields, GrowsEnsure
<1>2. EnsureEntries(e, a, x) = EnsureList(d1, a, Get(d1, x, "built_in"), "content_entries")
  BY DEF EnsureEntries
<1> HIDE DEF d1
<1>3. Grows(A, K, N, d, EnsureList(d1, a, Get(d1, x, "built_in"), "content_entries"))
  BY <1>1, FreeFields, GrowsEnsure
<1> QED
  BY <1>2, <1>3

LEMMA GrowsWithFields ==
  ASSUME NEW A \in SUBSET Nat, NEW K, NEW N, Free(K, N), NEW d, NEW e, Grows(A, K, N, d, e),
         NEW a \in A, NEW x, NEW title, NEW parent
  PROVE  Grows(A, K, N, d, WithFields(e, a, x, title, parent))
<1> DEFINE G(f) == Grows(A, K, N, d, f)
           d3 == EnsureEntries(e, a, x)
           d4 == ClearTombstone(BumpClock(d3, a, x), x)
           d5 == Titled(d4, a, x, title)
<1>1. WithFields(e, a, x, title, parent) = Parented(d5, a, x, parent)
  BY DEF WithFields
<1>2. G(d3)
  BY GrowsEnsureEntries
<1> HIDE DEF d3
<1>3. G(d4)
  <2>1. G(BumpClock(d3, a, x))
    BY <1>2, GrowsBumpClock
  <2> QED BY <2>1, GrowsClearTombstone
<1> HIDE DEF d4
<1>4. G(d5)
  <2>1. G(Put(d4, a, x, "title", title))
    BY <1>3, FreeFields, GrowsPut
  <2> QED BY <1>3, <2>1 DEF Titled
<1> HIDE DEF d5
<1>5. G(Parented(d5, a, x, parent))
  <2>1. G(Put(d5, a, x, "parent_id", parent))
    BY <1>4, FreeFields, GrowsPut
  <2>2. G(Delete(d5, x, "parent_id"))
    BY <1>4, FreeFields, GrowsDelete
  <2> HIDE DEF G
  <2> QED BY <1>4, <2>1, <2>2 DEF Parented
<1> QED
  BY <1>1, <1>5

LEMMA GrowsWithEntryChange ==
  ASSUME NEW A \in SUBSET Nat, NEW K, NEW N, Free(K, N), NEW d, NEW e, Grows(A, K, N, d, e),
         NEW a \in A, NEW x, NEW entry
  PROVE  Grows(A, K, N, d, WithEntryChange(e, a, x, entry))
<1> DEFINE id == entry.id
           data == entry.data
           new == WithEntryChange(e, a, x, entry)
<1>1. new = CASE entry.do = "add"    -> AddEntry(e, a, x, id, data)
              [] entry.do = "update" -> UpdateEntry(e, a, x, id, data)
              [] entry.do = "delete" -> DeleteEntry(e, x, id)
              [] OTHER               -> e
  BY DEF WithEntryChange
<1> HIDE DEF new, id, data
<1>2. \/ new = e \/ new = AddEntry(e, a, x, id, data)
      \/ new = UpdateEntry(e, a, x, id, data) \/ new = DeleteEntry(e, x, id)
  BY <1>1
<1>3. /\ Grows(A, K, N, d, AddEntry(e, a, x, id, data))
      /\ Grows(A, K, N, d, UpdateEntry(e, a, x, id, data))
      /\ Grows(A, K, N, d, DeleteEntry(e, x, id))
  BY GrowsAddEntry, GrowsUpdateEntry, GrowsDeleteEntry
<1> QED
  BY <1>2, <1>3 DEF new

LEMMA GrowsUpsertThing ==
  ASSUME NEW A \in SUBSET Nat, NEW K, NEW N, Free(K, N), NEW d, NEW e, Grows(A, K, N, d, e),
         NEW a \in A, NEW t, t \notin N, NEW title, NEW parent, NEW entry
  PROVE  Grows(A, K, N, d, UpsertThing(e, a, t, title, parent, entry))
<1> DEFINE things == Shown(e, "things")
           d1 == EnsureMap(e, a, things, t)
           x == Get(d1, things, t)
           d2 == WithFields(d1, a, x, title, parent)
<1>1. UpsertThing(e, a, t, title, parent, entry) = WithEntryChange(d2, a, x, entry)
  BY DEF UpsertThing, UpsertThingObject
<1>2. Grows(A, K, N, d, d1)
  BY GrowsEnsure
<1> HIDE DEF things, d1, x
<1>3. Grows(A, K, N, d, d2)
  BY <1>2, GrowsWithFields
<1> HIDE DEF d2
<1>4. Grows(A, K, N, d, WithEntryChange(d2, a, x, entry))
  BY <1>3, GrowsWithEntryChange
<1> QED
  BY <1>1, <1>4

----------------------------------------------------------------------------
(* Tombstones                                                              *)

Behind(i, n) == <<i[1] + n, i[2]>>

\* A tombstone is made with its "deleted", which is the next operation of the
\* same actor and is written once.
Tombstones(d) ==
  \A i \in DOMAIN d.ops :
    /\ d.ops[i].key = "deleted" => d.ops[i].val = TRUE /\ i = Behind(d.ops[i].obj, 1)
    /\ d.ops[i].key = "tombstone" =>
         /\ Behind(i, 1) \in DOMAIN d.ops
         /\ d.ops[Behind(i, 1)].key = "deleted" /\ d.ops[Behind(i, 1)].obj = i

\* What the operations of a document that were there before are after an edit.
LEMMA GrowsOps ==
  ASSUME NEW A, NEW K, NEW N, NEW d, NEW e, Grows(A, K, N, d, e)
  PROVE  /\ \A i \in DOMAIN e.ops : i \in DOMAIN d.ops => e.ops[i] = d.ops[i]
         /\ \A i \in DOMAIN e.ops : e.ops[i].key \in N => i \in DOMAIN d.ops
         /\ \A i \in DOMAIN d.ops : d.ops[i].key \in K \cup {""} => i \in DOMAIN e.ops
<1>1. \A i \in DOMAIN d.ops : ~ IsNew(A, d, e, i)
  BY OldIsNotNew DEF Grows
<1> QED
  BY <1>1 DEF Grows

LEMMA KeepTombs ==
  ASSUME NEW A, NEW K, NEW N, NEW d, NEW e, Grows(A, K, N, d, e), Tombstones(d),
         "deleted" \in K, "tombstone" \in N, "deleted" \in N
  PROVE  Tombstones(e)
<1>3. /\ \A i \in DOMAIN e.ops : i \in DOMAIN d.ops => e.ops[i] = d.ops[i]
      /\ \A i \in DOMAIN e.ops : e.ops[i].key \in N => i \in DOMAIN d.ops
      /\ \A i \in DOMAIN d.ops : d.ops[i].key \in K \cup {""} => i \in DOMAIN e.ops
  BY GrowsOps
<1>1. ASSUME NEW i \in DOMAIN e.ops, e.ops[i].key = "deleted"
      PROVE  e.ops[i].val = TRUE /\ i = Behind(e.ops[i].obj, 1)
  <2>1. i \in DOMAIN d.ops /\ e.ops[i] = d.ops[i]
    <3>1. e.ops[i].key \in N
      BY <1>1
    <3> QED BY <1>3, <3>1
  <2> QED BY <1>1, <2>1 DEF Tombstones
<1>2. ASSUME NEW i \in DOMAIN e.ops, e.ops[i].key = "tombstone"
      PROVE  /\ Behind(i, 1) \in DOMAIN e.ops
             /\ e.ops[Behind(i, 1)].key = "deleted" /\ e.ops[Behind(i, 1)].obj = i
  <2>1. i \in DOMAIN d.ops /\ e.ops[i] = d.ops[i]
    <3>1. e.ops[i].key \in N
      BY <1>2
    <3> QED BY <1>3, <3>1
  <2>2. /\ Behind(i, 1) \in DOMAIN d.ops
        /\ d.ops[Behind(i, 1)].key = "deleted" /\ d.ops[Behind(i, 1)].obj = i
    BY <1>2, <2>1 DEF Tombstones
  <2>3. Behind(i, 1) \in DOMAIN e.ops /\ e.ops[Behind(i, 1)] = d.ops[Behind(i, 1)]
    <3>1. d.ops[Behind(i, 1)].key \in K \cup {""}
      BY <2>2
    <3> QED BY <1>3, <2>2, <3>1
  <2> QED BY <2>2, <2>3
<1> QED
  BY <1>1, <1>2 DEF Tombstones

\* A first value under a key is what the key then shows.
LEMMA FirstIsShown ==
  ASSUME NEW e, NEW f, NEW new, NEW op, Writes(e, f, new, op, {}),
         NEW obj, NEW key, op.obj = obj, op.key = key, Values(e, obj, key) = {}
  PROVE  Values(f, obj, key) = {new} /\ Get(f, obj, key) = new
<1>1. Values(f, obj, key) = {new}
  <2>1. DOMAIN f.ops = {new} \cup DOMAIN e.ops /\ f.ops[new] = op
    BY DEF Writes
  <2>2. \A i \in DOMAIN e.ops : f.ops[i] = e.ops[i]
    BY DEF Writes
  <2>3. \A i \in DOMAIN e.ops : ~(e.ops[i].obj = obj /\ e.ops[i].key = key)
    BY DEF Values
  <2> QED BY <2>1, <2>2, <2>3 DEF Values
<1>2. Get(f, obj, key) = new
  <2>1. Get(f, obj, key) = CHOOSE i \in {new} : \A j \in {new} \ {i} : Before(j, i)
    BY <1>1 DEF Get, Newest
  <2> QED BY <2>1
<1> QED
  BY <1>1, <1>2

\* A first value under a key is a write that hides nothing.
LEMMA FirstObject ==
  ASSUME NEW A \in SUBSET Nat, NEW K, NEW N, NEW d, NEW e, Grows(A, K, N, d, e),
         NEW a \in A, NEW obj, NEW key, key \notin N, Values(e, obj, key) = {}
  PROVE  /\ Grows(A, K, N, d, PutObject(e, a, obj, key))
         /\ Writes(e, PutObject(e, a, obj, key), <<e.top + 1, a>>, Op(obj, key, "object", Root), {})
<1> DEFINE hides == Values(e, obj, key)
           op == Op(obj, key, "object", Root)
           f == PutObject(e, a, obj, key)
           new == <<e.top + 1, a>>
<1>1. hides \subseteq DOMAIN e.ops /\ \A i \in hides : e.ops[i].key \notin K \cup {""}
  BY DEF Values
<1>2. op.key = key /\ op.after = Root /\ op.obj = obj
  BY DEF Op
<1>3. f = Write(e, a, op, hides) /\ hides = {}
  BY DEF PutObject
<1> HIDE DEF hides, op, f
<1>4. Grows(A, K, N, d, Write(e, a, op, hides)) /\ Writes(e, Write(e, a, op, hides), new, op, hides)
  BY <1>1, <1>2, GrowsWrite
<1> QED
  BY <1>3, <1>4 DEF f, new, op

LEMMA FirstValue ==
  ASSUME NEW A \in SUBSET Nat, NEW K, NEW N, NEW d, NEW e, Grows(A, K, N, d, e),
         NEW a \in A, NEW obj, NEW key, NEW val, key # "", key \notin N, Values(e, obj, key) = {}
  PROVE  /\ Grows(A, K, N, d, Put(e, a, obj, key, val))
         /\ Writes(e, Put(e, a, obj, key, val), <<e.top + 1, a>>, Op(obj, key, val, Root), {})
<1> DEFINE hides == Values(e, obj, key)
           op == Op(obj, key, val, Root)
           f == Put(e, a, obj, key, val)
           new == <<e.top + 1, a>>
<1>1. hides \subseteq DOMAIN e.ops /\ \A i \in hides : e.ops[i].key \notin K \cup {""}
  BY DEF Values
<1>2. op.key = key /\ op.after = Root /\ op.obj = obj
  BY DEF Op
<1>3. f = Write(e, a, op, hides) /\ hides = {}
  BY DEF Put
<1> HIDE DEF hides, op, f
<1>4. Grows(A, K, N, d, Write(e, a, op, hides)) /\ Writes(e, Write(e, a, op, hides), new, op, hides)
  BY <1>1, <1>2, GrowsWrite
<1> QED
  BY <1>3, <1>4 DEF f, new, op

\* A tombstone in a collection document: the "deleted" of one that is there is
\* not written again.
LEMMA TombstoneIsSet ==
  ASSUME NEW A \in SUBSET Nat, NEW K, NEW d, NEW e, Grows(A, K, {}, d, e), Tombstones(e),
         NEW a \in A, NEW x
  PROVE  Grows(A, K, {}, d, SetTombstone(e, a, x)) /\ Tombstones(SetTombstone(e, a, x))
<1> DEFINE d1 == EnsureMap(e, a, x, "tombstone")
           t == Get(d1, x, "tombstone")
           f == SetTombstone(e, a, x)
<1>1. f = Put(d1, a, t, "deleted", TRUE)
  BY DEF SetTombstone
<1>2. WellFormed(e)
  BY DEF Grows
<1>3. CASE Has(e, x, "tombstone")
  <2>1. d1 = e
    BY <1>3 DEF EnsureMap
  <2>2. t \in Values(e, x, "tombstone")
    BY <1>2, <1>3, <2>1, GetIsThere
  <2> HIDE DEF t, d1, f
  <2>3. t \in DOMAIN e.ops /\ e.ops[t].key = "tombstone"
    BY <2>2 DEF Values
  <2>4. Behind(t, 1) \in DOMAIN e.ops /\ e.ops[Behind(t, 1)].key = "deleted" /\ e.ops[Behind(t, 1)].obj = t
    BY <2>3 DEF Tombstones
  <2>5. Values(e, t, "deleted") = {Behind(t, 1)} /\ e.ops[Behind(t, 1)].val = TRUE
    BY <2>4 DEF Values, Tombstones
  <2>6. Put(e, a, t, "deleted", TRUE) = e
    BY <2>5 DEF Put
  <2> QED BY <1>1, <2>1, <2>6 DEF f
<1>4. CASE ~ Has(e, x, "tombstone")
  <2> DEFINE new == <<e.top + 1, a>>
             op == Op(x, "tombstone", "object", Root)
  <2>1. Values(e, x, "tombstone") = {} /\ d1 = PutObject(e, a, x, "tombstone")
    BY <1>4 DEF Has, EnsureMap
  <2>2. Grows(A, K, {}, d, d1) /\ Writes(e, d1, new, op, {}) /\ t = new
    <3> DEFINE none == {}
    <3>1. "tombstone" \notin none /\ Grows(A, K, none, d, e)
      OBVIOUS
    <3> HIDE DEF op, none, d1
    <3>2. Grows(A, K, none, d, PutObject(e, a, x, "tombstone"))
          /\ Writes(e, PutObject(e, a, x, "tombstone"), new, op, {})
      BY <2>1, <3>1, FirstObject DEF new, op
    <3>3. Grows(A, K, none, d, d1) /\ Writes(e, d1, new, op, {})
      BY <2>1, <3>2
    <3>4. op.obj = x /\ op.key = "tombstone"
      BY DEF op, Op
    <3>5. Get(d1, x, "tombstone") = new
      BY <2>1, <3>3, <3>4, FirstIsShown
    <3>6. t = new
      BY <3>5
    <3> QED BY <3>3, <3>6 DEF none
  <2> HIDE DEF d1, t, new
  <2>3. /\ d1.top = e.top + 1 /\ DOMAIN d1.ops = {new} \cup DOMAIN e.ops /\ d1.ops[new] = op
        /\ \A i \in DOMAIN e.ops : d1.ops[i] = e.ops[i]
    BY <2>2 DEF Writes
  <2>4. op.key = "tombstone" /\ op.obj = x
    BY DEF Op
  <2> HIDE DEF op
  <2>5. e.top \in Nat /\ \A i \in DOMAIN e.ops : i[1] \in Nat /\ i[1] <= e.top
    BY <1>2, NameParts DEF WellFormed
  <2>6. Behind(new, 1) = <<e.top + 2, a>> /\ Behind(new, 1) \notin DOMAIN e.ops /\ Behind(new, 1) # new
        /\ <<d1.top + 1, a>> = Behind(new, 1) /\ new \notin DOMAIN e.ops
    <3>1. new[1] = e.top + 1 /\ new[2] = a
      BY DEF new
    <3>2. (e.top + 1) + 1 = e.top + 2 /\ e.top + 2 # e.top + 1 /\ d1.top + 1 = e.top + 2
      BY <2>3, <2>5
    <3>3. Behind(new, 1) = <<e.top + 2, a>>
      BY <3>1, <3>2 DEF Behind
    <3>4. \A i \in DOMAIN e.ops : i[1] # e.top + 2 /\ i[1] # e.top + 1
      BY <2>5
    <3>5. <<e.top + 2, a>>[1] = e.top + 2
      OBVIOUS
    <3> QED BY <3>1, <3>2, <3>3, <3>4, <3>5
  <2>7. Values(d1, new, "deleted") = {}
    <3>1. SUFFICES ASSUME NEW j \in DOMAIN d1.ops, d1.ops[j].obj = new, d1.ops[j].key = "deleted" PROVE FALSE
      BY DEF Values
    <3>2. j # new
      BY <2>3, <2>4, <3>1
    <3>3. j \in DOMAIN e.ops /\ d1.ops[j] = e.ops[j]
      BY <2>3, <3>2
    <3>4. j = Behind(new, 1)
      BY <3>1, <3>3 DEF Tombstones
    <3> QED BY <2>6, <3>3, <3>4
  <2> DEFINE op2 == Op(new, "deleted", TRUE, Root)
             new2 == Behind(new, 1)
  <2>8. Grows(A, K, {}, d, f) /\ Writes(d1, f, new2, op2, {})
    <3> DEFINE none == {}
    <3>1. "deleted" \notin none /\ "deleted" # "" /\ Grows(A, K, none, d, d1)
      BY <2>2
    <3> HIDE DEF op2, new2, none
    <3>2. f = Put(d1, a, new, "deleted", TRUE)
      BY <1>1, <2>2
    <3> HIDE DEF f
    <3>3. Grows(A, K, none, d, f) /\ Writes(d1, f, <<d1.top + 1, a>>, op2, {})
      BY <2>7, <3>1, <3>2, FirstValue DEF op2
    <3> QED BY <2>6, <3>3 DEF new2, none
  <2>9. op2.key = "deleted" /\ op2.val = TRUE /\ op2.obj = new
    BY DEF Op
  <2> HIDE DEF op2, f
  <2>10. /\ DOMAIN f.ops = {new2} \cup {new} \cup DOMAIN e.ops /\ f.ops[new2] = op2
         /\ \A i \in {new} \cup DOMAIN e.ops : f.ops[i] = d1.ops[i]
    BY <2>3, <2>8 DEF Writes
  <2>11. f.ops[new] = op /\ \A i \in DOMAIN e.ops : f.ops[i] = e.ops[i]
    BY <2>3, <2>10
  <2>12. ASSUME NEW i \in DOMAIN f.ops
         PROVE  /\ f.ops[i].key = "deleted" => f.ops[i].val = TRUE /\ i = Behind(f.ops[i].obj, 1)
                /\ f.ops[i].key = "tombstone" =>
                     /\ Behind(i, 1) \in DOMAIN f.ops
                     /\ f.ops[Behind(i, 1)].key = "deleted" /\ f.ops[Behind(i, 1)].obj = i
    <3>1. CASE i = new2
      BY <2>9, <2>10, <3>1
    <3>2. CASE i = new
      BY <2>4, <2>9, <2>10, <2>11, <3>2
    <3>3. CASE i \in DOMAIN e.ops
      <4>1. f.ops[i] = e.ops[i]
        BY <2>11, <3>3
      <4>2. e.ops[i].key = "tombstone" => Behind(i, 1) \in DOMAIN e.ops
        BY <3>3 DEF Tombstones
      <4> QED BY <2>10, <2>11, <3>3, <4>1, <4>2 DEF Tombstones
    <3> QED BY <2>10, <3>1, <3>2, <3>3
  <2> QED BY <2>8, <2>12 DEF Tombstones, f
<1> QED
  BY <1>3, <1>4

----------------------------------------------------------------------------
(* The operations on a root document                                       *)

RootKeys == {"collection_uuids"}

LEMMA GrowsInitRoot ==
  ASSUME NEW A \in SUBSET Nat, NEW a \in A
  PROVE  Grows(A, RootKeys, {}, NewDoc, InitRoot(a))
<1> DEFINE K == RootKeys
           N == {"collection_uuids"}
           none == {}
           d1 == Put(NewDoc, a, Root, "epoch", 0)
           key == "collection_uuids"
<1>1. InitRoot(a) = PutObject(d1, a, Root, key)
  BY DEF InitRoot
<1>2. "epoch" \notin N /\ "epoch" \notin K /\ "epoch" # "" /\ key \in N /\ none \in SUBSET N /\ key \notin none
      /\ A \subseteq A
  BY DEF RootKeys
<1> HIDE DEF N, none, key
<1>3. Grows(A, K, N, NewDoc, NewDoc)
  BY NewDocWellFormed, GrowsFromItself
<1> HIDE DEF K
<1>4. Grows(A, K, N, NewDoc, d1)
  BY <1>2, <1>3, GrowsPut
<1> HIDE DEF d1
<1>5. Values(d1, Root, key) = {}
  <2>1. DOMAIN NewDoc.ops = {}
    BY DEF NewDoc
  <2>2. \A i \in DOMAIN d1.ops : d1.ops[i].key \notin N
    BY <1>4, <2>1 DEF Grows
  <2> QED BY <1>2, <2>2 DEF Values
<1>6. Grows(A, K, none, NewDoc, d1)
  BY <1>2, <1>4, GrowsWeaken
<1>7. Grows(A, K, none, NewDoc, PutObject(d1, a, Root, key))
  BY <1>2, <1>5, <1>6, GrowsPutObject
<1> QED
  BY <1>1, <1>7 DEF none, K

LEMMA FreeRoot == Free(RootKeys, {})
BY DEF Free, Fields, RootKeys

LEMMA GrowsAddCollection ==
  ASSUME NEW A \in SUBSET Nat, NEW K, NEW N, Free(K, N), NEW d, NEW e, Grows(A, K, N, d, e),
         "collection_uuids" \notin N, NEW a \in A, NEW c
  PROVE  Grows(A, K, N, d, AddCollection(e, a, c)) /\ Grows(A, K, N, d, AddMembership(e, a, c))
<1> DEFINE d1 == EnsureList(e, a, Root, "collection_uuids")
           list == Shown(d1, "collection_uuids")
           first == Lists(d1)[1]
<1>1. AddCollection(e, a, c) \in {d1, AddLast(d1, a, list, c)}
  BY DEF AddCollection
<1>2. AddMembership(e, a, c) \in {e, AddLast(d1, a, first, c)}
  BY DEF AddMembership
<1>3. Grows(A, K, N, d, d1)
  BY GrowsEnsure
<1> HIDE DEF d1, list, first
<1>4. Grows(A, K, N, d, AddLast(d1, a, list, c))
  BY <1>3, GrowsAddLast
<1>5. Grows(A, K, N, d, AddLast(d1, a, first, c))
  BY <1>3, GrowsAddLast
<1> QED
  BY <1>1, <1>2, <1>3, <1>4, <1>5

\* An element that Only picks from a list is one that can be erased.
Picked(d, list, S, s) ==
  /\ s[1] \in Range(Elements(d, list)) \cap S
  /\ s[Len(s)] \in Range(Elements(d, list)) \cap S

LEMMA ElementsAreInserted ==
  ASSUME NEW d, WellFormed(d), NEW list
  PROVE  /\ Range(Elements(d, list)) \subseteq Inserted(d, list)
         /\ Range(Elements(d, list)) \subseteq {i \in DOMAIN d.ops : d.ops[i].key = ""}
         /\ Inserted(d, list) \subseteq {i \in DOMAIN d.ops : d.ops[i].key = ""}
<1>1. Range(Elements(d, list)) = Inserted(d, list) \ d.gone
  BY ElementsProperties
<1>2. Inserted(d, list) \subseteq {i \in DOMAIN d.ops : d.ops[i].key = ""}
  BY DEF Inserted
<1> QED
  BY <1>1, <1>2

LEMMA PickedElements ==
  ASSUME NEW d, WellFormed(d), NEW list, NEW S, Only(Elements(d, list), S) # <<>>
  PROVE  Picked(d, list, S, Only(Elements(d, list), S))
<1> DEFINE o == Elements(d, list)
           X == Inserted(d, list)
           s == Only(o, S)
<1>1. o \in Seq(X) /\ Range(o) \subseteq X /\ Distinct(o)
  BY ElementsProperties
<1> HIDE DEF o, X
<1>3. Only(o, S) \in Seq(X) /\ Range(Only(o, S)) = Range(o) \cap S
  BY <1>1, OnlyProperties
<1>4. s \in Seq(X) /\ Range(s) = Range(o) \cap S
  BY <1>3
<1> HIDE DEF s
<1>5. Len(s) \in Nat /\ Len(s) # 0 /\ DOMAIN s = 1 .. Len(s)
  <2>1. s # <<>>
    BY DEF s, o
  <2> QED BY <1>4, <2>1
<1>6. 1 \in DOMAIN s /\ Len(s) \in DOMAIN s
  BY <1>5
<1>7. s[1] \in Range(s) /\ s[Len(s)] \in Range(s)
  BY <1>6 DEF Range
<1> QED
  BY <1>4, <1>7 DEF Picked, s, o

LEMMA GrowsRemoveCollection ==
  ASSUME NEW A, NEW K, NEW N, Free(K, N), NEW d, NEW e, Grows(A, K, N, d, e), NEW c
  PROVE  Grows(A, K, N, d, RemoveCollection(e, c))
<1> DEFINE list == Shown(e, "collection_uuids")
           S == {i \in Inserted(e, list) : e.ops[i].val = c}
           at == Only(Elements(e, list), S)
<1>1. RemoveCollection(e, c) = e \/ (at # <<>> /\ RemoveCollection(e, c) = Erase(e, {Last(at)}))
  BY DEF RemoveCollection
<1>2. ASSUME at # <<>> PROVE Grows(A, K, N, d, Erase(e, {Last(at)}))
  <2>1. WellFormed(e)
    BY DEF Grows
  <2> HIDE DEF list, S
  <2>2. at[Len(at)] \in {i \in DOMAIN e.ops : e.ops[i].key = ""}
    <3>1. Picked(e, list, S, at)
      BY <1>2, <2>1, PickedElements
    <3>2. Range(Elements(e, list)) \subseteq {i \in DOMAIN e.ops : e.ops[i].key = ""}
      BY <2>1, ElementsAreInserted
    <3> HIDE DEF at
    <3> QED BY <3>1, <3>2 DEF Picked
  <2>3. Last(at) = at[Len(at)]
    BY DEF Last
  <2> HIDE DEF at
  <2>4. {Last(at)} \in SUBSET {i \in DOMAIN e.ops : e.ops[i].key = ""}
    BY <2>2, <2>3
  <2> QED BY <2>4, GrowsEraseElements
<1> QED
  BY <1>1, <1>2

LEMMA GrowsIncrementEpoch ==
  ASSUME NEW A \in SUBSET Nat, NEW K, NEW N, Free(K, N), NEW d, NEW e, Grows(A, K, N, d, e), NEW a \in A
  PROVE  Grows(A, K, N, d, IncrementEpoch(e, a))
<1> DEFINE val == Scalar(e, Root, "epoch", 0) + 1
<1>1. IncrementEpoch(e, a) = Put(e, a, Root, "epoch", val)
  BY DEF IncrementEpoch
<1> HIDE DEF val
<1>2. "epoch" # "" /\ "epoch" \notin N /\ "epoch" \notin K
  BY FreeFields
<1>3. Grows(A, K, N, d, Put(e, a, Root, "epoch", val))
  BY <1>2, GrowsPut
<1> QED
  BY <1>1, <1>3

----------------------------------------------------------------------------
(* The operations on a collection document                                 *)

CollectionKeys(T) == {"things", "deleted"} \cup T

Marks == {"tombstone", "deleted"}

LEMMA FreeCollection ==
  ASSUME NEW T, T \cap FieldKeys = {}
  PROVE  Free(CollectionKeys(T), Marks) /\ Free(CollectionKeys(T), Marks \cup {"things"})
BY DEF Free, Fields, FieldKeys, CollectionKeys, Marks

\* A collection document as edits make it.
Edited(A, T, d, e) == Grows(A, CollectionKeys(T), {}, d, e) /\ Tombstones(e)

\* An edit that writes no tombstone.
LEMMA EditedUnmarked ==
  ASSUME NEW A, NEW T, NEW d, NEW e, Grows(A, CollectionKeys(T), Marks, d, e), Tombstones(d)
  PROVE  Edited(A, T, d, e)
<1> DEFINE K == CollectionKeys(T)
           N == Marks
           none == {}
<1>1. "deleted" \in K /\ "tombstone" \in N /\ "deleted" \in N /\ none \in SUBSET N /\ A \subseteq A
  BY DEF CollectionKeys, Marks
<1> HIDE DEF K, N, none
<1>2. Grows(A, K, N, d, e)
  BY DEF K, N
<1>3. Tombstones(e)
  BY <1>1, <1>2, KeepTombs
<1>4. Grows(A, K, none, d, e)
  BY <1>1, <1>2, GrowsWeaken
<1> QED
  BY <1>3, <1>4 DEF Edited, K, none

LEMMA EditedInit ==
  ASSUME NEW A \in SUBSET Nat, NEW a \in A, NEW T, T \cap FieldKeys = {}
  PROVE  Edited(A, T, NewDoc, InitCollection(a))
<1> DEFINE K == CollectionKeys(T)
           N == Marks \cup {"things"}
           M == Marks
           d0 == PutObject(NewDoc, a, Root, "meta")
           meta == Shown(d0, "meta")
           d1 == Put(d0, a, meta, "title", NoTitle)
           d2 == SetClock(d1, a, meta, <<1, a>>)
           key == "things"
<1>1. InitCollection(a) = PutObject(d2, a, Root, key)
  BY DEF InitCollection
<1>2. /\ Free(K, N) /\ M \in SUBSET N /\ A \subseteq A /\ key \in N /\ key \notin M
      /\ "meta" \notin N /\ "meta" \notin K /\ "meta" # ""
  <2>1. Free(K, N)
    BY FreeCollection
  <2> QED BY <2>1 DEF FieldKeys, Marks, CollectionKeys
<1> HIDE DEF K, N, M, key
<1>3. Grows(A, K, N, NewDoc, NewDoc)
  BY NewDocWellFormed, GrowsFromItself
<1>4. Grows(A, K, N, NewDoc, d0)
  BY <1>2, <1>3, GrowsPutObject
<1> HIDE DEF d0, meta
<1>5. Grows(A, K, N, NewDoc, d1)
  BY <1>2, <1>4, FreeFields, GrowsPut
<1> HIDE DEF d1
<1>6. Grows(A, K, N, NewDoc, d2)
  BY <1>2, <1>5, GrowsSetClock
<1> HIDE DEF d2
<1>7. Values(d2, Root, key) = {}
  <2>1. DOMAIN NewDoc.ops = {}
    BY DEF NewDoc
  <2>2. \A i \in DOMAIN d2.ops : d2.ops[i].key \notin N
    BY <1>6, <2>1 DEF Grows
  <2> QED BY <1>2, <2>2 DEF Values
<1>8. Grows(A, K, M, NewDoc, d2)
  BY <1>2, <1>6, GrowsWeaken
<1>9. Grows(A, K, M, NewDoc, PutObject(d2, a, Root, key))
  BY <1>2, <1>7, <1>8, GrowsPutObject
<1>10. Tombstones(NewDoc)
  BY DEF Tombstones, NewDoc
<1> QED
  BY <1>1, <1>9, <1>10, EditedUnmarked DEF K, M

\* An operation on a thing or on the document itself that deletes nothing.
LEMMA EditedField ==
  ASSUME NEW A \in SUBSET Nat, NEW a \in A, NEW T, T \cap FieldKeys = {}, NEW d, WellFormed(d), Tombstones(d)
  PROVE  /\ \A t \in T : \A title, parent, entry : Edited(A, T, d, UpsertThing(d, a, t, title, parent, entry))
         /\ \A t \in T : Edited(A, T, d, MoveThingHere(d, a, t))
         /\ \A title : Edited(A, T, d, UpdateMeta(d, a, title))
<1> DEFINE K == CollectionKeys(T)
           N == Marks
<1>1. Free(K, N) /\ \A t \in T : t \notin N
  <2>1. Free(K, N)
    BY FreeCollection
  <2> QED BY <2>1 DEF FieldKeys, Marks
<1> HIDE DEF K, N
<1>2. Grows(A, K, N, d, d)
  BY GrowsFromItself
<1>3. ASSUME NEW t \in T, NEW title, NEW parent, NEW entry
      PROVE  Edited(A, T, d, UpsertThing(d, a, t, title, parent, entry))
  <2>1. Grows(A, K, N, d, UpsertThing(d, a, t, title, parent, entry))
    BY <1>1, <1>2, GrowsUpsertThing
  <2> QED BY <2>1, EditedUnmarked DEF K, N
<1>4. ASSUME NEW t \in T PROVE Edited(A, T, d, MoveThingHere(d, a, t))
  <2> DEFINE d1 == EnsureMap(d, a, Shown(d, "things"), t)
             x == Get(d1, Shown(d, "things"), t)
  <2>1. MoveThingHere(d, a, t) = BumpClock(d1, a, x)
    BY DEF MoveThingHere
  <2>2. Grows(A, K, N, d, d1)
    BY <1>1, <1>2, GrowsEnsure
  <2> HIDE DEF d1, x
  <2>3. Grows(A, K, N, d, BumpClock(d1, a, x))
    BY <1>1, <2>2, GrowsBumpClock
  <2> QED BY <2>1, <2>3, EditedUnmarked DEF K, N
<1>5. ASSUME NEW title PROVE Edited(A, T, d, UpdateMeta(d, a, title))
  <2> DEFINE meta == Shown(d, "meta")
             d1 == BumpClock(d, a, meta)
             d2 == ClearTombstone(d1, meta)
  <2>1. UpdateMeta(d, a, title) = Put(d2, a, meta, "title", title)
    BY DEF UpdateMeta
  <2> HIDE DEF meta
  <2>2. Grows(A, K, N, d, d1)
    BY <1>1, <1>2, GrowsBumpClock
  <2> HIDE DEF d1
  <2>3. Grows(A, K, N, d, d2)
    BY <1>1, <2>2, GrowsClearTombstone
  <2> HIDE DEF d2
  <2>4. Grows(A, K, N, d, Put(d2, a, meta, "title", title))
    BY <1>1, <2>3, FreeFields, GrowsPut
  <2> QED BY <2>1, <2>4, EditedUnmarked DEF K, N
<1> QED
  BY <1>3, <1>4, <1>5

LEMMA EditedDeleteMeta ==
  ASSUME NEW A \in SUBSET Nat, NEW a \in A, NEW T, NEW d, WellFormed(d), Tombstones(d)
  PROVE  Edited(A, T, d, DeleteMeta(d, a))
<1> DEFINE K == CollectionKeys(T)
           meta == Shown(d, "meta")
<1>1. DeleteMeta(d, a) = SetTombstone(d, a, meta)
  BY DEF DeleteMeta
<1>2. Grows(A, K, {}, d, d)
  BY GrowsFromItself
<1> HIDE DEF K, meta
<1>3. Grows(A, K, {}, d, SetTombstone(d, a, meta)) /\ Tombstones(SetTombstone(d, a, meta))
  BY <1>2, TombstoneIsSet
<1> QED
  BY <1>1, <1>3 DEF Edited, K

LEMMA EditedDeleteThing ==
  ASSUME NEW A \in SUBSET Nat, NEW a \in A, NEW T, T \cap FieldKeys = {}, NEW d, NEW e, Edited(A, T, d, e),
         NEW t \in T
  PROVE  Edited(A, T, d, DeleteThing(e, a, t))
<1> DEFINE K == CollectionKeys(T)
           N == Marks
           things == Shown(e, "things")
           d1 == EnsureMap(e, a, things, t)
           x == Get(d1, things, t)
           none == {}
<1>1. DeleteThing(e, a, t) = SetTombstone(d1, a, x)
  BY DEF DeleteThing
<1>2. t \notin N /\ t \notin none
  BY DEF FieldKeys, Marks
<1> HIDE DEF K, N, none, things
<1>3. Grows(A, K, none, d, e) /\ WellFormed(e) /\ Tombstones(e)
  BY DEF Edited, K, none, Grows
<1>4. Grows(A, K, none, d, d1)
  BY <1>2, <1>3, GrowsEnsure
<1>5. Tombstones(d1)
  <2>1. Grows(A, K, N, e, e)
    BY <1>3, GrowsFromItself
  <2>2. Grows(A, K, N, e, d1)
    BY <1>2, <2>1, GrowsEnsure
  <2> HIDE DEF d1
  <2> QED BY <1>3, <2>2, EditedUnmarked DEF K, N, Edited
<1> HIDE DEF d1, x
<1>6. Grows(A, K, {}, d, SetTombstone(d1, a, x)) /\ Tombstones(SetTombstone(d1, a, x))
  BY <1>4, <1>5, TombstoneIsSet DEF none
<1> QED
  BY <1>1, <1>6 DEF Edited, K

\* FOLD
\* The things of a sequence, deleted one after the other.
DeleteThingsSteps(f, n, d, a, seq) ==
  f = [m \in 0 .. n |-> IF m = 0 THEN d ELSE DeleteThing(f[m - 1], a, seq[m])]

LEMMA DeleteThingsExists ==
  ASSUME NEW d, NEW a, NEW seq, NEW N \in Nat
  PROVE  \E f : DeleteThingsSteps(f, N, d, a, seq)
<1> DEFINE S == {n \in Nat : \E f : DeleteThingsSteps(f, n, d, a, seq)}
<1>1. 0 \in S
  <2> DEFINE v == [m \in 0 .. 0 |-> d]
  <2>1. v = [m \in 0 .. 0 |-> IF m = 0 THEN d ELSE DeleteThing(v[m - 1], a, seq[m])]
    <3>1. \A m \in 0 .. 0 : m = 0
      OBVIOUS
    <3> QED BY <3>1
  <2> HIDE DEF v
  <2>2. DeleteThingsSteps(v, 0, d, a, seq)
    BY <2>1 DEF DeleteThingsSteps
  <2> QED BY <2>2
<1>2. ASSUME NEW n \in 1 .. N, n - 1 \in S PROVE n \in S
  <2>1. PICK f : DeleteThingsSteps(f, n - 1, d, a, seq)
    BY <1>2
  <2> DEFINE step(m, x) == DeleteThing(x, a, seq[m])
             g == [m \in 0 .. n |-> IF m = n THEN step(n, f[n - 1]) ELSE f[m]]
  <2>2. f = [m \in 0 .. n - 1 |-> IF m = 0 THEN d ELSE step(m, f[m - 1])]
    BY <2>1 DEF DeleteThingsSteps
  <2> HIDE DEF step
  <2>3. ASSUME NEW m \in 0 .. n
        PROVE  g[m] = IF m = 0 THEN d ELSE step(m, g[m - 1])
    <3>1. CASE m = n
      <4>1. m # 0 /\ m - 1 = n - 1 /\ n - 1 \in 0 .. n /\ n - 1 # n
        BY <3>1
      <4> QED BY <3>1, <4>1
    <3>2. CASE m # n /\ m = 0
      <4>1. m \in 0 .. n - 1
        BY <3>2
      <4>2. f[m] = d
        BY <2>2, <3>2, <4>1
      <4> QED BY <3>2, <4>2
    <3>3. CASE m # n /\ m # 0
      <4>1. m \in 0 .. n - 1 /\ m - 1 \in 0 .. n /\ m - 1 # n
        BY <3>3
      <4>2. f[m] = step(m, f[m - 1])
        BY <2>2, <3>3, <4>1
      <4> QED BY <3>3, <4>1, <4>2
    <3> QED BY <3>1, <3>2, <3>3
  <2>4. g = [m \in 0 .. n |-> g[m]]
    OBVIOUS
  <2> HIDE DEF g
  <2>5. g = [m \in 0 .. n |-> IF m = 0 THEN d ELSE step(m, g[m - 1])]
    BY <2>3, <2>4
  <2>6. DeleteThingsSteps(g, n, d, a, seq)
    BY <2>5 DEF DeleteThingsSteps, step
  <2>7. n \in Nat
    OBVIOUS
  <2> QED BY <2>6, <2>7
<1>3. N \in S
  <2>1. N \in 0 .. N
    OBVIOUS
  <2> HIDE DEF S
  <2> QED BY <1>1, <1>2, <2>1, UpToN
<1> QED
  BY <1>3

LEMMA DeleteThingsDone ==
  ASSUME NEW d, NEW a, NEW seq, NEW N \in Nat
  PROVE  LET done == CHOOSE f : DeleteThingsSteps(f, N, d, a, seq)
         IN  /\ done[0] = d
             /\ \A n \in 1 .. N : done[n] = DeleteThing(done[n - 1], a, seq[n])
<1> DEFINE done == CHOOSE f : DeleteThingsSteps(f, N, d, a, seq)
           step(m, x) == DeleteThing(x, a, seq[m])
<1>1. DeleteThingsSteps(done, N, d, a, seq)
  BY DeleteThingsExists
<1> HIDE DEF done
<1>2. done = [m \in 0 .. N |-> IF m = 0 THEN d ELSE step(m, done[m - 1])]
  BY <1>1 DEF DeleteThingsSteps
<1> HIDE DEF step
<1>3. 0 \in 0 .. N /\ \A n \in 1 .. N : n \in 0 .. N /\ n # 0
  OBVIOUS
<1>4. done[0] = d /\ \A n \in 1 .. N : done[n] = step(n, done[n - 1])
  BY <1>2, <1>3
<1> QED
  BY <1>4 DEF done, step

\* A finite set is put into a sequence.
LEMMA SetToSeqProperties ==
  ASSUME NEW S, IsFiniteSet(S)
  PROVE  SetToSeq(S) \in [1 .. Cardinality(S) -> S] /\ Cardinality(S) \in Nat
         /\ Len(SetToSeq(S)) = Cardinality(S)
<1> DEFINE n == Cardinality(S)
<1>1. n \in Nat /\ \E f : f \in Bijection(1 .. n, S)
  BY FS_CardinalityType, FS_NatBijection DEF ExistsBijection
<1>2. PICK f : f \in Bijection(1 .. n, S)
  BY <1>1
<1> HIDE DEF n
<1>3. f \in [1 .. n -> S] /\ IsInjective(f)
  BY <1>2 DEF Bijection, Injection, IsInjective
<1>4. SetToSeq(S) = CHOOSE g \in [1 .. n -> S] : IsInjective(g)
  BY DEF SetToSeq, n
<1>5. SetToSeq(S) \in [1 .. n -> S]
  BY <1>3, <1>4
<1>6. Len(SetToSeq(S)) = n
  BY <1>1, <1>5
<1> QED
  BY <1>1, <1>5, <1>6 DEF n

LEMMA EditedDeleteThings ==
  ASSUME NEW A \in SUBSET Nat, NEW a \in A, NEW T, T \cap FieldKeys = {}, IsFiniteSet(T),
         NEW d, WellFormed(d), Tombstones(d)
  PROVE  Edited(A, T, d, DeleteThings(d, a, SetToSeq(T)))
<1> DEFINE seq == SetToSeq(T)
           n == Len(seq)
           done == CHOOSE f : DeleteThingsSteps(f, n, d, a, seq)
           S == {m \in 0 .. n : Edited(A, T, d, done[m])}
<1>1. n \in Nat /\ seq \in [1 .. n -> T]
  BY SetToSeqProperties
<1>2. DeleteThings(d, a, seq) = done[n]
  BY DEF DeleteThings, DeleteThingsSteps
<1> HIDE DEF seq, n
<1>3. done[0] = d /\ \A m \in 1 .. n : done[m] = DeleteThing(done[m - 1], a, seq[m])
  BY <1>1, DeleteThingsDone
<1> HIDE DEF done
<1>4. 0 \in S
  <2>1. Edited(A, T, d, d)
    BY GrowsFromItself DEF Edited
  <2> QED BY <1>1, <1>3, <2>1
<1>5. \A m \in 1 .. n : m - 1 \in S => m \in S
  <2> TAKE m \in 1 .. n
  <2> HAVE m - 1 \in S
  <2>1. seq[m] \in T
    BY <1>1
  <2>2. Edited(A, T, d, DeleteThing(done[m - 1], a, seq[m]))
    BY <2>1, EditedDeleteThing
  <2> QED BY <1>1, <1>3, <2>2
<1>6. n \in S
  <2>1. n \in 0 .. n
    BY <1>1
  <2> HIDE DEF S
  <2> QED BY <1>1, <1>4, <1>5, <2>1, UpToN
<1> QED
  BY <1>2, <1>6 DEF seq

----------------------------------------------------------------------------
(* Blocks and their text                                                   *)

\* The least of two numbers.
LEMMA LeastOfTwo ==
  ASSUME NEW m \in Nat, NEW n \in Nat
  PROVE  Min({m, n}) \in Nat /\ Min({m, n}) <= m /\ Min({m, n}) <= n
<1> DEFINE S == {m, n}
<1>1. \E x \in S : \A y \in S : x <= y
  OBVIOUS
<1>2. Min(S) = CHOOSE x \in S : \A y \in S : x <= y
  BY DEF Min
<1>3. Min(S) \in S /\ \A y \in S : Min(S) <= y
  BY <1>1, <1>2
<1> QED
  BY <1>3

LEMMA FitsIndex ==
  ASSUME NEW d, WellFormed(d), NEW list, NEW index \in Nat
  PROVE  Fits(d, list, Min({index, Len(Elements(d, list))}))
<1> DEFINE n == Len(Elements(d, list))
<1>1. n \in Nat
  BY ElementsProperties
<1> HIDE DEF n
<1>2. Min({index, n}) = 0 \/ Min({index, n}) \in 1 .. n
  BY <1>1, LeastOfTwo
<1> QED
  BY <1>2 DEF Fits, n

----------------------------------------------------------------------------
(* The shape of a content document                                         *)

\* A block is made with its id and its text, which are the next operations of
\* the same actor, and the document with its list of blocks; each is written
\* once.  The other elements are characters of a text.
HasBehind(ops, i, n, key) ==
  /\ Behind(i, n) \in DOMAIN ops
  /\ ops[Behind(i, n)].key = key /\ ops[Behind(i, n)].obj = i

InText(ops, i) == ops[i].obj \in DOMAIN ops /\ ops[ops[i].obj].key = "text"

Shaped(ops, i) ==
  /\ ops[i].key = "content" => HasBehind(ops, i, 1, "blocks")
  /\ ops[i].key = "blocks" \/ ops[i].key = "id" => i = Behind(ops[i].obj, 1)
  /\ ops[i].key = "text" => i = Behind(ops[i].obj, 2)
  /\ ops[i].key = "" => HasBehind(ops, i, 2, "text") \/ InText(ops, i)

Shape(d) == \A i \in DOMAIN d.ops : Shaped(d.ops, i)

\* An operation keeps its shape where the lists and the texts are kept.
LEMMA ShapedStays ==
  ASSUME NEW ops, NEW new, NEW i \in DOMAIN ops, i \in DOMAIN new, Shaped(ops, i), new[i] = ops[i],
         \A j \in DOMAIN ops : ops[j].key = "blocks" \/ ops[j].key = "text" => j \in DOMAIN new /\ new[j] = ops[j]
  PROVE  Shaped(new, i)
<1>1. \A n : /\ HasBehind(ops, i, n, "blocks") => HasBehind(new, i, n, "blocks")
             /\ HasBehind(ops, i, n, "text") => HasBehind(new, i, n, "text")
  BY DEF HasBehind
<1>2. InText(ops, i) => InText(new, i)
  BY DEF InText
<1> QED
  BY <1>1, <1>2 DEF Shaped

IsText(d, list) == list \in DOMAIN d.ops /\ d.ops[list].key = "text"

\* A character typed into a text keeps the shape.
LEMMA CharacterKeepsShape ==
  ASSUME NEW e, NEW f, NEW new, NEW list, NEW val, Adds(e, f, new, list, val), Shape(e), IsText(e, list)
  PROVE  Shape(f) /\ IsText(f, list)
<1>1. /\ DOMAIN f.ops = {new} \cup DOMAIN e.ops
      /\ f.ops[new].obj = list /\ f.ops[new].key = ""
      /\ \A i \in DOMAIN e.ops : f.ops[i] = e.ops[i]
  BY DEF Adds
<1>2. list \in DOMAIN f.ops /\ f.ops[list].key = "text"
  BY <1>1 DEF IsText
<1>3. ASSUME NEW i \in DOMAIN f.ops
      PROVE  Shaped(f.ops, i)
  <2>1. CASE i \in DOMAIN e.ops
    <3>1. f.ops[i] = e.ops[i] /\ Shaped(e.ops, i)
      BY <1>1, <2>1 DEF Shape
    <3>2. \A j \in DOMAIN e.ops : j \in DOMAIN f.ops /\ f.ops[j] = e.ops[j]
      BY <1>1
    <3> QED BY <2>1, <3>1, <3>2, ShapedStays
  <2>2. CASE i = new
    <3>1. InText(f.ops, i)
      BY <1>1, <1>2, <2>2 DEF InText
    <3> QED BY <1>1, <2>2, <3>1 DEF Shaped
  <2> QED BY <1>1, <2>1, <2>2
<1> QED
  BY <1>2, <1>3 DEF Shape, IsText

\* The characters of a text, typed one after the other.
TypedSteps(f, n, d, a, list, text) ==
  f = [m \in 0 .. n |-> IF m = 0 THEN d ELSE Insert(f[m - 1], a, list, m - 1, text[m])]

LEMMA TypedExists ==
  ASSUME NEW d, NEW a, NEW list, NEW text, NEW N \in Nat
  PROVE  \E f : TypedSteps(f, N, d, a, list, text)
<1> DEFINE S == {n \in Nat : \E f : TypedSteps(f, n, d, a, list, text)}
<1>1. 0 \in S
  <2> DEFINE v == [m \in 0 .. 0 |-> d]
  <2>1. v = [m \in 0 .. 0 |-> IF m = 0 THEN d ELSE Insert(v[m - 1], a, list, m - 1, text[m])]
    <3>1. \A m \in 0 .. 0 : m = 0
      OBVIOUS
    <3> QED BY <3>1
  <2> HIDE DEF v
  <2>2. TypedSteps(v, 0, d, a, list, text)
    BY <2>1 DEF TypedSteps
  <2> QED BY <2>2
<1>2. ASSUME NEW n \in 1 .. N, n - 1 \in S PROVE n \in S
  <2>1. PICK f : TypedSteps(f, n - 1, d, a, list, text)
    BY <1>2
  <2> DEFINE step(m, x) == Insert(x, a, list, m - 1, text[m])
             g == [m \in 0 .. n |-> IF m = n THEN step(n, f[n - 1]) ELSE f[m]]
  <2>2. f = [m \in 0 .. n - 1 |-> IF m = 0 THEN d ELSE step(m, f[m - 1])]
    BY <2>1 DEF TypedSteps
  <2> HIDE DEF step
  <2>3. ASSUME NEW m \in 0 .. n
        PROVE  g[m] = IF m = 0 THEN d ELSE step(m, g[m - 1])
    <3>1. CASE m = n
      <4>1. m # 0 /\ m - 1 = n - 1 /\ n - 1 \in 0 .. n /\ n - 1 # n
        BY <3>1
      <4> QED BY <3>1, <4>1
    <3>2. CASE m # n /\ m = 0
      <4>1. m \in 0 .. n - 1
        BY <3>2
      <4>2. f[m] = d
        BY <2>2, <3>2, <4>1
      <4> QED BY <3>2, <4>2
    <3>3. CASE m # n /\ m # 0
      <4>1. m \in 0 .. n - 1 /\ m - 1 \in 0 .. n /\ m - 1 # n
        BY <3>3
      <4>2. f[m] = step(m, f[m - 1])
        BY <2>2, <3>3, <4>1
      <4> QED BY <3>3, <4>1, <4>2
    <3> QED BY <3>1, <3>2, <3>3
  <2>4. g = [m \in 0 .. n |-> g[m]]
    OBVIOUS
  <2> HIDE DEF g
  <2>5. g = [m \in 0 .. n |-> IF m = 0 THEN d ELSE step(m, g[m - 1])]
    BY <2>3, <2>4
  <2>6. TypedSteps(g, n, d, a, list, text)
    BY <2>5 DEF TypedSteps, step
  <2>7. n \in Nat
    OBVIOUS
  <2> QED BY <2>6, <2>7
<1>3. N \in S
  <2>1. N \in 0 .. N
    OBVIOUS
  <2> HIDE DEF S
  <2> QED BY <1>1, <1>2, <2>1, UpToN
<1> QED
  BY <1>3

LEMMA TypedDone ==
  ASSUME NEW d, NEW a, NEW list, NEW text, NEW N \in Nat
  PROVE  LET done == CHOOSE f : TypedSteps(f, N, d, a, list, text)
         IN  /\ done[0] = d
             /\ \A n \in 1 .. N : done[n] = Insert(done[n - 1], a, list, n - 1, text[n])
<1> DEFINE done == CHOOSE f : TypedSteps(f, N, d, a, list, text)
           step(m, x) == Insert(x, a, list, m - 1, text[m])
<1>1. TypedSteps(done, N, d, a, list, text)
  BY TypedExists
<1> HIDE DEF done
<1>2. done = [m \in 0 .. N |-> IF m = 0 THEN d ELSE step(m, done[m - 1])]
  BY <1>1 DEF TypedSteps
<1> HIDE DEF step
<1>3. 0 \in 0 .. N /\ \A n \in 1 .. N : n \in 0 .. N /\ n # 0
  OBVIOUS
<1>4. done[0] = d /\ \A n \in 1 .. N : done[n] = step(n, done[n - 1])
  BY <1>2, <1>3
<1> QED
  BY <1>4 DEF done, step

Typable(text) == Len(text) \in Nat

LEMMA TypedProperties ==
  ASSUME NEW A \in SUBSET Nat, NEW K, NEW N, Free(K, N), NEW d, NEW e, Grows(A, K, N, d, e),
         NEW a \in A, NEW list, NEW text, Typable(text)
  PROVE  /\ Grows(A, K, N, d, Typed(e, a, list, text))
         /\ Shape(e) /\ IsText(e, list) => Shape(Typed(e, a, list, text))
<1> DEFINE n == Len(text)
           done == CHOOSE f : TypedSteps(f, n, e, a, list, text)
           G(f) == Grows(A, K, N, d, f)
           H(f) == Shape(e) /\ IsText(e, list) => Shape(f) /\ IsText(f, list)
           S == {m \in 0 .. n : G(done[m]) /\ H(done[m]) /\ Len(Elements(done[m], list)) >= m}
<1>1. n \in Nat
  BY DEF Typable
<1>2. Typed(e, a, list, text) = done[n]
  BY DEF Typed, TypedSteps
<1> HIDE DEF n
<1>3. done[0] = e /\ \A m \in 1 .. n : done[m] = Insert(done[m - 1], a, list, m - 1, text[m])
  BY <1>1, TypedDone
<1> HIDE DEF done
<1>4. 0 \in S
  <2>1. Len(Elements(e, list)) \in Nat
    BY ElementsProperties DEF Grows
  <2>2. H(e) /\ G(e)
    OBVIOUS
  <2> HIDE DEF G, H
  <2> QED BY <1>1, <1>3, <2>1, <2>2
<1>5. \A m \in 1 .. n : m - 1 \in S => m \in S
  <2> TAKE m \in 1 .. n
  <2> HAVE m - 1 \in S
  <2> DEFINE f == done[m - 1]
             k == m - 1
             g == Insert(f, a, list, k, text[m])
  <2>1. G(f) /\ H(f) /\ Len(Elements(f, list)) >= k /\ k \in Nat
    BY <1>1
  <2>2. done[m] = g
    BY <1>3
  <2> HIDE DEF f, H, S
  <2>3. Len(Elements(f, list)) \in Nat
    BY <2>1, ElementsProperties DEF Grows, G
  <2>4. Fits(f, list, k)
    <3>1. k = 0 \/ k \in 1 .. Len(Elements(f, list))
      BY <2>1, <2>3
    <3> QED BY <3>1 DEF Fits
  <2>5. k + 1 = m
    BY <1>1
  <2> HIDE DEF k
  <2> DEFINE val == text[m]
  <2> HIDE DEF val
  <2>a. "" \notin N
    BY FreeFields
  <2>6. Grows(A, K, N, d, Insert(f, a, list, k, val)) /\ Adds(f, Insert(f, a, list, k, val), <<f.top + 1, a>>, list, val)
    BY <2>1, <2>4, <2>a, GrowsInsert
  <2>7. Longer(f, Insert(f, a, list, k, val), list)
    BY <2>1, <2>4, <2>a, InsertLength
  <2>b. g = Insert(f, a, list, k, val)
    BY DEF val
  <2>8. Len(Elements(g, list)) >= m
    BY <2>1, <2>3, <2>5, <2>7, <2>b DEF Longer
  <2>9. H(g)
    BY <2>1, <2>6, <2>b, CharacterKeepsShape DEF H
  <2>10. G(g)
    BY <2>6, <2>b
  <2> HIDE DEF G, g
  <2>11. m \in 0 .. n
    BY <1>1
  <2> QED BY <2>2, <2>8, <2>9, <2>10, <2>11 DEF S
<1>6. n \in S
  <2>1. n \in 0 .. n
    BY <1>1
  <2> HIDE DEF S
  <2> QED BY <1>1, <1>4, <1>5, <2>1, UpToN
<1> QED
  BY <1>2, <1>6

\* A block in a document that keeps no keys.
LEMMA GrowsNewBlock ==
  ASSUME NEW A \in SUBSET Nat, NEW d, NEW e, Grows(A, {}, {}, d, e),
         NEW a \in A, NEW list, NEW index \in Nat, NEW b, NEW text, Typable(text)
  PROVE  Grows(A, {}, {}, d, NewBlock(e, a, list, index, b, text))
<1> DEFINE none == {}
           k == Min({index, Len(Elements(e, list))})
           d1 == Insert(e, a, list, k, "object")
           x == <<e.top + 1, a>>
           d2 == Put(d1, a, x, "id", b)
           d3 == PutObject(d2, a, x, "text")
           chars == Get(d3, x, "text")
<1>1. NewBlock(e, a, list, index, b, text) = Typed(d3, a, chars, text)
  BY DEF NewBlock
<1>2. Free(none, none) /\ Grows(A, none, none, d, e) /\ "" \notin none /\ "id" \notin none /\ "text" \notin none
      /\ "id" # "" /\ "text" # ""
  BY DEF Free
<1>3. Fits(e, list, k)
  BY FitsIndex DEF Grows
<1> HIDE DEF none, k
<1>4. Grows(A, none, none, d, d1)
  BY <1>2, <1>3, GrowsInsert
<1> HIDE DEF d1, x
<1>5. Grows(A, none, none, d, d2)
  BY <1>2, <1>4, GrowsPut
<1> HIDE DEF d2
<1>6. Grows(A, none, none, d, d3)
  BY <1>2, <1>5, GrowsPutObject
<1> HIDE DEF d3, chars
<1>7. Grows(A, none, none, d, Typed(d3, a, chars, text))
  BY <1>2, <1>6, TypedProperties
<1> QED
  BY <1>1, <1>7 DEF none

\* A block in a content document.
LEMMA NewBlockShaped ==
  ASSUME NEW A \in SUBSET Nat, NEW K, Free(K, {}), NEW d, NEW e, Grows(A, K, {}, d, e), Shape(e),
         NEW a \in A, NEW list, NEW index \in Nat, NEW b, NEW text, Typable(text)
  PROVE  /\ Grows(A, K, {}, d, NewBlock(e, a, list, index, b, text))
         /\ Shape(NewBlock(e, a, list, index, b, text))
<1> DEFINE none == {}
           k == Min({index, Len(Elements(e, list))})
           d1 == Insert(e, a, list, k, "object")
           x == <<e.top + 1, a>>
           d2 == Put(d1, a, x, "id", b)
           d3 == PutObject(d2, a, x, "text")
           chars == Get(d3, x, "text")
           idOp == Op(x, "id", b, Root)
           textOp == Op(x, "text", "object", Root)
<1>1. NewBlock(e, a, list, index, b, text) = Typed(d3, a, chars, text)
  BY DEF NewBlock
<1>2. Free(K, none) /\ Grows(A, K, none, d, e) /\ "" \notin none /\ "id" \notin none /\ "text" \notin none
      /\ "id" # "" /\ "text" # ""
  OBVIOUS
<1>3. Fits(e, list, k)
  BY FitsIndex DEF Grows
<1> HIDE DEF none, k
<1>4. Grows(A, K, none, d, d1) /\ Adds(e, d1, x, list, "object")
  BY <1>2, <1>3, GrowsInsert
<1> HIDE DEF d1
<1>5. /\ d1.top = e.top + 1 /\ DOMAIN d1.ops = {x} \cup DOMAIN e.ops
      /\ d1.ops[x].obj = list /\ d1.ops[x].key = ""
      /\ \A i \in DOMAIN e.ops : d1.ops[i] = e.ops[i]
  BY <1>4 DEF Adds
<1>6. e.top \in Nat /\ \A i \in DOMAIN e.ops : i[1] \in Nat /\ i[1] <= e.top
  <2>1. WellFormed(e)
    BY DEF Grows
  <2> QED BY <2>1, NameParts DEF WellFormed
<1> DEFINE y == Behind(x, 1)
           z == Behind(x, 2)
<1>7. /\ <<d1.top + 1, a>> = y /\ y = <<e.top + 2, a>> /\ z = <<e.top + 3, a>>
      /\ x \notin DOMAIN e.ops /\ y \notin DOMAIN e.ops /\ z \notin DOMAIN e.ops
      /\ x # y /\ y # z /\ x # z
  <2>1. x[1] = e.top + 1 /\ x[2] = a
    OBVIOUS
  <2>2. (e.top + 1) + 1 = e.top + 2 /\ (e.top + 1) + 2 = e.top + 3 /\ d1.top + 1 = e.top + 2
    <3>1. d1.top = e.top + 1
      BY <1>5
    <3> QED BY <1>6, <3>1
  <2>3. y = <<e.top + 2, a>> /\ z = <<e.top + 3, a>>
    BY <2>1, <2>2 DEF Behind
  <2>4. \A i \in DOMAIN e.ops : i[1] # e.top + 1 /\ i[1] # e.top + 2 /\ i[1] # e.top + 3
    BY <1>6
  <2>5. e.top + 1 # e.top + 2 /\ e.top + 1 # e.top + 3 /\ e.top + 2 # e.top + 3
    BY <1>6
  <2>6. y[1] = e.top + 2 /\ z[1] = e.top + 3
    BY <2>3
  <2> QED BY <2>1, <2>2, <2>3, <2>4, <2>5, <2>6
<1> HIDE DEF x, y, z
<1>8. Values(d1, x, "id") = {}
  <2>1. SUFFICES ASSUME NEW j \in DOMAIN d1.ops, d1.ops[j].obj = x, d1.ops[j].key = "id" PROVE FALSE
    BY DEF Values
  <2>2. j \in DOMAIN e.ops /\ d1.ops[j] = e.ops[j]
    BY <1>5, <2>1
  <2>3. j = y
    <3>1. Shaped(e.ops, j) /\ e.ops[j].key = "id" /\ e.ops[j].obj = x
      BY <2>1, <2>2 DEF Shape
    <3> QED BY <3>1 DEF Shaped, y
  <2> QED BY <1>7, <2>2, <2>3
<1>9. Grows(A, K, none, d, d2) /\ Writes(d1, d2, y, idOp, {})
  <2> HIDE DEF idOp
  <2>1. Grows(A, K, none, d, d2) /\ Writes(d1, d2, <<d1.top + 1, a>>, idOp, {})
    BY <1>2, <1>4, <1>8, FirstValue DEF idOp
  <2> QED BY <1>7, <2>1
<1>10. idOp.obj = x /\ idOp.key = "id" /\ textOp.obj = x /\ textOp.key = "text"
  BY DEF Op
<1> HIDE DEF d2, idOp, textOp
<1>11. /\ d2.top = d1.top + 1 /\ DOMAIN d2.ops = {y} \cup DOMAIN d1.ops /\ d2.ops[y] = idOp
       /\ \A i \in DOMAIN d1.ops : d2.ops[i] = d1.ops[i]
  BY <1>9 DEF Writes
<1>12. Values(d2, x, "text") = {}
  <2>1. SUFFICES ASSUME NEW j \in DOMAIN d2.ops, d2.ops[j].obj = x, d2.ops[j].key = "text" PROVE FALSE
    BY DEF Values
  <2>2. j # y
    BY <1>10, <1>11, <2>1
  <2>3. j \in DOMAIN d1.ops /\ d2.ops[j] = d1.ops[j]
    BY <1>11, <2>2
  <2>4. j # x
    BY <1>5, <2>1, <2>3
  <2>5. j \in DOMAIN e.ops /\ d1.ops[j] = e.ops[j]
    BY <1>5, <2>3, <2>4
  <2>6. j = z
    <3>1. Shaped(e.ops, j) /\ e.ops[j].key = "text" /\ e.ops[j].obj = x
      BY <2>1, <2>3, <2>5 DEF Shape
    <3> QED BY <3>1 DEF Shaped, z
  <2> QED BY <1>7, <2>5, <2>6
<1>13. <<d2.top + 1, a>> = z
  <2>1. d2.top + 1 = e.top + 3
    <3>1. d1.top = e.top + 1 /\ d2.top = d1.top + 1
      BY <1>5, <1>11
    <3> QED BY <1>6, <3>1
  <2> QED BY <1>7, <2>1
<1>14. Grows(A, K, none, d, d3) /\ Writes(d2, d3, z, textOp, {}) /\ chars = z
  <2>1. Grows(A, K, none, d, d3) /\ Writes(d2, d3, <<d2.top + 1, a>>, textOp, {})
    BY <1>2, <1>9, <1>12, FirstObject DEF textOp
  <2>2. Writes(d2, d3, z, textOp, {})
    BY <1>13, <2>1
  <2> HIDE DEF d3
  <2>3. Get(d3, x, "text") = z
    BY <1>10, <1>12, <2>2, FirstIsShown
  <2> QED BY <2>1, <2>2, <2>3
<1> HIDE DEF d3, chars
<1>15. /\ DOMAIN d3.ops = {x, y, z} \cup DOMAIN e.ops
       /\ d3.ops[z] = textOp /\ d3.ops[y] = idOp /\ d3.ops[x].key = ""
       /\ \A i \in DOMAIN e.ops : d3.ops[i] = e.ops[i]
  <2>1. /\ DOMAIN d3.ops = {z} \cup DOMAIN d2.ops /\ d3.ops[z] = textOp
        /\ \A i \in DOMAIN d2.ops : d3.ops[i] = d2.ops[i]
    BY <1>14 DEF Writes
  <2> QED BY <1>5, <1>11, <2>1
<1>16. ASSUME NEW i \in DOMAIN d3.ops
       PROVE  Shaped(d3.ops, i)
  <2>1. CASE i \in DOMAIN e.ops
    <3>1. d3.ops[i] = e.ops[i] /\ Shaped(e.ops, i)
      BY <1>15, <2>1 DEF Shape
    <3>2. \A j \in DOMAIN e.ops : j \in DOMAIN d3.ops /\ d3.ops[j] = e.ops[j]
      BY <1>15
    <3> QED BY <2>1, <3>1, <3>2, ShapedStays
  <2>2. CASE i = x
    <3>1. HasBehind(d3.ops, x, 2, "text")
      BY <1>10, <1>15 DEF HasBehind, z
    <3> QED BY <1>15, <2>2, <3>1 DEF Shaped
  <2>3. CASE i = y
    <3>1. d3.ops[i].key = "id" /\ i = Behind(d3.ops[i].obj, 1)
      BY <1>10, <1>15, <2>3 DEF y
    <3> QED BY <3>1 DEF Shaped
  <2>4. CASE i = z
    <3>1. d3.ops[i].key = "text" /\ i = Behind(d3.ops[i].obj, 2)
      BY <1>10, <1>15, <2>4 DEF z
    <3> QED BY <3>1 DEF Shaped
  <2> QED BY <1>15, <2>1, <2>2, <2>3, <2>4
<1>17. Shape(d3)
  BY <1>16 DEF Shape
<1>18. IsText(d3, chars)
  BY <1>10, <1>14, <1>15 DEF IsText
<1>19. /\ Grows(A, K, none, d, Typed(d3, a, chars, text))
       /\ Shape(Typed(d3, a, chars, text))
  BY <1>2, <1>14, <1>17, <1>18, TypedProperties
<1> QED
  BY <1>1, <1>19 DEF none

----------------------------------------------------------------------------
(* The operations on blocks                                                *)

\* An erasure leaves the operations as they are.
LEMMA EraseKeepsOps ==
  ASSUME NEW e, NEW S
  PROVE  /\ Erase(e, S).ops = e.ops
         /\ \A list : Inserted(Erase(e, S), list) = Inserted(e, list)
         /\ Shape(e) => Shape(Erase(e, S))
         /\ \A list : IsText(e, list) => IsText(Erase(e, S), list)
<1>1. Erase(e, S).ops = e.ops
  BY DEF Erase
<1> DEFINE f == Erase(e, S)
<1> HIDE DEF f
<1>2. f.ops = e.ops
  BY <1>1 DEF f
<1> QED
  BY <1>2 DEF Inserted, Shape, IsText, f

LEMMA GrowsEraseBlock ==
  ASSUME NEW A, NEW K, NEW N, Free(K, N), NEW d, NEW e, Grows(A, K, N, d, e), NEW list, NEW b
  PROVE  /\ Grows(A, K, N, d, EraseBlock(e, list, b))
         /\ EraseBlock(e, list, b).ops = e.ops
<1> DEFINE S == {x \in Inserted(e, list) : BlockId(e, x) = b}
           at == Only(Elements(e, list), S)
           f == Erase(e, {Head(at)})
<1>1. EraseBlock(e, list, b) = IF at = <<>> THEN e ELSE f
  BY DEF EraseBlock, BlocksNamed
<1>2. f.ops = e.ops
  BY EraseKeepsOps
<1>3. ASSUME at # <<>> PROVE Grows(A, K, N, d, f)
  <2>1. WellFormed(e)
    BY DEF Grows
  <2> HIDE DEF S
  <2>2. Picked(e, list, S, at)
    BY <1>3, <2>1, PickedElements
  <2>3. Range(Elements(e, list)) \subseteq {i \in DOMAIN e.ops : e.ops[i].key = ""}
    BY <2>1, ElementsAreInserted
  <2>4. Head(at) = at[1]
    BY DEF Head
  <2> HIDE DEF at
  <2>5. {Head(at)} \in SUBSET {i \in DOMAIN e.ops : e.ops[i].key = ""}
    BY <2>2, <2>3, <2>4 DEF Picked
  <2> QED BY <2>5, GrowsEraseElements
<1> HIDE DEF at, f
<1> QED
  BY <1>1, <1>2, <1>3

\* The place of a block, and where it goes when it is moved.
LEMMA MoveTargetProperties ==
  ASSUME NEW d, WellFormed(d), NEW list, NEW b, BlocksNamed(d, list, b) # <<>>, NEW to \in Nat
  PROVE  MoveTarget(d, list, b, to) \in Nat
<1> DEFINE o == Elements(d, list)
           S == {x \in Inserted(d, list) : BlockId(d, x) = b}
           h == Head(BlocksNamed(d, list, b))
           k == CHOOSE n \in DOMAIN o : o[n] = h
<1>1. h \in Range(o)
  <2>1. Only(o, S) # <<>> /\ h = Only(o, S)[1]
    BY DEF BlocksNamed, Head
  <2> HIDE DEF S
  <2>2. Picked(d, list, S, Only(o, S))
    BY <2>1, PickedElements
  <2> QED BY <2>1, <2>2 DEF Picked
<1>2. IndexOfBlock(d, list, b) = k - 1
  BY DEF IndexOfBlock
<1>3. DOMAIN o = 1 .. Len(o) /\ Len(o) \in Nat
  <2>1. o \in Seq(Inserted(d, list))
    BY ElementsProperties
  <2> QED BY <2>1
<1> HIDE DEF o, h
<1>4. k \in DOMAIN o
  BY <1>1 DEF Range
<1> HIDE DEF k
<1>5. k - 1 \in Nat
  BY <1>3, <1>4
<1> DEFINE i == IndexOfBlock(d, list, b)
<1>6. MoveTarget(d, list, b, to) = IF i < to THEN to - 1 ELSE to
  BY DEF MoveTarget
<1>7. i \in Nat
  BY <1>2, <1>5
<1> HIDE DEF i
<1>8. (IF i < to THEN to - 1 ELSE to) \in Nat
  BY <1>7
<1> QED
  BY <1>6, <1>8

LEMMA TextIsTypable ==
  ASSUME NEW d, WellFormed(d), NEW x
  PROVE  Typable(Text(d, x))
<1> DEFINE list == Get(d, x, "text")
           o == Elements(d, list)
           s == [k \in DOMAIN o |-> d.ops[o[k]].val]
<1>1. Text(d, x) = IF Has(d, x, "text") THEN s ELSE <<>>
  BY DEF Text
<1> HIDE DEF list
<1>2. o \in Seq(Inserted(d, list))
  BY ElementsProperties
<1> HIDE DEF o
<1>3. Len(o) \in Nat /\ DOMAIN o = 1 .. Len(o)
  BY <1>2
<1>4. s = [k \in 1 .. Len(o) |-> s[k]] /\ DOMAIN s = 1 .. Len(o)
  BY <1>3
<1> HIDE DEF s
<1>5. Len(s) = Len(o)
  BY <1>3, <1>4
<1> QED
  BY <1>1, <1>3, <1>5 DEF Typable

\* A place in a list that stays when what comes after it is erased.
LEMMA FitsBeforeCut ==
  ASSUME NEW d, WellFormed(d), NEW list, NEW start \in 0 .. Len(Elements(d, list)), NEW end \in Nat,
         end <= Len(Elements(d, list)),
         NEW e, e = Erase(d, Range(SubSeq(Elements(d, list), start + 1, end))), WellFormed(e)
  PROVE  Fits(e, list, start)
<1> DEFINE o == Elements(d, list)
           n == Len(o)
           cut == SubSeq(o, start + 1, end)
           P == {o[k] : k \in 1 .. start}
           X == Inserted(d, list)
<1>1. o \in Seq(X) /\ Range(o) = X \ d.gone /\ Distinct(o) /\ n \in Nat
  BY ElementsProperties
<1>2. Inserted(e, list) = X
  BY EraseKeepsOps
<1>3. e.gone = d.gone \cup Range(cut)
  BY DEF Erase
<1> HIDE DEF X
<1>4. DOMAIN o = 1 .. n /\ start \in Nat /\ start <= n
  BY <1>1
<1>5. P \subseteq X \ d.gone
  <2>1. \A k \in 1 .. start : k \in DOMAIN o
    BY <1>1, <1>4
  <2> HIDE DEF o
  <2> QED BY <1>1, <2>1 DEF Range
<1>6. P \cap Range(cut) = {}
  <2>1. SUFFICES ASSUME NEW k \in 1 .. start, o[k] \in Range(cut) PROVE FALSE
    OBVIOUS
  <2>2. cut = [l \in 1 .. (end - (start + 1) + 1) |-> o[l + (start + 1) - 1]]
    BY DEF SubSeq
  <2> HIDE DEF o, n, cut
  <2>3. PICK l \in DOMAIN cut : cut[l] = o[k]
    BY <2>1 DEF Range
  <2>4. l \in 1 .. (end - start) /\ cut[l] = o[l + start]
    BY <1>4, <2>2, <2>3
  <2>5. l + start \in 1 .. n /\ l + start # k /\ k \in 1 .. n
    BY <1>1, <1>4, <2>1, <2>4 DEF o, n
  <2>6. o[k] = o[l + start]
    BY <2>3, <2>4
  <2> QED BY <1>1, <1>4, <2>5, <2>6 DEF Distinct
<1>7. Cardinality(P) = start /\ IsFiniteSet(P)
  <2> DEFINE s == [k \in 1 .. start |-> o[k]]
  <2>1. \A k \in 1 .. start : k \in DOMAIN o /\ o[k] \in X
    BY <1>1, <1>4
  <2>2. s \in [1 .. start -> X]
    BY <2>1
  <2>3. s \in Seq(X) /\ Len(s) = start /\ DOMAIN s = 1 .. start
    BY <1>4, <2>2
  <2>4. Range(s) = P
    BY DEF Range
  <2>5. \A k \in 1 .. start : s[k] = o[k]
    OBVIOUS
  <2> HIDE DEF s, P, o
  <2>6. Distinct(s)
    BY <1>1, <2>1, <2>3, <2>5 DEF Distinct
  <2> QED BY <2>3, <2>4, <2>6, DistinctLength
<1> DEFINE L == Len(Elements(e, list))
           Y == Inserted(e, list) \ e.gone
<1>8. IsFiniteSet(Y) /\ L = Cardinality(Y) /\ L \in Nat
  BY ElementsProperties
<1>9. P \subseteq Y
  BY <1>2, <1>3, <1>5, <1>6
<1> HIDE DEF L, Y, P
<1>10. start <= L
  BY <1>7, <1>8, <1>9, FS_Subset
<1>11. start = 0 \/ start \in 1 .. L
  BY <1>4, <1>8, <1>10
<1> QED
  BY <1>11 DEF Fits, L

\* A splice in the text of a block that is there.
LEMMA SpliceProperties ==
  ASSUME NEW A \in SUBSET Nat, NEW K, NEW N, Free(K, N), NEW d, NEW e, Grows(A, K, N, d, e),
         NEW a \in A, NEW list, NEW b, NEW index \in Nat, NEW delete \in Nat, NEW insert
  PROVE  /\ Grows(A, K, N, d, SpliceBlock(e, a, list, b, index, delete, insert))
         /\ (Shape(e) /\ IsText(e, Get(e, Head(BlocksNamed(e, list, b)), "text")))
              => Shape(SpliceBlock(e, a, list, b, index, delete, insert))
<1> DEFINE chars == Get(e, Head(BlocksNamed(e, list, b)), "text")
           o == Elements(e, chars)
           n == Len(o)
           start == Min({index, n})
           end == Min({start + delete, n})
           cut == SubSeq(o, start + 1, end)
           e1 == Erase(e, Range(cut))
           f == Insert(e1, a, chars, start, insert)
<1>1. SpliceBlock(e, a, list, b, index, delete, insert) = f
  BY DEF SpliceBlock
<1> HIDE DEF chars
<1>2. WellFormed(e)
  BY DEF Grows
<1>3. o \in Seq(Inserted(e, chars)) /\ n \in Nat
  BY <1>2, ElementsProperties
<1>4. start \in 0 .. n /\ start \in Nat
  <2> HIDE DEF n
  <2> QED BY <1>3, LeastOfTwo
<1>5. end \in Nat /\ end <= n
  <2> HIDE DEF n, start
  <2>1. start + delete \in Nat
    BY <1>4
  <2> QED BY <1>3, <2>1, LeastOfTwo
<1>6. Range(cut) \subseteq Range(o)
  <2>2. DOMAIN o = 1 .. n
    BY <1>3
  <2> HIDE DEF o, n, start, end
  <2>1. cut = [l \in 1 .. (end - (start + 1) + 1) |-> o[l + (start + 1) - 1]]
    BY <1>4, <1>5 DEF SubSeq
  <2> HIDE DEF cut
  <2>3. ASSUME NEW l \in DOMAIN cut PROVE cut[l] \in Range(o)
    <3>1. l \in 1 .. (end - start) /\ cut[l] = o[l + start]
      BY <1>4, <1>5, <2>1
    <3>2. l + start \in 1 .. n
      BY <1>3, <1>4, <1>5, <3>1
    <3> QED BY <2>2, <3>1, <3>2 DEF Range
  <2> QED BY <2>3 DEF Range
<1>7. Grows(A, K, N, d, e1)
  <2>1. Range(o) \subseteq {i \in DOMAIN e.ops : e.ops[i].key = ""}
    BY <1>2, ElementsAreInserted
  <2> HIDE DEF o, cut
  <2>2. Range(cut) \in SUBSET {i \in DOMAIN e.ops : e.ops[i].key = ""}
    BY <1>6, <2>1
  <2> QED BY <2>2, GrowsEraseElements
<1>8. Fits(e1, chars, start)
  <2>1. WellFormed(e1)
    BY <1>7 DEF Grows
  <2>2. e1 = Erase(e, Range(SubSeq(Elements(e, chars), start + 1, end)))
    OBVIOUS
  <2>3. start \in 0 .. Len(Elements(e, chars)) /\ end <= Len(Elements(e, chars))
    BY <1>4, <1>5
  <2> HIDE DEF start, end, e1, o, n
  <2> QED BY <1>2, <1>5, <2>1, <2>2, <2>3, FitsBeforeCut
<1>9. (Shape(e) => Shape(e1)) /\ (IsText(e, chars) => IsText(e1, chars))
  BY EraseKeepsOps
<1> HIDE DEF e1, start
<1>10. "" \notin N
  BY FreeFields
<1>11. Grows(A, K, N, d, f) /\ Adds(e1, f, <<e1.top + 1, a>>, chars, insert)
  BY <1>7, <1>8, <1>10, GrowsInsert
<1> HIDE DEF f
<1>12. Shape(e) /\ IsText(e, chars) => Shape(f)
  BY <1>9, <1>11, CharacterKeepsShape
<1> QED
  BY <1>1, <1>11, <1>12 DEF chars

----------------------------------------------------------------------------
(* The operations on a content document                                    *)

ContentKeys == {"content", "blocks", "text"}

LEMMA FreeContent == Free(ContentKeys, {})
BY DEF Free, Fields, ContentKeys

\* A content document as edits make it.
Composed(A, d, e) == Grows(A, ContentKeys, {}, d, e) /\ Shape(e)

HasContent(d) == Has(d, Root, "content")

\* A content document keeps its content.
LEMMA KeepsContent ==
  ASSUME NEW A, NEW d, NEW e, Composed(A, d, e), HasContent(d)
  PROVE  HasContent(e)
<1> DEFINE K == ContentKeys
           none == {}
<1>1. Grows(A, K, none, d, e) /\ "content" \in K
  BY DEF Composed, ContentKeys
<1> HIDE DEF K, none
<1>2. PICK i \in DOMAIN d.ops : d.ops[i].obj = Root /\ d.ops[i].key = "content"
  BY DEF HasContent, Has, Values
<1>3. i \in DOMAIN e.ops /\ e.ops[i] = d.ops[i]
  <2>1. d.ops[i].key \in K \cup {""}
    BY <1>1, <1>2
  <2>2. /\ \A j \in DOMAIN e.ops : j \in DOMAIN d.ops => e.ops[j] = d.ops[j]
        /\ \A j \in DOMAIN e.ops : e.ops[j].key \in none => j \in DOMAIN d.ops
        /\ \A j \in DOMAIN d.ops : d.ops[j].key \in K \cup {""} => j \in DOMAIN e.ops
    BY <1>1, GrowsOps
  <2> QED BY <2>1, <2>2
<1> QED
  BY <1>2, <1>3 DEF HasContent, Has, Values

LEMMA ComposedInit ==
  ASSUME NEW A \in SUBSET Nat, NEW a \in A
  PROVE  Composed(A, NewDoc, InitContent(a)) /\ HasContent(InitContent(a))
<1> DEFINE K == ContentKeys
           none == {}
           c == <<1, a>>
           l == <<2, a>>
           d1 == PutObject(NewDoc, a, Root, "content")
           op1 == Op(Root, "content", "object", Root)
           op2 == Op(c, "blocks", "object", Root)
           d2 == PutObject(d1, a, c, "blocks")
<1>1. NewDoc.top = 0 /\ DOMAIN NewDoc.ops = {} /\ \A obj, key : Values(NewDoc, obj, key) = {}
  BY DEF NewDoc, Values
<1>2. "content" \notin none /\ "blocks" \notin none
  OBVIOUS
<1>3. op1.obj = Root /\ op1.key = "content" /\ op2.obj = c /\ op2.key = "blocks"
  BY DEF Op
<1>4. c = Behind(c, 0) /\ l = Behind(c, 1) /\ c # l /\ 0 + 1 = 1 /\ 1 + 1 = 2 /\ c # Root
  <2>1. c[1] = 1 /\ c[2] = a /\ l[1] = 2 /\ 1 + 1 = 2 /\ 1 + 0 = 1 /\ 1 # 2
    OBVIOUS
  <2> QED BY <2>1 DEF Behind, Root
<1> HIDE DEF K, none, op1, op2
<1>5. Grows(A, K, none, NewDoc, NewDoc)
  BY NewDocWellFormed, GrowsFromItself
<1>6. Grows(A, K, none, NewDoc, d1) /\ Writes(NewDoc, d1, c, op1, {})
  <2>1. Writes(NewDoc, d1, <<NewDoc.top + 1, a>>, op1, {}) /\ Grows(A, K, none, NewDoc, d1)
    BY <1>1, <1>2, <1>5, FirstObject DEF op1
  <2> QED BY <1>1, <1>4, <2>1
<1> HIDE DEF d1, c, l
<1>7. Get(d1, Root, "content") = c
  BY <1>1, <1>3, <1>6, FirstIsShown
<1>8. InitContent(a) = d2
  BY <1>7 DEF InitContent, Shown, d1
<1>9. d1.top = 1 /\ DOMAIN d1.ops = {c} /\ d1.ops[c] = op1
  BY <1>1, <1>4, <1>6 DEF Writes
<1>10. Values(d1, c, "blocks") = {}
  BY <1>3, <1>9 DEF Values
<1>11. Grows(A, K, none, NewDoc, d2) /\ Writes(d1, d2, l, op2, {})
  <2>1. Writes(d1, d2, <<d1.top + 1, a>>, op2, {}) /\ Grows(A, K, none, NewDoc, d2)
    BY <1>2, <1>6, <1>10, FirstObject DEF op2
  <2> QED BY <1>4, <1>9, <2>1 DEF l
<1> HIDE DEF d2
<1>12. DOMAIN d2.ops = {c, l} /\ d2.ops[c] = op1 /\ d2.ops[l] = op2
  BY <1>4, <1>9, <1>11 DEF Writes
<1>13. HasBehind(d2.ops, c, 1, "blocks")
  BY <1>3, <1>4, <1>12 DEF HasBehind
<1>14. Shaped(d2.ops, c) /\ Shaped(d2.ops, l)
  <2>1. Shaped(d2.ops, c)
    BY <1>3, <1>12, <1>13 DEF Shaped
  <2>2. l = Behind(d2.ops[l].obj, 1) /\ d2.ops[l].key = "blocks"
    BY <1>3, <1>4, <1>12
  <2> QED BY <2>1, <2>2 DEF Shaped
<1>15. Shape(d2)
  BY <1>12, <1>14 DEF Shape
<1>16. HasContent(d2)
  BY <1>3, <1>12 DEF HasContent, Has, Values
<1> QED
  BY <1>8, <1>11, <1>15, <1>16 DEF Composed, K, none

\* The list of blocks, and the text of a block, are the ones made with them.
Block(d, x) ==
  /\ Values(d, x, "text") = {Behind(x, 2)} /\ Get(d, x, "text") = Behind(x, 2)
  /\ IsText(d, Behind(x, 2))

LEMMA BlockProperties ==
  ASSUME NEW d, WellFormed(d), Shape(d), HasContent(d)
  PROVE  /\ BlockList(d) = Behind(Shown(d, "content"), 1)
         /\ \A x \in Inserted(d, BlockList(d)) : Block(d, x)
<1> DEFINE c == Shown(d, "content")
           l == Behind(c, 1)
<1>1. c \in DOMAIN d.ops /\ d.ops[c].key = "content"
  <2>1. c \in Values(d, Root, "content")
    BY GetIsThere DEF HasContent, Shown
  <2> QED BY <2>1 DEF Values
<1> HIDE DEF c
<1>2. l \in DOMAIN d.ops /\ d.ops[l].key = "blocks" /\ d.ops[l].obj = c
  <2>1. Shaped(d.ops, c)
    BY <1>1 DEF Shape
  <2> QED BY <1>1, <2>1 DEF Shaped, HasBehind
<1>3. Values(d, c, "blocks") = {l}
  <2>1. ASSUME NEW j \in DOMAIN d.ops, d.ops[j].key = "blocks", d.ops[j].obj = c PROVE j = l
    <3>1. Shaped(d.ops, j)
      BY DEF Shape
    <3> QED BY <2>1, <3>1 DEF Shaped
  <2> HIDE DEF l
  <2> QED BY <1>2, <2>1 DEF Values
<1> HIDE DEF l
<1>4. BlockList(d) = l
  <2>1. BlockList(d) = Get(d, c, "blocks")
    BY DEF BlockList, c
  <2>2. Get(d, c, "blocks") = CHOOSE i \in {l} : \A j \in {l} \ {i} : Before(j, i)
    BY <1>3 DEF Get, Newest
  <2> QED BY <2>1, <2>2
<1>5. ASSUME NEW x \in Inserted(d, l) PROVE Block(d, x)
  <2>1. x \in DOMAIN d.ops /\ d.ops[x].key = "" /\ d.ops[x].obj = l
    BY DEF Inserted
  <2>2. ~ InText(d.ops, x)
    BY <1>2, <2>1 DEF InText
  <2>3. HasBehind(d.ops, x, 2, "text")
    <3>1. Shaped(d.ops, x)
      BY <2>1 DEF Shape
    <3> QED BY <2>1, <2>2, <3>1 DEF Shaped
  <2> DEFINE t == Behind(x, 2)
  <2>4. t \in DOMAIN d.ops /\ d.ops[t].key = "text" /\ d.ops[t].obj = x
    BY <2>3 DEF HasBehind
  <2>5. ASSUME NEW j \in DOMAIN d.ops, d.ops[j].key = "text", d.ops[j].obj = x PROVE j = t
    <3>1. Shaped(d.ops, j)
      BY DEF Shape
    <3> QED BY <2>5, <3>1 DEF Shaped
  <2> HIDE DEF t
  <2>6. Values(d, x, "text") = {t}
    BY <2>4, <2>5 DEF Values
  <2>7. Get(d, x, "text") = t
    <3>1. Get(d, x, "text") = CHOOSE i \in {t} : \A j \in {t} \ {i} : Before(j, i)
      BY <2>6 DEF Get, Newest
    <3> QED BY <3>1
  <2> QED BY <2>4, <2>6, <2>7 DEF Block, IsText, t
<1> QED
  BY <1>4, <1>5 DEF l, c

LEMMA ComposedBlocks ==
  ASSUME NEW A \in SUBSET Nat, NEW a \in A, NEW d, NEW e, Composed(A, d, e), NEW list, NEW b
  PROVE  /\ Composed(A, d, EraseBlock(e, list, b))
         /\ \A index \in Nat : \A text : Typable(text) => Composed(A, d, NewBlock(e, a, list, index, b, text))
         /\ \A text : Typable(text) => Composed(A, d, SetBlocks(e, a, list, b, text))
<1> DEFINE K == ContentKeys
<1>1. Grows(A, K, {}, d, e) /\ Shape(e) /\ Free(K, {}) /\ WellFormed(e)
  BY FreeContent DEF Composed, Grows
<1> HIDE DEF K
<1>2. Composed(A, d, EraseBlock(e, list, b))
  <2>1. Grows(A, K, {}, d, EraseBlock(e, list, b)) /\ EraseBlock(e, list, b).ops = e.ops
    BY <1>1, GrowsEraseBlock
  <2> QED BY <1>1, <2>1 DEF Composed, Shape, K
<1>3. ASSUME NEW index \in Nat, NEW text, Typable(text) PROVE Composed(A, d, NewBlock(e, a, list, index, b, text))
  BY <1>1, <1>3, NewBlockShaped DEF Composed, K
<1>4. ASSUME NEW text, Typable(text) PROVE Composed(A, d, SetBlocks(e, a, list, b, text))
  <2> DEFINE S == Range(Elements(e, list))
             f == Erase(e, S)
  <2>1. S \in SUBSET {i \in DOMAIN e.ops : e.ops[i].key = ""}
    BY <1>1, ElementsAreInserted
  <2> HIDE DEF S
  <2>2. Grows(A, K, {}, d, f)
    BY <1>1, <2>1, GrowsEraseElements
  <2>3. Shape(f)
    BY <1>1, EraseKeepsOps
  <2>4. SetBlocks(e, a, list, b, text) = NewBlock(f, a, list, 0, b, text)
    BY DEF SetBlocks, S
  <2>5. 0 \in Nat
    OBVIOUS
  <2> HIDE DEF f
  <2>6. Grows(A, K, {}, d, NewBlock(f, a, list, 0, b, text)) /\ Shape(NewBlock(f, a, list, 0, b, text))
    BY <1>1, <1>4, <2>2, <2>3, <2>5, NewBlockShaped
  <2> QED BY <2>4, <2>6 DEF Composed, K
<1> QED
  BY <1>2, <1>3, <1>4

LEMMA ComposedEdits ==
  ASSUME NEW A \in SUBSET Nat, NEW a \in A, NEW d, WellFormed(d), Shape(d), HasContent(d), NEW b
  PROVE  /\ \A text : Typable(text) => Composed(A, d, SetContent(d, a, b, text))
         /\ \A index \in Nat : \A text : Typable(text) => Composed(A, d, InsertBlock(d, a, index, b, text))
         /\ Composed(A, d, DeleteBlock(d, b))
         /\ \A to \in Nat : Composed(A, d, MoveBlock(d, a, b, to))
         /\ BlocksNamed(d, BlockList(d), b) # <<>> =>
              \A index \in Nat, delete \in Nat : \A insert : Composed(A, d, SpliceText(d, a, b, index, delete, insert))
<1> DEFINE list == BlockList(d)
           at == BlocksNamed(d, list, b)
<1>1. Composed(A, d, d)
  BY GrowsFromItself DEF Composed
<1>2. ASSUME NEW text, Typable(text) PROVE Composed(A, d, SetContent(d, a, b, text))
  BY <1>1, <1>2, ComposedBlocks DEF SetContent
<1>3. ASSUME NEW index \in Nat, NEW text, Typable(text) PROVE Composed(A, d, InsertBlock(d, a, index, b, text))
  BY <1>1, <1>3, ComposedBlocks DEF InsertBlock
<1>4. Composed(A, d, DeleteBlock(d, b))
  BY <1>1, ComposedBlocks DEF DeleteBlock
<1>5. ASSUME NEW to \in Nat PROVE Composed(A, d, MoveBlock(d, a, b, to))
  <2>1. CASE at = <<>>
    BY <1>1, <2>1 DEF MoveBlock
  <2>2. CASE at # <<>>
    <3> DEFINE e == DeleteBlock(d, b)
               index == MoveTarget(d, list, b, to)
               text == Text(d, Head(at))
    <3>1. MoveBlock(d, a, b, to) = NewBlock(e, a, BlockList(e), index, b, text)
      BY <2>2 DEF MoveBlock, InsertBlock
    <3>2. index \in Nat
      BY <2>2, MoveTargetProperties
    <3>3. Typable(text)
      BY TextIsTypable
    <3> HIDE DEF e, index, text, list, at
    <3>4. Composed(A, d, NewBlock(e, a, BlockList(e), index, b, text))
      BY <1>4, <3>2, <3>3, ComposedBlocks DEF e
    <3> QED BY <3>1, <3>4
  <2> QED BY <2>1, <2>2
<1>6. ASSUME at # <<>>, NEW index \in Nat, NEW delete \in Nat, NEW insert
      PROVE  Composed(A, d, SpliceText(d, a, b, index, delete, insert))
  <2> DEFINE S == {x \in Inserted(d, list) : BlockId(d, x) = b}
             x == Head(at)
             f == SpliceBlock(d, a, list, b, index, delete, insert)
  <2>1. x \in Inserted(d, list)
    <3>1. at = Only(Elements(d, list), S)
      BY DEF BlocksNamed
    <3>2. Only(Elements(d, list), S) # <<>> /\ x = Only(Elements(d, list), S)[1]
      BY <1>6, <3>1 DEF Head
    <3> HIDE DEF S, list, at
    <3>3. Picked(d, list, S, Only(Elements(d, list), S))
      BY <3>2, PickedElements
    <3> QED BY <3>2, <3>3 DEF Picked, S
  <2> HIDE DEF x
  <2>2. IsText(d, Get(d, x, "text"))
    <3>1. Block(d, x)
      BY <2>1, BlockProperties
    <3> QED BY <3>1 DEF Block
  <2> DEFINE K == ContentKeys
  <2>3. Grows(A, K, {}, d, d) /\ Free(K, {})
    BY FreeContent, GrowsFromItself
  <2>4. SpliceText(d, a, b, index, delete, insert) = f
    BY DEF SpliceText
  <2> HIDE DEF K, list
  <2>5. Grows(A, K, {}, d, f) /\ Shape(f)
    BY <2>2, <2>3, SpliceProperties DEF x
  <2> QED BY <2>4, <2>5 DEF Composed, K
<1> QED
  BY <1>2, <1>3, <1>4, <1>5, <1>6

----------------------------------------------------------------------------
(* The operations on the single document of the older schema               *)

Plain(A, d, e) == Grows(A, {}, {}, d, e)

LEMMA PlainWrites ==
  ASSUME NEW A \in SUBSET Nat, NEW a \in A, NEW d, NEW e, Plain(A, d, e), NEW x
  PROVE  /\ \A key : Plain(A, d, EnsureMap(e, a, x, key)) /\ Plain(A, d, EnsureList(e, a, x, key))
         /\ \A key, val : key # "" => Plain(A, d, Put(e, a, x, key, val))
         /\ \A key : key # "" => Plain(A, d, Delete(e, x, key))
         /\ \A clock : Plain(A, d, SetClock(e, a, x, clock))
         /\ Plain(A, d, BumpClock(e, a, x)) /\ Plain(A, d, ClearTombstone(e, x))
         /\ Plain(A, d, SetTombstone(e, a, x))
<1> DEFINE none == {}
<1>1. Free(none, none) /\ Grows(A, none, none, d, e) /\ \A key : key \notin none
  BY DEF Plain, Free
<1> HIDE DEF none
<1>2. \A key : Grows(A, none, none, d, EnsureMap(e, a, x, key)) /\ Grows(A, none, none, d, EnsureList(e, a, x, key))
  BY <1>1, GrowsEnsure
<1>3. \A key, val : key # "" => Grows(A, none, none, d, Put(e, a, x, key, val))
  BY <1>1, GrowsPut
<1>4. \A key : key # "" => Grows(A, none, none, d, Delete(e, x, key))
  BY <1>1, GrowsDelete
<1>5. \A clock : Grows(A, none, none, d, SetClock(e, a, x, clock))
  BY <1>1, GrowsSetClock
<1>6. Grows(A, none, none, d, BumpClock(e, a, x)) /\ Grows(A, none, none, d, ClearTombstone(e, x))
  BY <1>1, GrowsBumpClock, GrowsClearTombstone
<1>7. Plain(A, d, SetTombstone(e, a, x))
  BY GrowsSetTombstone DEF Plain
<1> QED
  BY <1>2, <1>3, <1>4, <1>5, <1>6, <1>7 DEF Plain, none

LEMMA PlainEnsureRoot ==
  ASSUME NEW A \in SUBSET Nat, NEW a \in A, NEW d, NEW e, Plain(A, d, e)
  PROVE  Plain(A, d, EnsureRoot(e, a))
<1> DEFINE f == EnsureMap(e, a, Root, "collections")
<1>1. Plain(A, d, f)
  BY PlainWrites
<1> HIDE DEF f
<1>2. Plain(A, d, EnsureMap(f, a, Root, "things"))
  BY <1>1, PlainWrites
<1> QED
  BY <1>2 DEF EnsureRoot, f

LEMMA PlainEntity ==
  ASSUME NEW A \in SUBSET Nat, NEW a \in A, NEW d, NEW e, Plain(A, d, e), NEW key, NEW id
  PROVE  /\ Plain(A, d, ShownEntity(e, a, key, id))
         /\ \A title : Plain(A, d, UpsertEntity(e, a, key, id, title))
         /\ Plain(A, d, DeleteEntity(e, a, key, id))
<1> DEFINE d1 == ShownEntity(e, a, key, id)
           x == Get(d1, Shown(e, key), id)
           seq == MaxSeq(e, key, id)
           clock == <<seq + 1, a>>
<1>1. Plain(A, d, d1)
  BY PlainWrites DEF ShownEntity
<1>2. ASSUME NEW title PROVE Plain(A, d, UpsertEntity(e, a, key, id, title))
  <2> DEFINE d2 == BumpClock(d1, a, x)
             d3 == ClearTombstone(d2, x)
  <2>1. UpsertEntity(e, a, key, id, title) = Put(d3, a, x, "title", title)
    BY DEF UpsertEntity
  <2> HIDE DEF d1, x
  <2>2. Plain(A, d, d2)
    BY <1>1, PlainWrites
  <2> HIDE DEF d2
  <2>3. Plain(A, d, d3)
    BY <2>2, PlainWrites
  <2> HIDE DEF d3
  <2>4. Plain(A, d, Put(d3, a, x, "title", title))
    BY <2>3, PlainWrites
  <2> QED BY <2>1, <2>4
<1>3. Plain(A, d, DeleteEntity(e, a, key, id))
  <2> DEFINE d2 == SetClock(d1, a, x, clock)
  <2>1. DeleteEntity(e, a, key, id) = SetTombstone(d2, a, x)
    BY DEF DeleteEntity
  <2> HIDE DEF d1, x, clock
  <2>2. Plain(A, d, d2)
    BY <1>1, PlainWrites
  <2> HIDE DEF d2
  <2>3. Plain(A, d, SetTombstone(d2, a, x))
    BY <2>2, PlainWrites
  <2> QED BY <2>1, <2>3
<1> QED
  BY <1>1, <1>2, <1>3

LEMMA PlainThing ==
  ASSUME NEW A \in SUBSET Nat, NEW a \in A, NEW d, NEW e, Plain(A, d, e), NEW t
  PROVE  /\ \A c, title, parent : Plain(A, d, UpsertInCollection(e, a, t, c, title, parent))
         /\ \A c : Plain(A, d, MoveToCollection(e, a, t, c))
         /\ \A status : Plain(A, d, SetThingStatus(e, a, t, status))
<1> DEFINE d1 == ShownEntity(e, a, "things", t)
           x == Get(d1, Shown(e, "things"), t)
<1>1. Plain(A, d, d1)
  BY PlainEntity
<1>2. ASSUME NEW c, NEW title, NEW parent PROVE Plain(A, d, UpsertInCollection(e, a, t, c, title, parent))
  <2> DEFINE f1 == UpsertEntity(e, a, "things", t, title)
             y == Get(f1, Shown(e, "things"), t)
             f2 == Put(f1, a, y, "collection_id", c)
             g == Delete(f2, y, "parent_id")
             h == Put(f2, a, y, "parent_id", parent)
             f == UpsertInCollection(e, a, t, c, title, parent)
  <2>1. f = CASE parent = ""      -> f2
              [] parent = "clear" -> g
              [] OTHER            -> h
    BY DEF UpsertInCollection
  <2>2. f = f2 \/ f = g \/ f = h
    <3> HIDE DEF f, f2, g, h
    <3> QED BY <2>1
  <2>3. Plain(A, d, f1)
    BY PlainEntity
  <2> HIDE DEF f1, y, f
  <2>4. Plain(A, d, f2)
    BY <2>3, PlainWrites
  <2> HIDE DEF f2
  <2>5. Plain(A, d, g) /\ Plain(A, d, h)
    BY <2>4, PlainWrites
  <2> HIDE DEF g, h
  <2> QED BY <2>2, <2>4, <2>5 DEF f
<1>3. ASSUME NEW c PROVE Plain(A, d, MoveToCollection(e, a, t, c))
  <2> DEFINE d2 == BumpClock(d1, a, x)
  <2>1. MoveToCollection(e, a, t, c) = Put(d2, a, x, "collection_id", c)
    BY DEF MoveToCollection
  <2> HIDE DEF d1, x
  <2>2. Plain(A, d, d2)
    BY <1>1, PlainWrites
  <2> HIDE DEF d2
  <2>3. Plain(A, d, Put(d2, a, x, "collection_id", c))
    BY <2>2, PlainWrites
  <2> QED BY <2>1, <2>3
<1>4. ASSUME NEW status PROVE Plain(A, d, SetThingStatus(e, a, t, status))
  <2> DEFINE d2 == BumpClock(d1, a, x)
  <2>1. SetThingStatus(e, a, t, status) = Put(d2, a, x, "status", status)
    BY DEF SetThingStatus
  <2> HIDE DEF d1, x
  <2>2. Plain(A, d, d2)
    BY <1>1, PlainWrites
  <2> HIDE DEF d2
  <2>3. Plain(A, d, Put(d2, a, x, "status", status))
    BY <2>2, PlainWrites
  <2> QED BY <2>1, <2>3
<1> QED
  BY <1>2, <1>3, <1>4

\* What is alive in a document is finite, and so is what a deletion reaches.
LEMMA LiveIsFinite ==
  ASSUME NEW d, WellFormed(d), NEW key
  PROVE  IsFiniteSet(LiveEntities(d, key))
<1> DEFINE I == DOMAIN d.ops
           T == {d.ops[i].key : i \in I}
           f == [i \in I |-> d.ops[i].key]
<1>1. IsFiniteSet(I)
  BY DEF WellFormed
<1>2. f \in Surjection(I, T)
  BY DEF Surjection
<1>3. IsFiniteSet(T)
  <2> HIDE DEF I, T, f
  <2> QED BY <1>1, <1>2, FS_Surjection
<1>4. LiveEntities(d, key) \subseteq T
  BY DEF LiveEntities, Entities, Keys
<1> HIDE DEF T
<1> QED
  BY <1>3, <1>4, FS_Subset

\* What is below a thing, met level by level from the set d.
BelowSteps(f, n, d, links) ==
  f = [m \in 0 .. n |-> IF m = 0 THEN d ELSE f[m - 1] \cup {link[1] : link \in {l \in links : l[2] \in f[m - 1]}}]

LEMMA BelowExists ==
  ASSUME NEW d, NEW links, NEW N \in Nat
  PROVE  \E f : BelowSteps(f, N, d, links)
<1> DEFINE S == {n \in Nat : \E f : BelowSteps(f, n, d, links)}
<1>1. 0 \in S
  <2> DEFINE v == [m \in 0 .. 0 |-> d]
  <2>1. v = [m \in 0 .. 0 |-> IF m = 0 THEN d ELSE v[m - 1] \cup {link[1] : link \in {l \in links : l[2] \in v[m - 1]}}]
    <3>1. \A m \in 0 .. 0 : m = 0
      OBVIOUS
    <3> QED BY <3>1
  <2> HIDE DEF v
  <2>2. BelowSteps(v, 0, d, links)
    BY <2>1 DEF BelowSteps
  <2> QED BY <2>2
<1>2. ASSUME NEW n \in 1 .. N, n - 1 \in S PROVE n \in S
  <2>1. PICK f : BelowSteps(f, n - 1, d, links)
    BY <1>2
  <2> DEFINE step(m, x) == x \cup {link[1] : link \in {l \in links : l[2] \in x}}
             g == [m \in 0 .. n |-> IF m = n THEN step(n, f[n - 1]) ELSE f[m]]
  <2>2. f = [m \in 0 .. n - 1 |-> IF m = 0 THEN d ELSE step(m, f[m - 1])]
    BY <2>1 DEF BelowSteps
  <2> HIDE DEF step
  <2>3. ASSUME NEW m \in 0 .. n
        PROVE  g[m] = IF m = 0 THEN d ELSE step(m, g[m - 1])
    <3>1. CASE m = n
      <4>1. m # 0 /\ m - 1 = n - 1 /\ n - 1 \in 0 .. n /\ n - 1 # n
        BY <3>1
      <4> QED BY <3>1, <4>1
    <3>2. CASE m # n /\ m = 0
      <4>1. m \in 0 .. n - 1
        BY <3>2
      <4>2. f[m] = d
        BY <2>2, <3>2, <4>1
      <4> QED BY <3>2, <4>2
    <3>3. CASE m # n /\ m # 0
      <4>1. m \in 0 .. n - 1 /\ m - 1 \in 0 .. n /\ m - 1 # n
        BY <3>3
      <4>2. f[m] = step(m, f[m - 1])
        BY <2>2, <3>3, <4>1
      <4> QED BY <3>3, <4>1, <4>2
    <3> QED BY <3>1, <3>2, <3>3
  <2>4. g = [m \in 0 .. n |-> g[m]]
    OBVIOUS
  <2> HIDE DEF g
  <2>5. g = [m \in 0 .. n |-> IF m = 0 THEN d ELSE step(m, g[m - 1])]
    BY <2>3, <2>4
  <2>6. BelowSteps(g, n, d, links)
    BY <2>5 DEF BelowSteps, step
  <2>7. n \in Nat
    OBVIOUS
  <2> QED BY <2>6, <2>7
<1>3. N \in S
  <2>1. N \in 0 .. N
    OBVIOUS
  <2> HIDE DEF S
  <2> QED BY <1>1, <1>2, <2>1, UpToN
<1> QED
  BY <1>3

LEMMA BelowDone ==
  ASSUME NEW d, NEW links, NEW N \in Nat
  PROVE  LET done == CHOOSE f : BelowSteps(f, N, d, links)
         IN  /\ done[0] = d
             /\ \A n \in 1 .. N : done[n] = done[n - 1] \cup {link[1] : link \in {l \in links : l[2] \in done[n - 1]}}
<1> DEFINE done == CHOOSE f : BelowSteps(f, N, d, links)
           step(m, x) == x \cup {link[1] : link \in {l \in links : l[2] \in x}}
<1>1. BelowSteps(done, N, d, links)
  BY BelowExists
<1> HIDE DEF done
<1>2. done = [m \in 0 .. N |-> IF m = 0 THEN d ELSE step(m, done[m - 1])]
  BY <1>1 DEF BelowSteps
<1> HIDE DEF step
<1>3. 0 \in 0 .. N /\ \A n \in 1 .. N : n \in 0 .. N /\ n # 0
  OBVIOUS
<1>4. done[0] = d /\ \A n \in 1 .. N : done[n] = step(n, done[n - 1])
  BY <1>2, <1>3
<1> QED
  BY <1>4 DEF done, step

LEMMA BelowIsFinite ==
  ASSUME NEW d, WellFormed(d), NEW t
  PROVE  IsFiniteSet(Below(d, t))
<1> DEFINE live == LiveEntities(d, "things")
           parent(x) == Field(d, "things", x, "parent_id", "")
           links == {<<x, parent(x)>> : x \in live}
           first == {link[1] : link \in {l \in links : l[2] \in {t}}}
           n == Cardinality(live)
           met == CHOOSE f : BelowSteps(f, n, first, links)
           S == {m \in 0 .. n : met[m] \subseteq live}
<1>1. IsFiniteSet(live) /\ n \in Nat
  BY LiveIsFinite, FS_CardinalityType
<1>2. Below(d, t) = met[n]
  BY DEF Below, BelowSteps
<1> HIDE DEF live
<1>3. \A link \in links : link[1] \in live
  <2> HIDE DEF parent
  <2>1. \A x \in live : <<x, parent(x)>>[1] \in live
    OBVIOUS
  <2> QED BY <2>1
<1> HIDE DEF links
<1>4. first \subseteq live /\ \A X : {link[1] : link \in {l \in links : l[2] \in X}} \subseteq live
  BY <1>3
<1> HIDE DEF first, n
<1>5. met[0] = first /\ \A m \in 1 .. n : met[m] = met[m - 1] \cup {link[1] : link \in {l \in links : l[2] \in met[m - 1]}}
  BY <1>1, BelowDone
<1> HIDE DEF met
<1>6. 0 \in S
  BY <1>1, <1>4, <1>5
<1>7. \A m \in 1 .. n : m - 1 \in S => m \in S
  <2> TAKE m \in 1 .. n
  <2> HAVE m - 1 \in S
  <2> DEFINE more == {link[1] : link \in {l \in links : l[2] \in met[m - 1]}}
  <2>1. more \subseteq live /\ met[m] = met[m - 1] \cup more
    BY <1>4, <1>5
  <2> HIDE DEF more
  <2>2. met[m] \subseteq live
    BY <2>1
  <2>3. m \in 0 .. n
    BY <1>1
  <2> QED BY <2>2, <2>3
<1>8. n \in S
  <2>1. n \in 0 .. n
    BY <1>1
  <2> HIDE DEF S
  <2> QED BY <1>1, <1>6, <1>7, <2>1, UpToN
<1> QED
  BY <1>1, <1>2, <1>8, FS_Subset

\* The things of a sequence, deleted one after the other.
ChildrenSteps(f, n, d, a, seq) ==
  f = [m \in 0 .. n |-> IF m = 0 THEN d ELSE DeleteEntity(f[m - 1], a, "things", seq[m])]

LEMMA ChildrenExists ==
  ASSUME NEW d, NEW a, NEW seq, NEW N \in Nat
  PROVE  \E f : ChildrenSteps(f, N, d, a, seq)
<1> DEFINE S == {n \in Nat : \E f : ChildrenSteps(f, n, d, a, seq)}
<1>1. 0 \in S
  <2> DEFINE v == [m \in 0 .. 0 |-> d]
  <2>1. v = [m \in 0 .. 0 |-> IF m = 0 THEN d ELSE DeleteEntity(v[m - 1], a, "things", seq[m])]
    <3>1. \A m \in 0 .. 0 : m = 0
      OBVIOUS
    <3> QED BY <3>1
  <2> HIDE DEF v
  <2>2. ChildrenSteps(v, 0, d, a, seq)
    BY <2>1 DEF ChildrenSteps
  <2> QED BY <2>2
<1>2. ASSUME NEW n \in 1 .. N, n - 1 \in S PROVE n \in S
  <2>1. PICK f : ChildrenSteps(f, n - 1, d, a, seq)
    BY <1>2
  <2> DEFINE step(m, x) == DeleteEntity(x, a, "things", seq[m])
             g == [m \in 0 .. n |-> IF m = n THEN step(n, f[n - 1]) ELSE f[m]]
  <2>2. f = [m \in 0 .. n - 1 |-> IF m = 0 THEN d ELSE step(m, f[m - 1])]
    BY <2>1 DEF ChildrenSteps
  <2> HIDE DEF step
  <2>3. ASSUME NEW m \in 0 .. n
        PROVE  g[m] = IF m = 0 THEN d ELSE step(m, g[m - 1])
    <3>1. CASE m = n
      <4>1. m # 0 /\ m - 1 = n - 1 /\ n - 1 \in 0 .. n /\ n - 1 # n
        BY <3>1
      <4> QED BY <3>1, <4>1
    <3>2. CASE m # n /\ m = 0
      <4>1. m \in 0 .. n - 1
        BY <3>2
      <4>2. f[m] = d
        BY <2>2, <3>2, <4>1
      <4> QED BY <3>2, <4>2
    <3>3. CASE m # n /\ m # 0
      <4>1. m \in 0 .. n - 1 /\ m - 1 \in 0 .. n /\ m - 1 # n
        BY <3>3
      <4>2. f[m] = step(m, f[m - 1])
        BY <2>2, <3>3, <4>1
      <4> QED BY <3>3, <4>1, <4>2
    <3> QED BY <3>1, <3>2, <3>3
  <2>4. g = [m \in 0 .. n |-> g[m]]
    OBVIOUS
  <2> HIDE DEF g
  <2>5. g = [m \in 0 .. n |-> IF m = 0 THEN d ELSE step(m, g[m - 1])]
    BY <2>3, <2>4
  <2>6. ChildrenSteps(g, n, d, a, seq)
    BY <2>5 DEF ChildrenSteps, step
  <2>7. n \in Nat
    OBVIOUS
  <2> QED BY <2>6, <2>7
<1>3. N \in S
  <2>1. N \in 0 .. N
    OBVIOUS
  <2> HIDE DEF S
  <2> QED BY <1>1, <1>2, <2>1, UpToN
<1> QED
  BY <1>3

LEMMA ChildrenDone ==
  ASSUME NEW d, NEW a, NEW seq, NEW N \in Nat
  PROVE  LET done == CHOOSE f : ChildrenSteps(f, N, d, a, seq)
         IN  /\ done[0] = d
             /\ \A n \in 1 .. N : done[n] = DeleteEntity(done[n - 1], a, "things", seq[n])
<1> DEFINE done == CHOOSE f : ChildrenSteps(f, N, d, a, seq)
           step(m, x) == DeleteEntity(x, a, "things", seq[m])
<1>1. ChildrenSteps(done, N, d, a, seq)
  BY ChildrenExists
<1> HIDE DEF done
<1>2. done = [m \in 0 .. N |-> IF m = 0 THEN d ELSE step(m, done[m - 1])]
  BY <1>1 DEF ChildrenSteps
<1> HIDE DEF step
<1>3. 0 \in 0 .. N /\ \A n \in 1 .. N : n \in 0 .. N /\ n # 0
  OBVIOUS
<1>4. done[0] = d /\ \A n \in 1 .. N : done[n] = step(n, done[n - 1])
  BY <1>2, <1>3
<1> QED
  BY <1>4 DEF done, step

LEMMA PlainDeleteWithChildren ==
  ASSUME NEW A \in SUBSET Nat, NEW a \in A, NEW d, NEW e, Plain(A, d, e), NEW t
  PROVE  Plain(A, d, DeleteWithChildren(e, a, t))
<1> DEFINE below == Below(e, t) \ {t}
           seq == SetToSeq(below)
           n == Len(seq)
           done == CHOOSE f : ChildrenSteps(f, n, e, a, seq)
           S == {m \in 0 .. n : Plain(A, d, done[m])}
<1>1. n \in Nat
  <2>1. WellFormed(e)
    BY DEF Plain, Grows
  <2>2. IsFiniteSet(below)
    BY <2>1, BelowIsFinite, FS_Subset
  <2> HIDE DEF below
  <2> QED BY <2>2, SetToSeqProperties
<1>2. DeleteWithChildren(e, a, t) = DeleteEntity(done[n], a, "things", t)
  BY DEF DeleteWithChildren, DeleteEntities, ChildrenSteps
<1> HIDE DEF seq, n
<1>3. done[0] = e /\ \A m \in 1 .. n : done[m] = DeleteEntity(done[m - 1], a, "things", seq[m])
  BY <1>1, ChildrenDone
<1> HIDE DEF done
<1>4. 0 \in S
  BY <1>1, <1>3
<1>5. \A m \in 1 .. n : m - 1 \in S => m \in S
  <2> TAKE m \in 1 .. n
  <2> HAVE m - 1 \in S
  <2>1. Plain(A, d, DeleteEntity(done[m - 1], a, "things", seq[m]))
    BY PlainEntity
  <2> QED BY <1>1, <1>3, <2>1
<1>6. n \in S
  <2>1. n \in 0 .. n
    BY <1>1
  <2> HIDE DEF S
  <2> QED BY <1>1, <1>4, <1>5, <2>1, UpToN
<1>7. Plain(A, d, DeleteEntity(done[n], a, "things", t))
  BY <1>6, PlainEntity
<1> QED
  BY <1>2, <1>7

\* The things of a collection, deleted one after the other with their children.
CollectionSteps(f, n, d, a, seq) ==
  f = [m \in 0 .. n |-> IF m = 0 THEN d ELSE DeleteWithChildren(f[m - 1], a, seq[m])]

LEMMA CollectionExists ==
  ASSUME NEW d, NEW a, NEW seq, NEW N \in Nat
  PROVE  \E f : CollectionSteps(f, N, d, a, seq)
<1> DEFINE S == {n \in Nat : \E f : CollectionSteps(f, n, d, a, seq)}
<1>1. 0 \in S
  <2> DEFINE v == [m \in 0 .. 0 |-> d]
  <2>1. v = [m \in 0 .. 0 |-> IF m = 0 THEN d ELSE DeleteWithChildren(v[m - 1], a, seq[m])]
    <3>1. \A m \in 0 .. 0 : m = 0
      OBVIOUS
    <3> QED BY <3>1
  <2> HIDE DEF v
  <2>2. CollectionSteps(v, 0, d, a, seq)
    BY <2>1 DEF CollectionSteps
  <2> QED BY <2>2
<1>2. ASSUME NEW n \in 1 .. N, n - 1 \in S PROVE n \in S
  <2>1. PICK f : CollectionSteps(f, n - 1, d, a, seq)
    BY <1>2
  <2> DEFINE step(m, x) == DeleteWithChildren(x, a, seq[m])
             g == [m \in 0 .. n |-> IF m = n THEN step(n, f[n - 1]) ELSE f[m]]
  <2>2. f = [m \in 0 .. n - 1 |-> IF m = 0 THEN d ELSE step(m, f[m - 1])]
    BY <2>1 DEF CollectionSteps
  <2> HIDE DEF step
  <2>3. ASSUME NEW m \in 0 .. n
        PROVE  g[m] = IF m = 0 THEN d ELSE step(m, g[m - 1])
    <3>1. CASE m = n
      <4>1. m # 0 /\ m - 1 = n - 1 /\ n - 1 \in 0 .. n /\ n - 1 # n
        BY <3>1
      <4> QED BY <3>1, <4>1
    <3>2. CASE m # n /\ m = 0
      <4>1. m \in 0 .. n - 1
        BY <3>2
      <4>2. f[m] = d
        BY <2>2, <3>2, <4>1
      <4> QED BY <3>2, <4>2
    <3>3. CASE m # n /\ m # 0
      <4>1. m \in 0 .. n - 1 /\ m - 1 \in 0 .. n /\ m - 1 # n
        BY <3>3
      <4>2. f[m] = step(m, f[m - 1])
        BY <2>2, <3>3, <4>1
      <4> QED BY <3>3, <4>1, <4>2
    <3> QED BY <3>1, <3>2, <3>3
  <2>4. g = [m \in 0 .. n |-> g[m]]
    OBVIOUS
  <2> HIDE DEF g
  <2>5. g = [m \in 0 .. n |-> IF m = 0 THEN d ELSE step(m, g[m - 1])]
    BY <2>3, <2>4
  <2>6. CollectionSteps(g, n, d, a, seq)
    BY <2>5 DEF CollectionSteps, step
  <2>7. n \in Nat
    OBVIOUS
  <2> QED BY <2>6, <2>7
<1>3. N \in S
  <2>1. N \in 0 .. N
    OBVIOUS
  <2> HIDE DEF S
  <2> QED BY <1>1, <1>2, <2>1, UpToN
<1> QED
  BY <1>3

LEMMA CollectionDone ==
  ASSUME NEW d, NEW a, NEW seq, NEW N \in Nat
  PROVE  LET done == CHOOSE f : CollectionSteps(f, N, d, a, seq)
         IN  /\ done[0] = d
             /\ \A n \in 1 .. N : done[n] = DeleteWithChildren(done[n - 1], a, seq[n])
<1> DEFINE done == CHOOSE f : CollectionSteps(f, N, d, a, seq)
           step(m, x) == DeleteWithChildren(x, a, seq[m])
<1>1. CollectionSteps(done, N, d, a, seq)
  BY CollectionExists
<1> HIDE DEF done
<1>2. done = [m \in 0 .. N |-> IF m = 0 THEN d ELSE step(m, done[m - 1])]
  BY <1>1 DEF CollectionSteps
<1> HIDE DEF step
<1>3. 0 \in 0 .. N /\ \A n \in 1 .. N : n \in 0 .. N /\ n # 0
  OBVIOUS
<1>4. done[0] = d /\ \A n \in 1 .. N : done[n] = step(n, done[n - 1])
  BY <1>2, <1>3
<1> QED
  BY <1>4 DEF done, step

LEMMA PlainDeleteCollection ==
  ASSUME NEW A \in SUBSET Nat, NEW a \in A, NEW d, NEW e, Plain(A, d, e), NEW c
  PROVE  Plain(A, d, DeleteCollection(e, a, c))
<1> DEFINE things == ThingsOf(e, c)
           seq == SetToSeq(things)
           n == Len(seq)
           done == CHOOSE f : CollectionSteps(f, n, e, a, seq)
           S == {m \in 0 .. n : Plain(A, d, done[m])}
<1>1. n \in Nat
  <2>1. WellFormed(e)
    BY DEF Plain, Grows
  <2>2. things \subseteq LiveEntities(e, "things")
    BY DEF ThingsOf
  <2>3. IsFiniteSet(things)
    BY <2>1, <2>2, LiveIsFinite, FS_Subset
  <2> HIDE DEF things
  <2> QED BY <2>3, SetToSeqProperties
<1>2. DeleteCollection(e, a, c) = DeleteEntity(done[n], a, "collections", c)
  BY DEF DeleteCollection, DeleteAllWithChildren, CollectionSteps
<1> HIDE DEF seq, n
<1>3. done[0] = e /\ \A m \in 1 .. n : done[m] = DeleteWithChildren(done[m - 1], a, seq[m])
  BY <1>1, CollectionDone
<1> HIDE DEF done
<1>4. 0 \in S
  BY <1>1, <1>3
<1>5. \A m \in 1 .. n : m - 1 \in S => m \in S
  <2> TAKE m \in 1 .. n
  <2> HAVE m - 1 \in S
  <2>1. Plain(A, d, DeleteWithChildren(done[m - 1], a, seq[m]))
    BY PlainDeleteWithChildren
  <2> QED BY <1>1, <1>3, <2>1
<1>6. n \in S
  <2>1. n \in 0 .. n
    BY <1>1
  <2> HIDE DEF S
  <2> QED BY <1>1, <1>4, <1>5, <2>1, UpToN
<1>7. Plain(A, d, DeleteEntity(done[n], a, "collections", c))
  BY <1>6, PlainEntity
<1> QED
  BY <1>2, <1>7

LEMMA PlainWithBlocks ==
  ASSUME NEW A \in SUBSET Nat, NEW a \in A, NEW d, NEW e, Plain(A, d, e), NEW t
  PROVE  Plain(A, d, WithBlocks(e, a, t))
<1> DEFINE d1 == ShownEntity(e, a, "things", t)
           x == Get(d1, Shown(e, "things"), t)
           d2 == EnsureMap(d1, a, x, "content")
           c == Get(d2, x, "content")
<1>1. WithBlocks(e, a, t) = EnsureList(d2, a, c, "blocks")
  BY DEF WithBlocks
<1>2. Plain(A, d, d1)
  BY PlainEntity
<1> HIDE DEF d1, x
<1>3. Plain(A, d, d2)
  BY <1>2, PlainWrites
<1> HIDE DEF d2, c
<1>4. Plain(A, d, EnsureList(d2, a, c, "blocks"))
  BY <1>3, PlainWrites
<1> QED
  BY <1>1, <1>4

LEMMA PlainBlocks ==
  ASSUME NEW A \in SUBSET Nat, NEW d, NEW e, Plain(A, d, e), NEW list, NEW b
  PROVE  /\ Plain(A, d, EraseBlock(e, list, b))
         /\ \A a \in A, index \in Nat : \A text : Typable(text) => Plain(A, d, NewBlock(e, a, list, index, b, text))
         /\ \A a \in A : \A text : Typable(text) => Plain(A, d, SetBlocks(e, a, list, b, text))
         /\ \A a \in A, index \in Nat, delete \in Nat : \A insert :
              Plain(A, d, SpliceBlock(e, a, list, b, index, delete, insert))
<1> DEFINE none == {}
<1>1. Free(none, none) /\ Grows(A, none, none, d, e) /\ WellFormed(e)
  BY DEF Plain, Free, Grows
<1> HIDE DEF none
<1>2. Grows(A, none, none, d, EraseBlock(e, list, b))
  BY <1>1, GrowsEraseBlock
<1>3. ASSUME NEW a \in A, NEW index \in Nat, NEW text, Typable(text)
      PROVE  Plain(A, d, NewBlock(e, a, list, index, b, text))
  BY <1>3, GrowsNewBlock DEF Plain
<1>4. ASSUME NEW a \in A, NEW text, Typable(text) PROVE Plain(A, d, SetBlocks(e, a, list, b, text))
  <2> DEFINE S == Range(Elements(e, list))
             f == Erase(e, S)
  <2>1. S \in SUBSET {i \in DOMAIN e.ops : e.ops[i].key = ""}
    BY <1>1, ElementsAreInserted
  <2> HIDE DEF S
  <2>2. Grows(A, none, none, d, f)
    BY <1>1, <2>1, GrowsEraseElements
  <2>3. SetBlocks(e, a, list, b, text) = NewBlock(f, a, list, 0, b, text)
    BY DEF SetBlocks, S
  <2>4. 0 \in Nat
    OBVIOUS
  <2> HIDE DEF f
  <2>5. Plain(A, d, NewBlock(f, a, list, 0, b, text))
    BY <1>4, <2>2, <2>4, GrowsNewBlock DEF Plain, none
  <2> QED BY <2>3, <2>5
<1>5. ASSUME NEW a \in A, NEW index \in Nat, NEW delete \in Nat, NEW insert
      PROVE  Grows(A, none, none, d, SpliceBlock(e, a, list, b, index, delete, insert))
  BY <1>1, SpliceProperties
<1> QED
  BY <1>2, <1>3, <1>4, <1>5 DEF Plain, none

LEMMA PlainThingBlocks ==
  ASSUME NEW A \in SUBSET Nat, NEW a \in A, MoveActor \in A, NEW d, NEW e, Plain(A, d, e), NEW t, NEW b
  PROVE  /\ \A text : Typable(text) => Plain(A, d, SetThingContent(e, a, t, b, text))
         /\ \A index \in Nat : \A text : Typable(text) => Plain(A, d, InsertThingBlock(e, a, t, index, b, text))
         /\ Plain(A, d, DeleteThingBlock(e, a, t, b))
         /\ \A to \in Nat : Plain(A, d, MoveThingBlock(e, a, t, b, to))
         /\ \A index \in Nat, delete \in Nat : \A insert : Plain(A, d, SpliceThingText(e, a, t, b, index, delete, insert))
<1> DEFINE d1 == WithBlocks(e, a, t)
           list == ThingBlocks(d1, t)
           at == BlocksNamed(d1, list, b)
<1>1. Plain(A, d, d1) /\ WellFormed(d1)
  BY PlainWithBlocks DEF Plain, Grows
<1>2. ASSUME NEW text, Typable(text) PROVE Plain(A, d, SetThingContent(e, a, t, b, text))
  BY <1>1, <1>2, PlainBlocks DEF SetThingContent
<1>3. ASSUME NEW index \in Nat, NEW text, Typable(text)
      PROVE  Plain(A, d, InsertThingBlock(e, a, t, index, b, text))
  BY <1>1, <1>3, PlainBlocks DEF InsertThingBlock
<1>4. Plain(A, d, DeleteThingBlock(e, a, t, b))
  BY <1>1, PlainBlocks DEF DeleteThingBlock
<1>5. ASSUME NEW to \in Nat PROVE Plain(A, d, MoveThingBlock(e, a, t, b, to))
  <2> DEFINE len == Len(Elements(d1, list))
             last == Min({to, len - 1})
             index == MoveTarget(d1, list, b, last)
             text == Text(d1, Head(at))
             f == EraseBlock(d1, list, b)
  <2>1. MoveThingBlock(e, a, t, b, to) = IF at = <<>> THEN d1 ELSE NewBlock(f, MoveActor, list, index, b, text)
    BY DEF MoveThingBlock
  <2> HIDE DEF d1, list
  <2>2. ASSUME at # <<>> PROVE Plain(A, d, NewBlock(f, MoveActor, list, index, b, text))
    <3>1. Plain(A, d, f)
      BY <1>1, PlainBlocks
    <3>2. Typable(text)
      BY <1>1, TextIsTypable
    <3>3. last \in Nat
      <4> DEFINE S == {x \in Inserted(d1, list) : BlockId(d1, x) = b}
                 o == Elements(d1, list)
      <4>1. Only(o, S) # <<>>
        BY <2>2 DEF BlocksNamed
      <4> HIDE DEF S
      <4>2. Picked(d1, list, S, Only(o, S))
        BY <1>1, <4>1, PickedElements
      <4>3. Range(o) # {}
        BY <4>2 DEF Picked
      <4>4. o \in Seq(Inserted(d1, list)) /\ len \in Nat
        BY <1>1, ElementsProperties
      <4>5. len # 0
        <5> HIDE DEF o
        <5>1. DOMAIN o = 1 .. Len(o) /\ len = Len(o)
          BY <4>4 DEF o
        <5>2. DOMAIN o # {}
          BY <4>3 DEF Range
        <5> HIDE DEF len
        <5> QED BY <5>1, <5>2
      <4>6. len - 1 \in Nat
        <5> HIDE DEF len
        <5> QED BY <4>4, <4>5
      <4> DEFINE m == len - 1
      <4> HIDE DEF m
      <4>7. Min({to, m}) \in Nat
        BY <4>6, LeastOfTwo DEF m
      <4> QED BY <4>7 DEF m
    <3> HIDE DEF last
    <3>4. index \in Nat
      BY <1>1, <2>2, <3>3, MoveTargetProperties
    <3> HIDE DEF index, text, f
    <3> QED BY <3>1, <3>2, <3>4, PlainBlocks
  <2> HIDE DEF f, index, text, at
  <2> QED BY <1>1, <2>1, <2>2
<1>6. ASSUME NEW index \in Nat, NEW delete \in Nat, NEW insert
      PROVE  Plain(A, d, SpliceThingText(e, a, t, b, index, delete, insert))
  BY PlainBlocks DEF SpliceThingText
<1> QED
  BY <1>2, <1>3, <1>4, <1>5, <1>6

----------------------------------------------------------------------------
(* The replicas of one document                                            *)

\* The keys that an edit of a document of one type never hides or erases.
KeptKeys(x) ==
  CASE x.type = "root"       -> RootKeys
    [] x.type = "collection" -> CollectionKeys(x.things)
    [] x.type = "content"    -> ContentKeys
    [] x.type = "legacy"     -> {}

\* The actors under which a replica edits.
Authors(x, r) == IF x.type = "legacy" THEN {r, MoveActor} ELSE {r}

Formed(x, d) ==
  /\ x.type = "collection" => Tombstones(d)
  /\ x.type = "content" => Shape(d) /\ (d # NewDoc => HasContent(d))

\* What a replica knows of another's operations, that other one has made.
Made(f) ==
  \A r, q \in Replicas : \A i \in DOMAIN f[r].ops \cup f[r].gone : i[2] = q => i[1] <= f[q].top

\* One name stands for one operation.
Alike(x, f) ==
  \A r, q \in Replicas : \A i \in DOMAIN f[r].ops \cap DOMAIN f[q].ops :
    f[r].ops[i] # f[q].ops[i] => x.type = "legacy" /\ i[2] = MoveActor

\* No replica has hidden an operation of another under a key that is kept.
Stay(K, f) ==
  \A r, q \in Replicas : \A i \in f[r].gone \cap DOMAIN f[q].ops : f[q].ops[i].key \notin K

Sound(x, f) ==
  /\ f = [r \in Replicas |-> f[r]]
  /\ \A r \in Replicas : WellFormed(f[r]) /\ Formed(x, f[r])
  /\ Made(f)
  /\ Alike(x, f)
  /\ Stay(KeptKeys(x), f)

CrdtInv == instance \in Instances /\ Sound(instance, doc)

LEMMA AuthorsAreNumbers ==
  ASSUME NEW x, NEW r \in Replicas
  PROVE  Authors(x, r) \in SUBSET Nat /\ r \in Authors(x, r)
BY ReplicasAssumption DEF Authors, MoveActor

\* An edit that is made as Grows says, in one replica.
IsEdit(x, d, r, new) == Grows(Authors(x, r), KeptKeys(x), {}, d, new) /\ Formed(x, new)

LEMMA EditMade ==
  ASSUME NEW x, NEW f, Sound(x, f), NEW r \in Replicas, NEW new, IsEdit(x, f[r], r, new)
  PROVE  Made([f EXCEPT ![r] = new])
<1> DEFINE g == [f EXCEPT ![r] = new]
           A == Authors(x, r)
<1>1. DOMAIN f = Replicas
  BY DEF Sound
<1>2. g[r] = new /\ \A q \in Replicas : q # r => g[q] = f[q]
  BY <1>1
<1>3. /\ f[r].top <= new.top /\ f[r].top \in Nat /\ new.top \in Nat
      /\ \A i \in DOMAIN new.ops : i \in DOMAIN f[r].ops \/ IsNew(A, f[r], new, i)
      /\ \A i \in new.gone : i \in f[r].gone \/ i \in DOMAIN f[r].ops \/ IsNew(A, f[r], new, i)
  BY DEF IsEdit, Grows, WellFormed
<1>4. \A q \in Replicas : f[q].top <= g[q].top /\ f[q].top \in Nat /\ g[q].top \in Nat
  <2> TAKE q \in Replicas
  <2>1. f[q].top \in Nat
    BY DEF Sound, WellFormed
  <2>2. q = r \/ g[q] = f[q]
    BY <1>2
  <2> HIDE DEF g
  <2> QED BY <1>2, <1>3, <2>1, <2>2
<1> HIDE DEF g
<1>5. \A p, q \in Replicas : \A i \in DOMAIN f[p].ops \cup f[p].gone : i[2] = q => i[1] <= g[q].top
  <2> TAKE p, q \in Replicas
  <2> TAKE i \in DOMAIN f[p].ops \cup f[p].gone
  <2> HAVE i[2] = q
  <2>1. i[1] <= f[q].top
    BY DEF Sound, Made
  <2>2. i[1] \in Nat
    <3>1. WellFormed(f[p])
      BY DEF Sound
    <3>2. i \in Name
      BY <3>1 DEF WellFormed
    <3> QED BY <3>2, NameParts
  <2> QED BY <1>4, <2>1, <2>2
<1>6. \A q \in Replicas : \A i : i[2] = q /\ IsNew(A, f[r], new, i) => i[1] <= g[q].top
  <2> TAKE q \in Replicas
  <2> TAKE i
  <2> HAVE i[2] = q /\ IsNew(A, f[r], new, i)
  <2>1. i[2] \in A /\ i[1] <= new.top
    BY DEF IsNew
  <2>2. q # MoveActor
    BY ReplicasAssumption DEF MoveActor
  <2>3. q = r
    BY <2>1, <2>2 DEF Authors
  <2> QED BY <1>2, <2>1, <2>3
<1>7. ASSUME NEW p \in Replicas, NEW q \in Replicas, NEW i \in DOMAIN g[p].ops \cup g[p].gone, i[2] = q
      PROVE  i[1] <= g[q].top
  <2>1. CASE p = r
    <3>1. i \in DOMAIN f[r].ops \cup f[r].gone \/ IsNew(A, f[r], new, i)
      BY <1>2, <1>3, <2>1
    <3> QED BY <1>5, <1>6, <1>7, <3>1
  <2>2. CASE p # r
    BY <1>2, <1>5, <1>7, <2>2
  <2> QED BY <2>1, <2>2
<1> QED
  BY <1>7 DEF Made, g

\* No other replica has met what an edit makes, but for what it makes under the
\* actor that all share.
LEMMA NewIsUnmet ==
  ASSUME NEW x, NEW f, Sound(x, f), NEW r \in Replicas, NEW new, NEW p \in Replicas,
         NEW i \in DOMAIN f[p].ops \cup f[p].gone, IsNew(Authors(x, r), f[r], new, i)
  PROVE  x.type = "legacy" /\ i[2] = MoveActor
<1>1. i[2] \in Authors(x, r) /\ i[1] > f[r].top
  BY DEF IsNew
<1>2. i[1] \in Nat /\ f[r].top \in Nat
  <2>1. WellFormed(f[p]) /\ WellFormed(f[r])
    BY DEF Sound
  <2>2. i \in Name /\ f[r].top \in Nat
    BY <2>1 DEF WellFormed
  <2> QED BY <2>2, NameParts
<1>3. i[2] # r
  <2>1. i[2] = r => i[1] <= f[r].top
    BY DEF Sound, Made
  <2>2. ~(i[1] <= f[r].top)
    BY <1>1, <1>2
  <2> QED BY <2>1, <2>2
<1> QED
  BY <1>1, <1>3 DEF Authors

LEMMA EditAlike ==
  ASSUME NEW x, NEW f, Sound(x, f), NEW r \in Replicas, NEW new, IsEdit(x, f[r], r, new)
  PROVE  Alike(x, [f EXCEPT ![r] = new])
<1> DEFINE g == [f EXCEPT ![r] = new]
           A == Authors(x, r)
           Excused(i) == x.type = "legacy" /\ i[2] = MoveActor
<1>1. g[r] = new /\ \A q \in Replicas : q # r => g[q] = f[q]
  BY DEF Sound
<1>2. \A i \in DOMAIN new.ops : (i \in DOMAIN f[r].ops /\ new.ops[i] = f[r].ops[i]) \/ IsNew(A, f[r], new, i)
  BY DEF IsEdit, Grows
<1> HIDE DEF g
<1>3. \A p, q \in Replicas : \A i \in DOMAIN f[p].ops \cap DOMAIN f[q].ops : f[p].ops[i] # f[q].ops[i] => Excused(i)
  BY DEF Sound, Alike
<1>4. \A q \in Replicas : \A i \in DOMAIN f[q].ops : IsNew(A, f[r], new, i) => Excused(i)
  BY NewIsUnmet
<1> HIDE DEF Excused
<1>5. \A q \in Replicas : \A i \in DOMAIN new.ops \cap DOMAIN f[q].ops : new.ops[i] # f[q].ops[i] => Excused(i)
  BY <1>2, <1>3, <1>4
<1>6. ASSUME NEW p \in Replicas, NEW q \in Replicas, NEW i \in DOMAIN g[p].ops \cap DOMAIN g[q].ops, g[p].ops[i] # g[q].ops[i]
      PROVE  Excused(i)
  <2>1. CASE p = r /\ q = r
    BY <1>6, <2>1
  <2>2. CASE p = r /\ q # r
    BY <1>1, <1>5, <1>6, <2>2
  <2>3. CASE p # r /\ q = r
    BY <1>1, <1>5, <1>6, <2>3
  <2>4. CASE p # r /\ q # r
    BY <1>1, <1>3, <1>6, <2>4
  <2> QED BY <2>1, <2>2, <2>3, <2>4
<1> QED
  BY <1>6 DEF Alike, Excused, g

LEMMA EditStay ==
  ASSUME NEW x, NEW f, Sound(x, f), NEW r \in Replicas, NEW new, IsEdit(x, f[r], r, new)
  PROVE  Stay(KeptKeys(x), [f EXCEPT ![r] = new])
<1> DEFINE g == [f EXCEPT ![r] = new]
           A == Authors(x, r)
           K == KeptKeys(x)
           d == f[r]
<1>1. g[r] = new /\ \A q \in Replicas : q # r => g[q] = f[q]
  BY DEF Sound
<1>2. /\ \A i \in DOMAIN new.ops : (i \in DOMAIN d.ops /\ new.ops[i] = d.ops[i]) \/ IsNew(A, d, new, i)
      /\ \A i \in new.gone \ d.gone :
           \/ i \in DOMAIN d.ops /\ d.ops[i].key \notin K
           \/ IsNew(A, d, new, i) /\ (i \in DOMAIN new.ops => new.ops[i].key \notin K)
  BY DEF IsEdit, Grows
<1>3. x.type = "legacy" => K = {}
  BY DEF KeptKeys
<1>4. x.type # "legacy" => \A q \in Replicas : \A i \in DOMAIN f[q].ops \cap DOMAIN d.ops : d.ops[i] = f[q].ops[i]
  BY DEF Sound, Alike
<1>5. x.type # "legacy" => \A q \in Replicas : \A i \in DOMAIN f[q].ops \cup f[q].gone : ~ IsNew(A, d, new, i)
  BY NewIsUnmet
<1>6. \A p, q \in Replicas : \A i \in f[p].gone \cap DOMAIN f[q].ops : f[q].ops[i].key \notin K
  BY DEF Sound, Stay
<1> HIDE DEF g, K, A, d
<1>7. CASE x.type = "legacy"
  BY <1>3, <1>7 DEF Stay, K, g
<1>8. CASE x.type # "legacy"
  <2>1. ASSUME NEW q \in Replicas, NEW i \in new.gone \cap DOMAIN f[q].ops PROVE f[q].ops[i].key \notin K
    <3>1. CASE i \in d.gone
      BY <1>6, <2>1, <3>1 DEF d
    <3>2. CASE i \notin d.gone
      BY <1>2, <1>4, <1>5, <1>8, <2>1, <3>2
    <3> QED BY <3>1, <3>2
  <2>2. ASSUME NEW p \in Replicas, NEW i \in f[p].gone \cap DOMAIN new.ops PROVE new.ops[i].key \notin K
    <3>1. i \in DOMAIN d.ops /\ new.ops[i] = d.ops[i]
      BY <1>2, <1>5, <1>8, <2>2
    <3> QED BY <1>6, <2>2, <3>1 DEF d
  <2>3. ASSUME NEW i \in new.gone \cap DOMAIN new.ops PROVE new.ops[i].key \notin K
    <3>1. CASE i \in d.gone
      BY <2>2, <2>3, <3>1 DEF d
    <3>2. CASE i \notin d.gone /\ i \in DOMAIN d.ops
      <4>1. ~ IsNew(A, d, new, i)
        BY <1>5, <1>8, <3>2 DEF d
      <4> QED BY <1>2, <2>3, <3>2, <4>1
    <3>3. CASE i \notin d.gone /\ i \notin DOMAIN d.ops
      BY <1>2, <2>3, <3>3
    <3> QED BY <3>1, <3>2, <3>3
  <2>4. ASSUME NEW p \in Replicas, NEW q \in Replicas, NEW i \in g[p].gone \cap DOMAIN g[q].ops
        PROVE  g[q].ops[i].key \notin K
    <3>1. CASE p = r /\ q = r
      BY <1>1, <2>3, <2>4, <3>1
    <3>2. CASE p = r /\ q # r
      BY <1>1, <2>1, <2>4, <3>2
    <3>3. CASE p # r /\ q = r
      BY <1>1, <2>2, <2>4, <3>3
    <3>4. CASE p # r /\ q # r
      BY <1>1, <1>6, <2>4, <3>4
    <3> QED BY <3>1, <3>2, <3>3, <3>4
  <2> QED BY <2>4 DEF Stay, g, K
<1> QED
  BY <1>7, <1>8

LEMMA EditIsSound ==
  ASSUME NEW x, NEW f, Sound(x, f), NEW r \in Replicas, NEW new, IsEdit(x, f[r], r, new)
  PROVE  Sound(x, [f EXCEPT ![r] = new])
<1> DEFINE g == [f EXCEPT ![r] = new]
<1>1. g = [q \in Replicas |-> g[q]] /\ g[r] = new /\ \A q \in Replicas : q # r => g[q] = f[q]
  BY DEF Sound
<1>2. WellFormed(new) /\ Formed(x, new)
  BY DEF IsEdit, Grows
<1>3. \A q \in Replicas : WellFormed(f[q]) /\ Formed(x, f[q])
  BY DEF Sound
<1>4. Made(g) /\ Alike(x, g) /\ Stay(KeptKeys(x), g)
  BY EditMade, EditAlike, EditStay
<1> HIDE DEF g
<1>5. \A q \in Replicas : WellFormed(g[q]) /\ Formed(x, g[q])
  BY <1>1, <1>2, <1>3
<1>6. Sound(x, g)
  BY <1>1, <1>4, <1>5 DEF Sound
<1> QED
  BY <1>6 DEF g

\* A merge of two documents, as MergeProperties describes it.
Joins(d, e, m) ==
  /\ WellFormed(m)
  /\ DOMAIN m.ops \subseteq DOMAIN d.ops \cup DOMAIN e.ops
  /\ m.gone = d.gone \cup e.gone
  /\ \A i \in DOMAIN m.ops \cap DOMAIN d.ops : m.ops[i] = d.ops[i]
  /\ \A i \in DOMAIN m.ops \cap DOMAIN e.ops : m.ops[i] = e.ops[i]
  /\ d.top <= m.top /\ e.top <= m.top

\* Operations under the keys that are kept, and the elements of lists, are all
\* in the merge.
Retains(K, d, m) == \A i \in DOMAIN d.ops : d.ops[i].key \in K \cup {""} => i \in DOMAIN m.ops /\ m.ops[i] = d.ops[i]

LEMMA MergeJoins ==
  ASSUME NEW x, NEW f, Sound(x, f), NEW r \in Replicas, NEW q \in Replicas, Agree(f[r], f[q])
  PROVE  /\ Joins(f[r], f[q], Merge(f[r], f[q]))
         /\ Retains(KeptKeys(x), f[r], Merge(f[r], f[q]))
         /\ Retains(KeptKeys(x), f[q], Merge(f[r], f[q]))
<1> DEFINE d == f[r]
           e == f[q]
           m == Merge(d, e)
           K == KeptKeys(x)
<1>1. WellFormed(d) /\ WellFormed(e) /\ Agree(d, e)
  BY DEF Sound
<1>2. \A i \in (d.gone \cup e.gone) \cap DOMAIN d.ops : d.ops[i].key \notin K
  BY DEF Sound, Stay
<1>3. \A i \in (d.gone \cup e.gone) \cap DOMAIN e.ops : e.ops[i].key \notin K
  BY DEF Sound, Stay
<1> HIDE DEF d, e, m, K
<1>4. /\ Joins(d, e, m)
      /\ \A i \in DOMAIN d.ops : i \in DOMAIN m.ops \/ (i \in d.gone \cup e.gone /\ d.ops[i].key # "")
      /\ \A i \in DOMAIN e.ops : i \in DOMAIN m.ops \/ (i \in d.gone \cup e.gone /\ e.ops[i].key # "")
  <2>1. /\ WellFormed(Merge(d, e))
        /\ DOMAIN Merge(d, e).ops \subseteq DOMAIN d.ops \cup DOMAIN e.ops
        /\ Merge(d, e).gone = d.gone \cup e.gone
        /\ \A i \in DOMAIN Merge(d, e).ops \cap DOMAIN d.ops : Merge(d, e).ops[i] = d.ops[i]
        /\ \A i \in DOMAIN Merge(d, e).ops \cap DOMAIN e.ops : Merge(d, e).ops[i] = e.ops[i]
        /\ \A i \in DOMAIN d.ops : i \in DOMAIN Merge(d, e).ops \/ (i \in d.gone \cup e.gone /\ d.ops[i].key # "")
        /\ \A i \in DOMAIN e.ops : i \in DOMAIN Merge(d, e).ops \/ (i \in d.gone \cup e.gone /\ e.ops[i].key # "")
        /\ d.top <= Merge(d, e).top /\ e.top <= Merge(d, e).top
    BY <1>1, MergeProperties
  <2> QED BY <2>1 DEF Joins, m
<1>5. Retains(K, d, m)
  BY <1>2, <1>4 DEF Retains, Joins
<1>6. Retains(K, e, m)
  BY <1>3, <1>4 DEF Retains, Joins
<1> QED
  BY <1>4, <1>5, <1>6 DEF d, e, m, K

LEMMA MergeTombs ==
  ASSUME NEW K, "deleted" \in K, NEW d, NEW e, NEW m, Joins(d, e, m), Retains(K, d, m), Retains(K, e, m),
         Tombstones(d), Tombstones(e)
  PROVE  Tombstones(m)
<1>1. \A i \in DOMAIN m.ops : (i \in DOMAIN d.ops /\ m.ops[i] = d.ops[i]) \/ (i \in DOMAIN e.ops /\ m.ops[i] = e.ops[i])
  BY DEF Joins
<1>2. ASSUME NEW c, Tombstones(c), Retains(K, c, m), NEW i \in DOMAIN m.ops, i \in DOMAIN c.ops, m.ops[i] = c.ops[i]
      PROVE  /\ m.ops[i].key = "deleted" => m.ops[i].val = TRUE /\ i = Behind(m.ops[i].obj, 1)
             /\ m.ops[i].key = "tombstone" =>
                  /\ Behind(i, 1) \in DOMAIN m.ops
                  /\ m.ops[Behind(i, 1)].key = "deleted" /\ m.ops[Behind(i, 1)].obj = i
  <2>1. c.ops[i].key = "deleted" => c.ops[i].val = TRUE /\ i = Behind(c.ops[i].obj, 1)
    BY <1>2 DEF Tombstones
  <2>2. c.ops[i].key = "tombstone" =>
          /\ Behind(i, 1) \in DOMAIN c.ops
          /\ c.ops[Behind(i, 1)].key = "deleted" /\ c.ops[Behind(i, 1)].obj = i
    BY <1>2 DEF Tombstones
  <2>3. \A j \in DOMAIN c.ops : c.ops[j].key = "deleted" => j \in DOMAIN m.ops /\ m.ops[j] = c.ops[j]
    BY <1>2 DEF Retains
  <2> QED BY <1>2, <2>1, <2>2, <2>3
<1>3. ASSUME NEW i \in DOMAIN m.ops
      PROVE  /\ m.ops[i].key = "deleted" => m.ops[i].val = TRUE /\ i = Behind(m.ops[i].obj, 1)
             /\ m.ops[i].key = "tombstone" =>
                  /\ Behind(i, 1) \in DOMAIN m.ops
                  /\ m.ops[Behind(i, 1)].key = "deleted" /\ m.ops[Behind(i, 1)].obj = i
  <2>1. CASE i \in DOMAIN d.ops /\ m.ops[i] = d.ops[i]
    BY <1>2, <2>1
  <2>2. CASE i \in DOMAIN e.ops /\ m.ops[i] = e.ops[i]
    BY <1>2, <2>2
  <2> QED BY <1>1, <2>1, <2>2
<1> QED
  BY <1>3 DEF Tombstones

LEMMA MergeShape ==
  ASSUME NEW K, "blocks" \in K, "text" \in K, NEW d, NEW e, NEW m, Joins(d, e, m), Retains(K, d, m), Retains(K, e, m),
         Shape(d), Shape(e)
  PROVE  Shape(m)
<1>1. \A i \in DOMAIN m.ops : (i \in DOMAIN d.ops /\ m.ops[i] = d.ops[i]) \/ (i \in DOMAIN e.ops /\ m.ops[i] = e.ops[i])
  BY DEF Joins
<1>2. ASSUME NEW c, Shape(c), Retains(K, c, m), NEW i \in DOMAIN m.ops, i \in DOMAIN c.ops, m.ops[i] = c.ops[i]
      PROVE  Shaped(m.ops, i)
  <2>1. \A j \in DOMAIN c.ops : c.ops[j].key = "blocks" \/ c.ops[j].key = "text" => j \in DOMAIN m.ops /\ m.ops[j] = c.ops[j]
    BY <1>2 DEF Retains
  <2>2. Shaped(c.ops, i)
    BY <1>2 DEF Shape
  <2> QED BY <1>2, <2>1, <2>2, ShapedStays
<1> QED
  BY <1>1, <1>2 DEF Shape

LEMMA MergeFormed ==
  ASSUME NEW x, x.type \in {"root", "collection", "content", "legacy"},
         NEW f, Sound(x, f), NEW r \in Replicas, NEW q \in Replicas, Agree(f[r], f[q])
  PROVE  Formed(x, Merge(f[r], f[q]))
<1> DEFINE d == f[r]
           e == f[q]
           m == Merge(d, e)
           K == KeptKeys(x)
<1>1. Joins(d, e, m) /\ Retains(K, d, m) /\ Retains(K, e, m)
  BY MergeJoins
<1>2. Formed(x, d) /\ Formed(x, e)
  BY DEF Sound
<1>3. x.type = "collection" => K = CollectionKeys(x.things)
  BY DEF KeptKeys
<1>4. x.type = "content" => K = ContentKeys
  BY DEF KeptKeys
<1>5. m # NewDoc => d # NewDoc \/ e # NewDoc
  <2>1. Merge(NewDoc, NewDoc) = NewDoc
    <3> DEFINE n == Merge(NewDoc, NewDoc)
               all == [i \in {} |-> NewDoc.ops[i]]
    <3>1. DOMAIN NewDoc.ops = {} /\ NewDoc.gone = {} /\ NewDoc.top = 0 /\ NewDoc.ops = << >>
      BY DEF NewDoc
    <3>2. n.gone = {} /\ n.top = 0 /\ n = [ops |-> n.ops, gone |-> n.gone, top |-> n.top]
      BY <3>1 DEF Merge
    <3>3. n.ops = [i \in {} |-> NewDoc.ops[i]]
      BY <3>1 DEF Merge, Without
    <3>4. n.ops = << >>
      BY <3>3
    <3> HIDE DEF n
    <3>5. n = [ops |-> << >>, gone |-> {}, top |-> 0]
      BY <3>2, <3>4
    <3> QED BY <3>5 DEF NewDoc, n
  <2> QED BY <2>1
<1> HIDE DEF d, e, m, K
<1>6. x.type = "collection" => Tombstones(m)
  <2>1. x.type = "collection" => "deleted" \in K
    BY <1>3 DEF CollectionKeys
  <2> QED BY <1>1, <1>2, <2>1, MergeTombs DEF Formed
<1>7. x.type = "content" => Shape(m)
  <2>1. x.type = "content" => "blocks" \in K /\ "text" \in K
    BY <1>4 DEF ContentKeys
  <2> QED BY <1>1, <1>2, <2>1, MergeShape DEF Formed
<1>8. ASSUME x.type = "content", m # NewDoc PROVE HasContent(m)
  <2>1. "content" \in K
    BY <1>4, <1>8 DEF ContentKeys
  <2>2. PICK c \in {d, e} : c # NewDoc
    BY <1>5, <1>8
  <2>3. HasContent(c) /\ Retains(K, c, m)
    BY <1>1, <1>2, <1>8, <2>2 DEF Formed
  <2>4. PICK i \in DOMAIN c.ops : c.ops[i].obj = Root /\ c.ops[i].key = "content"
    BY <2>3 DEF HasContent, Has, Values
  <2>5. i \in DOMAIN m.ops /\ m.ops[i] = c.ops[i]
    BY <2>1, <2>3, <2>4 DEF Retains
  <2> QED BY <2>4, <2>5 DEF HasContent, Has, Values
<1> QED
  BY <1>6, <1>7, <1>8 DEF Formed, d, e, m

LEMMA MergeMade ==
  ASSUME NEW x, NEW f, Sound(x, f), NEW r \in Replicas, NEW q \in Replicas, NEW m, Joins(f[r], f[q], m)
  PROVE  Made([f EXCEPT ![r] = m])
<1> DEFINE g == [f EXCEPT ![r] = m]
<1>1. g[r] = m /\ \A p \in Replicas : p # r => g[p] = f[p]
  BY DEF Sound
<1>2. /\ DOMAIN m.ops \cup m.gone \subseteq (DOMAIN f[r].ops \cup f[r].gone) \cup (DOMAIN f[q].ops \cup f[q].gone)
      /\ f[r].top <= m.top /\ m.top \in Nat
  BY DEF Joins, WellFormed
<1>3. \A p \in Replicas : f[p].top <= g[p].top /\ f[p].top \in Nat /\ g[p].top \in Nat
  <2> TAKE p \in Replicas
  <2>1. f[p].top \in Nat
    BY DEF Sound, WellFormed
  <2>2. p = r \/ g[p] = f[p]
    BY <1>1
  <2> HIDE DEF g
  <2> QED BY <1>1, <1>2, <2>1, <2>2
<1> HIDE DEF g
<1>4. \A p, s \in Replicas : \A i \in DOMAIN f[p].ops \cup f[p].gone : i[2] = s => i[1] <= g[s].top
  <2> TAKE p, s \in Replicas
  <2> TAKE i \in DOMAIN f[p].ops \cup f[p].gone
  <2> HAVE i[2] = s
  <2>1. i[1] <= f[s].top
    BY DEF Sound, Made
  <2>2. i[1] \in Nat
    <3>1. WellFormed(f[p])
      BY DEF Sound
    <3>2. i \in Name
      BY <3>1 DEF WellFormed
    <3> QED BY <3>2, NameParts
  <2> QED BY <1>3, <2>1, <2>2
<1>5. ASSUME NEW p \in Replicas, NEW s \in Replicas, NEW i \in DOMAIN g[p].ops \cup g[p].gone, i[2] = s
      PROVE  i[1] <= g[s].top
  <2>1. CASE p = r
    <3>1. \/ i \in DOMAIN f[r].ops \cup f[r].gone
          \/ i \in DOMAIN f[q].ops \cup f[q].gone
      BY <1>1, <1>2, <2>1
    <3> QED BY <1>4, <1>5, <3>1
  <2>2. CASE p # r
    BY <1>1, <1>4, <1>5, <2>2
  <2> QED BY <2>1, <2>2
<1> QED
  BY <1>5 DEF Made, g

LEMMA MergeAlike ==
  ASSUME NEW x, NEW f, Sound(x, f), NEW r \in Replicas, NEW q \in Replicas, NEW m, Joins(f[r], f[q], m)
  PROVE  Alike(x, [f EXCEPT ![r] = m])
<1> DEFINE g == [f EXCEPT ![r] = m]
           Excused(i) == x.type = "legacy" /\ i[2] = MoveActor
<1>1. g[r] = m /\ \A p \in Replicas : p # r => g[p] = f[p]
  BY DEF Sound
<1>2. \A i \in DOMAIN m.ops : \E c \in {r, q} : i \in DOMAIN f[c].ops /\ m.ops[i] = f[c].ops[i]
  BY DEF Joins
<1>3. \A p, s \in Replicas : \A i \in DOMAIN f[p].ops \cap DOMAIN f[s].ops : f[p].ops[i] # f[s].ops[i] => Excused(i)
  BY DEF Sound, Alike
<1> HIDE DEF g, Excused
<1>4. \A p \in Replicas : \A i \in DOMAIN g[p].ops : \E c \in Replicas : i \in DOMAIN f[c].ops /\ g[p].ops[i] = f[c].ops[i]
  <2> TAKE p \in Replicas
  <2> TAKE i \in DOMAIN g[p].ops
  <2>1. CASE p = r
    BY <1>1, <1>2, <2>1
  <2>2. CASE p # r
    BY <1>1, <2>2
  <2> QED BY <2>1, <2>2
<1>5. ASSUME NEW p \in Replicas, NEW s \in Replicas, NEW i \in DOMAIN g[p].ops \cap DOMAIN g[s].ops, g[p].ops[i] # g[s].ops[i]
      PROVE  Excused(i)
  <2>1. PICK b \in Replicas : i \in DOMAIN f[b].ops /\ g[p].ops[i] = f[b].ops[i]
    BY <1>4
  <2>2. PICK c \in Replicas : i \in DOMAIN f[c].ops /\ g[s].ops[i] = f[c].ops[i]
    BY <1>4
  <2> QED BY <1>3, <1>5, <2>1, <2>2
<1> QED
  BY <1>5 DEF Alike, Excused, g

LEMMA MergeStay ==
  ASSUME NEW x, NEW f, Sound(x, f), NEW r \in Replicas, NEW q \in Replicas, NEW m, Joins(f[r], f[q], m)
  PROVE  Stay(KeptKeys(x), [f EXCEPT ![r] = m])
<1> DEFINE g == [f EXCEPT ![r] = m]
           K == KeptKeys(x)
<1>1. g[r] = m /\ \A p \in Replicas : p # r => g[p] = f[p]
  BY DEF Sound
<1>2. \A i \in DOMAIN m.ops : \E c \in {r, q} : i \in DOMAIN f[c].ops /\ m.ops[i] = f[c].ops[i]
  BY DEF Joins
<1>3. m.gone = f[r].gone \cup f[q].gone
  BY DEF Joins
<1>4. \A p, s \in Replicas : \A i \in f[p].gone \cap DOMAIN f[s].ops : f[s].ops[i].key \notin K
  BY DEF Sound, Stay
<1> HIDE DEF g, K
<1>5. \A p \in Replicas : \A i \in DOMAIN g[p].ops : \E c \in Replicas : i \in DOMAIN f[c].ops /\ g[p].ops[i] = f[c].ops[i]
  <2> TAKE p \in Replicas
  <2> TAKE i \in DOMAIN g[p].ops
  <2>1. CASE p = r
    BY <1>1, <1>2, <2>1
  <2>2. CASE p # r
    BY <1>1, <2>2
  <2> QED BY <2>1, <2>2
<1>6. \A p \in Replicas : \A i \in g[p].gone : \E c \in Replicas : i \in f[c].gone
  <2> TAKE p \in Replicas
  <2> TAKE i \in g[p].gone
  <2>1. CASE p = r
    BY <1>1, <1>3, <2>1
  <2>2. CASE p # r
    BY <1>1, <2>2
  <2> QED BY <2>1, <2>2
<1>7. \A p, s \in Replicas : \A i \in g[p].gone \cap DOMAIN g[s].ops : g[s].ops[i].key \notin K
  BY <1>4, <1>5, <1>6
<1> QED
  BY <1>7 DEF Stay, g, K

LEMMA MergeIsSound ==
  ASSUME NEW x, x.type \in {"root", "collection", "content", "legacy"},
         NEW f, Sound(x, f), NEW r \in Replicas, NEW q \in Replicas, Agree(f[r], f[q])
  PROVE  Sound(x, [f EXCEPT ![r] = Merge(f[r], f[q])])
<1> DEFINE m == Merge(f[r], f[q])
           g == [f EXCEPT ![r] = m]
<1>1. g = [p \in Replicas |-> g[p]] /\ g[r] = m /\ \A p \in Replicas : p # r => g[p] = f[p]
  BY DEF Sound
<1>2. Joins(f[r], f[q], m) /\ Formed(x, m)
  BY MergeJoins, MergeFormed
<1> HIDE DEF m
<1>3. Made(g) /\ Alike(x, g) /\ Stay(KeptKeys(x), g)
  BY <1>2, MergeMade, MergeAlike, MergeStay
<1>4. WellFormed(m)
  BY <1>2 DEF Joins
<1> HIDE DEF g
<1>5. \A p \in Replicas : WellFormed(g[p]) /\ Formed(x, g[p])
  BY <1>1, <1>2, <1>4 DEF Sound
<1> QED
  BY <1>1, <1>3, <1>5 DEF Sound, g, m

----------------------------------------------------------------------------
(* What a replica does to its copy is an edit                              *)

LEMMA TypesApart ==
  ASSUME NEW x, NEW r
  PROVE  /\ x.type = "root" => KeptKeys(x) = RootKeys /\ Authors(x, r) = {r} /\ \A d : Formed(x, d)
         /\ x.type = "collection" => KeptKeys(x) = CollectionKeys(x.things) /\ Authors(x, r) = {r}
         /\ x.type = "content" => KeptKeys(x) = ContentKeys /\ Authors(x, r) = {r}
         /\ x.type = "legacy" => KeptKeys(x) = {} /\ Authors(x, r) = {r, MoveActor} /\ \A d : Formed(x, d)
BY DEF KeptKeys, Authors, Formed

LEMMA BlankIsEdit ==
  ASSUME NEW x \in Instances, NEW r \in Replicas
  PROVE  IsEdit(x, NewDoc, r, Blank(x.type, r))
<1> DEFINE A == Authors(x, r)
<1>1. A \in SUBSET Nat /\ r \in A
  BY AuthorsAreNumbers
<1>2. x.things \cap FieldKeys = {} /\ x.type \in {"root", "collection", "content", "legacy"}
  BY InstancesAssumption
<1> HIDE DEF A
<1>3. CASE x.type = "root"
  <2>1. Blank(x.type, r) = InitRoot(r)
    BY <1>3 DEF Blank
  <2>2. Grows(A, RootKeys, {}, NewDoc, InitRoot(r))
    BY <1>1, GrowsInitRoot
  <2> QED BY <1>3, <2>1, <2>2, TypesApart DEF IsEdit, A
<1>4. CASE x.type = "collection"
  <2>1. Blank(x.type, r) = InitCollection(r)
    BY <1>4 DEF Blank
  <2>2. Edited(A, x.things, NewDoc, InitCollection(r))
    BY <1>1, <1>2, EditedInit
  <2> QED BY <1>4, <2>1, <2>2, TypesApart DEF IsEdit, Edited, Formed, A
<1>5. CASE x.type = "content"
  <2>1. Blank(x.type, r) = InitContent(r)
    BY <1>5 DEF Blank
  <2>2. Composed(A, NewDoc, InitContent(r)) /\ HasContent(InitContent(r))
    BY <1>1, ComposedInit
  <2> QED BY <1>5, <2>1, <2>2, TypesApart DEF IsEdit, Composed, Formed, A
<1>6. CASE x.type = "legacy"
  <2>1. Blank(x.type, r) = EnsureRoot(NewDoc, r)
    BY <1>6 DEF Blank
  <2>2. Plain(A, NewDoc, NewDoc)
    BY NewDocWellFormed, GrowsFromItself DEF Plain
  <2>3. Plain(A, NewDoc, EnsureRoot(NewDoc, r))
    BY <1>1, <2>2, PlainEnsureRoot
  <2> QED BY <1>6, <2>1, <2>3, TypesApart DEF IsEdit, Plain, A
<1> QED
  BY <1>2, <1>3, <1>4, <1>5, <1>6

LEMMA RootEdits ==
  ASSUME NEW x, x.type = "root", NEW r \in Replicas, NEW d, WellFormed(d)
  PROVE  /\ \A c : IsEdit(x, d, r, AddCollection(d, r, c)) /\ IsEdit(x, d, r, AddMembership(d, r, c))
         /\ \A c : IsEdit(x, d, r, RemoveCollection(d, c))
         /\ IsEdit(x, d, r, IncrementEpoch(d, r))
<1> DEFINE A == Authors(x, r)
           K == RootKeys
           none == {}
<1>1. A \in SUBSET Nat /\ r \in A
  BY AuthorsAreNumbers
<1>2. Free(K, none) /\ "collection_uuids" \notin none
  BY FreeRoot
<1> HIDE DEF A, K, none
<1>3. Grows(A, K, none, d, d)
  BY GrowsFromItself
<1>4. \A c : Grows(A, K, none, d, AddCollection(d, r, c)) /\ Grows(A, K, none, d, AddMembership(d, r, c))
  BY <1>1, <1>2, <1>3, GrowsAddCollection
<1>5. \A c : Grows(A, K, none, d, RemoveCollection(d, c))
  BY <1>2, <1>3, GrowsRemoveCollection
<1>6. Grows(A, K, none, d, IncrementEpoch(d, r))
  BY <1>1, <1>2, <1>3, GrowsIncrementEpoch
<1> QED
  BY <1>4, <1>5, <1>6, TypesApart DEF IsEdit, A, K, none

LEMMA CollectionEdits ==
  ASSUME NEW x \in Instances, x.type = "collection", NEW r \in Replicas, NEW d, WellFormed(d), Tombstones(d)
  PROVE  /\ \A t \in x.things : \A title, parent, entry : IsEdit(x, d, r, UpsertThing(d, r, t, title, parent, entry))
         /\ \A t \in x.things : IsEdit(x, d, r, DeleteThing(d, r, t)) /\ IsEdit(x, d, r, MoveThingHere(d, r, t))
         /\ \A title : IsEdit(x, d, r, UpdateMeta(d, r, title))
         /\ IsEdit(x, d, r, DeleteMeta(d, r))
         /\ IsEdit(x, d, r, DeleteThings(d, r, SetToSeq(x.things)))
<1> DEFINE A == Authors(x, r)
           T == x.things
<1>1. A \in SUBSET Nat /\ r \in A
  BY AuthorsAreNumbers
<1>2. T \cap FieldKeys = {} /\ IsFiniteSet(T)
  BY InstancesAssumption
<1> HIDE DEF A, T
<1>3. ASSUME NEW e, Edited(A, T, d, e) PROVE IsEdit(x, d, r, e)
  BY <1>3, TypesApart DEF Edited, IsEdit, Formed, A, T
<1>4. Edited(A, T, d, d)
  BY GrowsFromItself DEF Edited
<1>5. /\ \A t \in T : \A title, parent, entry : Edited(A, T, d, UpsertThing(d, r, t, title, parent, entry))
      /\ \A t \in T : Edited(A, T, d, MoveThingHere(d, r, t))
      /\ \A title : Edited(A, T, d, UpdateMeta(d, r, title))
  BY <1>1, <1>2, EditedField
<1>6. \A t \in T : Edited(A, T, d, DeleteThing(d, r, t))
  BY <1>1, <1>2, <1>4, EditedDeleteThing
<1>7. Edited(A, T, d, DeleteMeta(d, r))
  BY <1>1, EditedDeleteMeta
<1>8. Edited(A, T, d, DeleteThings(d, r, SetToSeq(T)))
  BY <1>1, <1>2, EditedDeleteThings
<1> QED
  BY <1>3, <1>5, <1>6, <1>7, <1>8 DEF T

LEMMA ContentEdits ==
  ASSUME NEW x, x.type = "content", NEW r \in Replicas, NEW d, WellFormed(d), Shape(d), HasContent(d), NEW b
  PROVE  /\ \A text : Typable(text) => IsEdit(x, d, r, SetContent(d, r, b, text))
         /\ \A index \in Nat : \A text : Typable(text) => IsEdit(x, d, r, InsertBlock(d, r, index, b, text))
         /\ IsEdit(x, d, r, DeleteBlock(d, b))
         /\ \A to \in Nat : IsEdit(x, d, r, MoveBlock(d, r, b, to))
         /\ BlocksNamed(d, BlockList(d), b) # <<>> =>
              \A index \in Nat, delete \in Nat : \A insert : IsEdit(x, d, r, SpliceText(d, r, b, index, delete, insert))
<1> DEFINE A == Authors(x, r)
<1>1. A \in SUBSET Nat /\ r \in A
  BY AuthorsAreNumbers
<1> HIDE DEF A
<1>2. ASSUME NEW e, Composed(A, d, e) PROVE IsEdit(x, d, r, e)
  <2>1. HasContent(e)
    BY <1>2, KeepsContent
  <2> QED BY <1>2, <2>1, TypesApart DEF Composed, IsEdit, Formed, A
<1>3. /\ \A text : Typable(text) => Composed(A, d, SetContent(d, r, b, text))
      /\ \A index \in Nat : \A text : Typable(text) => Composed(A, d, InsertBlock(d, r, index, b, text))
      /\ Composed(A, d, DeleteBlock(d, b))
      /\ \A to \in Nat : Composed(A, d, MoveBlock(d, r, b, to))
      /\ BlocksNamed(d, BlockList(d), b) # <<>> =>
           \A index \in Nat, delete \in Nat : \A insert : Composed(A, d, SpliceText(d, r, b, index, delete, insert))
  BY <1>1, ComposedEdits
<1> QED
  BY <1>2, <1>3

LEMMA LegacyEdits ==
  ASSUME NEW x, x.type = "legacy", NEW r \in Replicas, NEW c, WellFormed(c), NEW d, d = EnsureRoot(c, r)
  PROVE  /\ \A key, id, title : IsEdit(x, c, r, UpsertEntity(d, r, key, id, title))
         /\ \A id : IsEdit(x, c, r, DeleteCollection(d, r, id))
         /\ \A t, id, title, parent : IsEdit(x, c, r, UpsertInCollection(d, r, t, id, title, parent))
         /\ \A t : IsEdit(x, c, r, DeleteWithChildren(d, r, t))
         /\ \A t, id : IsEdit(x, c, r, MoveToCollection(d, r, t, id))
         /\ \A t, status : IsEdit(x, c, r, SetThingStatus(d, r, t, status))
<1> DEFINE A == Authors(x, r)
<1>1. A \in SUBSET Nat /\ r \in A
  BY AuthorsAreNumbers
<1> HIDE DEF A
<1>2. ASSUME NEW e, Plain(A, c, e) PROVE IsEdit(x, c, r, e)
  BY <1>2, TypesApart DEF Plain, IsEdit, A
<1>3. Plain(A, c, c)
  BY GrowsFromItself DEF Plain
<1>4. Plain(A, c, d)
  BY <1>1, <1>3, PlainEnsureRoot
<1>5. \A key, id, title : Plain(A, c, UpsertEntity(d, r, key, id, title))
  BY <1>1, <1>4, PlainEntity
<1>6. \A id : Plain(A, c, DeleteCollection(d, r, id))
  BY <1>1, <1>4, PlainDeleteCollection
<1>7. /\ \A t, id, title, parent : Plain(A, c, UpsertInCollection(d, r, t, id, title, parent))
      /\ \A t, id : Plain(A, c, MoveToCollection(d, r, t, id))
      /\ \A t, status : Plain(A, c, SetThingStatus(d, r, t, status))
  BY <1>1, <1>4, PlainThing
<1>8. \A t : Plain(A, c, DeleteWithChildren(d, r, t))
  BY <1>1, <1>4, PlainDeleteWithChildren
<1> QED
  BY <1>2, <1>5, <1>6, <1>7, <1>8

LEMMA LegacyBlockEdits ==
  ASSUME NEW x, x.type = "legacy", NEW r \in Replicas, NEW c, WellFormed(c), NEW t, NEW b
  PROVE  /\ \A text : Typable(text) => IsEdit(x, c, r, SetThingContent(EnsureRoot(c, r), r, t, b, text))
         /\ \A index \in Nat : \A text : Typable(text) => IsEdit(x, c, r, InsertThingBlock(EnsureRoot(c, r), r, t, index, b, text))
         /\ IsEdit(x, c, r, DeleteThingBlock(EnsureRoot(c, r), r, t, b))
         /\ \A to \in Nat : IsEdit(x, c, r, MoveThingBlock(EnsureRoot(c, r), r, t, b, to))
         /\ \A index \in Nat, delete \in Nat : \A insert :
              IsEdit(x, c, r, SpliceThingText(WithBlocks(EnsureRoot(c, r), r, t), r, t, b, index, delete, insert))
<1> DEFINE A == Authors(x, r)
           d == EnsureRoot(c, r)
           d1 == WithBlocks(d, r, t)
<1>1. A \in SUBSET Nat /\ r \in A /\ MoveActor \in A
  BY AuthorsAreNumbers DEF Authors
<1> HIDE DEF A
<1>2. ASSUME NEW e, Plain(A, c, e) PROVE IsEdit(x, c, r, e)
  BY <1>2, TypesApart DEF Plain, IsEdit, A
<1>3. Plain(A, c, c)
  BY GrowsFromItself DEF Plain
<1>4. Plain(A, c, d)
  BY <1>1, <1>3, PlainEnsureRoot
<1> HIDE DEF d
<1>5. /\ \A text : Typable(text) => Plain(A, c, SetThingContent(d, r, t, b, text))
      /\ \A index \in Nat : \A text : Typable(text) => Plain(A, c, InsertThingBlock(d, r, t, index, b, text))
      /\ Plain(A, c, DeleteThingBlock(d, r, t, b))
      /\ \A to \in Nat : Plain(A, c, MoveThingBlock(d, r, t, b, to))
  BY <1>1, <1>4, PlainThingBlocks
<1>6. Plain(A, c, d1)
  BY <1>1, <1>4, PlainWithBlocks
<1> HIDE DEF d1
<1>7. \A index \in Nat, delete \in Nat : \A insert : Plain(A, c, SpliceThingText(d1, r, t, b, index, delete, insert))
  BY <1>1, <1>6, PlainThingBlocks
<1> QED
  BY <1>2, <1>5, <1>7 DEF d, d1

LEMMA OneIsTypable == \A v : Typable(<<v>>)
BY DEF Typable

LEMMA InitIsSound == ReplicasInit => CrdtInv
<1> SUFFICES ASSUME ReplicasInit PROVE CrdtInv
  OBVIOUS
<1> DEFINE f == [r \in Replicas |-> NewDoc]
<1>1. doc = f /\ instance \in Instances
  BY DEF ReplicasInit
<1>2. \A r \in Replicas : f[r] = NewDoc
  OBVIOUS
<1>3. NewDoc.ops = << >> /\ NewDoc.gone = {}
  BY DEF NewDoc
<1>4. DOMAIN NewDoc.ops = {}
  BY <1>3
<1> HIDE DEF f
<1>5. WellFormed(NewDoc) /\ Formed(instance, NewDoc)
  <2>1. Tombstones(NewDoc)
    BY <1>4 DEF Tombstones
  <2>2. Shape(NewDoc)
    BY <1>4 DEF Shape
  <2> QED BY <2>1, <2>2, NewDocWellFormed DEF Formed
<1>6. Made(f)
  BY <1>2, <1>3, <1>4 DEF Made
<1>7. Alike(instance, f)
  BY <1>2, <1>4 DEF Alike
<1>8. Stay(KeptKeys(instance), f)
  BY <1>2, <1>3 DEF Stay
<1>9. f = [r \in Replicas |-> f[r]]
  BY DEF f
<1> QED
  BY <1>1, <1>2, <1>5, <1>6, <1>7, <1>8, <1>9 DEF CrdtInv, Sound

LEMMA OpenedIsSound ==
  ASSUME CrdtInv, NEW r \in Replicas
  PROVE  /\ WellFormed(doc[r]) /\ Formed(instance, doc[r])
         /\ \A t : Opened(r, t) => instance.type = t
         /\ Opened(r, "collection") => Tombstones(doc[r])
         /\ Opened(r, "content") => Shape(doc[r]) /\ HasContent(doc[r])
BY DEF CrdtInv, Sound, Formed, Opened, type

LEMMA CreateKeeps == ASSUME CrdtInv, NEW r \in Replicas, Create(r) PROVE CrdtInv'
<1>1. IsEdit(instance, doc[r], r, Blank(instance.type, r))
  BY BlankIsEdit DEF Create, CrdtInv
<1>2. doc' = [doc EXCEPT ![r] = Blank(instance.type, r)] /\ instance' = instance
  BY DEF Create, type
<1> QED
  BY <1>1, <1>2, EditIsSound DEF CrdtInv

LEMMA EditRootKeeps == ASSUME CrdtInv, NEW r \in Replicas, EditRoot(r) PROVE CrdtInv'
<1>1. instance.type = "root" /\ WellFormed(doc[r])
  BY OpenedIsSound DEF EditRoot
<1>2. PICK new : Becomes(r, new) /\ IsEdit(instance, doc[r], r, new)
  BY <1>1, RootEdits DEF EditRoot
<1> QED
  BY <1>2, EditIsSound DEF Becomes, CrdtInv

LEMMA WriteThingKeeps == ASSUME CrdtInv, NEW r \in Replicas, WriteThing(r) PROVE CrdtInv'
<1>1. instance.type = "collection" /\ instance \in Instances /\ WellFormed(doc[r]) /\ Tombstones(doc[r])
  BY OpenedIsSound DEF WriteThing, CrdtInv
<1>2. PICK t, p : t \in instance.things /\ Becomes(r, Written(r, t, p))
  BY DEF WriteThing, Things
<1>3. IsEdit(instance, doc[r], r, Written(r, t, p))
  BY <1>1, <1>2, CollectionEdits DEF Written
<1> QED
  BY <1>2, <1>3, EditIsSound DEF Becomes, CrdtInv

LEMMA WriteEntryKeeps == ASSUME CrdtInv, NEW r \in Replicas, WriteEntry(r) PROVE CrdtInv'
<1>1. instance.type = "collection" /\ instance \in Instances /\ WellFormed(doc[r]) /\ Tombstones(doc[r])
  BY OpenedIsSound DEF WriteEntry, CrdtInv
<1>2. PICK t, id, change : t \in instance.things /\ Becomes(r, WithEntry(r, t, id, change))
  BY DEF WriteEntry, Things
<1>3. IsEdit(instance, doc[r], r, WithEntry(r, t, id, change))
  BY <1>1, <1>2, CollectionEdits DEF WithEntry
<1> QED
  BY <1>2, <1>3, EditIsSound DEF Becomes, CrdtInv

LEMMA EraseThingKeeps == ASSUME CrdtInv, NEW r \in Replicas, EraseThing(r) PROVE CrdtInv'
<1>1. instance.type = "collection" /\ instance \in Instances /\ WellFormed(doc[r]) /\ Tombstones(doc[r])
  BY OpenedIsSound DEF EraseThing, CrdtInv
<1>2. PICK t \in instance.things : Becomes(r, DeleteThing(doc[r], r, t))
  BY DEF EraseThing, Things
<1>3. IsEdit(instance, doc[r], r, DeleteThing(doc[r], r, t))
  BY <1>1, CollectionEdits
<1> QED
  BY <1>2, <1>3, EditIsSound DEF Becomes, CrdtInv

LEMMA EditCollectionKeeps == ASSUME CrdtInv, NEW r \in Replicas, EditCollection(r) PROVE CrdtInv'
<1>1. instance.type = "collection" /\ instance \in Instances /\ WellFormed(doc[r]) /\ Tombstones(doc[r])
  BY OpenedIsSound DEF EditCollection, CrdtInv
<1>2. PICK new : Becomes(r, new) /\ IsEdit(instance, doc[r], r, new)
  BY <1>1, CollectionEdits DEF EditCollection, Things
<1> QED
  BY <1>2, EditIsSound DEF Becomes, CrdtInv

LEMMA EditContentKeeps == ASSUME CrdtInv, NEW r \in Replicas, EditContent(r) PROVE CrdtInv'
<1>1. instance.type = "content" /\ WellFormed(doc[r]) /\ Shape(doc[r]) /\ HasContent(doc[r])
  BY OpenedIsSound DEF EditContent
<1>2. PICK new : Becomes(r, new) /\ IsEdit(instance, doc[r], r, new)
  <2>1. PICK b :
          \/ Becomes(r, SetContent(doc[r], r, b, <<NewTitle(r)>>))
          \/ \E i \in 0 .. 1 : Becomes(r, InsertBlock(doc[r], r, i, b, <<NewTitle(r)>>))
          \/ Becomes(r, DeleteBlock(doc[r], b))
          \/ \E i \in 0 .. 2 : Becomes(r, MoveBlock(doc[r], r, b, i))
    BY DEF EditContent
  <2>2. Typable(<<NewTitle(r)>>)
    BY OneIsTypable
  <2>3. \A i \in 0 .. 2 : i \in Nat
    OBVIOUS
  <2>4. \A i \in 0 .. 1 : i \in Nat
    OBVIOUS
  <2>5. /\ IsEdit(instance, doc[r], r, SetContent(doc[r], r, b, <<NewTitle(r)>>))
        /\ \A i \in Nat : IsEdit(instance, doc[r], r, InsertBlock(doc[r], r, i, b, <<NewTitle(r)>>))
        /\ IsEdit(instance, doc[r], r, DeleteBlock(doc[r], b))
        /\ \A i \in Nat : IsEdit(instance, doc[r], r, MoveBlock(doc[r], r, b, i))
    BY <1>1, <2>2, ContentEdits
  <2> QED BY <2>1, <2>3, <2>4, <2>5
<1> QED
  BY <1>2, EditIsSound DEF Becomes, CrdtInv

LEMMA SpliceThingKeeps == ASSUME CrdtInv, NEW r \in Replicas, SpliceThing(r) PROVE CrdtInv'
<1> DEFINE one == <<NewTitle(r)>>
           Missing(b) == BlocksNamed(doc[r], BlockList(doc[r]), b) = <<>>
           Set(b) == SetContent(doc[r], r, b, one)
           Splice(b, i, n) == SpliceText(doc[r], r, b, i, n, NewTitle(r))
<1>1. instance.type = "content" /\ WellFormed(doc[r]) /\ Shape(doc[r]) /\ HasContent(doc[r])
  BY OpenedIsSound DEF SpliceThing
<1>2. PICK b \in Blocks, i \in 0 .. 1, n \in 0 .. 1 :
        IF Missing(b) THEN i = 0 /\ n = 0 /\ Becomes(r, Set(b)) ELSE Becomes(r, Splice(b, i, n))
  BY Zenon DEF SpliceThing
<1>3. Typable(one)
  BY OneIsTypable
<1>4. i \in Nat /\ n \in Nat
  OBVIOUS
<1>5. IsEdit(instance, doc[r], r, Set(b)) /\ (~ Missing(b) => IsEdit(instance, doc[r], r, Splice(b, i, n)))
  BY <1>1, <1>3, <1>4, ContentEdits
<1> HIDE DEF Missing, Set, Splice
<1>6. CASE Missing(b)
  BY <1>2, <1>5, <1>6, EditIsSound DEF Becomes, CrdtInv
<1>7. CASE ~ Missing(b)
  BY <1>2, <1>5, <1>7, EditIsSound DEF Becomes, CrdtInv
<1> QED
  BY <1>6, <1>7

LEMMA EditLegacyKeeps == ASSUME CrdtInv, NEW r \in Replicas, EditLegacy(r) PROVE CrdtInv'
<1>1. instance.type = "legacy" /\ WellFormed(doc[r])
  BY OpenedIsSound DEF EditLegacy
<1>2. PICK new : Becomes(r, new) /\ IsEdit(instance, doc[r], r, new)
  <2> DEFINE d == EnsureRoot(doc[r], r)
  <2>1. \/ \E c : Becomes(r, UpsertEntity(d, r, "collections", c, NewTitle(r)))
        \/ \E c : Becomes(r, DeleteCollection(d, r, c))
        \/ \E t, c, p : Becomes(r, UpsertInCollection(d, r, t, c, NewTitle(r), p))
        \/ \E t : Becomes(r, DeleteWithChildren(d, r, t))
        \/ \E t, c : Becomes(r, MoveToCollection(d, r, t, c))
        \/ \E t : Becomes(r, SetThingStatus(d, r, t, NewTitle(r)))
    BY DEF EditLegacy
  <2>2. /\ \A key, id, title : IsEdit(instance, doc[r], r, UpsertEntity(d, r, key, id, title))
        /\ \A id : IsEdit(instance, doc[r], r, DeleteCollection(d, r, id))
        /\ \A t, id, title, parent : IsEdit(instance, doc[r], r, UpsertInCollection(d, r, t, id, title, parent))
        /\ \A t : IsEdit(instance, doc[r], r, DeleteWithChildren(d, r, t))
        /\ \A t, id : IsEdit(instance, doc[r], r, MoveToCollection(d, r, t, id))
        /\ \A t, status : IsEdit(instance, doc[r], r, SetThingStatus(d, r, t, status))
    BY <1>1, LegacyEdits
  <2> HIDE DEF d
  <2> QED BY <2>1, <2>2
<1> QED
  BY <1>2, EditIsSound DEF Becomes, CrdtInv

LEMMA EditLegacyBlocksKeeps == ASSUME CrdtInv, NEW r \in Replicas, EditLegacyBlocks(r) PROVE CrdtInv'
<1>1. instance.type = "legacy" /\ WellFormed(doc[r])
  BY OpenedIsSound DEF EditLegacyBlocks
<1>2. PICK new : Becomes(r, new) /\ IsEdit(instance, doc[r], r, new)
  <2> DEFINE d == EnsureRoot(doc[r], r)
             one == <<NewTitle(r)>>
  <2>1. PICK t, b :
          \/ Becomes(r, SetThingContent(d, r, t, b, one))
          \/ Becomes(r, InsertThingBlock(d, r, t, 0, b, one))
          \/ Becomes(r, DeleteThingBlock(d, r, t, b))
          \/ \E i \in 0 .. 1 : Becomes(r, MoveThingBlock(d, r, t, b, i))
          \/ Becomes(r, SpliceThingText(WithBlocks(d, r, t), r, t, b, 0, 1, NewTitle(r)))
    BY DEF EditLegacyBlocks
  <2>2. Typable(one)
    BY OneIsTypable
  <2>3. 0 \in Nat /\ 1 \in Nat /\ \A i \in 0 .. 1 : i \in Nat
    OBVIOUS
  <2>4. /\ \A text : Typable(text) => IsEdit(instance, doc[r], r, SetThingContent(d, r, t, b, text))
        /\ \A index \in Nat : \A text : Typable(text) => IsEdit(instance, doc[r], r, InsertThingBlock(d, r, t, index, b, text))
        /\ IsEdit(instance, doc[r], r, DeleteThingBlock(d, r, t, b))
        /\ \A to \in Nat : IsEdit(instance, doc[r], r, MoveThingBlock(d, r, t, b, to))
        /\ \A index \in Nat, delete \in Nat : \A insert :
             IsEdit(instance, doc[r], r, SpliceThingText(WithBlocks(d, r, t), r, t, b, index, delete, insert))
    BY <1>1, LegacyBlockEdits
  <2> HIDE DEF d, one
  <2> QED BY <2>1, <2>2, <2>3, <2>4
<1> QED
  BY <1>2, EditIsSound DEF Becomes, CrdtInv

LEMMA ReceiveKeeps == ASSUME CrdtInv, NEW r \in Replicas, NEW q \in Replicas, Receive(r, q) PROVE CrdtInv'
<1>1. instance.type \in {"root", "collection", "content", "legacy"}
  BY InstancesAssumption DEF CrdtInv
<1>2. Sound(instance, [doc EXCEPT ![r] = Merge(doc[r], doc[q])])
  <2>1. Sound(instance, doc) /\ Agree(doc[r], doc[q])
    BY DEF Receive, CrdtInv
  <2>2. \A x, f : x.type \in {"root", "collection", "content", "legacy"} /\ Sound(x, f) /\ Agree(f[r], f[q]) =>
          Sound(x, [f EXCEPT ![r] = Merge(f[r], f[q])])
    BY MergeIsSound
  <2> QED BY <1>1, <2>1, <2>2
<1>3. doc' = [doc EXCEPT ![r] = Merge(doc[r], doc[q])] /\ instance' = instance
  BY DEF Receive
<1> QED
  BY <1>2, <1>3 DEF CrdtInv

\* The replicas' documents are sound in every state: each is well formed, every
\* operation of a replica is known to it first, one name stands for one operation,
\* and no replica hides another's lists, maps, blocks and texts.
THEOREM DocumentsAreSound == ReplicasSpec => []CrdtInv
<1>1. ReplicasInit => CrdtInv
  BY InitIsSound
<1>2. CrdtInv /\ [ReplicasNext]_replicaVars => CrdtInv'
  <2> SUFFICES ASSUME CrdtInv, [ReplicasNext]_replicaVars PROVE CrdtInv'
    OBVIOUS
  <2>1. CASE UNCHANGED replicaVars
    BY <2>1 DEF replicaVars, CrdtInv
  <2>2. ASSUME NEW r \in Replicas,
               \/ Create(r) \/ EditRoot(r) \/ WriteThing(r) \/ WriteEntry(r) \/ EraseThing(r)
               \/ EditCollection(r) \/ EditContent(r) \/ SpliceThing(r) \/ EditLegacy(r)
               \/ EditLegacyBlocks(r)
        PROVE  CrdtInv'
    BY <2>2, CreateKeeps, EditRootKeeps, WriteThingKeeps, WriteEntryKeeps, EraseThingKeeps, EditCollectionKeeps,
       EditContentKeeps, SpliceThingKeeps, EditLegacyKeeps, EditLegacyBlocksKeeps
  <2>3. ASSUME NEW r \in Replicas, NEW q \in Replicas, Receive(r, q) PROVE CrdtInv'
    BY <2>3, ReceiveKeeps
  <2> QED BY <2>1, <2>2, <2>3 DEF ReplicasNext
<1> QED
  BY <1>1, <1>2, PTL DEF ReplicasSpec

\* Replicas of one document can always be put together: one name stands for one
\* operation in all of them, but for what the older schema moves under a shared
\* actor (MergesAgree; apply_changes refuses anything else).
THEOREM OneNameOneOperation == ReplicasSpec => []MergesAgree
<1>1. CrdtInv => MergesAgree
  BY DEF CrdtInv, Sound, Alike, MergesAgree, type
<1> QED
  BY <1>1, DocumentsAreSound, PTL

----------------------------------------------------------------------------
(* What a merge keeps                                                      *)

LEMMA InRange ==
  ASSUME NEW X, NEW s \in Seq(X)
  PROVE  /\ \A y : y \in Range(s) <=> (\E k \in DOMAIN s : s[k] = y)
         /\ (Range(s) = {}) <=> (s = <<>>)
<1>1. \A y : y \in Range(s) <=> (\E k \in DOMAIN s : s[k] = y)
  BY DEF Range
<1>2. DOMAIN s = 1 .. Len(s) /\ Len(s) \in Nat
  OBVIOUS
<1>3. s # <<>> => s[1] \in Range(s)
  BY DEF Range
<1>4. s = <<>> => Range(s) = {}
  BY DEF Range
<1> QED
  BY <1>1, <1>3, <1>4

\* The collections of a root document are the values in its lists.
LEMMA UuidsAreHeld ==
  ASSUME NEW d, WellFormed(d), NEW c
  PROVE  c \in RootUuids(d) <=> \E list \in Range(Lists(d)) : \E i \in Inserted(d, list) \ d.gone : d.ops[i].val = c
<1> DEFINE lists == Lists(d)
           Here(list) == \E i \in Inserted(d, list) \ d.gone : d.ops[i].val = c
<1>1. lists \in Seq(DOMAIN d.ops)
  BY GetAllProperties DEF Lists
<1>2. \A list : c \in Held(d, list) <=> Here(list)
  <2> TAKE list
  <2> DEFINE s == Elements(d, list)
  <2>1. s \in Seq(Inserted(d, list)) /\ Range(s) = Inserted(d, list) \ d.gone
    BY ElementsProperties
  <2>2. c \in Held(d, list) <=> \E k \in DOMAIN s : d.ops[s[k]].val = c
    BY DEF Held
  <2>3. \A i : i \in Range(s) <=> \E k \in DOMAIN s : s[k] = i
    BY <2>1, InRange
  <2> HIDE DEF s
  <2> QED BY <2>1, <2>2, <2>3
<1>3. c \in RootUuids(d) <=> \E k \in DOMAIN lists : c \in Held(d, lists[k])
  BY DEF RootUuids
<1>4. \A y : y \in Range(lists) <=> \E k \in DOMAIN lists : lists[k] = y
  BY <1>1, InRange
<1> HIDE DEF lists, Here
<1> QED
  BY <1>2, <1>3, <1>4 DEF lists, Here

LEMMA CollectionsStay ==
  ASSUME NEW d, NEW e, NEW m, WellFormed(d), Joins(d, e, m), Retains(RootKeys, d, m), NEW c \in RootUuids(d)
  PROVE  \/ c \in RootUuids(m)
         \/ \E list \in Range(Lists(d)), i \in e.gone : i \in Inserted(d, list) /\ d.ops[i].val = c
<1>0. PICK list \in Range(Lists(d)) : \E i \in Inserted(d, list) \ d.gone : d.ops[i].val = c
  BY UuidsAreHeld
<1>1. PICK i \in Inserted(d, list) \ d.gone : d.ops[i].val = c
  BY <1>0
<1>2. WellFormed(m) /\ m.gone = d.gone \cup e.gone
  BY DEF Joins
<1>3. CASE i \in e.gone
  BY <1>1, <1>3
<1>4. CASE i \notin e.gone
  <2>1. list \in DOMAIN d.ops /\ d.ops[list].obj = Root /\ d.ops[list].key = "collection_uuids"
    BY GetAllProperties DEF Lists, Values
  <2>2. list \in DOMAIN m.ops /\ m.ops[list] = d.ops[list]
    BY <2>1 DEF Retains, RootKeys
  <2>3. list \in Range(Lists(m))
    BY <1>2, <2>1, <2>2, GetAllProperties DEF Lists, Values
  <2>4. i \in DOMAIN d.ops /\ d.ops[i].obj = list /\ d.ops[i].key = "" /\ i \notin d.gone
    BY <1>1 DEF Inserted
  <2>5. i \in DOMAIN m.ops /\ m.ops[i] = d.ops[i]
    BY <2>4 DEF Retains
  <2>6. i \in Inserted(m, list) \ m.gone /\ m.ops[i].val = c
    BY <1>1, <1>2, <1>4, <2>4, <2>5 DEF Inserted
  <2> QED BY <1>2, <2>3, <2>6, UuidsAreHeld
<1> QED
  BY <1>3, <1>4

\* The objects of a thing, in the maps of things.
Objects(d, t) == {x \in DOMAIN d.ops : d.ops[x].key = t /\ d.ops[x].obj \in Values(d, Root, "things")}

LEMMA ObjectsProperties ==
  ASSUME NEW d, WellFormed(d), NEW t
  PROVE  ObjectsOf(d, t) \in Seq(DOMAIN d.ops) /\ Range(ObjectsOf(d, t)) = Objects(d, t)
<1> DEFINE maps == ThingMaps(d)
           seqs == [k \in DOMAIN maps |-> GetAll(d, maps[k], t)]
<1>1. maps \in Seq(DOMAIN d.ops) /\ Range(maps) = Values(d, Root, "things")
  BY GetAllProperties DEF ThingMaps
<1>2. \A k : GetAll(d, maps[k], t) \in Seq(DOMAIN d.ops) /\ Range(GetAll(d, maps[k], t)) = Values(d, maps[k], t)
  BY GetAllProperties
<1>3. DOMAIN maps = 1 .. Len(maps) /\ Len(maps) \in Nat
  BY <1>1
<1>4. \A y : y \in Range(maps) <=> \E k \in DOMAIN maps : maps[k] = y
  BY <1>1, InRange
<1> HIDE DEF maps
<1>5. seqs \in Seq(Seq(DOMAIN d.ops)) /\ DOMAIN seqs = DOMAIN maps
  BY <1>2, <1>3
<1>6. \A k \in DOMAIN maps : Range(seqs[k]) = Values(d, maps[k], t)
  BY <1>2
<1>7. ObjectsOf(d, t) = FlattenSeq(seqs)
  BY DEF ObjectsOf, maps
<1> HIDE DEF seqs
<1>8. ObjectsOf(d, t) \in Seq(DOMAIN d.ops) /\ Range(ObjectsOf(d, t)) = UNION {Range(seqs[k]) : k \in DOMAIN seqs}
  BY <1>5, <1>7, FlattenProperties
<1>9. \A x : x \in Range(ObjectsOf(d, t)) <=> \E k \in DOMAIN maps : x \in Values(d, maps[k], t)
  BY <1>5, <1>6, <1>8
<1>10. \A x : x \in Range(ObjectsOf(d, t)) <=> \E y \in Values(d, Root, "things") : x \in Values(d, y, t)
  BY <1>1, <1>4, <1>9
<1>11. \A x : x \in Objects(d, t) <=> \E y \in Values(d, Root, "things") : x \in Values(d, y, t)
  BY DEF Objects, Values
<1> QED
  BY <1>8, <1>10, <1>11

LEMMA LiveProperties ==
  ASSUME NEW d, WellFormed(d), NEW t
  PROVE  /\ LiveOf(d, ObjectsOf(d, t)) \in Seq(DOMAIN d.ops)
         /\ Range(LiveOf(d, ObjectsOf(d, t))) = {x \in Objects(d, t) : ~ IsDeleted(d, x)}
<1> DEFINE all == ObjectsOf(d, t)
           S == {x \in Range(all) : ~ IsDeleted(d, x)}
<1>1. all \in Seq(DOMAIN d.ops) /\ Range(all) = Objects(d, t)
  BY ObjectsProperties
<1>2. LiveOf(d, all) = Only(all, S)
  BY DEF LiveOf
<1>3. S \subseteq Range(all)
  OBVIOUS
<1> HIDE DEF all, S
<1>4. Only(all, S) \in Seq(DOMAIN d.ops) /\ Range(Only(all, S)) = Range(all) \cap S
  BY <1>1, OnlyProperties
<1> QED
  BY <1>1, <1>2, <1>3, <1>4 DEF all, S

\* A thing is live by one of its objects.
LEMMA LiveByAnObject ==
  ASSUME NEW d, WellFormed(d), NEW t
  PROVE  t \in LiveThings(d) <=> \E x \in Objects(d, t) : ~ IsDeleted(d, x)
<1> DEFINE all == ObjectsOf(d, t)
           live == LiveOf(d, all)
<1>1. all \in Seq(DOMAIN d.ops) /\ Range(all) = Objects(d, t)
  BY ObjectsProperties
<1>2. live \in Seq(DOMAIN d.ops) /\ Range(live) = {x \in Objects(d, t) : ~ IsDeleted(d, x)}
  BY LiveProperties
<1>3. Viewed(d, t) = Head(live \o all)
  BY DEF Viewed
<1>4. t \in KnownThings(d) <=> Objects(d, t) # {}
  <2> DEFINE maps == ThingMaps(d)
  <2>1. maps \in Seq(DOMAIN d.ops) /\ Range(maps) = Values(d, Root, "things")
    BY GetAllProperties DEF ThingMaps
  <2>2. \A y : y \in Range(maps) <=> \E k \in DOMAIN maps : maps[k] = y
    BY <2>1, InRange
  <2>3. t \in KnownThings(d) <=> \E k \in DOMAIN maps : t \in Keys(d, maps[k])
    BY DEF KnownThings
  <2> HIDE DEF maps
  <2>4. t \in KnownThings(d) <=> \E y \in Values(d, Root, "things") : t \in Keys(d, y)
    BY <2>1, <2>2, <2>3
  <2> QED BY <2>4 DEF Keys, Objects
<1>5. t \in LiveThings(d) <=> t \in KnownThings(d) /\ ~ IsDeleted(d, Viewed(d, t))
  BY DEF LiveThings
<1> HIDE DEF all, live
<1>6. CASE live # <<>>
  <2>1. Viewed(d, t) \in Range(live)
    BY <1>1, <1>2, <1>3, <1>6 DEF Range
  <2> QED BY <1>2, <1>4, <1>5, <2>1
<1>7. CASE live = <<>> /\ all # <<>>
  <2>1. Viewed(d, t) \in Range(all)
    BY <1>1, <1>3, <1>7 DEF Range
  <2>2. Range(live) = {}
    BY <1>2, <1>7, InRange
  <2> QED BY <1>1, <1>2, <1>5, <2>1, <2>2
<1>8. CASE live = <<>> /\ all = <<>>
  <2>1. Range(all) = {}
    BY <1>1, <1>8, InRange
  <2> QED BY <1>1, <1>4, <1>5, <2>1
<1> QED
  BY <1>6, <1>7, <1>8

LEMMA DeletedByTombstone ==
  ASSUME NEW d, WellFormed(d), Tombstones(d), NEW x
  PROVE  IsDeleted(d, x) <=> Has(d, x, "tombstone")
<1> SUFFICES ASSUME Has(d, x, "tombstone") PROVE Scalar(d, Get(d, x, "tombstone"), "deleted", FALSE) = TRUE
  BY DEF IsDeleted
<1> DEFINE i == Get(d, x, "tombstone")
<1>1. i \in DOMAIN d.ops /\ d.ops[i].key = "tombstone"
  BY GetIsThere DEF Values
<1> HIDE DEF i
<1>2. Behind(i, 1) \in DOMAIN d.ops /\ d.ops[Behind(i, 1)].key = "deleted" /\ d.ops[Behind(i, 1)].obj = i
  BY <1>1 DEF Tombstones
<1>3. Has(d, i, "deleted")
  BY <1>2 DEF Has, Values
<1>4. Get(d, i, "deleted") \in Values(d, i, "deleted")
  BY <1>3, GetIsThere
<1>5. d.ops[Get(d, i, "deleted")].val = TRUE
  BY <1>4 DEF Values, Tombstones
<1> QED
  BY <1>3, <1>5 DEF Scalar, Get, Has, i

LEMMA ThingsStay ==
  ASSUME NEW T, NEW d, NEW e, NEW m, WellFormed(d), WellFormed(e), Joins(d, e, m), Retains(CollectionKeys(T), d, m),
         Tombstones(d), Tombstones(e), Tombstones(m), NEW t \in T \cap LiveThings(d)
  PROVE  \/ t \in LiveThings(m)
         \/ \A x \in Range(LiveOf(d, ObjectsOf(d, t))) : IsDeleted(e, x)
<1> SUFFICES ASSUME NEW x \in Range(LiveOf(d, ObjectsOf(d, t))), ~ IsDeleted(e, x)
             PROVE  t \in LiveThings(m)
  OBVIOUS
<1>1. x \in Objects(d, t) /\ ~ IsDeleted(d, x)
  BY LiveProperties
<1>2. WellFormed(m)
  BY DEF Joins
<1>3. x \in Objects(m, t)
  <2> DEFINE y == d.ops[x].obj
  <2>1. x \in DOMAIN d.ops /\ d.ops[x].key = t
    BY <1>1 DEF Objects
  <2>2. y \in DOMAIN d.ops /\ d.ops[y].obj = Root /\ d.ops[y].key = "things"
    BY <1>1 DEF Objects, Values
  <2>3. y \in DOMAIN m.ops /\ m.ops[y] = d.ops[y]
    BY <2>2 DEF Retains, CollectionKeys
  <2>4. x \in DOMAIN m.ops /\ m.ops[x] = d.ops[x]
    BY <2>1 DEF Retains, CollectionKeys
  <2> QED BY <2>1, <2>2, <2>3, <2>4 DEF Objects, Values
<1>4. ~ Has(d, x, "tombstone") /\ ~ Has(e, x, "tombstone")
  BY <1>1, DeletedByTombstone
<1>5. ~ Has(m, x, "tombstone")
  <2>1. \A i \in DOMAIN m.ops : (i \in DOMAIN d.ops /\ m.ops[i] = d.ops[i]) \/ (i \in DOMAIN e.ops /\ m.ops[i] = e.ops[i])
    BY DEF Joins
  <2> QED BY <1>4, <2>1 DEF Has, Values
<1> QED
  BY <1>2, <1>3, <1>5, DeletedByTombstone, LiveByAnObject

LEMMA TextStays ==
  ASSUME NEW d, NEW e, NEW m, WellFormed(d), Joins(d, e, m), Retains(ContentKeys, d, m),
         Shape(d), Shape(m), d # NewDoc => HasContent(d),
         Values(d, Root, "content") = Values(e, Root, "content"), NEW s \in TextShown(d)
  PROVE  s \in TextShown(m) \/ s[1] \in e.gone \/ s[2] \in e.gone
<1> DEFINE list == BlockList(d)
<1>1. d # NewDoc /\ HasContent(d)
  BY DEF TextShown
<1>0. PICK x \in Range(Elements(d, list)) : \E i \in Range(Elements(d, Get(d, x, "text"))) : s = <<x, i>>
  BY <1>1 DEF TextShown
<1>2. PICK i \in Range(Elements(d, Get(d, x, "text"))) : s = <<x, i>>
  BY <1>0
<1>3. WellFormed(m) /\ m.gone = d.gone \cup e.gone
  BY DEF Joins
<1>4. Values(m, Root, "content") = Values(d, Root, "content")
  <2>1. \A j \in DOMAIN m.ops : (j \in DOMAIN d.ops /\ m.ops[j] = d.ops[j]) \/ (j \in DOMAIN e.ops /\ m.ops[j] = e.ops[j])
    BY DEF Joins
  <2>2. \A j \in DOMAIN d.ops : d.ops[j].key = "content" => j \in DOMAIN m.ops /\ m.ops[j] = d.ops[j]
    BY DEF Retains, ContentKeys
  <2>3. \A j : j \in Values(m, Root, "content") => j \in Values(d, Root, "content") \cup Values(e, Root, "content")
    BY <2>1 DEF Values
  <2>4. \A j : j \in Values(d, Root, "content") => j \in Values(m, Root, "content")
    BY <2>2 DEF Values
  <2> QED BY <2>3, <2>4
<1>5. HasContent(m) /\ m # NewDoc
  <2>1. HasContent(m)
    BY <1>1, <1>4 DEF HasContent, Has
  <2>2. ~ HasContent(NewDoc)
    BY DEF HasContent, Has, Values, NewDoc
  <2> QED BY <2>1, <2>2
<1>6. Shown(m, "content") = Shown(d, "content")
  BY <1>4 DEF Shown, Get, Newest
<1>7. BlockList(m) = list
  BY <1>1, <1>3, <1>5, <1>6, BlockProperties
<1>8. \A l : Inserted(d, l) \subseteq Inserted(m, l)
  BY DEF Retains, Inserted
<1>9. \A l : Range(Elements(d, l)) = Inserted(d, l) \ d.gone /\ Range(Elements(m, l)) = Inserted(m, l) \ m.gone
  BY <1>3, ElementsProperties
<1>10. Get(d, x, "text") = Behind(x, 2) /\ Get(m, x, "text") = Behind(x, 2)
  <2>1. x \in Inserted(d, list) /\ x \in Inserted(m, BlockList(m))
    BY <1>2, <1>7, <1>8, <1>9
  <2> QED BY <1>1, <1>3, <1>5, <2>1, BlockProperties DEF Block
<1> SUFFICES ASSUME x \notin e.gone, i \notin e.gone PROVE s \in TextShown(m)
  BY <1>2
<1>11. x \in Range(Elements(m, BlockList(m)))
  BY <1>2, <1>3, <1>7, <1>8, <1>9
<1>12. i \in Range(Elements(m, Get(m, x, "text")))
  BY <1>2, <1>3, <1>8, <1>9, <1>10
<1> QED
  BY <1>2, <1>5, <1>11, <1>12 DEF TextShown

LEMMA DocumentsJoin ==
  ASSUME CrdtInv, type # "legacy", NEW r \in Replicas, NEW q \in Replicas
  PROVE  LET m == Merge(doc[r], doc[q])
         IN  /\ WellFormed(doc[r]) /\ WellFormed(doc[q]) /\ Formed(instance, doc[r]) /\ Formed(instance, doc[q])
             /\ Joins(doc[r], doc[q], m) /\ Formed(instance, m)
             /\ Retains(KeptKeys(instance), doc[r], m)
<1>1. instance.type \in {"root", "collection", "content", "legacy"}
  BY InstancesAssumption DEF CrdtInv
<1>2. Sound(instance, doc)
  BY DEF CrdtInv
<1>3. Agree(doc[r], doc[q])
  BY <1>2 DEF Sound, Alike, Agree, type
<1>4. \A x, f : Sound(x, f) /\ Agree(f[r], f[q]) =>
        Joins(f[r], f[q], Merge(f[r], f[q])) /\ Retains(KeptKeys(x), f[r], Merge(f[r], f[q]))
  BY MergeJoins
<1>5. \A x, f : x.type \in {"root", "collection", "content", "legacy"} /\ Sound(x, f) /\ Agree(f[r], f[q]) =>
        Formed(x, Merge(f[r], f[q]))
  BY MergeFormed
<1>6. WellFormed(doc[r]) /\ WellFormed(doc[q]) /\ Formed(instance, doc[r]) /\ Formed(instance, doc[q])
  BY <1>2 DEF Sound
<1> QED
  BY <1>1, <1>2, <1>3, <1>4, <1>5, <1>6

\* What is missing from a merge of root documents the other replica removed.
LEMMA NoCollectionIsDropped == CrdtInv => NoCollectionDropped
<1> SUFFICES ASSUME CrdtInv, type = "root", NEW r \in Replicas, NEW q \in Replicas, NEW c \in RootUuids(doc[r])
             PROVE  \/ c \in RootUuids(Merge(doc[r], doc[q]))
                    \/ \E list \in Range(Lists(doc[r])), i \in doc[q].gone :
                         i \in Inserted(doc[r], list) /\ doc[r].ops[i].val = c
  BY DEF NoCollectionDropped
<1> DEFINE m == Merge(doc[r], doc[q])
<1>1. WellFormed(doc[r]) /\ Joins(doc[r], doc[q], m) /\ Retains(KeptKeys(instance), doc[r], m)
  BY DocumentsJoin
<1>2. KeptKeys(instance) = RootKeys
  BY TypesApart DEF type
<1> HIDE DEF m
<1>3. \/ c \in RootUuids(m)
      \/ \E list \in Range(Lists(doc[r])), i \in doc[q].gone : i \in Inserted(doc[r], list) /\ doc[r].ops[i].val = c
  BY <1>1, <1>2, CollectionsStay
<1> QED
  BY <1>3 DEF m

\* A live thing is live in the merge unless the other deleted each live object.
LEMMA NoThingIsDropped == CrdtInv => NoThingDropped
<1> SUFFICES ASSUME CrdtInv, type = "collection", NEW r \in Replicas, NEW q \in Replicas,
                    NEW t \in Things \cap LiveThings(doc[r])
             PROVE  \/ t \in LiveThings(Merge(doc[r], doc[q]))
                    \/ \A x \in Range(LiveOf(doc[r], ObjectsOf(doc[r], t))) : IsDeleted(doc[q], x)
  BY DEF NoThingDropped
<1> DEFINE m == Merge(doc[r], doc[q])
<1>1. /\ WellFormed(doc[r]) /\ WellFormed(doc[q]) /\ Joins(doc[r], doc[q], m)
      /\ Retains(KeptKeys(instance), doc[r], m)
      /\ Formed(instance, doc[r]) /\ Formed(instance, doc[q]) /\ Formed(instance, m)
  BY DocumentsJoin
<1>2. KeptKeys(instance) = CollectionKeys(instance.things) /\ t \in instance.things
  BY TypesApart DEF type, Things
<1> HIDE DEF m
<1>3. Tombstones(doc[r]) /\ Tombstones(doc[q]) /\ Tombstones(m)
  BY <1>1 DEF Formed, type
<1>4. \/ t \in LiveThings(m)
      \/ \A x \in Range(LiveOf(doc[r], ObjectsOf(doc[r], t))) : IsDeleted(doc[q], x)
  BY <1>1, <1>2, <1>3, ThingsStay
<1> QED
  BY <1>4 DEF m

\* Text is in the merge unless the other removed it, or its block.
LEMMA NoTextIsDropped == CrdtInv => NoTextDropped
<1> SUFFICES ASSUME CrdtInv, type = "content", NEW r \in Replicas, NEW q \in Replicas,
                    Values(doc[r], Root, "content") = Values(doc[q], Root, "content"), NEW s \in TextShown(doc[r])
             PROVE  s \in TextShown(Merge(doc[r], doc[q])) \/ s[1] \in doc[q].gone \/ s[2] \in doc[q].gone
  BY DEF NoTextDropped
<1> DEFINE m == Merge(doc[r], doc[q])
<1>1. /\ WellFormed(doc[r]) /\ Joins(doc[r], doc[q], m) /\ Retains(KeptKeys(instance), doc[r], m)
      /\ Formed(instance, doc[r]) /\ Formed(instance, m)
  BY DocumentsJoin
<1>2. KeptKeys(instance) = ContentKeys
  BY TypesApart DEF type
<1> HIDE DEF m
<1>3. Shape(doc[r]) /\ Shape(m) /\ (doc[r] # NewDoc => HasContent(doc[r]))
  BY <1>1 DEF Formed, type
<1>4. s \in TextShown(m) \/ s[1] \in doc[q].gone \/ s[2] \in doc[q].gone
  BY <1>1, <1>2, <1>3, TextStays
<1> QED
  BY <1>4 DEF m

\* A merge of what two replicas know drops no collection, no live thing and no
\* text that the other has not taken out (NothingDropped; the views of extract.rs
\* read every list and map that was made apart).
THEOREM MergesDropNothing == ReplicasSpec => []NothingDropped
<1>1. CrdtInv => NothingDropped
  BY NoCollectionIsDropped, NoThingIsDropped, NoTextIsDropped DEF NothingDropped
<1> QED
  BY <1>1, DocumentsAreSound, PTL

-----------------------------------------------------------------------------
(* The rounds that exchange documents                                       *)

USE DEF Change, Empty, rows, aux

\* The next value of the run and of its place.
RunTyped == run' \in RunType /\ pc' \in Step

LEMMA EndRunTyped == EndRun => RunTyped
<1>1. NoRun \in RunType
  BY DEF NoRun, RunType
<1> QED
  BY <1>1 DEF EndRun, RunTyped, Step, Opening

LEMMA AfterPullTyped ==
  ASSUME run \in RunType, NEW ok, AfterPull(ok)
  PROVE  RunTyped
BY EndRunTyped DEF AfterPull, RunTyped, Step, Opening

LEMMA DiscoveredTyped ==
  ASSUME run \in RunType, NEW keys \in [Doc -> SUBSET Change], Discovered(keys)
  PROVE  RunTyped
<1>1. [run EXCEPT !.listed = keys, !.prefetched = TRUE] \in RunType
  BY DEF RunType
<1> QED
  BY <1>1, EndRunTyped DEF Discovered, RunTyped, Step, Opening

\* The types are kept by the user, the other devices and the failures.
LEMMA EnvironmentType ==
  ASSUME TypeOK, Environment
  PROVE  TypeOK'
<1> USE ConstantsAssumption DEF TypeOK
<1>1. ASSUME NEW c \in LocalChange, Edit(c) PROVE TypeOK'
  BY <1>1 DEF Edit
<1>2. ASSUME NEW c \in RemoteChange, RemoteEdit(c) PROVE TypeOK'
  BY <1>2 DEF RemoteEdit
<1>3. CASE Wipe
  BY <1>3 DEF Wipe
<1>4. CASE Crash
  BY <1>4, EndRunTyped DEF Crash, Fault, RunTyped
<1>5. CASE ClassifyFails \/ StashFails
  <2>1. run' \in RunType
    <3>1. run' \in {[run EXCEPT !.boot = TRUE], [run EXCEPT !.rows = Empty]}
      BY <1>5 DEF ClassifyFails, Bootstrap, StashFails
    <3>2. Empty \in [Doc -> SUBSET Change]
      OBVIOUS
    <3> QED
      BY <3>1, <3>2 DEF RunType
  <2>2. pc' \in Step
    BY <1>5 DEF ClassifyFails, Bootstrap, StashFails, Step, Opening
  <2>3. faults' \in Nat
    BY <1>5 DEF ClassifyFails, StashFails, Fault
  <2> QED
    BY <1>5, <2>1, <2>2, <2>3 DEF ClassifyFails, StashFails
<1>6. CASE ListForBootstrapFails
  <2>1. RunTyped
    BY <1>6, DiscoveredTyped DEF ListForBootstrapFails
  <2> QED
    BY <1>6, <2>1 DEF ListForBootstrapFails, Fault, RunTyped
<1>7. CASE ListKeysFails
  BY <1>7, EndRunTyped DEF ListKeysFails, Fault, RunTyped
<1>8. CASE PullBatchFails
  BY <1>8 DEF PullBatchFails, Fault, Step, Opening
<1> QED
  BY <1>1, <1>2, <1>3, <1>4, <1>5, <1>6, <1>7, <1>8 DEF Environment

LEMMA BootstrapType ==
  ASSUME TypeOK, SyncStart \/ BootstrapStep
  PROVE  TypeOK'
<1> USE ConstantsAssumption DEF TypeOK, RunType, Step, Opening
<1>1. CASE SyncStart
  BY <1>1 DEF SyncStart, NoRun
<1>2. CASE Classify \/ HadStash \/ StashCheck
  BY <1>2 DEF Classify, Bootstrap, HadStash, StashCheck, HasStash
<1>9. CASE StashRead
  <2>1. [d \in Doc |-> IF d \in dirty THEN local[d] ELSE {}] \in [Doc -> SUBSET Change]
    OBVIOUS
  <2> QED
    BY <1>9, <2>1 DEF StashRead
<1>10. CASE StashWrite
  BY <1>10 DEF StashWrite
<1>3. CASE ListForBootstrap
  <2>1. RunTyped
    BY <1>3, DiscoveredTyped DEF ListForBootstrap
  <2> QED
    BY <1>3, <2>1 DEF ListForBootstrap, RunTyped
<1>4. ASSUME NEW d \in Doc, DeleteLocal(d) PROVE TypeOK'
  BY <1>4 DEF DeleteLocal
<1>5. CASE DeleteDone
  BY <1>5 DEF DeleteDone
<1>6. CASE ReplayRead \/ ReplayMerge
  BY <1>6 DEF ReplayRead, ReplayMerge, Present
<1>7. CASE ReplayFails
  BY <1>7, EndRunTyped DEF ReplayFails, RunTyped
<1>8. CASE DropStash
  BY <1>8 DEF DropStash
<1> QED
  BY <1>1, <1>2, <1>3, <1>4, <1>5, <1>6, <1>7, <1>8, <1>9, <1>10 DEF BootstrapStep

\* What reachability is computed from does not matter to the types.
LEMMA RefilteredType ==
  ASSUME TypeOK, NEW docs, NEW hist, NEW d \in Doc
  PROVE  Refiltered(d, docs, hist) \in SUBSET Doc
BY DEF Refiltered, Reach, TypeOK, RunType

LEMMA ExchangeType ==
  ASSUME TypeOK, ExchangeStep
  PROVE  TypeOK'
<1> USE ConstantsAssumption DEF TypeOK, RunType, Step, Opening
<1>1. CASE ReadDirty
  BY <1>1 DEF ReadDirty
<1>2. ASSUME NEW d \in Doc, Exchange(d) PROVE TypeOK'
  BY <1>2 DEF Exchange, Exchanging
<1>3. ASSUME NEW d \in Doc, ExchangeFails(d) PROVE TypeOK'
  <2>1. server' \in [Doc -> SUBSET Change]
    BY <1>3 DEF ExchangeFails
  <2>2. faults' \in Nat
    BY <1>3 DEF ExchangeFails, Fault
  <2>3. run' \in RunType
    BY <1>3 DEF ExchangeFails
  <2> QED
    BY <1>3, <2>1, <2>2, <2>3 DEF ExchangeFails
<1>4. ASSUME NEW d \in Doc, SavePushed(d) PROVE TypeOK'
  <2>1. CASE Clash(local[d], run.got[d])
    BY <1>4, <2>1, EndRunTyped DEF SavePushed, RunTyped
  <2>2. CASE ~Clash(local[d], run.got[d])
    <3>1. run' = [run EXCEPT !.todo = @ \ {d}, !.synced = @ \cup {d}]
      BY <1>4, <2>2 DEF SavePushed
    <3>2. run' \in RunType
      BY <3>1
    <3>3. local' \in [Doc -> SUBSET Change]
      BY <1>4, <2>2 DEF SavePushed, Store
    <3> QED
      BY <1>4, <2>2, <3>2, <3>3 DEF SavePushed
  <2> QED
    BY <2>1, <2>2
<1>5. ASSUME NEW d \in Doc, SaveReceived(d) PROVE TypeOK'
  <2>1. CASE Clash(local[d], run.got[d])
    BY <1>5, <2>1, EndRunTyped DEF SaveReceived, RunTyped
  <2>2. CASE ~Clash(local[d], run.got[d])
    <3> DEFINE reach == Refiltered(d, local', history')
    <3>1. reach \in SUBSET Doc
      BY RefilteredType
    <3>2. run' \in RunType
      <4>1. run' = [run EXCEPT !.todo = @ \ {d}, !.reach = reach]
        BY <1>5, <2>2 DEF SaveReceived
      <4> HIDE DEF reach
      <4> QED
        BY <3>1, <4>1
    <3> QED
      BY <1>5, <2>2, <3>2 DEF SaveReceived, Store
  <2> QED
    BY <2>1, <2>2
<1>6. ASSUME NEW d \in Doc, SkipFailed(d) PROVE TypeOK'
  BY <1>6 DEF SkipFailed
<1>7. CASE PushDone
  BY <1>7 DEF PushDone
<1>8. CASE ListKeys
  BY <1>8 DEF ListKeys
<1>9. CASE ReceivePlan
  <2> DEFINE reach == Reach(local, history)
  <2>1. reach \in SUBSET Doc
    BY DEF Reach
  <2>2. run' \in RunType
    <3>1. PICK todo \in SUBSET Doc :
            run' = [run EXCEPT !.rows = local, !.todo = todo,
                               !.answered = {}, !.got = Empty, !.reach = reach]
      BY <1>9 DEF ReceivePlan, Present
    <3> HIDE DEF reach
    <3> QED
      BY <2>1, <3>1
  <2> QED
    BY <1>9, <2>2 DEF ReceivePlan
<1>10. CASE ReceiveDone
  BY <1>10 DEF ReceiveDone
<1> QED
  BY <1>1, <1>2, <1>3, <1>4, <1>5, <1>6, <1>7, <1>8, <1>9, <1>10 DEF ExchangeStep

LEMMA PullType ==
  ASSUME TypeOK, PullStep
  PROVE  TypeOK'
<1> USE ConstantsAssumption DEF TypeOK, RunType, Step, Opening
<1>0. ASSUME NEW d \in Doc, NEW s \in SUBSET Change, ApplySnapshot(d, s)
      PROVE  TypeOK'
  <2>1. CASE Clash(local[d], s)
    <3>1. RunTyped
      BY <1>0, <2>1, AfterPullTyped DEF ApplySnapshot
    <3> QED
      BY <1>0, <2>1, <3>1 DEF ApplySnapshot, RunTyped
  <2>2. CASE ~Clash(local[d], s)
    <3> DEFINE reach == Refiltered(d, local', history)
    <3>1. reach \in SUBSET Doc
      BY RefilteredType
    <3>2. run' \in RunType
      <4>1. run' = [run EXCEPT !.todo = @ \ {d}, !.reach = reach]
        BY <1>0, <2>2 DEF ApplySnapshot
      <4> HIDE DEF reach
      <4> QED
        BY <3>1, <4>1
    <3> QED
      BY <1>0, <2>2, <3>2 DEF ApplySnapshot, Store
  <2> QED
    BY <2>1, <2>2
<1>1. CASE PullPlan
  <2> DEFINE reach == IF run.boot THEN Reach(local, history) ELSE run.reach
  <2> DEFINE missing == Present(run.listed) \ Present(local)
  <2>1. reach \in SUBSET Doc /\ missing \in SUBSET Doc
    BY DEF Reach, Present
  <2>2. \/ /\ run' = [run EXCEPT !.todo = missing, !.reach = reach]
           /\ pc' = "pullBatch"
        \/ AfterPull(TRUE)
    BY <1>1 DEF PullPlan
  <2>3. RunTyped
    <3> HIDE DEF reach, missing
    <3> QED
      BY <2>1, <2>2, AfterPullTyped DEF RunTyped
  <2> QED
    BY <1>1, <2>3 DEF PullPlan, RunTyped
<1>2. CASE PullBatch
  BY <1>2 DEF PullBatch
<1>3. ASSUME NEW d \in Doc, PullApply(d) PROVE TypeOK'
  BY <1>3, <1>0 DEF PullApply
<1>4. ASSUME NEW d \in Doc, PullOne(d) PROVE TypeOK'
  BY <1>4, <1>0 DEF PullOne
<1>5. ASSUME NEW d \in Doc, PullSkip(d) PROVE TypeOK'
  BY <1>5 DEF PullSkip, Fault
<1>6. CASE PullDone
  <2>1. RunTyped
    BY <1>6, AfterPullTyped DEF PullDone
  <2> QED
    BY <1>6, <2>1 DEF PullDone, RunTyped
<1> QED
  BY <1>1, <1>2, <1>3, <1>4, <1>5, <1>6 DEF PullStep

\* The variables have their types in every reachable state.
THEOREM TypeCorrect == Spec => []TypeOK
<1>1. Init => TypeOK
  BY ConstantsAssumption DEF Init, TypeOK, NoRun, RunType, Step, Opening
<1>2. TypeOK /\ [Next]_vars => TypeOK'
  <2> SUFFICES ASSUME TypeOK, [Next]_vars PROVE TypeOK'
    OBVIOUS
  <2>1. CASE UNCHANGED vars
    BY <2>1 DEF TypeOK, vars
  <2> QED
    BY <2>1, EnvironmentType, BootstrapType, ExchangeType, PullType
       DEF Next, RunStep
<1> QED
  BY <1>1, <1>2, PTL DEF Spec

----------------------------------------------------------------------------
(* The inductive invariant                                                 *)

\* Steps that keep every guarded change where it is: rows, the server and the
\* sync histories grow, a dirty flag is cleared for a history only, and no step
\* but a bootstrap step counts on a stash or is about to store one.
Harmless ==
  /\ guarded' = guarded
  /\ stash' = stash
  /\ \A d \in Doc : local[d] \subseteq local'[d] /\ server[d] \subseteq server'[d]
  /\ history \subseteq history'
  /\ dirty \subseteq dirty' \cup history'
  /\ run'.ready => run.ready \/ HasStash
  /\ pc' = "stashWrite" => pc = "stashWrite" /\ run' = run

LEMMA HarmlessCovered ==
  ASSUME TypeOK, GuardedChangesCovered, Harmless
  PROVE  GuardedChangesCovered'
<1> SUFFICES ASSUME NEW c \in guarded
             PROVE  \/ c \in stash[DocOf[c]] \cup server'[DocOf[c]]
                    \/ /\ c \in local'[DocOf[c]]
                       /\ \/ DocOf[c] \in history'
                          \/ /\ ~HasStash' /\ ~run'.ready
                             /\ DocOf[c] \in dirty'
                             /\ pc' = "stashWrite" => c \in run'.rows[DocOf[c]]
  BY DEF GuardedChangesCovered, Harmless
<1>1. DocOf[c] \in Doc
  BY ConstantsAssumption DEF TypeOK
<1>2. HasStash' <=> HasStash
  BY DEF Harmless, HasStash, Present
<1> QED
  BY <1>1, <1>2 DEF GuardedChangesCovered, Harmless

LEMMA DiscoveredReady ==
  ASSUME run \in RunType, NEW keys, Discovered(keys)
  PROVE  (run'.ready => run.ready) /\ pc' # "stashWrite"
<1>1. [run EXCEPT !.listed = keys, !.prefetched = TRUE].ready = run.ready
  BY DEF RunType
<1>2. NoRun.ready = FALSE
  BY DEF NoRun
<1> QED
  BY <1>1, <1>2 DEF Discovered, EndRun

LEMMA EnvironmentCovered ==
  ASSUME Inductive, Environment
  PROVE  GuardedChangesCovered'
<1> USE DEF Inductive
<1> USE HarmlessCovered
<1>1. ASSUME NEW c \in LocalChange, Edit(c) PROVE GuardedChangesCovered'
  <2> DEFINE d == DocOf[c]
  <2>1. d \in Doc
    BY ConstantsAssumption
  <2>2. /\ stash' = stash /\ server' = server /\ history' = history /\ run' = run
        /\ dirty' = dirty \cup {d}
        /\ local' = [local EXCEPT ![d] = @ \cup {c}]
        /\ guarded' = IF StashOutstanding /\ d \notin history
                      THEN guarded
                      ELSE guarded \cup {c}
    BY <1>1 DEF Edit
  <2>3. \A e \in Doc : local[e] \subseteq local'[e]
    BY <2>1, <2>2 DEF TypeOK
  <2>4. HasStash' <=> HasStash
    BY <2>2 DEF HasStash, Present
  <2> DEFINE Covered(b) ==
        \/ b \in stash[DocOf[b]] \cup server[DocOf[b]]
        \/ /\ b \in local'[DocOf[b]]
           /\ \/ DocOf[b] \in history
              \/ /\ ~HasStash' /\ ~run.ready
                 /\ DocOf[b] \in dirty'
                 /\ pc = "stashWrite" => b \in run.rows[DocOf[b]]
  <2>5. ASSUME NEW b \in guarded PROVE Covered(b)
    <3>1. DocOf[b] \in Doc
      BY ConstantsAssumption DEF TypeOK
    <3> QED
      BY <2>2, <2>3, <2>4, <3>1 DEF GuardedChangesCovered
  <2>6. ASSUME ~StashOutstanding \/ d \in history PROVE Covered(c)
    BY <2>1, <2>2, <2>4, <2>6 DEF StashOutstanding, TypeOK
  <2>7. pc' = pc
    BY <1>1 DEF Edit
  <2> QED
    BY <2>2, <2>5, <2>6, <2>7 DEF GuardedChangesCovered
<1>2. ASSUME NEW c \in RemoteChange, RemoteEdit(c) PROVE GuardedChangesCovered'
  <2>1. Harmless
    BY <1>2 DEF RemoteEdit, Harmless, TypeOK
  <2> QED
    BY <2>1
<1>3. CASE Wipe
  BY <1>3 DEF Wipe, GuardedChangesCovered
<1>4. CASE Crash
  <2>1. Harmless
    BY <1>4 DEF Crash, EndRun, NoRun, Harmless
  <2> QED
    BY <2>1
<1>5. CASE ClassifyFails \/ StashFails
  <2>1. Harmless
    BY <1>5 DEF ClassifyFails, Bootstrap, StashFails, Harmless, TypeOK, RunType
  <2> QED
    BY <2>1
<1>6. CASE ListForBootstrapFails
  <2>1. Harmless
    BY <1>6, DiscoveredReady DEF ListForBootstrapFails, Harmless, TypeOK
  <2> QED
    BY <2>1
<1>7. CASE ListKeysFails
  <2>1. Harmless
    BY <1>7 DEF ListKeysFails, EndRun, NoRun, Harmless
  <2> QED
    BY <2>1
<1>8. CASE PullBatchFails
  <2>1. Harmless
    BY <1>8 DEF PullBatchFails, Harmless
  <2> QED
    BY <2>1
<1> QED
  BY <1>1, <1>2, <1>3, <1>4, <1>5, <1>6, <1>7, <1>8 DEF Environment

LEMMA BootstrapCovered ==
  ASSUME Inductive, SyncStart \/ BootstrapStep
  PROVE  GuardedChangesCovered'
<1> USE DEF Inductive
<1> USE HarmlessCovered
<1>1. CASE SyncStart
  <2>1. Harmless
    BY <1>1 DEF SyncStart, NoRun, Harmless
  <2> QED
    BY <2>1
<1>2. CASE Classify \/ HadStash \/ StashCheck
  <2>1. Harmless
    BY <1>2 DEF Classify, Bootstrap, HadStash, StashCheck, Harmless, TypeOK, RunType
  <2> QED
    BY <2>1
<1>9. CASE StashRead
  \* The changes that only their rows have are in dirty rows, and so in the copy.
  <2>1. CASE dirty = {}
    <3>1. Harmless
      BY <1>9, <2>1 DEF StashRead, Harmless
    <3> QED
      BY <3>1
  <2>2. CASE dirty # {}
    <3> DEFINE copy == [d \in Doc |-> IF d \in dirty THEN local[d] ELSE {}]
    <3>1. run'.rows = copy /\ run'.ready = run.ready
      BY <1>9, <2>2 DEF StashRead, TypeOK, RunType
    <3>2. HasStash' <=> HasStash
      BY <1>9 DEF StashRead, HasStash, Present
    <3>3. ASSUME NEW c \in guarded
          PROVE  DocOf[c] \in dirty /\ c \in local[DocOf[c]] => c \in run'.rows[DocOf[c]]
      BY <3>1, ConstantsAssumption DEF TypeOK
    <3> QED
      BY <1>9, <3>1, <3>2, <3>3 DEF StashRead, GuardedChangesCovered
  <2> QED
    BY <2>1, <2>2
<1>10. CASE StashWrite
  <2> SUFFICES ASSUME NEW c \in guarded
               PROVE  \/ c \in run.rows[DocOf[c]] \cup server[DocOf[c]]
                      \/ c \in local[DocOf[c]] /\ DocOf[c] \in history
    BY <1>10 DEF StashWrite, GuardedChangesCovered
  <2>1. DocOf[c] \in Doc
    BY ConstantsAssumption DEF TypeOK
  <2>2. c \notin stash[DocOf[c]]
    BY <1>10, <2>1 DEF StashWrite, BootstrapIsGuarded, HasStash, Present
  <2> QED
    BY <1>10, <2>2 DEF StashWrite, GuardedChangesCovered
<1>3. CASE ListForBootstrap
  <2>1. Harmless
    BY <1>3, DiscoveredReady DEF ListForBootstrap, Harmless, TypeOK
  <2> QED
    BY <2>1
<1>4. ASSUME NEW d \in Doc, DeleteLocal(d) PROVE GuardedChangesCovered'
  \* The bootstrap has a stash, so no guarded change is in the row alone of a
  \* document without a history.
  <2>1. run.ready /\ d \notin history
    BY <1>4 DEF DeleteLocal, BootstrapIsGuarded, Opening
  <2>2. /\ local' = [local EXCEPT ![d] = {}] /\ history' = history
        /\ stash' = stash /\ server' = server /\ guarded' = guarded
    BY <1>4, <2>1 DEF DeleteLocal
  <2>3. \A c \in guarded : DocOf[c] \in history => local'[DocOf[c]] = local[DocOf[c]]
    BY <2>1, <2>2 DEF TypeOK
  <2> QED
    BY <2>1, <2>2, <2>3 DEF GuardedChangesCovered
<1>5. CASE DeleteDone
  <2>1. Harmless
    BY <1>5 DEF DeleteDone, Harmless
  <2> QED
    BY <2>1
<1>6. CASE ReplayRead \/ ReplayMerge
  <2>1. Harmless
    BY <1>6 DEF ReplayRead, ReplayMerge, Harmless, TypeOK, RunType
  <2> QED
    BY <2>1
<1>7. CASE ReplayFails
  <2>1. Harmless
    BY <1>7 DEF ReplayFails, EndRun, NoRun, Harmless
  <2> QED
    BY <2>1
<1>8. CASE DropStash
  <2> SUFFICES ASSUME NEW c \in guarded
               PROVE  \/ c \in server[DocOf[c]]
                      \/ c \in local[DocOf[c]] /\ (DocOf[c] \in history \/ DocOf[c] \in dirty)
    <3>1. ~HasStash' /\ ~run'.ready
      BY <1>8 DEF DropStash, HasStash, Present, TypeOK, RunType
    <3> QED
      BY <1>8, <3>1 DEF DropStash, GuardedChangesCovered
  <2>1. DocOf[c] \in Doc
    BY ConstantsAssumption DEF TypeOK
  <2>2. CASE c \in stash[DocOf[c]]
    BY <1>8, <2>1, <2>2 DEF DropStash, BootstrapIsGuarded, Present
  <2>3. CASE c \notin stash[DocOf[c]]
    BY <2>3 DEF GuardedChangesCovered
  <2> QED
    BY <2>2, <2>3
<1> QED
  BY <1>1, <1>2, <1>3, <1>4, <1>5, <1>6, <1>7, <1>8, <1>9, <1>10 DEF BootstrapStep

LEMMA ExchangeCovered ==
  ASSUME Inductive, ExchangeStep
  PROVE  GuardedChangesCovered'
<1> SUFFICES Harmless
  BY HarmlessCovered DEF Inductive
<1> USE DEF Inductive, TypeOK, Harmless
<1>1. CASE ReadDirty
  BY <1>1 DEF ReadDirty, RunType
<1>2. ASSUME NEW d \in Doc, Exchange(d) PROVE Harmless
  BY <1>2 DEF Exchange, Exchanging, RunType
<1>3. ASSUME NEW d \in Doc, ExchangeFails(d) PROVE Harmless
  <2>1. \A e \in Doc : server[e] \subseteq server'[e]
    BY <1>3 DEF ExchangeFails
  <2>2. run'.ready = run.ready
    BY <1>3 DEF ExchangeFails, RunType
  <2> QED
    BY <1>3, <2>1, <2>2 DEF ExchangeFails, Exchanging
<1>4. ASSUME NEW d \in Doc, SavePushed(d) PROVE Harmless
  \* The dirty flag is cleared, but from now on the device has a history.
  <2>1. CASE Clash(local[d], run.got[d])
    BY <1>4, <2>1 DEF SavePushed, EndRun, NoRun
  <2>2. CASE ~Clash(local[d], run.got[d])
    <3>1. run'.ready = run.ready
      BY <1>4, <2>2 DEF SavePushed, RunType
    <3> QED
      BY <1>4, <2>2, <3>1 DEF SavePushed, Store
  <2> QED
    BY <2>1, <2>2
<1>5. ASSUME NEW d \in Doc, SaveReceived(d) PROVE Harmless
  <2>1. CASE Clash(local[d], run.got[d])
    BY <1>5, <2>1 DEF SaveReceived, EndRun, NoRun
  <2>2. CASE ~Clash(local[d], run.got[d])
    <3>1. run'.ready = run.ready
      BY <1>5, <2>2 DEF SaveReceived, RunType
    <3> QED
      BY <1>5, <2>2, <3>1 DEF SaveReceived, Store
  <2> QED
    BY <2>1, <2>2
<1>6. ASSUME NEW d \in Doc, SkipFailed(d) PROVE Harmless
  BY <1>6 DEF SkipFailed, RunType
<1>7. CASE PushDone
  BY <1>7 DEF PushDone
<1>8. CASE ListKeys
  BY <1>8 DEF ListKeys, RunType
<1>9. CASE ReceivePlan
  <2>1. run'.ready = run.ready
    BY <1>9 DEF ReceivePlan, RunType
  <2> QED
    BY <1>9, <2>1 DEF ReceivePlan
<1>10. CASE ReceiveDone
  BY <1>10 DEF ReceiveDone, RunType
<1> QED
  BY <1>1, <1>2, <1>3, <1>4, <1>5, <1>6, <1>7, <1>8, <1>9, <1>10 DEF ExchangeStep

LEMMA AfterPullReady ==
  ASSUME run \in RunType, NEW ok, AfterPull(ok)
  PROVE  (run'.ready => run.ready) /\ pc' # "stashWrite"
BY DEF AfterPull, EndRun, NoRun

LEMMA PullCovered ==
  ASSUME Inductive, PullStep
  PROVE  GuardedChangesCovered'
<1> SUFFICES Harmless
  BY HarmlessCovered DEF Inductive
<1> USE AfterPullReady DEF Inductive, TypeOK, Harmless
<1>0. ASSUME NEW d \in Doc, NEW s \in SUBSET Change, ApplySnapshot(d, s), pc # "stashWrite"
      PROVE  Harmless
  <2>1. CASE Clash(local[d], s)
    BY <1>0, <2>1 DEF ApplySnapshot
  <2>2. CASE ~Clash(local[d], s)
    <3>1. run'.ready = run.ready
      BY <1>0, <2>2 DEF ApplySnapshot, RunType
    <3> QED
      BY <1>0, <2>2, <3>1 DEF ApplySnapshot, Store
  <2> QED
    BY <2>1, <2>2
<1>1. CASE PullPlan
  <2>1. (run'.ready => run.ready) /\ pc' # "stashWrite"
    <3>1. CASE AfterPull(TRUE)
      BY <3>1
    <3>2. CASE ~AfterPull(TRUE)
      BY <1>1, <3>2 DEF PullPlan, RunType
    <3> QED
      BY <3>1, <3>2
  <2> QED
    BY <1>1, <2>1 DEF PullPlan
<1>2. CASE PullBatch
  BY <1>2 DEF PullBatch, RunType
<1>3. ASSUME NEW d \in Doc, PullApply(d) PROVE Harmless
  <2>1. run.got[d] \in SUBSET Change
    BY DEF RunType
  <2> QED
    BY <1>3, <1>0, <2>1 DEF PullApply
<1>4. ASSUME NEW d \in Doc, PullOne(d) PROVE Harmless
  <2>1. server[d] \in SUBSET Change
    OBVIOUS
  <2> QED
    BY <1>4, <1>0, <2>1 DEF PullOne
<1>5. ASSUME NEW d \in Doc, PullSkip(d) PROVE Harmless
  BY <1>5 DEF PullSkip, RunType
<1>6. CASE PullDone
  BY <1>6 DEF PullDone
<1> QED
  BY <1>1, <1>2, <1>3, <1>4, <1>5, <1>6 DEF PullStep

\* Where the bootstrap deletes or drops something, nothing else goes on.
LEMMA BootstrapGuarded ==
  ASSUME Inductive, [Next]_vars
  PROVE  BootstrapIsGuarded'
<1> USE DEF Inductive, TypeOK, BootstrapIsGuarded, Opening
<1>1. ASSUME NEW c \in LocalChange, Edit(c) PROVE BootstrapIsGuarded'
  <2>1. pc = "dropStash" => \A d \in Present(stash)' : stash'[d] \subseteq local'[d] /\ d \in dirty'
    BY <1>1, ConstantsAssumption DEF Edit, Present
  <2> QED
    BY <1>1, <2>1 DEF Edit, HasStash, Present
<1>2. ASSUME NEW c \in RemoteChange, RemoteEdit(c) PROVE BootstrapIsGuarded'
  BY <1>2 DEF RemoteEdit, Present, HasStash
<1>3. CASE Wipe
  <2>1. Present(stash)' = {}
    BY <1>3 DEF Wipe, Present
  <2> QED
    BY <1>3, <2>1 DEF Wipe, HasStash
<1>4. CASE Crash \/ ListKeysFails \/ ReplayFails
  BY <1>4 DEF Crash, ListKeysFails, ReplayFails, EndRun
<1>5. CASE Classify \/ ClassifyFails \/ HadStash \/ StashCheck \/ StashRead \/ StashWrite \/ StashFails
  <2>1. run'.never = run.never
    BY <1>5 DEF Classify, ClassifyFails, Bootstrap, HadStash, StashCheck, StashRead,
                StashWrite, StashFails, RunType
  <2> QED
    BY <1>5, <2>1 DEF Classify, ClassifyFails, Bootstrap, HadStash, StashCheck, StashRead,
                      StashWrite, StashFails, HasStash, Present
<1>6. CASE ListForBootstrap \/ ListForBootstrapFails
  <2>1. PICK keys \in [Doc -> SUBSET Change] : Discovered(keys)
    BY <1>6 DEF ListForBootstrap, ListForBootstrapFails
  <2>2. history' = history
    BY <1>6 DEF ListForBootstrap, ListForBootstrapFails
  <2>3. CASE pc' = "delete"
    <3>1. /\ Present(keys) # {}
          /\ run' = [run EXCEPT !.listed = keys, !.prefetched = TRUE]
      BY <2>1, <2>3 DEF Discovered, EndRun
    <3>2. run'.never = run.never /\ run'.ready = run.ready
      BY <3>1 DEF RunType
    <3>3. run.never # {} => run.ready
      BY <2>1, <2>3, <3>1 DEF Discovered, EndRun
    <3>4. run.never \cap history = {}
      BY <1>6 DEF ListForBootstrap, ListForBootstrapFails
    <3> QED
      BY <2>2, <2>3, <3>2, <3>3, <3>4
  <2>4. CASE pc' # "delete"
    BY <2>1, <2>2, <2>4 DEF Discovered, EndRun
  <2> QED
    BY <2>3, <2>4
<1>7. CASE SyncStart
  <2>1. run'.never = dirty \ history
    BY <1>7 DEF SyncStart, NoRun
  <2> QED
    BY <1>7, <2>1 DEF SyncStart
<1>8. ASSUME NEW d \in Doc, DeleteLocal(d) PROVE BootstrapIsGuarded'
  BY <1>8 DEF DeleteLocal, RunType
<1>9. CASE ReplayRead \/ ReplayMerge
  <2>1. CASE ReplayRead
    BY <2>1 DEF ReplayRead, RunType
  <2>2. CASE ReplayMerge
    <3>1. \A d \in Present(stash) : stash[d] \subseteq local'[d] /\ d \in dirty'
      BY <2>2 DEF ReplayMerge, Present
    <3> QED
      BY <2>2, <3>1 DEF ReplayMerge, Present
  <2> QED
    BY <1>9, <2>1, <2>2
<1>10. CASE DeleteDone \/ DropStash \/ PullBatchFails
  BY <1>10 DEF DeleteDone, DropStash, PullBatchFails
<1>11. CASE ReadDirty \/ PushDone \/ ListKeys \/ ReceivePlan \/ ReceiveDone
  BY <1>11 DEF ReadDirty, PushDone, ListKeys, ReceivePlan, ReceiveDone
<1>12. ASSUME NEW d \in Doc,
              Exchange(d) \/ ExchangeFails(d) \/ SavePushed(d) \/ SaveReceived(d) \/ SkipFailed(d)
       PROVE  BootstrapIsGuarded'
  BY <1>12 DEF Exchange, ExchangeFails, Exchanging, SavePushed, SaveReceived, SkipFailed, EndRun
<1>13. ASSUME NEW d \in Doc, PullApply(d) \/ PullOne(d) \/ PullSkip(d)
       PROVE  BootstrapIsGuarded'
  BY <1>13 DEF PullApply, PullOne, PullSkip, ApplySnapshot, AfterPull, EndRun
<1>14. CASE PullPlan \/ PullBatch \/ PullDone
  BY <1>14 DEF PullPlan, PullBatch, PullDone, AfterPull, EndRun
<1>15. CASE UNCHANGED vars
  BY <1>15 DEF vars, Present, HasStash
<1> QED
  BY <1>1, <1>2, <1>3, <1>4, <1>5, <1>6, <1>7, <1>8, <1>9, <1>10, <1>11, <1>12,
     <1>13, <1>14, <1>15
     DEF Next, Environment, RunStep, BootstrapStep, ExchangeStep, PullStep

----------------------------------------------------------------------------
(* Where the changes on the device come from                               *)

\* A step that brings only changes of known origin to the rows, the stash,
\* the run's copies and the server's answers.
Sourced ==
  /\ made \subseteq made'
  /\ \A d \in Doc :
       /\ server[d] \subseteq server'[d]
       /\ run'.got[d] \subseteq run.got[d] \cup server'[d]
  /\ \A c \in Change :
       c \in local'[DocOf[c]] \cup stash'[DocOf[c]] \cup run'.rows[DocOf[c]]
         => \/ c \in local[DocOf[c]] \cup stash[DocOf[c]] \cup run.rows[DocOf[c]]
            \/ c \in made' \cup server'[DocOf[c]]

LEMMA SourcedOrigin ==
  ASSUME TypeOK, ChangesHaveAnOrigin, Sourced
  PROVE  ChangesHaveAnOrigin'
<1>1. \A c \in Change : DocOf[c] \in Doc
  BY ConstantsAssumption
<1>2. \A d \in Doc : run'.got[d] \subseteq server'[d]
  BY DEF ChangesHaveAnOrigin, Sourced
<1>3. ASSUME NEW c \in Change,
             c \in local'[DocOf[c]] \cup stash'[DocOf[c]] \cup run'.rows[DocOf[c]]
      PROVE  c \in made' \cup server'[DocOf[c]]
  BY <1>1, <1>3 DEF ChangesHaveAnOrigin, Sourced
<1> QED
  BY <1>2, <1>3 DEF ChangesHaveAnOrigin

\* The run's copies of rows and answers are unchanged or dropped.
SameCopies == run'.rows \in {run.rows, Empty} /\ run'.got \in {run.got, Empty}

LEMMA EndRunCopies == EndRun => SameCopies
BY DEF EndRun, NoRun, SameCopies

LEMMA AfterPullCopies == \A ok : AfterPull(ok) => SameCopies
BY EndRunCopies DEF AfterPull, SameCopies

LEMMA DiscoveredCopies ==
  ASSUME run \in RunType, NEW keys, Discovered(keys)
  PROVE  SameCopies
<1>1. CASE EndRun
  BY <1>1, EndRunCopies
<1>2. CASE ~EndRun
  <2>1. run' = [run EXCEPT !.listed = keys, !.prefetched = TRUE]
    BY <1>2 DEF Discovered
  <2> QED
    BY <2>1 DEF RunType, SameCopies
<1> QED
  BY <1>1, <1>2

\* Steps that leave the copies alone and at most remove from the device.
LEMMA NothingNew ==
  ASSUME TypeOK, SameCopies, made' = made, server' = server,
         \A d \in Doc : local'[d] \subseteq local[d] \cup run.rows[d],
         \A d \in Doc : stash'[d] \subseteq stash[d] \cup run.rows[d]
  PROVE  Sourced
<1>1. \A c \in Change : DocOf[c] \in Doc
  BY ConstantsAssumption
<1> QED
  BY <1>1 DEF Sourced, SameCopies

LEMMA EnvironmentOrigin ==
  ASSUME Inductive, Environment
  PROVE  ChangesHaveAnOrigin'
<1> SUFFICES Sourced
  BY SourcedOrigin DEF Inductive
<1> USE NothingNew, EndRunCopies DEF Inductive, TypeOK
<1>1. ASSUME NEW c \in LocalChange, Edit(c) PROVE Sourced
  <2>1. \A b \in Change : b \in local'[DocOf[b]] => b \in local[DocOf[b]] \/ b = c
    BY <1>1, ConstantsAssumption DEF Edit
  <2> QED
    BY <1>1, <2>1 DEF Edit, Sourced
<1>2. ASSUME NEW c \in RemoteChange, RemoteEdit(c) PROVE Sourced
  BY <1>2 DEF RemoteEdit, Sourced
<1>3. CASE Wipe
  BY <1>3 DEF Wipe, SameCopies
<1>4. CASE Crash \/ ListKeysFails
  BY <1>4 DEF Crash, ListKeysFails
<1>5. CASE ClassifyFails \/ StashFails
  BY <1>5 DEF ClassifyFails, Bootstrap, StashFails, SameCopies, RunType
<1>6. CASE ListForBootstrapFails
  <2>1. SameCopies
    BY <1>6, DiscoveredCopies DEF ListForBootstrapFails
  <2> QED
    BY <1>6, <2>1 DEF ListForBootstrapFails
<1>7. CASE PullBatchFails
  BY <1>7 DEF PullBatchFails, SameCopies
<1> QED
  BY <1>1, <1>2, <1>3, <1>4, <1>5, <1>6, <1>7 DEF Environment

LEMMA BootstrapOrigin ==
  ASSUME Inductive, SyncStart \/ BootstrapStep
  PROVE  ChangesHaveAnOrigin'
<1> SUFFICES Sourced
  BY SourcedOrigin DEF Inductive
<1> USE NothingNew, EndRunCopies DEF Inductive, TypeOK
<1>1. CASE SyncStart
  BY <1>1 DEF SyncStart, NoRun, SameCopies
<1>2. CASE Classify \/ HadStash \/ StashCheck
  BY <1>2 DEF Classify, Bootstrap, HadStash, StashCheck, SameCopies, RunType
<1>9. CASE StashRead \/ ReplayRead
  <2>1. /\ run'.got = run.got
        /\ \A d \in Doc : run'.rows[d] \subseteq local[d] \cup stash[d] \cup run.rows[d]
    BY <1>9 DEF StashRead, ReplayRead, RunType
  <2>2. UNCHANGED <<local, stash, server, made>>
    BY <1>9 DEF StashRead, ReplayRead
  <2>3. \A c \in Change : DocOf[c] \in Doc
    BY ConstantsAssumption
  <2> QED
    BY <2>1, <2>2, <2>3 DEF Sourced
<1>10. CASE StashWrite
  BY <1>10 DEF StashWrite, SameCopies, RunType
<1>3. CASE ListForBootstrap
  <2>1. SameCopies
    BY <1>3, DiscoveredCopies DEF ListForBootstrap
  <2> QED
    BY <1>3, <2>1 DEF ListForBootstrap
<1>4. ASSUME NEW d \in Doc, DeleteLocal(d) PROVE Sourced
  <2>1. SameCopies
    BY <1>4 DEF DeleteLocal, SameCopies, RunType
  <2> QED
    BY <1>4, <2>1 DEF DeleteLocal
<1>5. CASE DeleteDone
  BY <1>5 DEF DeleteDone, SameCopies
<1>6. CASE ReplayMerge
  BY <1>6 DEF ReplayMerge, SameCopies, RunType
<1>7. CASE ReplayFails
  BY <1>7 DEF ReplayFails
<1>8. CASE DropStash
  BY <1>8 DEF DropStash, SameCopies, RunType
<1> QED
  BY <1>1, <1>2, <1>3, <1>4, <1>5, <1>6, <1>7, <1>8, <1>9, <1>10 DEF BootstrapStep

\* Merging published changes into a row brings nothing of unknown origin.
LEMMA StoredOrigin ==
  ASSUME TypeOK, SameCopies, NEW d \in Doc, NEW s \in SUBSET Change,
         s \subseteq server[d], Store(d, s),
         made' = made, stash' = stash, server' = server
  PROVE  Sourced
<1>1. \A c \in Change : DocOf[c] \in Doc
  BY ConstantsAssumption
<1>2. \A c \in Change : c \in local'[DocOf[c]] => c \in local[DocOf[c]] \cup server[DocOf[c]]
  BY <1>1 DEF Store, TypeOK
<1> QED
  BY <1>1, <1>2 DEF Sourced, SameCopies

LEMMA ExchangeOrigin ==
  ASSUME Inductive, ExchangeStep
  PROVE  ChangesHaveAnOrigin'
<1> SUFFICES Sourced
  BY SourcedOrigin DEF Inductive
<1> USE NothingNew, EndRunCopies DEF Inductive, TypeOK
<1>1. CASE ReadDirty \/ ReceivePlan
  <2>1. run'.rows = local /\ run'.got = Empty
    BY <1>1 DEF ReadDirty, ReceivePlan, RunType
  <2> QED
    BY <1>1, <2>1 DEF ReadDirty, ReceivePlan, Sourced
<1>2. ASSUME NEW d \in Doc, Exchange(d) PROVE Sourced
  <2>1. run'.rows = run.rows /\ run'.got = [run.got EXCEPT ![d] = server[d] \cup run.rows[d]]
    BY <1>2 DEF Exchange, RunType
  <2>2. server'[d] = server[d] \cup run.rows[d] /\ \A e \in Doc : server[e] \subseteq server'[e]
    BY <1>2 DEF Exchange
  <2> QED
    BY <1>2, <2>1, <2>2 DEF Exchange, Sourced, RunType
<1>3. ASSUME NEW d \in Doc, ExchangeFails(d) PROVE Sourced
  <2>1. run'.rows = run.rows /\ run'.got = [run.got EXCEPT ![d] = {}]
    BY <1>3 DEF ExchangeFails, RunType
  <2>2. \A e \in Doc : server[e] \subseteq server'[e]
    BY <1>3 DEF ExchangeFails
  <2> QED
    BY <1>3, <2>1, <2>2 DEF ExchangeFails, Sourced, RunType
<1>4. ASSUME NEW d \in Doc, SavePushed(d) \/ SaveReceived(d) PROVE Sourced
  <2>1. CASE Clash(local[d], run.got[d])
    BY <1>4, <2>1 DEF SavePushed, SaveReceived
  <2>2. CASE ~Clash(local[d], run.got[d])
    <3>1. SameCopies /\ Store(d, run.got[d])
      BY <1>4, <2>2 DEF SavePushed, SaveReceived, SameCopies, RunType
    <3>2. run.got[d] \in SUBSET Change /\ run.got[d] \subseteq server[d]
      BY DEF RunType, ChangesHaveAnOrigin
    <3> QED
      BY <1>4, <3>1, <3>2, StoredOrigin DEF SavePushed, SaveReceived
  <2> QED
    BY <2>1, <2>2
<1>5. ASSUME NEW d \in Doc, SkipFailed(d) PROVE Sourced
  BY <1>5 DEF SkipFailed, SameCopies, RunType
<1>6. CASE PushDone \/ ListKeys \/ ReceiveDone
  BY <1>6 DEF PushDone, ListKeys, ReceiveDone, SameCopies, RunType
<1> QED
  BY <1>1, <1>2, <1>3, <1>4, <1>5, <1>6 DEF ExchangeStep

LEMMA PullOrigin ==
  ASSUME Inductive, PullStep
  PROVE  ChangesHaveAnOrigin'
<1> SUFFICES Sourced
  BY SourcedOrigin DEF Inductive
<1> USE NothingNew, AfterPullCopies DEF Inductive, TypeOK
<1>0. ASSUME NEW d \in Doc, NEW s \in SUBSET Change, s \subseteq server[d], ApplySnapshot(d, s)
      PROVE  Sourced
  <2>1. CASE Clash(local[d], s)
    BY <1>0, <2>1 DEF ApplySnapshot
  <2>2. CASE ~Clash(local[d], s)
    <3>1. SameCopies
      BY <1>0, <2>2 DEF ApplySnapshot, SameCopies, RunType
    <3> QED
      BY <1>0, <2>2, <3>1, StoredOrigin DEF ApplySnapshot
  <2> QED
    BY <2>1, <2>2
<1>1. CASE PullPlan
  <2>1. SameCopies
    <3>1. CASE AfterPull(TRUE)
      BY <3>1
    <3>2. CASE ~AfterPull(TRUE)
      BY <1>1, <3>2 DEF PullPlan, SameCopies, RunType
    <3> QED
      BY <3>1, <3>2
  <2> QED
    BY <1>1, <2>1 DEF PullPlan
<1>2. CASE PullBatch
  <2>1. run'.rows = run.rows /\ run'.got = server
    BY <1>2 DEF PullBatch, RunType
  <2> QED
    BY <1>2, <2>1 DEF PullBatch, Sourced
<1>3. ASSUME NEW d \in Doc, PullApply(d) PROVE Sourced
  <2>1. run.got[d] \in SUBSET Change /\ run.got[d] \subseteq server[d]
    BY DEF RunType, ChangesHaveAnOrigin
  <2> QED
    BY <1>3, <1>0, <2>1 DEF PullApply
<1>4. ASSUME NEW d \in Doc, PullOne(d) PROVE Sourced
  <2>1. server[d] \in SUBSET Change
    OBVIOUS
  <2> QED
    BY <1>4, <1>0, <2>1 DEF PullOne
<1>5. ASSUME NEW d \in Doc, PullSkip(d) PROVE Sourced
  BY <1>5 DEF PullSkip, SameCopies, RunType
<1>6. CASE PullDone
  BY <1>6 DEF PullDone
<1> QED
  BY <1>1, <1>2, <1>3, <1>4, <1>5, <1>6 DEF PullStep

----------------------------------------------------------------------------
(* The theorems                                                            *)

\* The inductive invariant holds in every reachable state.
THEOREM InductiveInvariant == Spec => []Inductive
<1>1. Init => Inductive
  <2> SUFFICES ASSUME Init PROVE Inductive
    OBVIOUS
  <2>1. TypeOK
    BY ConstantsAssumption DEF Init, TypeOK, NoRun, RunType, Step, Opening
  <2>2. GuardedChangesCovered /\ BootstrapIsGuarded
    BY DEF Init, GuardedChangesCovered, BootstrapIsGuarded, Opening
  <2>3. ChangesHaveAnOrigin
    BY ConstantsAssumption DEF Init, ChangesHaveAnOrigin, NoRun
  <2> QED
    BY <2>1, <2>2, <2>3 DEF Inductive
<1>2. Inductive /\ [Next]_vars => Inductive'
  <2> SUFFICES ASSUME Inductive, [Next]_vars PROVE Inductive'
    OBVIOUS
  <2>1. CASE UNCHANGED vars
    BY <2>1 DEF vars, Inductive, TypeOK, GuardedChangesCovered, BootstrapIsGuarded,
                ChangesHaveAnOrigin, HasStash, Present
  <2>2. CASE Next
    <3>1. TypeOK'
      BY <2>2, EnvironmentType, BootstrapType, ExchangeType, PullType
         DEF Inductive, Next, RunStep
    <3>2. GuardedChangesCovered'
      BY <2>2, EnvironmentCovered, BootstrapCovered, ExchangeCovered, PullCovered
         DEF Next, RunStep
    <3>3. BootstrapIsGuarded'
      BY BootstrapGuarded
    <3>4. ChangesHaveAnOrigin'
      BY <2>2, EnvironmentOrigin, BootstrapOrigin, ExchangeOrigin, PullOrigin
         DEF Next, RunStep
    <3> QED
      BY <3>1, <3>2, <3>3, <3>4 DEF Inductive
  <2> QED
    BY <2>1, <2>2
<1> QED
  BY <1>1, <1>2, PTL DEF Spec

\* No guarded change is ever lost: it is in its row, in the stash or on the
\* server, whatever fails and whenever the process dies.
THEOREM GuardedChangesAreSafe == Spec => []GuardedChangesSurvive
<1>1. Inductive => GuardedChangesSurvive
  BY DEF Inductive, GuardedChangesCovered, GuardedChangesSurvive
<1> QED
  BY <1>1, InductiveInvariant, PTL

\* Rows only shrink in the bootstrap's deletions and a logout.
LEMMA RowsShrinkOnlyInBootstrap ==
  ASSUME TypeOK, Next, wipes' = wipes, NEW d \in Doc
  PROVE  local[d] \subseteq local'[d] \/ (pc = "delete" /\ d \in run.never)
<1> SUFFICES ASSUME ~(pc = "delete" /\ d \in run.never) PROVE local[d] \subseteq local'[d]
  OBVIOUS
<1> USE DEF TypeOK
<1>1. CASE Environment
  BY <1>1 DEF Environment, Edit, RemoteEdit, Wipe, Crash, ClassifyFails, StashFails,
              ListForBootstrapFails, ListKeysFails, PullBatchFails
<1>2. CASE SyncStart \/ BootstrapStep
  BY <1>2 DEF SyncStart, BootstrapStep, Classify, HadStash, StashCheck, StashRead,
              StashWrite, ListForBootstrap, DeleteLocal, DeleteDone, ReplayRead,
              ReplayMerge, ReplayFails, DropStash
<1>3. \A e, s : Store(e, s) => local[d] \subseteq local'[d]
  BY DEF Store
<1>4. CASE ExchangeStep
  <2>1. ASSUME NEW e \in Doc, SavePushed(e) \/ SaveReceived(e)
        PROVE  local' = local \/ Store(e, run.got[e])
    BY <2>1 DEF SavePushed, SaveReceived
  <2>2. local' = local \/ \E e \in Doc : SavePushed(e) \/ SaveReceived(e)
    BY <1>4 DEF ExchangeStep, ReadDirty, Exchange, ExchangeFails, SkipFailed,
                PushDone, ListKeys, ReceivePlan, ReceiveDone
  <2> QED
    BY <1>3, <2>1, <2>2
<1>5. CASE PullStep
  <2>1. ASSUME NEW e \in Doc, NEW s, ApplySnapshot(e, s)
        PROVE  local' = local \/ Store(e, s)
    BY <2>1 DEF ApplySnapshot
  <2>2. local' = local \/ \E e \in Doc : PullApply(e) \/ PullOne(e)
    BY <1>5 DEF PullStep, PullPlan, PullBatch, PullSkip, PullDone
  <2> QED
    BY <1>3, <2>1, <2>2 DEF PullApply, PullOne
<1> QED
  BY <1>1, <1>2, <1>4, <1>5 DEF Next, RunStep

\* A document that was synced never loses a change from its row, except by a
\* logout: the bootstrap deletes documents without a history only.
THEOREM SyncedRowsAreSafe == Spec => SyncedRowsOnlyGrow
<1>1. Inductive /\ [Next]_vars
      => [\A d \in history : wipes' # wipes \/ local[d] \subseteq local'[d]]_vars
  <2> SUFFICES ASSUME Inductive, Next, NEW d \in history, wipes' = wipes
               PROVE  local[d] \subseteq local'[d]
    OBVIOUS
  <2>1. d \in Doc /\ ~(pc = "delete" /\ d \in run.never)
    BY DEF Inductive, TypeOK, BootstrapIsGuarded, Opening
  <2> QED
    BY <2>1, RowsShrinkOnlyInBootstrap DEF Inductive
<1> QED
  BY <1>1, InductiveInvariant, PTL DEF Spec, SyncedRowsOnlyGrow

\* The stash is dropped only once it is in dirty rows, or by a logout.
THEOREM StashIsSafe == Spec => StashDroppedOnlyWhenReplayed
<1>1. Inductive /\ [Next]_vars
      => [\A d \in Doc : stash[d] # {} /\ stash'[d] = {} /\ wipes' = wipes
            => stash[d] \subseteq local'[d] /\ d \in dirty']_vars
  <2> SUFFICES ASSUME Inductive, Next, NEW d \in Doc,
                      stash[d] # {}, stash'[d] = {}, wipes' = wipes
               PROVE  stash[d] \subseteq local'[d] /\ d \in dirty'
    OBVIOUS
  <2> USE DEF Inductive, TypeOK
  <2>1. CASE Environment
    BY <2>1 DEF Environment, Edit, RemoteEdit, Wipe, Crash, ClassifyFails, StashFails,
                ListForBootstrapFails, ListKeysFails, PullBatchFails
  <2>2. CASE SyncStart \/ BootstrapStep
    <3>1. DropStash
      BY <2>2 DEF SyncStart, BootstrapStep, Classify, HadStash, StashCheck, StashRead,
                  StashWrite, ListForBootstrap, DeleteLocal, DeleteDone, ReplayRead,
                  ReplayMerge, ReplayFails, BootstrapIsGuarded, HasStash, Present
    <3> QED
      BY <3>1 DEF DropStash, BootstrapIsGuarded, Present
  <2>3. CASE ExchangeStep
    BY <2>3 DEF ExchangeStep, ReadDirty, Exchange, ExchangeFails, SavePushed,
                SaveReceived, SkipFailed, PushDone, ListKeys, ReceivePlan, ReceiveDone
  <2>4. CASE PullStep
    BY <2>4 DEF PullStep, PullPlan, PullBatch, PullApply, PullOne, PullSkip,
                PullDone, ApplySnapshot
  <2> QED
    BY <2>1, <2>2, <2>3, <2>4 DEF Next, RunStep
<1> QED
  BY <1>1, InductiveInvariant, PTL DEF Spec, StashDroppedOnlyWhenReplayed

----------------------------------------------------------------------------
(* Refinement of DurableChanges                                            *)

\* What the server gets was made here or elsewhere; the device keeps its own.
LEMMA PublishStep ==
  ASSUME TypeOK, made \subseteq made', made' = made, guarded' = guarded, Kept' = Kept, Copies' = Copies,
         Published \subseteq Published',
         Published' \subseteq Published \cup made \cup RemoteChange
  PROVE  Durable!Next
<1>1. \E S \in SUBSET (LocalChange \cup RemoteChange) :
        S \subseteq made \cup RemoteChange /\ Published' = Published \cup S
  <2>1. Published' \ Published \in SUBSET (LocalChange \cup RemoteChange)
    BY DEF Kept, Published
  <2> QED
    BY <2>1
<1> QED
  BY <1>1 DEF Durable!Next, Durable!Publish

\* What the device gets is published.
LEMMA ReceiveStep ==
  ASSUME TypeOK, made' = made, guarded' = guarded, Published' = Published,
         Copies' = Copies, Kept \subseteq Kept', Kept' \subseteq Kept \cup Published
  PROVE  Durable!Next
<1>1. \E S \in SUBSET (LocalChange \cup RemoteChange) :
        S \subseteq Published /\ Kept' = Kept \cup S
  <2>1. Kept' \ Kept \in SUBSET (LocalChange \cup RemoteChange)
    BY DEF Kept, Published
  <2> QED
    BY <2>1
<1> QED
  BY <1>1 DEF Durable!Next, Durable!Receive

\* What the device loses is not owed, or published.
LEMMA LoseStep ==
  ASSUME TypeOK, made' = made, guarded' = guarded, Published' = Published,
         Copies' = Copies, Kept' \subseteq Kept, \A c \in guarded : c \in Kept' \cup Published
  PROVE  Durable!Next
<1>1. \E S \in SUBSET (LocalChange \cup RemoteChange) :
        S \cap guarded \subseteq Published /\ Kept' = Kept \ S
  <2>1. Kept \ Kept' \in SUBSET (LocalChange \cup RemoteChange)
    BY DEF Kept, Published
  <2> QED
    BY <2>1
<1> QED
  BY <1>1 DEF Durable!Next, Durable!Lose

\* What a run copies is on the device, and it may drop its copies at any time.
LEMMA CopyStep ==
  ASSUME TypeOK, local' = local, stash' = stash, server' = server,
         made' = made, guarded' = guarded, run' \in RunType,
         \/ run'.rows \in {run.rows, Empty}
         \/ \A d \in Doc : run'.rows[d] \subseteq local[d] \cup stash[d]
  PROVE  [Durable!Next]_Durable!vars
<1>1. /\ Kept' = Kept /\ Published' = Published
      /\ Copies' = Copies \/ Copies' \subseteq Kept
  BY ConstantsAssumption DEF Kept, Published, Copies
<1>2. Copies' \in SUBSET (LocalChange \cup RemoteChange)
  BY DEF Copies
<1> HIDE DEF Change
<1>3. CASE Copies' = Copies
  BY <1>1, <1>3 DEF Durable!vars
<1>4. CASE Copies' \subseteq Kept
  <2>1. Durable!Copy(Copies')
    BY <1>1, <1>4 DEF Durable!Copy
  <2> QED
    BY <1>2, <2>1 DEF Durable!Next
<1> QED
  BY <1>1, <1>3, <1>4

\* A run writes back what it holds, to the rows or to the stash.
LEMMA WriteBackStep ==
  ASSUME TypeOK, server' = server, made' = made, guarded' = guarded, run'.rows = Empty,
         \A d \in Doc : local'[d] \cup stash'[d] = local[d] \cup stash[d] \cup run.rows[d]
  PROVE  Durable!Next
<1>1. Kept' = Kept \cup Copies /\ Published' = Published /\ Copies' = {}
  BY ConstantsAssumption DEF Kept, Published, Copies
<1> QED
  BY <1>1 DEF Durable!Next, Durable!WriteBack

\* Every step of the synchronisation is one of the store, or changes nothing
\* there.
LEMMA StepRefines ==
  ASSUME Inductive, Inductive', [Next]_vars
  PROVE  [Durable!Next]_Durable!vars
<1> USE DEF Inductive, TypeOK, Kept, Published, Copies
<1>0. \A c \in Change : DocOf[c] \in Doc
  BY ConstantsAssumption
<1>1. ASSUME Kept' = Kept, Copies' = Copies, Published' = Published,
             made' = made, guarded' = guarded
      PROVE  [Durable!Next]_Durable!vars
  BY <1>1 DEF Durable!vars
<1>2. ASSUME local' = local, stash' = stash, server' = server,
             made' = made, guarded' = guarded, run'.rows \in {run.rows, Empty}
      PROVE  [Durable!Next]_Durable!vars
  BY <1>2, CopyStep
\* A merge of published changes into a row.
<1>3. ASSUME NEW d \in Doc, NEW s \in SUBSET Change, s \subseteq server[d], Store(d, s),
             stash' = stash, server' = server, made' = made, guarded' = guarded,
             run'.rows = run.rows
      PROVE  [Durable!Next]_Durable!vars
  <2>1. \A c \in Change : local[DocOf[c]] \subseteq local'[DocOf[c]]
                          /\ local'[DocOf[c]] \subseteq local[DocOf[c]] \cup server[DocOf[c]]
    BY <1>0, <1>3 DEF Store
  <2>2. Kept \subseteq Kept' /\ Kept' \subseteq Kept \cup Published
    BY <2>1, <1>3
  <2> QED
    BY <2>2, <1>3, ReceiveStep
\* Changes that reach the server.
<1>4. ASSUME local' = local, stash' = stash, made' = made, guarded' = guarded,
             run'.rows = run.rows,
             \A d \in Doc : server[d] \subseteq server'[d],
             \A c \in Change : c \in server'[DocOf[c]]
                => c \in server[DocOf[c]] \cup made \cup RemoteChange
      PROVE  [Durable!Next]_Durable!vars
  <2>1. Kept' = Kept /\ Copies' = Copies
    BY <1>4
  <2>2. Published \subseteq Published' /\ Published' \subseteq Published \cup made \cup RemoteChange
    BY <1>0, <1>4
  <2> QED
    BY <2>1, <2>2, <1>4, PublishStep
<1>5. ASSUME NEW c \in LocalChange, Edit(c) PROVE [Durable!Next]_Durable!vars
  <2>1. \A b \in Change : b \in local'[DocOf[b]] <=> b \in local[DocOf[b]] \/ b = c
    BY <1>0, <1>5 DEF Edit
  <2>2. Kept' = Kept \cup {c} /\ Published' = Published /\ Copies' = Copies
    BY <1>5, <2>1 DEF Edit
  <2>3. guarded' = guarded \/ guarded' = guarded \cup {c}
    BY <1>5 DEF Edit
  <2>4. c \notin made /\ made' = made \cup {c}
    BY <1>5 DEF Edit
  <2> HIDE DEF Kept, Published, Copies
  <2>5. Durable!Make(c)
    BY <2>2, <2>3, <2>4 DEF Durable!Make
  <2> QED
    BY <2>5 DEF Durable!Next
<1>6. CASE Wipe
  <2>1. /\ Kept' = {} /\ Published' = Published /\ Copies' = Copies
        /\ guarded' = {} /\ made' = made
    BY <1>0, <1>6 DEF Wipe
  <2> HIDE DEF Kept, Published, Copies
  <2>2. Durable!Forget
    BY <2>1 DEF Durable!Forget
  <2> QED
    BY <2>2 DEF Durable!Next
<1>7. ASSUME NEW c \in RemoteChange, RemoteEdit(c) PROVE [Durable!Next]_Durable!vars
  BY <1>4, <1>7 DEF RemoteEdit
\* Steps after which the run holds the same copies or none.
<1>8. CASE \/ Crash \/ ListForBootstrapFails \/ ListKeysFails \/ PullBatchFails
           \/ SyncStart \/ ListForBootstrap \/ DeleteDone \/ ReplayFails
  <2>1. SameCopies
    BY <1>8, DiscoveredCopies, EndRunCopies
       DEF Crash, ListForBootstrapFails, ListKeysFails, PullBatchFails, SyncStart, NoRun,
           ListForBootstrap, DeleteDone, ReplayFails, SameCopies
  <2> QED
    BY <1>2, <1>8, <2>1
       DEF Crash, ListForBootstrapFails, ListKeysFails, PullBatchFails, SyncStart,
           ListForBootstrap, DeleteDone, ReplayFails, SameCopies
<1>9. CASE ClassifyFails \/ StashFails \/ Classify \/ HadStash \/ StashCheck
  <2>1. run'.rows \in {run.rows, Empty}
    BY <1>9 DEF ClassifyFails, Bootstrap, StashFails, Classify, HadStash, StashCheck, RunType
  <2> QED
    BY <1>2, <1>9, <2>1 DEF ClassifyFails, StashFails, Classify, HadStash, StashCheck
<1>20. CASE StashRead \/ ReplayRead \/ ReadDirty \/ ReceivePlan
  <2>1. \/ run'.rows = run.rows
        \/ \A d \in Doc : run'.rows[d] \subseteq local[d] \cup stash[d]
    <3>1. CASE StashRead
      BY <3>1 DEF StashRead, RunType
    <3>2. CASE ReplayRead \/ ReadDirty \/ ReceivePlan
      <4>1. run'.rows \in {local, stash}
        BY <3>2 DEF ReplayRead, ReadDirty, ReceivePlan, RunType
      <4> QED
        BY <4>1
    <3> QED
      BY <1>20, <3>1, <3>2
  <2> QED
    BY <1>20, <2>1, CopyStep DEF StashRead, ReplayRead, ReadDirty, ReceivePlan
<1>21. CASE StashWrite \/ ReplayMerge
  <2>1. run'.rows = Empty
    BY <1>21 DEF StashWrite, ReplayMerge, RunType
  <2>2. ASSUME NEW d \in Doc
        PROVE  local'[d] \cup stash'[d] = local[d] \cup stash[d] \cup run.rows[d]
    <3>1. CASE StashWrite
      <4>1. stash[d] = {}
        BY <3>1 DEF StashWrite, BootstrapIsGuarded, HasStash, Present
      <4> QED
        BY <3>1, <4>1 DEF StashWrite
    <3>2. CASE ReplayMerge
      BY <3>2 DEF ReplayMerge
    <3> QED
      BY <1>21, <3>1, <3>2
  <2> QED
    BY <1>21, <2>1, <2>2, WriteBackStep DEF StashWrite, ReplayMerge
<1>10. ASSUME NEW d \in Doc, DeleteLocal(d) PROVE [Durable!Next]_Durable!vars
  <2>1. Kept' \subseteq Kept
    BY <1>0, <1>10 DEF DeleteLocal
  <2>2. \A c \in guarded : c \in Kept' \cup Published
    BY <1>10, <1>0 DEF DeleteLocal, GuardedChangesCovered
  <2>3. Copies' = Copies
    BY <1>10 DEF DeleteLocal, RunType
  <2> QED
    BY <2>1, <2>2, <2>3, <1>10, LoseStep DEF DeleteLocal
<1>12. CASE DropStash
  <2>1. \A d \in Doc : stash[d] \subseteq local[d] /\ stash'[d] = {}
    BY <1>12 DEF DropStash, BootstrapIsGuarded, Present
  <2>2. Kept' = Kept
    BY <2>1, <1>0, <1>12 DEF DropStash
  <2>3. Copies' = Copies
    BY <1>12 DEF DropStash, RunType
  <2> QED
    BY <1>1, <1>12, <2>2, <2>3 DEF DropStash
<1>13. CASE PushDone \/ ListKeys \/ ReceiveDone
  <2>1. run'.rows \in {run.rows, Empty}
    BY <1>13 DEF PushDone, ListKeys, ReceiveDone, RunType
  <2> QED
    BY <1>2, <1>13, <2>1 DEF PushDone, ListKeys, ReceiveDone
<1>14. ASSUME NEW d \in Doc, Exchange(d) \/ ExchangeFails(d)
       PROVE  [Durable!Next]_Durable!vars
  <2>1. server' = server \/ server' = [server EXCEPT ![d] = @ \cup run.rows[d]]
    BY <1>14 DEF Exchange, ExchangeFails
  <2>2. \A e \in Doc : server[e] \subseteq server'[e]
    BY <2>1
  <2>3. \A c \in Change : c \in server'[DocOf[c]]
          => c \in server[DocOf[c]] \cup made \cup RemoteChange
    BY <2>1, <1>0 DEF ChangesHaveAnOrigin
  <2>4. run'.rows = run.rows
    BY <1>14 DEF Exchange, ExchangeFails, RunType
  <2> QED
    BY <1>4, <1>14, <2>2, <2>3, <2>4 DEF Exchange, ExchangeFails
<1>15. ASSUME NEW d \in Doc, SavePushed(d) \/ SaveReceived(d)
       PROVE  [Durable!Next]_Durable!vars
  <2>1. CASE Clash(local[d], run.got[d])
    BY <1>2, <1>15, <2>1, EndRunCopies DEF SavePushed, SaveReceived, SameCopies
  <2>2. CASE ~Clash(local[d], run.got[d])
    <3>1. run.got[d] \in SUBSET Change /\ run.got[d] \subseteq server[d]
      BY DEF RunType, ChangesHaveAnOrigin
    <3>2. run'.rows = run.rows
      BY <1>15, <2>2 DEF SavePushed, SaveReceived, RunType
    <3> QED
      BY <1>3, <1>15, <2>2, <3>1, <3>2 DEF SavePushed, SaveReceived
  <2> QED
    BY <2>1, <2>2
<1>16. ASSUME NEW d \in Doc, NEW s \in SUBSET Change, s \subseteq server[d], ApplySnapshot(d, s)
       PROVE  [Durable!Next]_Durable!vars
  <2>1. CASE Clash(local[d], s)
    <3>1. SameCopies
      BY <1>16, <2>1, AfterPullCopies DEF ApplySnapshot
    <3> QED
      BY <1>2, <1>16, <2>1, <3>1 DEF ApplySnapshot, SameCopies
  <2>2. CASE ~Clash(local[d], s)
    <3>1. run'.rows = run.rows
      BY <1>16, <2>2 DEF ApplySnapshot, RunType
    <3> QED
      BY <1>3, <1>16, <2>2, <3>1 DEF ApplySnapshot
  <2> QED
    BY <2>1, <2>2
<1>17. ASSUME NEW d \in Doc, SkipFailed(d) \/ PullSkip(d)
       PROVE  [Durable!Next]_Durable!vars
  <2>1. run'.rows = run.rows
    BY <1>17 DEF SkipFailed, PullSkip, RunType
  <2> QED
    BY <1>2, <1>17, <2>1 DEF SkipFailed, PullSkip
<1>22. ASSUME NEW d \in Doc, PullApply(d) \/ PullOne(d)
       PROVE  [Durable!Next]_Durable!vars
  <2>1. run.got[d] \in SUBSET Change /\ run.got[d] \subseteq server[d]
    BY DEF RunType, ChangesHaveAnOrigin
  <2>2. server[d] \in SUBSET Change
    OBVIOUS
  <2> QED
    BY <1>16, <1>22, <2>1, <2>2 DEF PullApply, PullOne
<1>18. CASE PullPlan \/ PullBatch \/ PullDone
  <2>1. CASE AfterPull(TRUE)
    BY <1>2, <1>18, <2>1, AfterPullCopies DEF PullPlan, PullBatch, PullDone, SameCopies
  <2>2. CASE ~AfterPull(TRUE)
    <3>1. run'.rows = run.rows
      BY <1>18, <2>2 DEF PullPlan, PullBatch, PullDone, RunType
    <3> QED
      BY <1>2, <1>18, <3>1 DEF PullPlan, PullBatch, PullDone
  <2> QED
    BY <2>1, <2>2
<1>19. CASE UNCHANGED vars
  BY <1>2, <1>19 DEF vars
<1> QED
  BY <1>5, <1>6, <1>7, <1>8, <1>9, <1>10, <1>12, <1>13, <1>14, <1>15, <1>17,
     <1>18, <1>19, <1>20, <1>21, <1>22
     DEF Next, Environment, RunStep, BootstrapStep, ExchangeStep, PullStep

\* The synchronisation implements the durable store of changes.
THEOREM DurableChangesImplemented == Spec => ImplementsDurableChanges
<1>1. Init => Durable!Init
  BY ConstantsAssumption DEF Init, Durable!Init, Kept, Copies, Published, NoRun
<1>2. Inductive /\ Inductive' /\ [Next]_vars => [Durable!Next]_Durable!vars
  BY StepRefines
<1> QED
  BY <1>1, <1>2, InductiveInvariant, PTL DEF Spec, Durable!Spec, ImplementsDurableChanges
=============================================================================
