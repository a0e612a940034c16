---------------------------- MODULE ArrayFilterProofs --------------------------
(***************************************************************************)
(* What the filter of an array leaves, for any array.  The least of a set  *)
(* of positions exists; so every rank up to their number is taken, once;   *)
(* so the kept items are items of the array, each once and in order.       *)
(***************************************************************************)
EXTENDS ArrayFilter, TLAPS, FiniteSetTheorems, SequenceTheorems,
        WellFoundedInduction

-----------------------------------------------------------------------------
(* Numbers and arrays *)

(* A set of naturals that is not empty has a least element.                *)
LEMMA LeastExists ==
  ASSUME NEW S \in SUBSET Nat, S # {}
  PROVE  \E i \in S : \A j \in S : i <= j
<1> DEFINE Less == OpToRel(<, Nat)
<1>1. \A i, j \in Nat : <<j, i>> \in Less <=> j < i
  BY DEF OpToRel
<1>2. IsWellFoundedOn(Less, Nat)
  BY NatLessThanWellFounded
<1> HIDE DEF Less
<1>3. S \subseteq Nat
  OBVIOUS
<1>4. \E i \in S : \A j \in S : ~(<<j, i>> \in Less)
  BY <1>2, <1>3, WFMin, Zenon
<1>5. PICK i \in S : \A j \in S : ~(<<j, i>> \in Less)
  BY <1>4
<1>6. \A j \in S : ~(j < i)
  BY <1>1, <1>5
<1>7. \A j \in S : i <= j
  BY <1>6
<1> QED BY <1>7

(* A set of positions that is not empty has a greatest element.            *)
LEMMA GreatestExists ==
  ASSUME NEW n \in Nat, NEW S \in SUBSET (1..n), S # {}
  PROVE  \E k \in S : \A l \in S : l <= k
<1> DEFINE T == {n - k : k \in S}
<1>1. T \in SUBSET Nat /\ T # {}
  <2>1. \A k \in S : k \in Nat /\ k <= n
    OBVIOUS
  <2>2. \A k \in S : n - k \in Nat
    BY <2>1
  <2> QED BY <2>2
<1>2. PICK t \in T : \A u \in T : t <= u
  BY <1>1, LeastExists
<1>3. PICK k \in S : t = n - k
  BY <1>2
<1>4. ASSUME NEW l \in S PROVE l <= k
  <2>1. n - k <= n - l
    BY <1>2, <1>3
  <2> QED BY <2>1
<1> QED BY <1>4

(* Induction along an array: a set that holds 0 and, with a position that  *)
(* is not the last, the next one, holds them all.                          *)
LEMMA AlongArray ==
  ASSUME NEW n \in Nat, NEW T, 0 \in T, \A i \in 0..n : i # n /\ i \in T => i + 1 \in T
  PROVE  \A i \in 0..n : i \in T
<1> DEFINE Out == {i \in 0..n : i \notin T}
<1> SUFFICES ASSUME Out # {} PROVE FALSE
  OBVIOUS
<1>1. PICK i \in Out : \A j \in Out : i <= j
  <2>1. Out \in SUBSET Nat
    OBVIOUS
  <2> QED BY <2>1, LeastExists
<1>2. i \in 0..n /\ i \notin T /\ i # 0
  BY <1>1
<1>3. i - 1 \in 0..n /\ i - 1 # n /\ ~(i <= i - 1)
  BY <1>2
<1>4. i - 1 \in T
  BY <1>1, <1>3
<1>5. (i - 1) + 1 \in T
  BY <1>3, <1>4
<1> QED BY <1>2, <1>5

(* Recursion along an array: a value is carried from 0 to n, the step i    *)
(* maps it with F.                                                         *)
Carries(f, n, b, F) == f[0] = b /\ \A i \in 1..n : f[i] = F[i][f[i - 1]]

LEMMA CarriedExists ==
  ASSUME NEW n \in Nat, NEW X, NEW b \in X, NEW F \in [1..n -> [X -> X]]
  PROVE  \E f \in [0..n -> X] : Carries(f, n, b, F)
<1> DEFINE Upto(k) == \E f \in [0..k -> X] : f[0] = b /\ \A i \in 1..k : f[i] = F[i][f[i - 1]]
           T == {k \in 0..n : Upto(k)}
<1>1. 0 \in T
  <2>1. [i \in 0..0 |-> b] \in [0..0 -> X] /\ 1..0 = {}
    OBVIOUS
  <2>2. [i \in 0..0 |-> b][0] = b
    OBVIOUS
  <2>3. Upto(0)
    BY <2>1, <2>2
  <2>4. 0 \in 0..n
    OBVIOUS
  <2> QED BY <2>3, <2>4
<1>2. ASSUME NEW k \in 0..n, k # n, k \in T PROVE k + 1 \in T
  <2>1. PICK f \in [0..k -> X] : f[0] = b /\ \A i \in 1..k : f[i] = F[i][f[i - 1]]
    BY <1>2
  <2> DEFINE g == [i \in 0..(k + 1) |-> IF i = k + 1 THEN F[k + 1][f[k]] ELSE f[i]]
  <2>2. k + 1 \in 1..n /\ f[k] \in X
    BY <1>2
  <2>3. F[k + 1][f[k]] \in X
    BY <2>2
  <2>4. g \in [0..(k + 1) -> X] /\ g[0] = b
    BY <2>1, <2>3
  <2>5. ASSUME NEW i \in 1..(k + 1) PROVE g[i] = F[i][g[i - 1]]
    <3>1. CASE i = k + 1
      <4>1. g[i] = F[k + 1][f[k]] /\ g[i - 1] = f[k]
        BY <3>1
      <4> QED BY <3>1, <4>1
    <3>2. CASE i # k + 1
      <4>1. i \in 1..k /\ i - 1 \in 0..k /\ i - 1 # k + 1 /\ i \in 0..(k + 1) /\ i - 1 \in 0..(k + 1)
        BY <3>2
      <4>2. g[i] = f[i] /\ g[i - 1] = f[i - 1]
        BY <3>2, <4>1
      <4> QED BY <2>1, <4>1, <4>2
    <3> QED BY <3>1, <3>2
  <2> HIDE DEF g
  <2>6. Upto(k + 1)
    BY <2>4, <2>5
  <2>7. k + 1 \in 0..n
    BY <1>2
  <2> QED BY <2>6, <2>7
<1> HIDE DEF T
<1>3. \A k \in 0..n : k \in T
  BY <1>1, <1>2, AlongArray
<1>4. n \in 0..n
  OBVIOUS
<1>5. Upto(n)
  BY <1>3, <1>4 DEF T
<1> QED BY <1>5 DEF Carries

LEMMA FunctionIsSeq ==
  ASSUME NEW S, NEW n \in Nat, NEW f \in [1..n -> S]
  PROVE  f \in Seq(S) /\ Len(f) = n
OBVIOUS

LEMMA SeqFacts ==
  ASSUME NEW S, NEW q \in Seq(S)
  PROVE  /\ Len(q) \in Nat
         /\ DOMAIN q = 1..Len(q)
         /\ \A i \in DOMAIN q : q[i] \in S
         /\ IsFiniteSet(DOMAIN q)
BY FS_Interval

LEMMA AppendFacts ==
  ASSUME NEW S, NEW q \in Seq(S), NEW e \in S
  PROVE  /\ Append(q, e) \in Seq(S)
         /\ DOMAIN Append(q, e) = 1..(Len(q) + 1)
         /\ Append(q, e)[Len(q) + 1] = e
         /\ \A i \in 1..Len(q) : Append(q, e)[i] = q[i]
OBVIOUS

-----------------------------------------------------------------------------
(* Ranks *)

LEMMA PositionsLemma ==
  ASSUME NEW n \in Nat, NEW K \in SUBSET (1..n)
  PROVE  /\ IsFiniteSet(K) /\ Cardinality(K) \in Nat
         /\ \A j \in K : j \in Nat /\ 1 <= j /\ j <= n
<1>1. IsFiniteSet(1..n)
  BY FS_Interval
<1>2. IsFiniteSet(K)
  BY <1>1, FS_Subset
<1>3. Cardinality(K) \in Nat
  BY <1>2, FS_CardinalityType
<1> QED BY <1>2, <1>3

(* Ranks count one by one.                                                 *)
LEMMA RankStep ==
  ASSUME NEW n \in Nat, NEW K \in SUBSET (1..n), NEW i \in 1..n
  PROVE  /\ Rank(K, i - 1) \in Nat
         /\ Rank(K, i) = IF i \in K THEN Rank(K, i - 1) + 1 ELSE Rank(K, i - 1)
<1> DEFINE Below == {j \in K : j <= i - 1}
<1>0. \A j \in K : j \in Nat /\ 1 <= j /\ j <= n
  BY PositionsLemma
<1>1. Below \in SUBSET (1..n) /\ i \notin Below
  <2>1. Below \subseteq 1..n
    BY <1>0
  <2>2. ~(i <= i - 1)
    OBVIOUS
  <2> QED BY <2>1, <2>2
<1>2. IsFiniteSet(Below) /\ Cardinality(Below) \in Nat
  BY <1>1, PositionsLemma
<1>3. {j \in K : j <= i} = IF i \in K THEN Below \cup {i} ELSE Below
  <2>1. \A j \in K : j <= i <=> j <= i - 1 \/ j = i
    BY <1>0
  <2>2. \A j : j \in {x \in K : x <= i} <=> j \in IF i \in K THEN Below \cup {i} ELSE Below
    BY <2>1
  <2> QED BY <2>2
<1>4. Cardinality(Below \cup {i}) = Cardinality(Below) + 1
  BY <1>1, <1>2, FS_AddElement
<1> QED BY <1>2, <1>3, <1>4 DEF Rank

(* Every rank up to the number of positions is somebody's.                 *)
LEMMA RankExists ==
  ASSUME NEW n \in Nat, NEW K \in SUBSET (1..n), NEW k \in 1..Cardinality(K)
  PROVE  \E i \in K : Rank(K, i) = k
<1>0. \A x \in K : x \in Nat /\ 1 <= x /\ x <= n
  BY PositionsLemma
<1>1. IsFiniteSet(K) /\ Cardinality(K) \in Nat
  BY PositionsLemma
<1>2. Rank(K, 0) = 0
  <2>1. {j \in K : j <= 0} = {}
    <3>1. \A j \in K : ~(j <= 0)
      BY <1>0
    <3> QED BY <3>1
  <2> QED BY <2>1, FS_EmptySet DEF Rank
<1>3. Rank(K, n) = Cardinality(K)
  <2>1. {j \in K : j <= n} = K
    BY <1>0
  <2> QED BY <2>1 DEF Rank
<1>4. n \in 1..n
  <2>1. K # {}
    BY <1>1, FS_EmptySet
  <2>2. PICK x \in K : TRUE
    BY <2>1
  <2> QED BY <1>0, <2>2
<1> DEFINE Enough == {i \in 1..n : k <= Rank(K, i)}
<1>5. Enough \in SUBSET Nat /\ Enough # {}
  BY <1>3, <1>4, <1>1
<1>6. PICK m \in Enough : \A j \in Enough : m <= j
  BY <1>5, LeastExists
<1>7. /\ m \in 1..n /\ k <= Rank(K, m)
      /\ Rank(K, m - 1) \in Nat
      /\ Rank(K, m) = IF m \in K THEN Rank(K, m - 1) + 1 ELSE Rank(K, m - 1)
  BY <1>6, RankStep
<1>8. Rank(K, m - 1) < k
  <2>1. CASE m = 1
    BY <1>1, <1>2, <2>1
  <2>2. CASE m # 1
    <3>1. m - 1 \in 1..n /\ ~(m <= m - 1)
      BY <1>7, <2>2
    <3>2. ~(k <= Rank(K, m - 1))
      BY <1>6, <3>1
    <3> QED BY <1>1, <1>7, <3>2
  <2> QED BY <2>1, <2>2
<1> QED BY <1>1, <1>7, <1>8

(* Nobody else has it.                                                     *)
LEMMA RankInjective ==
  ASSUME NEW n \in Nat, NEW K \in SUBSET (1..n), NEW i \in K, NEW j \in K, i < j
  PROVE  Rank(K, i) < Rank(K, j) /\ Rank(K, j) \in 1..Cardinality(K)
<1> DEFINE Upto(x) == {y \in K : y <= x}
<1>0. \A x \in K : x \in Nat /\ 1 <= x /\ x <= n
  BY PositionsLemma
<1>1. IsFiniteSet(K) /\ Cardinality(K) \in Nat
  BY PositionsLemma
<1>2. IsFiniteSet(Upto(i)) /\ IsFiniteSet(Upto(j)) /\ Cardinality(Upto(j)) <= Cardinality(K)
  BY <1>1, FS_Subset
<1>3. j \notin Upto(i) /\ Upto(i) \cup {j} \in SUBSET Upto(j)
  <2>1. ~(j <= i) /\ j <= j /\ \A y \in K : y <= i => y <= j
    BY <1>0
  <2>2. \A y \in Upto(i) \cup {j} : y \in K /\ y <= j
    BY <2>1
  <2> QED BY <2>1, <2>2
<1>4. Cardinality(Upto(i) \cup {j}) = Cardinality(Upto(i)) + 1
  BY <1>2, <1>3, FS_AddElement
<1>5. Cardinality(Upto(i) \cup {j}) <= Cardinality(Upto(j))
  BY <1>2, <1>3, FS_Subset
<1>6. Cardinality(Upto(i)) \in Nat /\ Cardinality(Upto(j)) \in Nat
  BY <1>2, FS_CardinalityType
<1> QED BY <1>1, <1>2, <1>4, <1>5, <1>6 DEF Rank

(* What filter() leaves: the items at the positions K, each of them once,  *)
(* in their order.                                                         *)
LEMMA FilterLemma ==
  ASSUME NEW S, NEW q \in Seq(S), NEW K \in SUBSET DOMAIN q
  PROVE  /\ KeepOnly(q, K) \in Seq(S)
         /\ \E pi \in [DOMAIN KeepOnly(q, K) -> DOMAIN q] :
              /\ \A k \in DOMAIN KeepOnly(q, K) : pi[k] \in K /\ KeepOnly(q, K)[k] = q[pi[k]]
              /\ \A k, l \in DOMAIN KeepOnly(q, K) : pi[k] = pi[l] => k = l
              /\ \A i \in K : \E k \in DOMAIN KeepOnly(q, K) : pi[k] = i
              /\ \A k, l \in DOMAIN KeepOnly(q, K) : k < l => pi[k] < pi[l]
<1>1. Len(q) \in Nat /\ DOMAIN q = 1..Len(q) /\ \A i \in DOMAIN q : q[i] \in S
  BY SeqFacts
<1>2. K \in SUBSET (1..Len(q)) /\ Cardinality(K) \in Nat
  BY <1>1, PositionsLemma
<1> DEFINE C == 1..Cardinality(K)
           pi == [k \in C |-> CHOOSE i \in K : Rank(K, i) = k]
           kept == KeepOnly(q, K)
<1>3. ASSUME NEW k \in C PROVE pi[k] \in K /\ Rank(K, pi[k]) = k
  <2>1. \E i \in K : Rank(K, i) = k
    BY <1>1, <1>2, RankExists
  <2> QED BY <2>1
<1>4. /\ DOMAIN kept = C
      /\ \A k \in C : kept[k] = q[pi[k]]
  BY DEF KeepOnly
<1>5. pi \in [C -> DOMAIN q]
  BY <1>3
<1> HIDE DEF pi
<1>6. kept \in Seq(S)
  <2>1. kept \in [C -> S]
    <3>1. kept = [k \in C |-> kept[k]]
      BY DEF KeepOnly
    <3>2. \A k \in C : kept[k] \in S
      BY <1>1, <1>4, <1>5
    <3> HIDE DEF kept
    <3> QED BY <3>1, <3>2
  <2> HIDE DEF kept
  <2> QED BY <1>2, <2>1, FunctionIsSeq
<1>7. \A k, l \in C : pi[k] = pi[l] => k = l
  BY <1>3
<1>9. ASSUME NEW i \in K PROVE \E k \in C : pi[k] = i
  <2>1. Rank(K, i) \in C
    <3>1. Rank(K, i) \in Nat /\ Rank(K, i) <= Cardinality(K) /\ 1 <= Rank(K, i)
      <4> DEFINE Upto == {y \in K : y <= i}
      <4>0. IsFiniteSet(K) /\ i \in Nat
        BY <1>1, <1>2, PositionsLemma
      <4>1. i \in Upto /\ Upto \in SUBSET K /\ IsFiniteSet(K)
        BY <4>0
      <4>2. IsFiniteSet(Upto) /\ Cardinality(Upto) <= Cardinality(K)
        BY <4>1, FS_Subset
      <4>3. Cardinality(Upto) \in Nat /\ Cardinality(Upto) # 0
        BY <4>1, <4>2, FS_CardinalityType, FS_EmptySet
      <4> QED BY <4>2, <4>3 DEF Rank
    <3> QED BY <1>2, <3>1
  <2>2. pi[Rank(K, i)] \in K /\ Rank(K, pi[Rank(K, i)]) = Rank(K, i)
    BY <1>3, <2>1
  <2>3. ~(pi[Rank(K, i)] < i) /\ ~(i < pi[Rank(K, i)])
    <3>1. ASSUME NEW x \in K, NEW y \in K, x < y, Rank(K, x) = Rank(K, y) PROVE FALSE
      <4>1. Rank(K, x) < Rank(K, y) /\ Rank(K, y) \in 1..Cardinality(K)
        BY <1>1, <1>2, <3>1, RankInjective
      <4> QED BY <1>2, <3>1, <4>1
    <3> QED BY <2>2, <3>1
  <2>4. pi[Rank(K, i)] = i
    BY <1>1, <1>2, <2>2, <2>3
  <2> QED BY <2>1, <2>4
<1>10. ASSUME NEW k \in C, NEW l \in C, k < l PROVE pi[k] < pi[l]
  <2>1. pi[k] \in K /\ pi[l] \in K /\ Rank(K, pi[k]) = k /\ Rank(K, pi[l]) = l
    BY <1>3
  <2>2. pi[k] \in Nat /\ pi[l] \in Nat
    BY <1>1, <1>2, <2>1
  <2>3. CASE pi[l] < pi[k]
    <3>1. Rank(K, pi[l]) < Rank(K, pi[k])
      BY <1>1, <1>2, <2>1, <2>3, RankInjective
    <3> QED BY <1>2, <1>10, <2>1, <3>1
  <2>4. CASE pi[l] = pi[k]
    BY <1>2, <1>10, <2>1, <2>4
  <2> QED BY <2>2, <2>3, <2>4
<1> QED BY <1>2, <1>3, <1>4, <1>5, <1>6, <1>7, <1>9, <1>10

================================================================================
