--------------------------- MODULE PeerGossipProofs ---------------------------
(***************************************************************************)
(* Proofs about PeerGossip.                                                *)
(***************************************************************************)
EXTENDS PeerGossip, FiniteSetTheorems, SequenceTheorems, TLAPS

-----------------------------------------------------------------------------
(* What Retain returns.  A list of the places that are kept, by ascending  *)
(* place, is unique, and Retain reads the entries along it.                *)

Ascends(g, n, K) ==
    /\ g \in [1..n -> K]
    /\ \A a, b \in 1..n: a < b => g[a] < g[b]
    /\ \A i \in K: \E k \in 1..n: g[k] = i

Rank(K, i) == Cardinality({j \in K: j <= i})

(* The rank of the k-th place of an ascending list is k.                   *)
LEMMA AscendsRank ==
    ASSUME NEW n \in Nat, NEW K, K \subseteq Nat, NEW g, Ascends(g, n, K)
    PROVE  /\ IsFiniteSet(K) /\ Cardinality(K) = n
           /\ \A k \in 1..n: Rank(K, g[k]) = k
<1>1. \A a, b \in 1..n: g[a] = g[b] => a = b
    <2>1. SUFFICES ASSUME NEW a \in 1..n, NEW b \in 1..n, g[a] = g[b], a # b PROVE FALSE
        OBVIOUS
    <2>2. g[a] \in Nat
        BY DEF Ascends
    <2>3. a < b \/ b < a
        BY <2>1
    <2>4. g[a] < g[b] \/ g[b] < g[a]
        BY <2>3 DEF Ascends
    <2> QED
        BY <2>1, <2>2, <2>4
<1>2. ASSUME NEW k \in 0..n, NEW T, T = {g[i]: i \in 1..k}
      PROVE  IsFiniteSet(T) /\ Cardinality(T) = k
    <2> DEFINE h == [i \in 1..k |-> g[i]]
    <2>1. h \in Bijection(1..k, T)
        BY <1>1, <1>2 DEF Bijection, Injection, Surjection, IsInjective
    <2>2. ExistsBijection(1..k, T)
        BY <2>1 DEF ExistsBijection
    <2>3. IsFiniteSet(1..k) /\ Cardinality(1..k) = k
        BY FS_Interval
    <2> QED
        BY <2>2, <2>3, FS_Bijection
<1>3. IsFiniteSet(K) /\ Cardinality(K) = n
    <2>1. K = {g[i]: i \in 1..n}
        BY DEF Ascends
    <2> QED
        BY <1>2, <2>1
<1>4. ASSUME NEW k \in 1..n PROVE Rank(K, g[k]) = k
    <2>1. {j \in K: j <= g[k]} = {g[i]: i \in 1..k}
        <3>1. ASSUME NEW i \in 1..n PROVE g[i] <= g[k] <=> i <= k
            <4>1. g[i] \in Nat /\ g[k] \in Nat
                BY DEF Ascends
            <4>2. i < k \/ i = k \/ k < i
                OBVIOUS
            <4> QED
                BY <4>1, <4>2 DEF Ascends
        <3>2. \A j \in K: j <= g[k] => \E i \in 1..k: g[i] = j
            BY <3>1 DEF Ascends
        <3>3. \A i \in 1..k: g[i] \in K /\ g[i] <= g[k]
            BY <3>1 DEF Ascends
        <3> QED
            BY <3>2, <3>3
    <2> QED
        BY <1>2, <2>1 DEF Rank
<1> QED
    BY <1>3, <1>4

(* Every finite set of places has an ascending list.                       *)
LEMMA AscendsExists ==
    ASSUME NEW K, K \subseteq Nat, IsFiniteSet(K)
    PROVE  /\ Cardinality(K) \in Nat
           /\ \E g: Ascends(g, Cardinality(K), K)
<1> DEFINE n == Cardinality(K)
<1> DEFINE r == [i \in K |-> Rank(K, i)]
<1>1. n \in Nat
    BY FS_CardinalityType
<1>2. ASSUME NEW i \in K, NEW j \in K, i < j PROVE Rank(K, i) < Rank(K, j)
    <2> DEFINE A == {m \in K: m <= i}
    <2> DEFINE B == {m \in K: m <= j}
    <2>0. i \in Nat /\ j \in Nat /\ ~(j <= i) /\ j <= j
        BY <1>2
    <2>a. ASSUME NEW m \in K, m <= i PROVE m <= j
        <3>1. m \in Nat
            OBVIOUS
        <3> QED
            BY <1>2, <2>0, <2>a, <3>1
    <2>1. A \subseteq B /\ B \subseteq K /\ j \in B /\ j \notin A
        BY <2>0, <2>a
    <2> HIDE DEF A, B
    <2>2. IsFiniteSet(B)
        BY <2>1, FS_Subset
    <2>3. Cardinality(A) <= Cardinality(B) /\ (Cardinality(B) = Cardinality(A) => B = A)
        BY <2>1, <2>2, FS_Subset
    <2>4. Cardinality(A) \in Nat /\ Cardinality(B) \in Nat
        BY <2>1, <2>2, FS_Subset, FS_CardinalityType
    <2>5. Cardinality(A) < Cardinality(B)
        BY <2>1, <2>3, <2>4
    <2> QED
        BY <2>5 DEF A, B, Rank
<1>3. ASSUME NEW i \in K PROVE Rank(K, i) \in 1..n
    <2> DEFINE A == {m \in K: m <= i}
    <2>1. A \subseteq K /\ i \in A
        OBVIOUS
    <2> HIDE DEF A
    <2>2. IsFiniteSet(A) /\ Cardinality(A) <= n
        BY <2>1, FS_Subset
    <2>3. Cardinality(A) \in Nat /\ Cardinality(A) # 0
        BY <2>1, <2>2, FS_CardinalityType, FS_EmptySet
    <2>4. Cardinality(A) \in 1..n
        BY <1>1, <2>2, <2>3
    <2> QED
        BY <2>4 DEF A, Rank
<1>4. \A i, j \in K: Rank(K, i) = Rank(K, j) => i = j
    <2>1. \A i, j \in K: i \in Nat /\ j \in Nat /\ (i < j \/ j < i \/ i = j)
        OBVIOUS
    <2>2. \A i \in K: Rank(K, i) \in Nat
        BY <1>1, <1>3
    <2> QED
        BY <1>2, <2>1, <2>2
<1>5. r \in Injection(K, 1..n)
    BY <1>3, <1>4 DEF Injection, IsInjective
<1>6. IsFiniteSet(1..n) /\ Cardinality(1..n) = n
    BY <1>1, FS_Interval
<1>7. r \in Surjection(K, 1..n)
    BY <1>5, <1>6, FS_Injection
<1>8. \A k \in 1..n: \E i \in K: Rank(K, i) = k
    BY <1>7 DEF Surjection
<1> DEFINE g == [k \in 1..n |-> CHOOSE i \in K: Rank(K, i) = k]
<1>9. \A k \in 1..n: g[k] \in K /\ Rank(K, g[k]) = k
    BY <1>8
<1> HIDE DEF g
<1>10. ASSUME NEW a \in 1..n, NEW b \in 1..n, a < b PROVE g[a] < g[b]
    <2>1. g[a] \in K /\ g[b] \in K /\ g[a] \in Nat /\ g[b] \in Nat
        BY <1>9
    <2>2. Rank(K, g[a]) = a /\ Rank(K, g[b]) = b
        BY <1>9
    <2>3. CASE g[b] < g[a]
        <3>1. Rank(K, g[b]) < Rank(K, g[a])
            BY <1>2, <2>1, <2>3
        <3>2. b < a
            BY <2>2, <3>1
        <3> QED
            BY <1>10, <3>2
    <2>4. CASE g[b] = g[a]
        BY <1>10, <2>2, <2>4
    <2> QED
        BY <2>1, <2>3, <2>4
<1>11. \A i \in K: \E k \in 1..n: g[k] = i
    BY <1>3, <1>4, <1>9
<1>12. g \in [1..n -> K]
    BY <1>9 DEF g
<1>13. Ascends(g, n, K)
    BY <1>10, <1>11, <1>12 DEF Ascends
<1> QED
    BY <1>1, <1>13

LEMMA KeptPlaces ==
    ASSUME NEW S, NEW s \in Seq(S), NEW T
    PROVE  /\ Kept(s, T) = {i \in 1..Len(s): s[i] \in T}
           /\ Kept(s, T) \subseteq Nat /\ IsFiniteSet(Kept(s, T))
<1>1. Kept(s, T) = {i \in 1..Len(s): s[i] \in T}
    BY DEF Kept
<1>2. IsFiniteSet(1..Len(s))
    BY FS_Interval
<1> QED
    BY <1>1, <1>2, FS_Subset

(* Retain reads the entries along any ascending list of the places kept.   *)
LEMMA RetainReads ==
    ASSUME NEW S, NEW s \in Seq(S), NEW T, NEW n \in Nat, NEW g, Ascends(g, n, Kept(s, T))
    PROVE  Retain(s, T) = [k \in 1..n |-> s[g[k]]]
<1> DEFINE K == Kept(s, T)
<1>1. K \subseteq Nat
    BY KeptPlaces
<1>2. Cardinality(K) = n /\ \A k \in 1..n: Rank(K, g[k]) = k
    BY <1>1, AscendsRank
<1>3. ASSUME NEW k \in 1..n PROVE Place(s, T, k) = g[k]
    <2>1. g[k] \in K /\ Rank(K, g[k]) = k
        BY <1>2 DEF Ascends
    <2>2. ASSUME NEW i \in K, Rank(K, i) = k PROVE i = g[k]
        <3>1. PICK m \in 1..n: g[m] = i
            BY DEF Ascends
        <3> QED
            BY <1>2, <2>2, <3>1
    <2>3. Place(s, T, k) = CHOOSE i \in K: Rank(K, i) = k
        BY DEF Place, Rank
    <2> HIDE DEF K
    <2> QED
        BY <2>1, <2>2, <2>3
<1> QED
    BY <1>2, <1>3 DEF Retain

LEMMA RetainList ==
    ASSUME NEW S, NEW s \in Seq(S), NEW T
    PROVE  \E n \in Nat: \E g: /\ Ascends(g, n, Kept(s, T))
                                  /\ Retain(s, T) = [k \in 1..n |-> s[g[k]]]
<1>1. Kept(s, T) \subseteq Nat /\ IsFiniteSet(Kept(s, T))
    BY KeptPlaces
<1>2. /\ Cardinality(Kept(s, T)) \in Nat
      /\ \E g: Ascends(g, Cardinality(Kept(s, T)), Kept(s, T))
    BY <1>1, AscendsExists
<1> QED
    BY <1>2, RetainReads

(* Retain gives a list of the entries that are in T, each as often as it   *)
(* was in the list.                                                        *)
LEMMA RetainEntries ==
    ASSUME NEW S, NEW s \in Seq(S), NEW T
    PROVE  /\ Retain(s, T) \in Seq(S)
           /\ ToSet(Retain(s, T)) = ToSet(s) \cap T
           /\ IsInjective(s) => IsInjective(Retain(s, T))
<1>1a. PICK n \in Nat: \E g: Ascends(g, n, Kept(s, T)) /\ Retain(s, T) = [k \in 1..n |-> s[g[k]]]
    BY RetainList
<1>1. PICK g: Ascends(g, n, Kept(s, T)) /\ Retain(s, T) = [k \in 1..n |-> s[g[k]]]
    BY <1>1a
<1>2. DOMAIN s = 1..Len(s) /\ \A i \in 1..Len(s): s[i] \in S
    OBVIOUS
<1>3. \A k \in 1..n: g[k] \in 1..Len(s) /\ s[g[k]] \in T
    BY <1>1, <1>2 DEF Ascends, Kept
<1>4. Retain(s, T) \in Seq(S)
    BY <1>1, <1>2, <1>3
<1>5. ToSet(Retain(s, T)) = ToSet(s) \cap T
    <2>1. \A e \in ToSet(s) \cap T: \E i \in Kept(s, T): s[i] = e
        BY <1>2 DEF ToSet, Kept
    <2>2. \A e \in ToSet(s) \cap T: \E k \in 1..n: s[g[k]] = e
        BY <1>1, <2>1 DEF Ascends
    <2> QED
        BY <1>1, <1>2, <1>3, <2>2 DEF ToSet
<1>6. ASSUME IsInjective(s) PROVE IsInjective(Retain(s, T))
    <2>1. ASSUME NEW a \in 1..n, NEW b \in 1..n, s[g[a]] = s[g[b]] PROVE a = b
        <3>1. g[a] = g[b]
            BY <1>2, <1>3, <1>6, <2>1 DEF IsInjective
        <3>2. g[a] \in Nat /\ g[b] \in Nat
            BY <1>3
        <3>3. a < b \/ b < a \/ a = b
            OBVIOUS
        <3> QED
            BY <1>1, <3>1, <3>2, <3>3 DEF Ascends
    <2> QED
        BY <1>1, <2>1 DEF IsInjective
<1> QED
    BY <1>4, <1>5, <1>6

(* Only what T says of the entries counts.                                 *)
LEMMA RetainSame ==
    ASSUME NEW s, NEW T, NEW U, ToSet(s) \cap T = ToSet(s) \cap U
    PROVE  Retain(s, T) = Retain(s, U)
<1>1. Kept(s, T) = Kept(s, U)
    BY DEF Kept, ToSet
<1> QED
    BY <1>1 DEF Retain, Place

LEMMA RetainAll ==
    ASSUME NEW S, NEW s \in Seq(S), NEW T, ToSet(s) \subseteq T
    PROVE  Retain(s, T) = s
<1> DEFINE g == [k \in 1..Len(s) |-> k]
<1>1. DOMAIN s = 1..Len(s) /\ Len(s) \in Nat
    OBVIOUS
<1>2. Kept(s, T) = 1..Len(s)
    BY <1>1 DEF Kept, ToSet
<1>3. Ascends(g, Len(s), Kept(s, T))
    BY <1>1, <1>2 DEF Ascends
<1>4. Retain(s, T) = [k \in 1..Len(s) |-> s[g[k]]]
    BY <1>1, <1>3, RetainReads
<1>5. [k \in 1..Len(s) |-> s[g[k]]] = [k \in 1..Len(s) |-> s[k]]
    OBVIOUS
<1> QED
    BY <1>1, <1>4, <1>5

LEMMA RetainNone ==
    ASSUME NEW S, NEW s \in Seq(S), NEW T, ToSet(s) \cap T = {}
    PROVE  Retain(s, T) = <<>>
<1>1. Kept(s, T) = {}
    BY DEF Kept, ToSet
<1>2. Cardinality(Kept(s, T)) = 0
    BY <1>1, FS_EmptySet
<1> QED
    BY <1>2 DEF Retain

LEMMA RetainRetain ==
    ASSUME NEW S, NEW s \in Seq(S), NEW T, NEW U
    PROVE  Retain(Retain(s, T), U) = Retain(s, T \cap U)
<1> DEFINE t == Retain(s, T)
<1>1a. PICK n \in Nat: \E g: Ascends(g, n, Kept(s, T)) /\ t = [k \in 1..n |-> s[g[k]]]
    BY RetainList
<1>1. PICK g: Ascends(g, n, Kept(s, T)) /\ t = [k \in 1..n |-> s[g[k]]]
    BY <1>1a
<1>2. t \in Seq(S)
    BY RetainEntries
<1> HIDE DEF t
<1>3a. PICK m \in Nat: \E h: Ascends(h, m, Kept(t, U)) /\ Retain(t, U) = [k \in 1..m |-> t[h[k]]]
    BY <1>2, RetainList
<1>3. PICK h: Ascends(h, m, Kept(t, U)) /\ Retain(t, U) = [k \in 1..m |-> t[h[k]]]
    BY <1>3a
<1> DEFINE f == [k \in 1..m |-> g[h[k]]]
<1>4. DOMAIN s = 1..Len(s) /\ DOMAIN t = 1..n
    BY <1>1
<1>5. Kept(t, U) = {i \in 1..n: s[g[i]] \in U}
    BY <1>1, <1>4 DEF Kept
<1>6. \A k \in 1..m: h[k] \in 1..n /\ s[g[h[k]]] \in U
    BY <1>3, <1>5 DEF Ascends
<1>7. \A i \in 1..n: g[i] \in 1..Len(s) /\ s[g[i]] \in T
    BY <1>1, <1>4 DEF Ascends, Kept
<1>8. f \in [1..m -> Kept(s, T \cap U)]
    BY <1>4, <1>6, <1>7 DEF Kept
<1>9. ASSUME NEW a \in 1..m, NEW b \in 1..m, a < b PROVE f[a] < f[b]
    <2>1. h[a] < h[b]
        BY <1>3, <1>9 DEF Ascends
    <2> QED
        BY <1>1, <1>6, <2>1 DEF Ascends
<1>10. ASSUME NEW i \in Kept(s, T \cap U) PROVE \E k \in 1..m: f[k] = i
    <2>1. i \in Kept(s, T) /\ s[i] \in U
        BY DEF Kept
    <2>2. PICK j \in 1..n: g[j] = i
        BY <1>1, <2>1 DEF Ascends
    <2>3. j \in Kept(t, U)
        BY <1>5, <2>1, <2>2
    <2>4. PICK k \in 1..m: h[k] = j
        BY <1>3, <2>3 DEF Ascends
    <2> QED
        BY <2>2, <2>4
<1>11. Ascends(f, m, Kept(s, T \cap U))
    BY <1>8, <1>9, <1>10 DEF Ascends
<1>12. Retain(s, T \cap U) = [k \in 1..m |-> s[f[k]]]
    BY <1>11, RetainReads
<1>13. [k \in 1..m |-> t[h[k]]] = [k \in 1..m |-> s[f[k]]]
    BY <1>1, <1>6
<1> QED
    BY <1>3, <1>12, <1>13 DEF t

LEMMA RetainConcat ==
    ASSUME NEW S, NEW s \in Seq(S), NEW t \in Seq(S), NEW T
    PROVE  Retain(s \o t, T) = Retain(s, T) \o Retain(t, T)
<1>1a. PICK n \in Nat: \E g: Ascends(g, n, Kept(s, T)) /\ Retain(s, T) = [k \in 1..n |-> s[g[k]]]
    BY RetainList
<1>1. PICK g: Ascends(g, n, Kept(s, T)) /\ Retain(s, T) = [k \in 1..n |-> s[g[k]]]
    BY <1>1a
<1>2a. PICK m \in Nat: \E h: Ascends(h, m, Kept(t, T)) /\ Retain(t, T) = [k \in 1..m |-> t[h[k]]]
    BY RetainList
<1>2. PICK h: Ascends(h, m, Kept(t, T)) /\ Retain(t, T) = [k \in 1..m |-> t[h[k]]]
    BY <1>2a
<1> DEFINE L == Len(s)
<1> DEFINE f == [k \in 1..(n + m) |-> IF k <= n THEN g[k] ELSE L + h[k - n]]
<1>3. /\ L \in Nat /\ DOMAIN s = 1..L /\ DOMAIN t = 1..Len(t) /\ Len(t) \in Nat
      /\ s \o t \in Seq(S) /\ DOMAIN (s \o t) = 1..(L + Len(t))
    OBVIOUS
<1>4. /\ \A i \in 1..L: (s \o t)[i] = s[i]
      /\ \A i \in 1..Len(t): (s \o t)[L + i] = t[i]
    OBVIOUS
<1>5. /\ \A k \in 1..n: g[k] \in 1..L /\ s[g[k]] \in T
      /\ \A k \in 1..m: h[k] \in 1..Len(t) /\ t[h[k]] \in T
    BY <1>1, <1>2, <1>3 DEF Ascends, Kept
<1> HIDE DEF L
<1>6. ASSUME NEW k \in 1..(n + m), k <= n
      PROVE  k \in 1..n /\ f[k] = g[k] /\ f[k] \in 1..L /\ (s \o t)[f[k]] = s[g[k]]
    <2>1. k \in 1..n /\ f[k] = g[k]
        BY <1>6
    <2>2. g[k] \in 1..L
        BY <1>5, <2>1
    <2>3. (s \o t)[g[k]] = s[g[k]]
        BY <1>4, <2>2
    <2> HIDE DEF f
    <2> QED
        BY <2>1, <2>2, <2>3
<1>7. ASSUME NEW k \in 1..(n + m), ~(k <= n)
      PROVE  /\ k - n \in 1..m /\ f[k] = L + h[k - n] /\ f[k] \in (L + 1)..(L + Len(t))
             /\ (s \o t)[f[k]] = t[h[k - n]]
    <2>1. k - n \in 1..m /\ f[k] = L + h[k - n]
        BY <1>7
    <2>2. h[k - n] \in 1..Len(t)
        BY <1>5, <2>1
    <2> QED
        BY <1>3, <1>4, <2>1, <2>2
<1>8. f \in [1..(n + m) -> Kept(s \o t, T)]
    <2>1. ASSUME NEW k \in 1..(n + m) PROVE f[k] \in 1..(L + Len(t)) /\ (s \o t)[f[k]] \in T
        <3>1. CASE k <= n
            BY <1>3, <1>5, <1>6, <3>1
        <3>2. CASE ~(k <= n)
            BY <1>3, <1>5, <1>7, <3>2
        <3> QED
            BY <3>1, <3>2
    <2> QED
        BY <1>3, <2>1 DEF Kept
<1>9. ASSUME NEW a \in 1..(n + m), NEW b \in 1..(n + m), a < b PROVE f[a] < f[b]
    <2>1. CASE b <= n
        <3>1. a <= n
            BY <1>9, <2>1
        <3> QED
            BY <1>1, <1>6, <1>9, <2>1, <3>1 DEF Ascends
    <2>2. CASE a <= n /\ ~(b <= n)
        <3>1. f[a] \in 1..L /\ f[b] \in (L + 1)..(L + Len(t))
            BY <1>6, <1>7, <2>2
        <3> QED
            BY <1>3, <3>1
    <2>3. CASE ~(a <= n)
        <3>1. ~(b <= n) /\ a - n < b - n
            BY <1>9, <2>3
        <3>2. /\ a - n \in 1..m /\ f[a] = L + h[a - n]
              /\ b - n \in 1..m /\ f[b] = L + h[b - n]
            BY <1>7, <2>3, <3>1
        <3>3. h[a - n] < h[b - n] /\ h[a - n] \in Nat /\ h[b - n] \in Nat
            BY <1>2, <1>5, <3>1, <3>2 DEF Ascends
        <3> QED
            BY <1>3, <3>2, <3>3
    <2> QED
        BY <1>9, <2>1, <2>2, <2>3
<1>10. ASSUME NEW i \in Kept(s \o t, T) PROVE \E k \in 1..(n + m): f[k] = i
    <2>1. i \in 1..(L + Len(t)) /\ (s \o t)[i] \in T
        BY <1>3 DEF Kept
    <2>2. CASE i <= L
        <3>1. i \in 1..L /\ s[i] \in T
            BY <1>3, <1>4, <2>1, <2>2
        <3>2. i \in Kept(s, T)
            BY <1>3, <3>1 DEF Kept
        <3>3. PICK k \in 1..n: g[k] = i
            BY <1>1, <3>2 DEF Ascends
        <3>4. k \in 1..(n + m) /\ k <= n
            OBVIOUS
        <3> QED
            BY <1>6, <3>3, <3>4
    <2>3. CASE ~(i <= L)
        <3>1. i - L \in 1..Len(t) /\ i = L + (i - L)
            BY <1>3, <2>1, <2>3
        <3>2. t[i - L] \in T
            BY <1>4, <2>1, <3>1
        <3>3. i - L \in Kept(t, T)
            BY <1>3, <3>1, <3>2 DEF Kept
        <3>4. PICK k \in 1..m: h[k] = i - L
            BY <1>2, <3>3 DEF Ascends
        <3>5. n + k \in 1..(n + m) /\ ~(n + k <= n) /\ (n + k) - n = k
            OBVIOUS
        <3>6. f[n + k] = L + h[k]
            BY <3>5
        <3> QED
            BY <3>1, <3>4, <3>5, <3>6
    <2> QED
        BY <2>2, <2>3
<1>11. Ascends(f, n + m, Kept(s \o t, T))
    BY <1>8, <1>9, <1>10 DEF Ascends
<1> HIDE DEF f
<1> DEFINE u == s \o t
<1>12. Retain(u, T) = [k \in 1..(n + m) |-> u[f[k]]]
    <2>1. n + m \in Nat /\ u \in Seq(S) /\ Ascends(f, n + m, Kept(u, T))
        BY <1>3, <1>11
    <2> HIDE DEF u
    <2> QED
        BY <2>1, RetainReads
<1> DEFINE a == Retain(s, T)
<1> DEFINE b == Retain(t, T)
<1>13. a \in Seq(S) /\ b \in Seq(S) /\ Len(a) = n /\ Len(b) = m
    BY <1>1, <1>2, RetainEntries
<1>14. /\ \A k \in 1..n: a[k] = s[g[k]]
       /\ \A k \in 1..m: b[k] = t[h[k]]
    BY <1>1, <1>2
<1> HIDE DEF a, b
<1>15. ASSUME NEW k \in 1..(n + m) PROVE u[f[k]] = (a \o b)[k]
    <2>1. CASE k <= n
        <3>1. k \in 1..n /\ u[f[k]] = s[g[k]]
            BY <1>6, <2>1
        <3>2. (a \o b)[k] = a[k]
            BY <1>13, <3>1
        <3> QED
            BY <1>14, <3>1, <3>2
    <2>2. CASE ~(k <= n)
        <3>1. k - n \in 1..m /\ u[f[k]] = t[h[k - n]]
            BY <1>7, <2>2
        <3>2. (a \o b)[k] = b[k - n]
            BY <1>13, <2>2
        <3> QED
            BY <1>14, <3>1, <3>2
    <2> QED
        BY <2>1, <2>2
<1>16. a \o b = [k \in 1..(n + m) |-> (a \o b)[k]]
    <2>1. a \o b \in Seq(S) /\ Len(a \o b) = n + m
        BY <1>13, ConcatProperties
    <2>2. ASSUME NEW c \in Seq(S), Len(c) = n + m PROVE c = [k \in 1..(n + m) |-> c[k]]
        BY <2>2
    <2> QED
        BY <2>1, <2>2
<1> QED
    BY <1>12, <1>15, <1>16 DEF a, b

Joins(u, s, t) == u = s \o t

LEMMA RetainJoined ==
    ASSUME NEW S, NEW s \in Seq(S), NEW t \in Seq(S), NEW u, Joins(u, s, t), NEW T
    PROVE  Joins(Retain(u, T), Retain(s, T), Retain(t, T))
BY RetainConcat DEF Joins

-----------------------------------------------------------------------------
(* Directories.                                                            *)

(* Two lists without a common entry, one behind the other.                 *)
LEMMA ConcatEntries ==
    ASSUME NEW S, NEW s \in Seq(S), NEW t \in Seq(S)
    PROVE  /\ s \o t \in Seq(S)
           /\ ToSet(s \o t) = ToSet(s) \cup ToSet(t)
           /\ IsInjective(s) /\ IsInjective(t) /\ ToSet(s) \cap ToSet(t) = {}
                => IsInjective(s \o t)
<1> DEFINE u == s \o t
<1> DEFINE L == Len(s)
<1> DEFINE M == Len(t)
<1>1. /\ L \in Nat /\ M \in Nat /\ DOMAIN s = 1..L /\ DOMAIN t = 1..M
      /\ u \in Seq(S) /\ DOMAIN u = 1..(L + M)
    OBVIOUS
<1>2. /\ \A i \in 1..L: u[i] = s[i]
      /\ \A i \in 1..M: u[L + i] = t[i]
    OBVIOUS
<1> HIDE DEF u, L, M
<1>3. ASSUME NEW i \in 1..(L + M)
      PROVE  \/ i \in 1..L /\ u[i] = s[i]
             \/ i - L \in 1..M /\ u[i] = t[i - L]
    <2>1. CASE i <= L
        BY <1>1, <1>2, <2>1
    <2>2. CASE ~(i <= L)
        <3>1. i - L \in 1..M /\ i = L + (i - L)
            BY <1>1, <2>2
        <3> QED
            BY <1>2, <3>1
    <2> QED
        BY <2>1, <2>2
<1>4. ToSet(u) = ToSet(s) \cup ToSet(t)
    <2>1. \A i \in 1..L: s[i] \in ToSet(u)
        BY <1>1, <1>2 DEF ToSet
    <2>2. \A i \in 1..M: t[i] \in ToSet(u)
        <3>1. \A i \in 1..M: L + i \in 1..(L + M)
            BY <1>1
        <3> QED
            BY <1>1, <1>2, <3>1 DEF ToSet
    <2>3. \A i \in 1..(L + M): u[i] \in ToSet(s) \cup ToSet(t)
        BY <1>1, <1>3 DEF ToSet
    <2> QED
        BY <1>1, <2>1, <2>2, <2>3 DEF ToSet
<1>5. ASSUME IsInjective(s), IsInjective(t), ToSet(s) \cap ToSet(t) = {}
      PROVE  IsInjective(u)
    <2>1. SUFFICES ASSUME NEW a \in 1..(L + M), NEW b \in 1..(L + M), u[a] = u[b]
                   PROVE  a = b
        BY <1>1 DEF IsInjective
    <2>2. CASE a \in 1..L /\ u[a] = s[a]
        <3>1. u[a] \in ToSet(s)
            BY <1>1, <2>2 DEF ToSet
        <3>2. ~(b - L \in 1..M /\ u[b] = t[b - L])
            BY <1>1, <1>5, <2>1, <3>1 DEF ToSet
        <3>3. b \in 1..L /\ u[b] = s[b]
            BY <1>3, <3>2
        <3> QED
            BY <1>1, <1>5, <2>1, <2>2, <3>3 DEF IsInjective
    <2>3. CASE a - L \in 1..M /\ u[a] = t[a - L]
        <3>1. u[a] \in ToSet(t)
            BY <1>1, <2>3 DEF ToSet
        <3>2. ~(b \in 1..L /\ u[b] = s[b])
            BY <1>1, <1>5, <2>1, <3>1 DEF ToSet
        <3>3. b - L \in 1..M /\ u[b] = t[b - L]
            BY <1>3, <3>2
        <3>4. a - L = b - L
            BY <1>1, <1>5, <2>1, <2>3, <3>3 DEF IsInjective
        <3> QED
            BY <1>1, <3>4
    <2> QED
        BY <1>3, <2>2, <2>3
<1> QED
    BY <1>1, <1>4, <1>5 DEF u

(* The ids of some Peers, sorted.                                          *)
LEMMA SortedIds ==
    ASSUME NEW N, N \subseteq PeerSet
    PROVE  /\ Sorted(N) \in Seq(N) /\ ToSet(Sorted(N)) = N /\ IsInjective(Sorted(N))
           /\ N = {} => Sorted(N) = <<>>
<1>1. /\ Sorted(N) \in Seq(PeerSet) /\ ToSet(Sorted(N)) = N /\ IsInjective(Sorted(N))
    <2>1. Peers \in Seq(PeerSet) /\ IsInjective(Peers) /\ ToSet(Peers) = PeerSet
        BY PeersAssumption DEF PeerSet
    <2>2. /\ Retain(Peers, N) \in Seq(PeerSet) /\ ToSet(Retain(Peers, N)) = ToSet(Peers) \cap N
          /\ IsInjective(Retain(Peers, N))
        BY <2>1, RetainEntries
    <2> QED
        BY <2>1, <2>2 DEF Sorted
<1>2. Sorted(N) \in Seq(N)
    BY <1>1 DEF ToSet
<1>3. N = {} => Sorted(N) = <<>>
    BY PeersAssumption, RetainNone DEF PeerSet, Sorted
<1> QED
    BY <1>1, <1>2, <1>3

LEMMA DirectoryFields ==
    ASSUME NEW N, NEW d \in Directories(N)
    PROVE  /\ DOMAIN d.records \subseteq N /\ d.records \in [DOMAIN d.records -> Records]
           /\ d.order \in [LanPrefixes -> Seq(N)]
           /\ d = [records |-> d.records, order |-> d.order]
BY DEF Directories

(* A list u is the list o without the origins in `out`, and those in E     *)
(* behind.                                                                 *)
UpdatedList(o, u, N, out, E) ==
    /\ o \in Seq(N) /\ u \in Seq(N) /\ E \subseteq N
    /\ u = Retain(o, PeerSet \ out) \o Sorted(E)
    /\ ToSet(u) = (ToSet(o) \ out) \cup E
    /\ ToSet(o) \cap E = {}
    /\ IsInjective(o) => IsInjective(u)

(* The list of a prefix after an Update.                                   *)
LEMMA UpdateOrder ==
    ASSUME NEW N, N \subseteq PeerSet, NEW d \in Directories(N), NEW gone \in SUBSET N,
           NEW new, DOMAIN new \subseteq N, NEW x \in LanPrefixes
    PROVE  UpdatedList(d.order[x], Update(d, gone, new).order[x], N,
                       Leaving(d, gone, new, x), Entering(d, new, x))
<1> DEFINE o == d.order[x]
<1> DEFINE A == Retain(o, PeerSet \ Leaving(d, gone, new, x))
<1> DEFINE E == Entering(d, new, x)
<1> DEFINE u == Update(d, gone, new).order[x]
<1>1. o \in Seq(N)
    BY DirectoryFields
<1>2. u = A \o Sorted(E)
    BY DEF Update, remove_from_order
<1>3. E \subseteq N /\ ToSet(o) \cap E = {}
    <2>1. DOMAIN o = 1..Len(o)
        BY <1>1
    <2> QED
        BY <2>1 DEF Entering, ToSet, Contains
<1>4. ToSet(o) \subseteq PeerSet
    BY <1>1 DEF ToSet
<1>5. /\ A \in Seq(N) /\ ToSet(A) = ToSet(o) \cap (PeerSet \ Leaving(d, gone, new, x))
      /\ IsInjective(o) => IsInjective(A)
    BY <1>1, RetainEntries
<1>6. Sorted(E) \in Seq(E) /\ ToSet(Sorted(E)) = E /\ IsInjective(Sorted(E))
    BY <1>3, SortedIds
<1>7. Sorted(E) \in Seq(N)
    BY <1>3, <1>6
<1> HIDE DEF o, A, E, u
<1>8. /\ A \o Sorted(E) \in Seq(N)
      /\ ToSet(A \o Sorted(E)) = ToSet(A) \cup E
      /\ IsInjective(A) /\ ToSet(A) \cap E = {} => IsInjective(A \o Sorted(E))
    BY <1>5, <1>6, <1>7, ConcatEntries
<1> QED
    BY <1>1, <1>2, <1>3, <1>4, <1>5, <1>8 DEF o, A, E, u, UpdatedList

LEMMA UpdateRecords ==
    ASSUME NEW d, NEW gone, NEW new
    PROVE  LET u == Update(d, gone, new).records
           IN  /\ u = Replaced(d.records, gone, new)
               /\ DOMAIN u = (DOMAIN d.records \ gone) \cup DOMAIN new
               /\ \A q \in DOMAIN new: u[q] = new[q]
               /\ \A q \in DOMAIN d.records \ gone: q \notin DOMAIN new => u[q] = d.records[q]
BY DEF Update, Replaced

LEMMA UpdateType ==
    ASSUME NEW N, N \subseteq PeerSet, NEW d \in Directories(N), NEW gone \in SUBSET N,
           NEW Q \in SUBSET N, NEW new \in [Q -> Records]
    PROVE  Update(d, gone, new) \in Directories(N)
<1> DEFINE u == Update(d, gone, new)
<1>1. DOMAIN d.records \subseteq N /\ d.records \in [DOMAIN d.records -> Records]
    BY DirectoryFields
<1>2. DOMAIN new = Q /\ DOMAIN new \subseteq N
    OBVIOUS
<1>3. u.records \in [(DOMAIN d.records \ gone) \cup Q -> Records]
    BY <1>1, <1>2 DEF Update, Replaced
<1>4. \A x \in LanPrefixes: u.order[x] \in Seq(N)
    BY <1>2, UpdateOrder DEF UpdatedList
<1>5. /\ u = [records |-> u.records, order |-> u.order]
      /\ u.order = [x \in LanPrefixes |-> u.order[x]]
    BY DEF Update
<1> HIDE DEF u
<1>6. u.order \in [LanPrefixes -> Seq(N)]
    BY <1>4, <1>5
<1>7. (DOMAIN d.records \ gone) \cup Q \in SUBSET N
    BY <1>1
<1>8. u \in Directories(N)
    BY <1>3, <1>5, <1>6, <1>7 DEF Directories
<1> QED
    BY <1>8 DEF u

(* An Update keeps the orders exact.                                       *)
LEMMA UpdateExact ==
    ASSUME NEW N, N \subseteq PeerSet, NEW d \in Directories(N), Exact(d), NEW gone \in SUBSET N,
           NEW Q \in SUBSET N, NEW new \in [Q -> Records], gone \cap Q = {}
    PROVE  Exact(Update(d, gone, new))
<1> DEFINE u == Update(d, gone, new)
<1>1. SUFFICES ASSUME NEW x \in LanPrefixes
               PROVE  /\ IsInjective(u.order[x])
                      /\ ToSet(u.order[x]) = {q \in DOMAIN u.records: x \in ready_prefixes(u.records[q])}
    BY DEF Exact
<1>2. DOMAIN new = Q /\ DOMAIN new \subseteq N
    OBVIOUS
<1> DEFINE o == d.order[x]
<1>3. /\ IsInjective(o) /\ ToSet(o) = {q \in DOMAIN d.records: x \in ready_prefixes(d.records[q])}
    BY DEF Exact
<1>4. /\ ToSet(u.order[x]) = (ToSet(o) \ Leaving(d, gone, new, x)) \cup Entering(d, new, x)
      /\ ToSet(o) \cap Entering(d, new, x) = {}
      /\ IsInjective(u.order[x])
    <2>1. UpdatedList(o, u.order[x], N, Leaving(d, gone, new, x), Entering(d, new, x))
        BY <1>2, UpdateOrder
    <2> HIDE DEF o, u
    <2> QED
        BY <1>3, <2>1 DEF UpdatedList
<1>5. /\ DOMAIN u.records = (DOMAIN d.records \ gone) \cup Q
      /\ \A q \in Q: u.records[q] = new[q]
      /\ \A q \in DOMAIN d.records \ gone: q \notin Q => u.records[q] = d.records[q]
    BY <1>2, UpdateRecords
<1>6. \A q: Contains(o, q) <=> q \in ToSet(o)
    <2>1. o \in Seq(N)
        BY DirectoryFields
    <2>2. DOMAIN o = 1..Len(o)
        BY <2>1
    <2> QED
        BY <2>2 DEF Contains, ToSet
<1>r. \A q: x \in ReadyFrom(d, q) <=> q \in ToSet(o)
    BY <1>3 DEF ReadyFrom
<1> HIDE DEF u
<1>7. \A q: q \in Entering(d, new, x) <=> /\ q \in Q /\ x \in ready_prefixes(new[q]) /\ q \notin ToSet(o)
    BY <1>2, <1>6, <1>r DEF Entering
<1>8. \A q \in ToSet(o): q \in Leaving(d, gone, new, x) 
                      <=> q \in gone \/ (q \in Q /\ x \notin ready_prefixes(new[q]))
    BY <1>2, <1>r DEF Leaving
<1> HIDE DEF o
<1>9. ASSUME NEW q PROVE q \in ToSet(u.order[x]) <=> q \in DOMAIN u.records /\ x \in ready_prefixes(u.records[q])
    <2>1. CASE q \in Q
        BY <1>3, <1>4, <1>5, <1>7, <1>8, <2>1
    <2>2. CASE q \notin Q
        BY <1>3, <1>4, <1>5, <1>7, <1>8, <2>2
    <2> QED
        BY <2>1, <2>2
<1> QED
    BY <1>4, <1>9

(* Whoever stays keeps his place, and whoever enters stands behind.        *)
LEMMA EntersBehind ==
    ASSUME NEW S, NEW o \in Seq(S), NEW T, NEW e \in Seq(S), ToSet(o) \cap ToSet(e) = {}
    PROVE  IsPrefix(Retain(o, ToSet(Retain(o, T) \o e)), Retain(o, T) \o e)
<1> DEFINE a == Retain(o, T)
<1>1. a \in Seq(S) /\ ToSet(a) = ToSet(o) \cap T
    BY RetainEntries
<1>2. ToSet(a \o e) = ToSet(a) \cup ToSet(e)
    BY <1>1, ConcatEntries
<1>3. Retain(o, ToSet(a \o e)) = a
    BY <1>1, <1>2, RetainSame
<1> HIDE DEF a
<1>4. IsPrefix(a, a \o e)
    <2>1. /\ a \o e \in Seq(S) /\ Len(a \o e) = Len(a) + Len(e)
          /\ Len(a) \in Nat /\ Len(e) \in Nat
          /\ \A i \in 1..Len(a): (a \o e)[i] = a[i]
        BY <1>1
    <2>2. Len(a) <= Len(a \o e)
        BY <2>1
    <2>3. SubSeq(a, 1, Len(a)) = [i \in 1..Len(a) |-> a[i]]
        BY <1>1
    <2>4. SubSeq(a \o e, 1, Len(a)) = [i \in 1..Len(a) |-> (a \o e)[i]]
        BY <2>1, <2>2
    <2> QED
        BY <2>1, <2>2, <2>3, <2>4 DEF IsPrefix
<1> QED
    BY <1>3, <1>4 DEF a

Follows(d, e) ==
    \A x \in LanPrefixes: IsPrefix(Retain(d.order[x], ToSet(e.order[x])), e.order[x])

LEMMA UpdateFollows ==
    ASSUME NEW N, N \subseteq PeerSet, NEW d \in Directories(N), NEW gone \in SUBSET N,
           NEW Q \in SUBSET N, NEW new \in [Q -> Records]
    PROVE  Follows(d, Update(d, gone, new))
<1>1. SUFFICES ASSUME NEW x \in LanPrefixes
               PROVE  IsPrefix(Retain(d.order[x], ToSet(Update(d, gone, new).order[x])),
                               Update(d, gone, new).order[x])
    BY DEF Follows
<1>2. DOMAIN new = Q /\ DOMAIN new \subseteq N
    OBVIOUS
<1> DEFINE o == d.order[x]
<1> DEFINE u == Update(d, gone, new).order[x]
<1> DEFINE out == Leaving(d, gone, new, x)
<1> DEFINE E == Entering(d, new, x)
<1>3. UpdatedList(o, u, N, out, E)
    BY <1>2, UpdateOrder
<1> HIDE DEF o, u, out, E
<1>4. E \subseteq PeerSet /\ E \subseteq N
    BY <1>3 DEF UpdatedList
<1>5. Sorted(E) \in Seq(E) /\ ToSet(Sorted(E)) = E
    BY <1>4, SortedIds
<1>6. Sorted(E) \in Seq(N)
    BY <1>4, <1>5
<1>7. IsPrefix(Retain(o, ToSet(u)), u)
    BY <1>3, <1>5, <1>6, EntersBehind DEF UpdatedList
<1> QED
    BY <1>7 DEF o, u

(* The records of a directory but those of the origins in `off`.           *)
Others(d, off) == [q \in DOMAIN d.records \ off |-> d.records[q]]

(* Taking the origins without a lane out of a copy of the directory, and   *)
(* copying the others again, is the same as closing their links in it.     *)
LEMMA MirrorPruned ==
    ASSUME NEW d, NEW lost, NEW off, lost \cap DOMAIN d.records = off \cap DOMAIN d.records
    PROVE  Update(d, off, Others(d, off)) = Update(d, lost, <<>>)
<1> DEFINE n == Others(d, off)
<1>1. /\ DOMAIN n = DOMAIN d.records \ off
      /\ \A q \in DOMAIN n: n[q] = d.records[q]
    BY DEF Others
<1>2. DOMAIN <<>> = {}
    OBVIOUS
<1> HIDE DEF n
<1>3. Replaced(d.records, off, n) = Replaced(d.records, lost, <<>>)
    <2>1. (DOMAIN d.records \ off) \cup DOMAIN n = (DOMAIN d.records \ lost) \cup DOMAIN <<>>
        BY <1>1, <1>2
    <2> QED
        BY <1>1, <1>2, <2>1 DEF Replaced
<1>4. ASSUME NEW x \in LanPrefixes
      PROVE  /\ Leaving(d, off, n, x) = Leaving(d, lost, <<>>, x)
             /\ Entering(d, n, x) = Entering(d, <<>>, x)
    <2>1. \A q \in DOMAIN n: ReadyFrom(d, q) = ready_prefixes(n[q])
        BY <1>1 DEF ReadyFrom
    <2>2. \A q: x \in ReadyFrom(d, q) => (q \in off <=> q \in lost)
        BY DEF ReadyFrom
    <2>3. Leaving(d, off, n, x) = {q \in off: x \in ReadyFrom(d, q)}
        BY <2>1 DEF Leaving
    <2>4. Leaving(d, lost, <<>>, x) = {q \in lost: x \in ReadyFrom(d, q)}
        BY <1>2 DEF Leaving
    <2>5. Entering(d, n, x) = {} /\ Entering(d, <<>>, x) = {}
        BY <1>2, <2>1 DEF Entering
    <2> QED
        BY <2>2, <2>3, <2>4, <2>5
<1> QED
    BY <1>3, <1>4 DEF Update, n

(* The same where the directory has just received a record that its copy   *)
(* has not.                                                                *)
LEMMA MirrorReceived ==
    ASSUME NEW N, N \subseteq PeerSet, NEW d \in Directories(N), Exact(d),
           NEW origin \in N, NEW record \in Records, NEW lost \in SUBSET N, NEW off \in SUBSET N,
           NEW e, e = replace_origin(d, origin, record),
           lost \cap DOMAIN e.records = off \cap DOMAIN e.records
    PROVE  Update(d, off, Others(e, off)) = Update(e, lost, <<>>)
<1> DEFINE n == Others(e, off)
<1> DEFINE one == [q \in {origin} |-> record]
<1>1. /\ DOMAIN n = DOMAIN e.records \ off
      /\ \A q \in DOMAIN n: n[q] = e.records[q]
    BY DEF Others
<1>2. DOMAIN <<>> = {}
    OBVIOUS
<1>3. e = Update(d, {}, one)
    BY DEF replace_origin
<1>4. DOMAIN one = {origin} /\ one[origin] = record /\ one \in [{origin} -> Records]
    OBVIOUS
<1> HIDE DEF n, one
<1>5. e \in Directories(N)
    <2>1. {origin} \in SUBSET N /\ {} \in SUBSET N
        OBVIOUS
    <2> QED
        BY <1>3, <1>4, <2>1, UpdateType
<1>6. /\ DOMAIN e.records = DOMAIN d.records \cup {origin}
      /\ e.records[origin] = record
      /\ \A q \in DOMAIN d.records: q # origin => e.records[q] = d.records[q]
    <2>1. /\ DOMAIN e.records = (DOMAIN d.records \ {}) \cup DOMAIN one
          /\ \A q \in DOMAIN one: e.records[q] = one[q]
          /\ \A q \in DOMAIN d.records \ {}: q \notin DOMAIN one => e.records[q] = d.records[q]
        BY <1>3, UpdateRecords
    <2> QED
        BY <1>4, <2>1
<1>7. Replaced(d.records, off, n) = Replaced(e.records, lost, <<>>)
    <2>1. (DOMAIN d.records \ off) \cup DOMAIN n = (DOMAIN e.records \ lost) \cup DOMAIN <<>>
        BY <1>1, <1>2, <1>6
    <2>2. (DOMAIN d.records \ off) \cup DOMAIN n = DOMAIN n
        BY <1>1, <1>6
    <2> QED
        BY <1>1, <1>2, <2>1, <2>2 DEF Replaced
<1>8. ASSUME NEW x \in LanPrefixes
      PROVE  Update(d, off, n).order[x] = Update(e, lost, <<>>).order[x]
    <2> DEFINE o == d.order[x]
    <2> DEFINE A == Leaving(d, {}, one, x)
    <2> DEFINE E == Entering(d, one, x)
    <2> DEFINE B == Leaving(e, lost, <<>>, x)
    <2> DEFINE C == Leaving(d, off, n, x)
    <2> DEFINE F == Entering(d, n, x)
    <2>1. UpdatedList(o, e.order[x], N, A, E)
        <3>1. {} \in SUBSET N /\ DOMAIN one \subseteq N
            BY <1>4
        <3> QED
            BY <1>3, <3>1, UpdateOrder
    <2>2. /\ UpdatedList(e.order[x], Update(e, lost, <<>>).order[x], N, B, Entering(e, <<>>, x))
          /\ Entering(e, <<>>, x) = {}
        <3>1. DOMAIN <<>> \subseteq N
            BY <1>2
        <3> QED
            <4>1. UpdatedList(e.order[x], Update(e, lost, <<>>).order[x], N, B, Entering(e, <<>>, x))
                BY <1>5, <3>1, UpdateOrder
            <4>2. Entering(e, <<>>, x) = {}
                BY <1>2 DEF Entering
            <4> QED
                BY <4>1, <4>2
    <2>3. UpdatedList(o, Update(d, off, n).order[x], N, C, F)
        <3>1. DOMAIN n \subseteq N
            BY <1>1, <1>5, DirectoryFields
        <3> QED
            BY <3>1, UpdateOrder
    <2>4. \A q: x \in ReadyFrom(d, q) <=> q \in ToSet(o)
        BY DEF Exact, ReadyFrom
    <2>5. /\ x \in ReadyFrom(e, origin) <=> x \in ready_prefixes(record)
          /\ \A q: q # origin => (x \in ReadyFrom(e, q) <=> q \in ToSet(o))
        <3>1. \A q: q # origin => ReadyFrom(e, q) = ReadyFrom(d, q)
            BY <1>6 DEF ReadyFrom
        <3> QED
            BY <1>6, <2>4, <3>1 DEF ReadyFrom
    <2>6. \A q: Contains(o, q) <=> q \in ToSet(o)
        <3>1. DOMAIN o = 1..Len(o)
            BY <2>1 DEF UpdatedList
        <3> QED
            BY <3>1 DEF Contains, ToSet
    <2>7. \A q: q \in A <=> q = origin /\ q \in ToSet(o) /\ x \notin ready_prefixes(record)
        BY <1>4, <2>4 DEF Leaving
    <2>8. \A q: q \in E <=> q = origin /\ q \notin ToSet(o) /\ x \in ready_prefixes(record)
        BY <1>4, <2>4, <2>6 DEF Entering
    <2>9. \A q: q \in B <=> q \in lost /\ x \in ReadyFrom(e, q)
        BY <1>2 DEF Leaving
    <2>10. \A q \in DOMAIN n: x \in ready_prefixes(n[q]) <=> x \in ReadyFrom(e, q)
        BY <1>1 DEF ReadyFrom
    <2>11. \A q: q \in C <=> \/ q \in off /\ q \in ToSet(o)
                             \/ q \in DOMAIN n /\ q \in ToSet(o) /\ x \notin ReadyFrom(e, q)
        BY <2>4, <2>10 DEF Leaving
    <2>12. \A q: q \in F <=> q \in DOMAIN n /\ q \notin ToSet(o) /\ x \in ReadyFrom(e, q)
        BY <2>4, <2>6, <2>10 DEF Entering
    <2>13. ToSet(o) \subseteq DOMAIN d.records
        BY DEF Exact
    <2> HIDE DEF o, A, B, C, E, F
    <2>14. F = E \ B
        BY <1>1, <1>6, <2>5, <2>8, <2>9, <2>12
    <2>15. ASSUME NEW q \in ToSet(o) PROVE q \in C <=> q \in A \/ q \in B
        <3>1. CASE q = origin
            BY <1>1, <1>6, <2>5, <2>7, <2>9, <2>11, <3>1
        <3>2. CASE q # origin
            BY <1>1, <1>6, <2>5, <2>7, <2>9, <2>11, <2>13, <3>2
        <3> QED
            BY <3>1, <3>2
    <2>16. Retain(o, PeerSet \ C) = Retain(Retain(o, PeerSet \ A), PeerSet \ B)
        <3>1. ToSet(o) \cap (PeerSet \ C) = ToSet(o) \cap ((PeerSet \ A) \cap (PeerSet \ B))
            BY <2>15
        <3> QED
            <4>1. Retain(o, PeerSet \ C) = Retain(o, (PeerSet \ A) \cap (PeerSet \ B))
                BY <3>1, RetainSame
            <4>2. o \in Seq(N)
                BY <2>1 DEF UpdatedList
            <4>3. Retain(Retain(o, PeerSet \ A), PeerSet \ B)
                    = Retain(o, (PeerSet \ A) \cap (PeerSet \ B))
                BY <4>2, RetainRetain
            <4> QED
                BY <4>1, <4>3
    <2>17. Sorted(F) = Retain(Sorted(E), PeerSet \ B)
        <3>1. ToSet(Peers) \cap F = ToSet(Peers) \cap (E \cap (PeerSet \ B))
            BY <2>14 DEF PeerSet
        <3>2. Retain(Peers, F) = Retain(Peers, E \cap (PeerSet \ B))
            BY <3>1, RetainSame
        <3> QED
            BY <3>2, PeersAssumption, RetainRetain DEF Sorted
    <2>18. Retain(e.order[x], PeerSet \ B)
             = Retain(Retain(o, PeerSet \ A), PeerSet \ B) \o Retain(Sorted(E), PeerSet \ B)
        <3>1. Retain(o, PeerSet \ A) \in Seq(N)
            BY <2>1, RetainEntries DEF UpdatedList
        <3>2. E \subseteq PeerSet /\ E \subseteq N
            BY <2>1 DEF UpdatedList
        <3>3. Sorted(E) \in Seq(E)
            BY <3>2, SortedIds
        <3>4. Sorted(E) \in Seq(N)
            BY <3>2, <3>3
        <3> QED
            <4>1. e.order[x] = Retain(o, PeerSet \ A) \o Sorted(E)
                BY <2>1 DEF UpdatedList
            <4> DEFINE u == e.order[x]
            <4> DEFINE a == Retain(o, PeerSet \ A)
            <4> DEFINE b == Sorted(E)
            <4>2. a \in Seq(N) /\ b \in Seq(N) /\ Joins(u, a, b)
                BY <3>1, <3>4, <4>1 DEF Joins
            <4> HIDE DEF u, a, b
            <4>3. Joins(Retain(u, PeerSet \ B), Retain(a, PeerSet \ B), Retain(b, PeerSet \ B))
                BY <4>2, RetainJoined
            <4> QED
                BY <4>3 DEF u, a, b, Joins
    <2>19. Update(e, lost, <<>>).order[x] = Retain(e.order[x], PeerSet \ B)
        <3>1. Sorted({}) = <<>>
            BY SortedIds
        <3>2. Retain(e.order[x], PeerSet \ B) \in Seq(N)
            BY <2>1, RetainEntries DEF UpdatedList
        <3> QED
            <4>1. Update(e, lost, <<>>).order[x] = Retain(e.order[x], PeerSet \ B) \o Sorted({})
                BY <2>2 DEF UpdatedList
            <4>2. ASSUME NEW s \in Seq(N) PROVE s \o <<>> = s
                OBVIOUS
            <4> QED
                BY <3>1, <3>2, <4>1, <4>2
    <2> QED
        BY <2>3, <2>16, <2>17, <2>18, <2>19 DEF UpdatedList
<1>9. /\ Update(d, off, n).order = [x \in LanPrefixes |-> Update(d, off, n).order[x]]
      /\ Update(e, lost, <<>>).order = [x \in LanPrefixes |-> Update(e, lost, <<>>).order[x]]
    BY DEF Update
<1>10. Update(d, off, n).order = Update(e, lost, <<>>).order
    BY <1>8, <1>9
<1>11. Update(d, off, n).records = Update(e, lost, <<>>).records
    BY <1>7, UpdateRecords
<1> QED
    BY <1>10, <1>11 DEF Update, n

-----------------------------------------------------------------------------
(* The inductive invariant.                                                *)

(* The route matcher has the directory, which is exact and knows only      *)
(* origins whose link is open, that is, that were usable when the lanes    *)
(* were last looked at.                                                    *)
Mirrors(c) ==
    /\ c.routes = c.directory
    /\ Exact(c.directory)
    /\ \A q \in DOMAIN c.directory.records: c.link[q] # "closed"
    /\ \A q \in DOMAIN c.link: c.link[q] # "closed" <=> c.usable[q]

(* A lane needs a key, now and when the lanes were last looked at.         *)
Keyed(c) ==
    \A q \in DOMAIN c.link: c.lane[q] \/ c.usable[q] => c.key[q] # NoSession

(* A key is of a session that was negotiated.                              *)
Negotiated ==
    \A p \in PeerSet: \A q \in Neighbours(p):
        client[p].key[q] <= client[p].last[q] /\ client[p].key[q] <= sessions[{p, q}]

ClientsOK ==
    /\ DOMAIN client = PeerSet
    /\ \A p \in PeerSet: client[p] \in ClientType(p) /\ Mirrors(client[p]) /\ Keyed(client[p])

MessageType(m) == m.src \in PeerSet /\ m.dst \in Neighbours(m.src) /\ m.payload \in Payloads

MessagesOK ==
    /\ IsABag(outbound) /\ IsABag(net) /\ IsABag(opened)
    /\ \A m \in DOMAIN outbound \cup DOMAIN net \cup DOMAIN opened: MessageType(m)
    /\ \A m \in DOMAIN net: m.session \in 1..sessions[{m.src, m.dst}]

GossipInv ==
    /\ setup \in Setups
    /\ spent \in [Bounds -> Nat]
    /\ sessions \in [setup.links -> NoSession..setup.sessions]
    /\ ClientsOK
    /\ MessagesOK
    /\ Negotiated

(* Nothing was lost, changed or reset so far.                              *)
Undisturbed == spent = [b \in Bounds |-> 0]

UnderWayAll == DOMAIN outbound \cup DOMAIN net \cup DOMAIN opened

IsFull(m) == m.payload.kind = "RuntimeRecord"

(* A record of p is on its way to q.                                       *)
Coming(p, q) == \E m \in UnderWayAll: m.src = p /\ m.dst = q /\ IsFull(m)

Known(p, q) == q \in DOMAIN client[p].directory.records

(* Whoever opened its link in the first session has the record of the      *)
(* other end, or it is on its way, or the other end has yet to open its    *)
(* link, or to answer a record that is on its way to it.                   *)
Answered(p, q) ==
    sessions[{p, q}] = 1 /\ client[p].link[q] # "closed" =>
        \/ Known(p, q)
        \/ Coming(q, p)
        \/ client[q].link[p] = "closed"
        \/ client[q].link[p] = "pending" /\ Coming(p, q)

Opening ==
    /\ \A p \in PeerSet: \A q \in Neighbours(p):
         /\ client[p].usable[q] => client[p].lane[q]
         /\ client[p].link[q] = "answered" => client[q].link[p] # "closed"
         /\ Known(p, q) => client[p].directory.records[q] = client[q].record
         /\ Answered(p, q)
    /\ \A m \in UnderWayAll: IsFull(m) =>
         /\ client[m.src].link[m.dst] # "closed"
         /\ m.payload = Full(client[m.src].record)

OpeningInv == Undisturbed => Opening

-----------------------------------------------------------------------------
(* The state of one Client.                                                *)

LEMMA NeighbourFacts ==
    ASSUME NEW p \in PeerSet
    PROVE  /\ Neighbours(p) \subseteq PeerSet
           /\ \A q \in Neighbours(p): q # p /\ p \in Neighbours(q) /\ {p, q} = {q, p}
                                      /\ {p, q} \in setup.links
BY DEF Neighbours

LEMMA ClientFields ==
    ASSUME NEW p, NEW c \in ClientType(p)
    PROVE  /\ c.record \in Publishable[p]
           /\ c.key \in [Neighbours(p) -> NoSession..setup.sessions]
           /\ c.last \in [Neighbours(p) -> NoSession..setup.sessions]
           /\ c.lane \in [Neighbours(p) -> BOOLEAN]
           /\ c.usable \in [Neighbours(p) -> BOOLEAN]
           /\ c.link \in [Neighbours(p) -> LinkStates]
           /\ c.directory \in Directories(Neighbours(p))
           /\ c.routes \in Directories(Neighbours(p))
BY DEF ClientType

(* The Peers without a lane.                                               *)
Off(c) == {q \in DOMAIN c.lane: ~c.lane[q]}

(* The entry of q in links after the reconciliation.                       *)
LinkAfter(c, q) ==
    IF q \in Lost(c) THEN "closed" ELSE IF q \in Gained(c) THEN "pending" ELSE c.link[q]

LEMMA ReconcileFields ==
    ASSUME NEW p \in PeerSet, NEW c \in ClientType(p)
    PROVE  /\ Reconcile(c) \in ClientType(p)
           /\ Reconcile(c).record = c.record
           /\ Reconcile(c).key = c.key
           /\ Reconcile(c).last = c.last
           /\ Reconcile(c).lane = c.lane
           /\ Reconcile(c).usable = c.lane
           /\ \A q \in Neighbours(p): Reconcile(c).link[q] = LinkAfter(c, q)
           /\ Reconcile(c).directory = Update(c.directory, Lost(c), <<>>)
           /\ Reconcile(c).routes = Update(c.routes, Off(c), Others(c.directory, Off(c)))
<1> DEFINE N == Neighbours(p)
<1> DEFINE r == Reconcile(c)
<1>1. N \subseteq PeerSet
    BY NeighbourFacts
<1>2. /\ c.lane \in [N -> BOOLEAN] /\ c.usable \in [N -> BOOLEAN]
      /\ c.link \in [N -> LinkStates]
      /\ c.directory \in Directories(N) /\ c.routes \in Directories(N)
    BY ClientFields
<1>3. Lost(c) \in SUBSET N /\ Gained(c) \in SUBSET N /\ Off(c) \in SUBSET N
    BY <1>2 DEF Lost, Gained, Off
<1>4. DOMAIN c.directory.records \subseteq N /\ c.directory.records \in [DOMAIN c.directory.records -> Records]
    BY <1>2, DirectoryFields
<1>5. Routable(c) = Others(c.directory, Off(c))
    <2>1. {q \in DOMAIN c.directory.records: c.lane[q]} = DOMAIN c.directory.records \ Off(c)
        BY <1>2, <1>4 DEF Off
    <2> QED
        BY <2>1 DEF Routable, Others
<1>6. /\ DOMAIN c.directory.records \ Off(c) \in SUBSET N
      /\ Others(c.directory, Off(c)) \in [DOMAIN c.directory.records \ Off(c) -> Records]
    BY <1>4 DEF Others
<1>7. Update(c.routes, Off(c), Others(c.directory, Off(c))) \in Directories(N)
    BY <1>1, <1>2, <1>3, <1>6, UpdateType
<1>8. Update(c.directory, Lost(c), <<>>) \in Directories(N)
    <2>1. <<>> \in [{} -> Records] /\ {} \in SUBSET N
        OBVIOUS
    <2> QED
        BY <1>1, <1>2, <1>3, <2>1, UpdateType
<1> DEFINE k == [q \in DOMAIN c.link |-> LinkAfter(c, q)]
<1>9. k \in [N -> LinkStates] /\ \A q \in N: k[q] = LinkAfter(c, q)
    BY <1>2 DEF LinkAfter, LinkStates
<1>10. r = [c EXCEPT !.link = k,
                     !.directory = Update(c.directory, Lost(c), <<>>),
                     !.routes = Update(c.routes, Off(c), Others(c.directory, Off(c))),
                     !.usable = c.lane]
    BY <1>5 DEF Reconcile, Off, LinkAfter
<1> HIDE DEF k, r
<1> DEFINE d == Update(c.directory, Lost(c), <<>>)
<1> DEFINE e == Update(c.routes, Off(c), Others(c.directory, Off(c)))
<1>11. r = [c EXCEPT !.link = k, !.directory = d, !.routes = e, !.usable = c.lane]
    BY <1>10
<1>12. d \in Directories(N) /\ e \in Directories(N)
    BY <1>7, <1>8
<1> HIDE DEF d, e
<1>13. /\ r \in ClientType(p)
       /\ r.record = c.record /\ r.key = c.key /\ r.last = c.last /\ r.lane = c.lane
       /\ r.usable = c.lane /\ r.link = k /\ r.directory = d /\ r.routes = e
    BY <1>2, <1>9, <1>11, <1>12 DEF ClientType
<1> QED
    BY <1>9, <1>13 DEF r, d, e

(* What the reconciliation does when the route matcher's copy and the      *)
(* directory come out the same.                                            *)
LEMMA ReconcileMirrors ==
    ASSUME NEW p \in PeerSet, NEW c \in ClientType(p),
           Exact(c.routes),
           \A q \in DOMAIN c.directory.records: c.link[q] # "closed",
           \A q \in DOMAIN c.link: c.link[q] # "closed" <=> c.usable[q],
           Update(c.routes, Off(c), Others(c.directory, Off(c))) = Update(c.directory, Lost(c), <<>>)
    PROVE  /\ Mirrors(Reconcile(c))
           /\ Follows(c.routes, Reconcile(c).routes)
<1> DEFINE N == Neighbours(p)
<1> DEFINE r == Reconcile(c)
<1>1. N \subseteq PeerSet
    BY NeighbourFacts
<1>2. /\ c.lane \in [N -> BOOLEAN] /\ c.usable \in [N -> BOOLEAN]
      /\ c.link \in [N -> LinkStates]
      /\ c.directory \in Directories(N) /\ c.routes \in Directories(N)
    BY ClientFields
<1>3. /\ r \in ClientType(p) /\ r.usable = c.lane
      /\ \A q \in N: r.link[q] = LinkAfter(c, q)
      /\ r.directory = Update(c.directory, Lost(c), <<>>)
      /\ r.routes = Update(c.routes, Off(c), Others(c.directory, Off(c)))
    BY ReconcileFields
<1>4. r.link \in [N -> LinkStates]
    BY <1>3, ClientFields
<1> HIDE DEF r
<1>5. DOMAIN c.directory.records \subseteq N /\ c.directory.records \in [DOMAIN c.directory.records -> Records]
    BY <1>2, DirectoryFields
<1>6. /\ DOMAIN c.directory.records \ Off(c) \in SUBSET N /\ Off(c) \in SUBSET N
      /\ Others(c.directory, Off(c)) \in [DOMAIN c.directory.records \ Off(c) -> Records]
      /\ Off(c) \cap (DOMAIN c.directory.records \ Off(c)) = {}
    BY <1>2, <1>5 DEF Others, Off
<1>7. Exact(r.routes) /\ Follows(c.routes, r.routes)
    <2> DEFINE new == Others(c.directory, Off(c))
    <2> DEFINE Q == DOMAIN c.directory.records \ Off(c)
    <2>1. Q \in SUBSET N /\ new \in [Q -> Records] /\ Off(c) \cap Q = {} /\ Off(c) \in SUBSET N
        BY <1>6
    <2> HIDE DEF new, Q
    <2>2. Exact(Update(c.routes, Off(c), new)) /\ Follows(c.routes, Update(c.routes, Off(c), new))
        BY <1>1, <1>2, <2>1, UpdateExact, UpdateFollows
    <2> QED
        BY <1>3, <2>2 DEF new
<1>8. \A q \in N: r.link[q] # "closed" <=> r.usable[q]
    BY <1>2, <1>3 DEF LinkAfter, Lost, Gained
<1>9. ASSUME NEW q \in DOMAIN r.directory.records PROVE r.link[q] # "closed"
    <2>1. DOMAIN r.directory.records = (DOMAIN c.directory.records \ Lost(c)) \cup DOMAIN <<>>
        BY <1>3, UpdateRecords
    <2>2. q \in DOMAIN c.directory.records /\ q \notin Lost(c) /\ q \in N
        BY <1>5, <2>1
    <2> QED
        BY <1>3, <2>2 DEF LinkAfter
<1>10. r.routes = r.directory
    BY <1>3
<1> QED
    BY <1>4, <1>7, <1>8, <1>9, <1>10 DEF Mirrors, r

(* The reconciliation of a Client whose route matcher mirrors gossip.      *)
LEMMA ReconcileKeeps ==
    ASSUME NEW p \in PeerSet, NEW c \in ClientType(p), Mirrors(c)
    PROVE  /\ Mirrors(Reconcile(c))
           /\ Follows(c.routes, Reconcile(c).routes)
<1> DEFINE N == Neighbours(p)
<1>1. /\ c.lane \in [N -> BOOLEAN] /\ c.usable \in [N -> BOOLEAN]
      /\ c.link \in [N -> LinkStates] /\ c.directory \in Directories(N)
    BY ClientFields
<1>2. DOMAIN c.directory.records \subseteq N
    BY <1>1, DirectoryFields
<1>3. Lost(c) \cap DOMAIN c.directory.records = Off(c) \cap DOMAIN c.directory.records
    BY <1>1, <1>2 DEF Lost, Off, Mirrors
<1>4. Update(c.directory, Off(c), Others(c.directory, Off(c))) = Update(c.directory, Lost(c), <<>>)
    BY <1>3, MirrorPruned
<1> QED
    BY <1>4, ReconcileMirrors DEF Mirrors

(* ... and of one that has just received a record of a linked origin.      *)
LEMMA ReconcileReceived ==
    ASSUME NEW p \in PeerSet, NEW b \in ClientType(p), Mirrors(b),
           NEW q \in Neighbours(p), b.link[q] # "closed",
           NEW payload, payload.kind = "RuntimeRecord", payload.record \in Records
    PROVE  LET c == Apply(b, q, payload)
           IN  /\ c \in ClientType(p)
               /\ Mirrors(Reconcile(c))
               /\ Follows(b.routes, Reconcile(c).routes)
<1> DEFINE N == Neighbours(p)
<1> DEFINE c == Apply(b, q, payload)
<1> DEFINE e == replace_origin(b.directory, q, payload.record)
<1> DEFINE k == [b.link EXCEPT ![q] = "answered"]
<1>1. N \subseteq PeerSet
    BY NeighbourFacts
<1>2. /\ b.lane \in [N -> BOOLEAN] /\ b.usable \in [N -> BOOLEAN]
      /\ b.link \in [N -> LinkStates]
      /\ b.directory \in Directories(N) /\ b.routes \in Directories(N)
    BY ClientFields
<1>3. e \in Directories(N) /\ DOMAIN e.records = DOMAIN b.directory.records \cup {q}
    <2> DEFINE one == [o \in {q} |-> payload.record]
    <2>1. one \in [{q} -> Records] /\ {q} \in SUBSET N /\ {} \in SUBSET N /\ DOMAIN one = {q}
        OBVIOUS
    <2>2. e = Update(b.directory, {}, one)
        BY DEF replace_origin
    <2> HIDE DEF one, e
    <2>3. e \in Directories(N)
        BY <1>1, <1>2, <2>1, <2>2, UpdateType
    <2>4. DOMAIN e.records = (DOMAIN b.directory.records \ {}) \cup DOMAIN one
        BY <2>2, UpdateRecords
    <2> QED
        BY <2>1, <2>3, <2>4
<1>4. k \in [N -> LinkStates] /\ k[q] = "answered" /\ \A o \in N: o # q => k[o] = b.link[o]
    BY <1>2 DEF LinkStates
<1>5. c = [b EXCEPT !.directory = e, !.link = k]
    BY DEF Apply
<1> HIDE DEF c, e, k
<1>6. /\ c \in ClientType(p)
      /\ c.lane = b.lane /\ c.usable = b.usable /\ c.link = k /\ c.directory = e
      /\ c.routes = b.routes
    BY <1>3, <1>4, <1>5 DEF ClientType
<1>7. \A o \in DOMAIN c.link: c.link[o] # "closed" <=> c.usable[o]
    BY <1>2, <1>4, <1>6 DEF Mirrors
<1>8. \A o \in DOMAIN e.records: o \in N /\ c.link[o] # "closed"
    <2>1. DOMAIN b.directory.records \subseteq N
        BY <1>2, DirectoryFields
    <2> QED
        BY <1>3, <1>4, <1>6, <2>1 DEF Mirrors
<1>9. Lost(c) \cap DOMAIN e.records = Off(c) \cap DOMAIN e.records
    BY <1>2, <1>4, <1>6, <1>7, <1>8 DEF Lost, Off
<1>10. Lost(c) \in SUBSET N /\ Off(c) \in SUBSET N
    BY <1>2, <1>6 DEF Lost, Off
<1>11. Update(b.directory, Off(c), Others(e, Off(c))) = Update(e, Lost(c), <<>>)
    BY <1>1, <1>2, <1>9, <1>10, MirrorReceived DEF Mirrors, e
<1>12. Update(c.routes, Off(c), Others(c.directory, Off(c))) = Update(c.directory, Lost(c), <<>>)
    BY <1>6, <1>11 DEF Mirrors
<1>13. Exact(c.routes) /\ \A o \in DOMAIN c.directory.records: c.link[o] # "closed"
    BY <1>6, <1>8 DEF Mirrors
<1>14. Mirrors(Reconcile(c)) /\ Follows(c.routes, Reconcile(c).routes)
    BY <1>6, <1>7, <1>12, <1>13, ReconcileMirrors
<1> QED
    BY <1>6, <1>14 DEF c

-----------------------------------------------------------------------------
(* Messages.                                                               *)

LEMMA AddAllBag ==
    ASSUME NEW B, IsABag(B), NEW S
    PROVE  IsABag(AddAll(B, S)) /\ DOMAIN AddAll(B, S) = DOMAIN B \cup S
<1> DEFINE A == AddAll(B, S)
<1>1. /\ DOMAIN A = DOMAIN B \cup S
      /\ \A e \in DOMAIN A: A[e] = (IF e \in DOMAIN B THEN B[e] ELSE 0) + (IF e \in S THEN 1 ELSE 0)
      /\ A = [e \in DOMAIN B \cup S |-> A[e]]
    BY DEF AddAll, (+), SetToBag
<1>2. \A e \in DOMAIN B: B[e] \in Nat /\ B[e] > 0
    BY DEF IsABag
<1> HIDE DEF A
<1>3. ASSUME NEW e \in DOMAIN A PROVE A[e] \in {n \in Nat: n > 0}
    <2>1. CASE e \in DOMAIN B
        <3>1. B[e] \in Nat /\ B[e] > 0
            BY <1>2, <2>1
        <3>2. A[e] = B[e] + (IF e \in S THEN 1 ELSE 0)
            BY <1>1, <2>1
        <3>3. A[e] = B[e] \/ A[e] = B[e] + 1
            BY <3>1, <3>2
        <3> QED
            BY <3>1, <3>3
    <2>2. CASE e \notin DOMAIN B
        <3>1. e \in S
            BY <1>1, <2>2
        <3>2. A[e] = 0 + 1
            BY <1>1, <2>2, <3>1
        <3> QED
            BY <3>2
    <2> QED
        BY <2>1, <2>2
<1> QED
    BY <1>1, <1>3 DEF IsABag, A

LEMMA TakeBag ==
    ASSUME NEW B, IsABag(B), NEW m
    PROVE  /\ IsABag(Take(B, m))
           /\ DOMAIN Take(B, m) \subseteq DOMAIN B
           /\ DOMAIN B \ {m} \subseteq DOMAIN Take(B, m)
<1> DEFINE A == Take(B, m)
<1> DEFINE left(e) == IF e = m THEN B[e] - 1 ELSE B[e]
<1>1. /\ DOMAIN A = {e \in DOMAIN B: left(e) > 0}
      /\ A = [e \in {d \in DOMAIN B: left(d) > 0} |-> left(e)]
    BY DEF Take, (-), SetToBag
<1>2. \A e \in DOMAIN B: B[e] \in Nat /\ B[e] > 0
    BY DEF IsABag
<1>3. \A e \in DOMAIN A: A[e] \in {n \in Nat: n > 0}
    BY <1>1, <1>2
<1>4. \A e \in DOMAIN B: e # m => e \in DOMAIN A
    BY <1>1, <1>2
<1>5. A = [e \in DOMAIN A |-> A[e]]
    BY <1>1
<1> HIDE DEF A
<1> QED
    BY <1>1, <1>3, <1>4, <1>5 DEF IsABag, A

LEMMA PayloadTypes ==
    ASSUME NEW p \in PeerSet, NEW record \in Publishable[p]
    PROVE  Full(record) \in Payloads /\ Digest(record) \in Payloads /\ Need \in Payloads
           /\ record \in Records
BY GossipAssumption DEF Full, Digest, Need, Payloads

(* Messages of p with typed payloads stay typed when they are sealed.      *)
LEMMA SealedTypes ==
    ASSUME NEW p \in PeerSet, NEW c \in ClientType(p), setup.sessions \in Nat,
           NEW S, \A m \in S: m.src = p /\ MessageType(m),
           NEW ss, \A q \in Neighbours(p): c.key[q] <= ss[{p, q}] /\ ss[{p, q}] \in Nat
    PROVE  \A m \in SealAll(p, c, S): /\ MessageType(m)
                                      /\ m.session \in 1..ss[{m.src, m.dst}]
<1> SUFFICES ASSUME NEW n \in S, c.key[n.dst] # NoSession, NEW m,
                    m = [src |-> p, dst |-> n.dst, payload |-> n.payload, session |-> c.key[n.dst]]
             PROVE  MessageType(m) /\ m.session \in 1..ss[{m.src, m.dst}]
    BY DEF SealAll
<1>1. n.dst \in Neighbours(p) /\ n.payload \in Payloads
    BY DEF MessageType
<1>2. m.src = p /\ m.dst = n.dst /\ m.payload = n.payload /\ m.session = c.key[n.dst]
    OBVIOUS
<1>3. c.key[n.dst] \in Nat
    BY <1>1, ClientFields DEF NoSession
<1>4. MessageType(m)
    BY <1>1, <1>2 DEF MessageType
<1>5. c.key[n.dst] \in 1..ss[{p, n.dst}]
    BY <1>1, <1>3 DEF NoSession
<1> QED
    BY <1>2, <1>4, <1>5

LEMMA SyncsTypes ==
    ASSUME NEW p \in PeerSet, NEW c \in ClientType(p)
    PROVE  \A m \in Syncs(p, c): m.src = p /\ MessageType(m)
<1>1. c.lane \in [Neighbours(p) -> BOOLEAN] /\ c.record \in Publishable[p]
    BY ClientFields
<1>2. Full(c.record) \in Payloads
    BY <1>1, PayloadTypes
<1> QED
    BY <1>1, <1>2 DEF Syncs, Gained, Message, MessageType

-----------------------------------------------------------------------------
(* Steps.                                                                  *)

LEMMA FollowsSelf ==
    ASSUME NEW N, NEW d \in Directories(N)
    PROVE  Follows(d, d)
<1>1. SUFFICES ASSUME NEW x \in LanPrefixes
               PROVE  IsPrefix(Retain(d.order[x], ToSet(d.order[x])), d.order[x])
    BY DEF Follows
<1>2. d.order[x] \in Seq(N)
    BY DirectoryFields
<1>3. Retain(d.order[x], ToSet(d.order[x])) = d.order[x]
    BY <1>2, RetainAll
<1>4. ASSUME NEW s \in Seq(N) PROVE IsPrefix(s, s)
    BY DEF IsPrefix
<1> QED
    BY <1>2, <1>3, <1>4

AllFollow == \A p \in PeerSet: Follows(client[p].routes, client'[p].routes)

LEMMA SameTypes ==
    ASSUME UNCHANGED setup
    PROVE  /\ \A p: Neighbours(p)' = Neighbours(p)
           /\ \A p: ClientType(p)' = ClientType(p)
           /\ \A m: MessageType(m)' = MessageType(m)
<1>1. \A p: Neighbours(p)' = Neighbours(p)
    BY DEF Neighbours
<1>2. \A p: ClientType(p)' = ClientType(p)
    BY <1>1 DEF ClientType
<1> QED
    BY <1>1, <1>2 DEF MessageType

(* One Client moves.                                                       *)
LEMMA ClientMoves ==
    ASSUME ClientsOK, UNCHANGED setup, NEW p \in PeerSet, NEW c \in ClientType(p),
           Mirrors(c), Keyed(c), Follows(client[p].routes, c.routes),
           client' = [client EXCEPT ![p] = c]
    PROVE  ClientsOK' /\ AllFollow
<1>1. /\ DOMAIN client' = PeerSet /\ client'[p] = c
      /\ \A x \in PeerSet: x # p => client'[x] = client[x]
    BY DEF ClientsOK
<1>2. \A x: ClientType(x)' = ClientType(x)
    BY SameTypes
<1>3. ASSUME NEW x \in PeerSet
      PROVE  /\ client'[x] \in ClientType(x) /\ Mirrors(client'[x]) /\ Keyed(client'[x])
             /\ Follows(client[x].routes, client'[x].routes)
    <2>1. CASE x = p
        BY <1>1, <2>1
    <2>2. CASE x # p
        <3>1. client'[x] = client[x] /\ client[x] \in ClientType(x)
            BY <1>1, <2>2 DEF ClientsOK
        <3>2. client[x].routes \in Directories(Neighbours(x))
            BY <3>1, ClientFields
        <3> QED
            BY <3>1, <3>2, FollowsSelf DEF ClientsOK
    <2> QED
        BY <2>1, <2>2
<1>4. ClientsOK'
    BY <1>1, <1>2, <1>3 DEF ClientsOK, Mirrors, Keyed
<1> QED
    BY <1>3, <1>4 DEF AllFollow

LEMMA ClientsStay ==
    ASSUME ClientsOK, UNCHANGED <<setup, client>>
    PROVE  ClientsOK' /\ AllFollow
<1>1. \A x: ClientType(x)' = ClientType(x)
    BY SameTypes
<1>2. ClientsOK'
    BY <1>1 DEF ClientsOK, Mirrors, Keyed
<1>3. \A x \in PeerSet: client[x].routes \in Directories(Neighbours(x))
    BY ClientFields DEF ClientsOK
<1> QED
    BY <1>2, <1>3, FollowsSelf DEF AllFollow

LEMMA NegotiatedMoves ==
    ASSUME ClientsOK, Negotiated, UNCHANGED setup, setup.sessions \in Nat,
           sessions \in [setup.links -> Nat], sessions' \in [setup.links -> Nat],
           \A l \in setup.links: sessions[l] <= sessions'[l],
           NEW p \in PeerSet, NEW c,
           \A q \in Neighbours(p): c.key[q] <= c.last[q] /\ c.key[q] <= sessions'[{p, q}],
           client' = [client EXCEPT ![p] = c]
    PROVE  Negotiated'
<1>1. \A x: Neighbours(x)' = Neighbours(x)
    BY SameTypes
<1>2. client'[p] = c /\ \A x \in PeerSet: x # p => client'[x] = client[x]
    BY DEF ClientsOK
<1>3. SUFFICES ASSUME NEW x \in PeerSet, NEW q \in Neighbours(x)
               PROVE  client'[x].key[q] <= client'[x].last[q] /\ client'[x].key[q] <= sessions'[{x, q}]
    BY <1>1 DEF Negotiated
<1>4. CASE x = p
    BY <1>2, <1>4
<1>5. CASE x # p
    <2>1. client'[x] = client[x]
        BY <1>2, <1>5
    <2>2. client[x].key[q] <= client[x].last[q] /\ client[x].key[q] <= sessions[{x, q}]
        BY DEF Negotiated
    <2>3. {x, q} \in setup.links
        BY NeighbourFacts
    <2>4. /\ sessions[{x, q}] <= sessions'[{x, q}]
          /\ sessions[{x, q}] \in Nat /\ sessions'[{x, q}] \in Nat
        BY <2>3
    <2>5. client[x].key[q] \in Nat
        BY ClientFields DEF ClientsOK, NoSession
    <2>6. client[x].key[q] <= sessions'[{x, q}]
        BY <2>2, <2>4, <2>5
    <2> QED
        BY <2>1, <2>2, <2>6
<1> QED
    BY <1>4, <1>5

LEMMA SetupFacts ==
    ASSUME GossipInv
    PROVE  /\ setup.sessions \in Nat
           /\ sessions \in [setup.links -> Nat]
           /\ \A what \in Bounds: spent[what] \in Nat
<1>1. setup \in SetupType
    BY GossipAssumption DEF GossipInv
<1>2. setup.sessions \in Nat
    BY <1>1 DEF SetupType
<1>3. \A n \in NoSession..setup.sessions: n \in Nat
    BY <1>2 DEF NoSession
<1> QED
    BY <1>2, <1>3 DEF GossipInv

LEMMA SpendType ==
    ASSUME spent \in [Bounds -> Nat], NEW what \in Bounds, Spend(what)
    PROVE  spent' \in [Bounds -> Nat] /\ spent' # [b \in Bounds |-> 0]
BY DEF Spend

(* What a reconciliation of a Client that is in order leaves: the Client   *)
(* is in order, and what it sends is typed.                                *)
LEMMA Reconciles ==
    ASSUME NEW p \in PeerSet, NEW c \in ClientType(p), Mirrors(c), Keyed(c)
    PROVE  /\ Reconcile(c) \in ClientType(p)
           /\ Mirrors(Reconcile(c)) /\ Keyed(Reconcile(c))
           /\ Reconcile(c).key = c.key /\ Reconcile(c).last = c.last
           /\ Follows(c.routes, Reconcile(c).routes)
<1> DEFINE r == Reconcile(c)
<1>1. /\ r \in ClientType(p) /\ r.key = c.key /\ r.last = c.last /\ r.lane = c.lane
      /\ r.usable = c.lane
    BY ReconcileFields
<1>2. Mirrors(r) /\ Follows(c.routes, r.routes)
    BY ReconcileKeeps
<1>3. DOMAIN r.link = Neighbours(p) /\ DOMAIN c.link = Neighbours(p)
    BY <1>1, ClientFields
<1> HIDE DEF r
<1>4. Keyed(r)
    BY <1>1, <1>3 DEF Keyed
<1> QED
    BY <1>1, <1>2, <1>4 DEF r

(* net takes sealed messages, outbound unsealed ones, opened gives one up. *)
LEMMA MessagesMove ==
    ASSUME GossipInv, UNCHANGED setup,
           IsABag(outbound'), IsABag(net'), IsABag(opened'),
           sessions' \in [setup.links -> Nat],
           \A l \in setup.links: sessions[l] <= sessions'[l],
           \A m \in DOMAIN outbound': m \in DOMAIN outbound \/ MessageType(m),
           \A m \in DOMAIN net': \/ m \in DOMAIN net
                                 \/ MessageType(m) /\ m.session \in 1..sessions'[{m.src, m.dst}],
           \A m \in DOMAIN opened': m \in DOMAIN opened \/ MessageType(m)
    PROVE  MessagesOK'
<1>1. \A m: MessageType(m)' = MessageType(m)
    BY SameTypes
<1>2. \A m \in DOMAIN outbound' \cup DOMAIN net' \cup DOMAIN opened': MessageType(m)
    BY DEF GossipInv, MessagesOK
<1>3. ASSUME NEW m \in DOMAIN net' PROVE m.session \in 1..sessions'[{m.src, m.dst}]
    <2>1. CASE m \in DOMAIN net
        <3>1. m.session \in 1..sessions[{m.src, m.dst}] /\ MessageType(m)
            BY <2>1 DEF GossipInv, MessagesOK
        <3>2. {m.src, m.dst} \in setup.links
            BY <3>1, NeighbourFacts DEF MessageType
        <3>3. /\ sessions[{m.src, m.dst}] <= sessions'[{m.src, m.dst}]
              /\ sessions[{m.src, m.dst}] \in Nat /\ sessions'[{m.src, m.dst}] \in Nat
            BY <3>2, SetupFacts
        <3> QED
            BY <3>1, <3>3
    <2> QED
        BY <2>1
<1> QED
    BY <1>1, <1>2, <1>3 DEF MessagesOK

LEMMA InstallLinkKeeps ==
    ASSUME GossipInv, NEW p \in PeerSet, NEW q \in Neighbours(p), InstallLink(p, q)
    PROVE  GossipInv' /\ AllFollow
<1> DEFINE N == Neighbours(p)
<1> DEFINE b == client[p]
<1>1. PICK n \in {sessions[{p, q}], sessions[{p, q}] + 1}:
         /\ n \in (b.last[q] + 1)..setup.sessions
         /\ LET keyed == [b EXCEPT !.key[q] = n, !.last[q] = n]
                c == Reconcile(keyed)
                again == b.key[q] # NoSession /\ c.usable[q]
            IN  /\ client' = [client EXCEPT ![p] = IF again THEN link_ready(c, q) ELSE c]
                /\ net' = AddAll(AddAll(net, SealAll(p, keyed, Syncs(p, keyed))),
                                 SealAll(p, c, {Message(p, o, Full(c.record)):
                                                  o \in {m \in {q}: again}}))
         /\ sessions' = [sessions EXCEPT ![{p, q}] = n]
    BY DEF InstallLink
<1> DEFINE keyed == [b EXCEPT !.key[q] = n, !.last[q] = n]
<1> DEFINE c == Reconcile(keyed)
<1> DEFINE again == b.key[q] # NoSession /\ c.usable[q]
<1> DEFINE e == IF again THEN link_ready(c, q) ELSE c
<1> DEFINE S == {Message(p, o, Full(c.record)): o \in {m \in {q}: again}}
<1>2. UNCHANGED <<outbound, opened, spent, setup>>
    BY DEF InstallLink
<1>3. setup.sessions \in Nat /\ sessions \in [setup.links -> Nat]
    BY SetupFacts
<1>4. {p, q} \in setup.links
    BY NeighbourFacts
<1>5. b \in ClientType(p) /\ Mirrors(b) /\ Keyed(b)
    BY DEF GossipInv, ClientsOK
<1>6. b.key \in [N -> NoSession..setup.sessions] /\ b.last \in [N -> NoSession..setup.sessions]
    BY <1>5, ClientFields
<1>7. n \in Nat /\ n > 0 /\ n <= setup.sessions /\ sessions[{p, q}] <= n
    BY <1>1, <1>3, <1>4, <1>6 DEF NoSession
<1>8. /\ sessions' \in [setup.links -> NoSession..setup.sessions]
      /\ sessions' \in [setup.links -> Nat] /\ sessions'[{p, q}] = n
      /\ \A l \in setup.links: sessions[l] <= sessions'[l]
    <2>1. n \in NoSession..setup.sessions
        BY <1>3, <1>7 DEF NoSession
    <2>2. sessions \in [setup.links -> NoSession..setup.sessions]
        BY DEF GossipInv
    <2>3. /\ sessions'[{p, q}] = n
          /\ \A l \in setup.links: l # {p, q} => sessions'[l] = sessions[l]
          /\ sessions' \in [setup.links -> NoSession..setup.sessions]
          /\ sessions' \in [setup.links -> Nat]
        BY <1>1, <1>3, <1>4, <1>7, <2>1, <2>2
    <2>4. \A l \in setup.links: sessions[l] <= sessions[l]
        BY <1>3
    <2> QED
        BY <1>7, <2>3, <2>4
<1>9. /\ keyed \in ClientType(p)
      /\ keyed.lane = b.lane /\ keyed.usable = b.usable /\ keyed.link = b.link
      /\ keyed.directory = b.directory /\ keyed.routes = b.routes /\ keyed.record = b.record
      /\ keyed.key = [b.key EXCEPT ![q] = n] /\ keyed.last = [b.last EXCEPT ![q] = n]
    <2>1. n \in NoSession..setup.sessions
        BY <1>3, <1>7 DEF NoSession
    <2>2. /\ [b.key EXCEPT ![q] = n] \in [N -> NoSession..setup.sessions]
          /\ [b.last EXCEPT ![q] = n] \in [N -> NoSession..setup.sessions]
        BY <1>6, <2>1
    <2> HIDE DEF b
    <2> QED
        BY <1>5, <2>2 DEF ClientType
<1> HIDE DEF keyed
<1>10. Mirrors(keyed)
    BY <1>5, <1>9 DEF Mirrors
<1>11. Keyed(keyed)
    <2>1. DOMAIN b.link = N
        BY <1>5, ClientFields
    <2>2. \A o \in N: keyed.key[o] = IF o = q THEN n ELSE b.key[o]
        BY <1>6, <1>9
    <2> QED
        BY <1>5, <1>7, <1>9, <2>1, <2>2 DEF Keyed, NoSession
<1>12. /\ c \in ClientType(p) /\ Mirrors(c) /\ Keyed(c) /\ c.key = keyed.key /\ c.last = keyed.last
       /\ Follows(keyed.routes, c.routes)
    BY <1>9, <1>10, <1>11, Reconciles
<1> HIDE DEF c
<1>13. /\ e \in ClientType(p) /\ Mirrors(e) /\ Keyed(e) /\ e.key = keyed.key /\ e.last = keyed.last
       /\ Follows(b.routes, e.routes)
    <2>1. CASE again
        <3>1. c.link \in [N -> LinkStates] /\ c.usable \in [N -> BOOLEAN]
            BY <1>12, ClientFields
        <3>2. /\ link_ready(c, q) \in ClientType(p)
              /\ link_ready(c, q).link = [c.link EXCEPT ![q] = "pending"]
              /\ link_ready(c, q).key = c.key /\ link_ready(c, q).last = c.last
              /\ link_ready(c, q).lane = c.lane /\ link_ready(c, q).usable = c.usable
              /\ link_ready(c, q).directory = c.directory /\ link_ready(c, q).routes = c.routes
            <4>1. [c.link EXCEPT ![q] = "pending"] \in [N -> LinkStates]
                BY <3>1 DEF LinkStates
            <4> QED
                BY <1>12, <4>1 DEF link_ready, ClientType
        <3>3. /\ DOMAIN [c.link EXCEPT ![q] = "pending"] = N /\ DOMAIN c.link = N
              /\ \A o \in N: [c.link EXCEPT ![q] = "pending"][o] = IF o = q THEN "pending" ELSE c.link[o]
            BY <3>1
        <3>4. DOMAIN c.directory.records \subseteq N
            BY <1>12, ClientFields, DirectoryFields
        <3>5. Mirrors(link_ready(c, q))
            BY <1>12, <2>1, <3>2, <3>3, <3>4 DEF Mirrors
        <3>6. Keyed(link_ready(c, q))
            BY <1>12, <3>2, <3>3 DEF Keyed
        <3> QED
            BY <1>9, <1>12, <2>1, <3>2, <3>5, <3>6
    <2>2. CASE ~again
        BY <1>9, <1>12, <2>2
    <2> QED
        BY <2>1, <2>2
<1>14. client' = [client EXCEPT ![p] = e]
    BY <1>1 DEF c, keyed
<1> HIDE DEF e
<1>15. ClientsOK' /\ AllFollow
    BY <1>2, <1>13, <1>14, ClientMoves DEF GossipInv
<1>16. \A o \in N: /\ keyed.key[o] <= keyed.last[o] /\ keyed.key[o] <= sessions'[{p, o}]
                   /\ sessions'[{p, o}] \in Nat
    <2>1. SUFFICES ASSUME NEW o \in N
                   PROVE  /\ keyed.key[o] <= keyed.last[o] /\ keyed.key[o] <= sessions'[{p, o}]
                          /\ sessions'[{p, o}] \in Nat
        OBVIOUS
    <2>2. {p, o} \in setup.links
        BY NeighbourFacts
    <2>3. sessions'[{p, o}] \in Nat
        BY <1>8, <2>2
    <2>4. CASE o = q
        BY <1>6, <1>7, <1>8, <1>9, <2>3, <2>4
    <2>5. CASE o # q
        <3>1. keyed.key[o] = b.key[o] /\ keyed.last[o] = b.last[o]
            BY <1>6, <1>9, <2>5
        <3>2. b.key[o] <= b.last[o] /\ b.key[o] <= sessions[{p, o}]
            BY DEF GossipInv, Negotiated
        <3>3. b.key[o] \in Nat /\ sessions[{p, o}] \in Nat /\ sessions[{p, o}] <= sessions'[{p, o}]
            BY <1>3, <1>6, <1>8, <2>2 DEF NoSession
        <3>4. b.key[o] <= sessions'[{p, o}]
            BY <2>3, <3>2, <3>3
        <3> QED
            BY <2>3, <3>1, <3>2, <3>4
    <2> QED
        BY <2>4, <2>5
<1>17. Negotiated'
    BY <1>2, <1>3, <1>8, <1>13, <1>14, <1>16, NegotiatedMoves DEF GossipInv
<1>18. MessagesOK'
    <2>1. \A m \in Syncs(p, keyed): m.src = p /\ MessageType(m)
        BY <1>9, SyncsTypes
    <2>2. \A m \in SealAll(p, keyed, Syncs(p, keyed)):
             MessageType(m) /\ m.session \in 1..sessions'[{m.src, m.dst}]
        BY <1>3, <1>9, <1>16, <2>1, SealedTypes
    <2>3. \A m \in S: m.src = p /\ MessageType(m)
        <3>1. Full(c.record) \in Payloads
            BY <1>12, ClientFields, PayloadTypes
        <3> QED
            BY <3>1 DEF Message, MessageType
    <2>4. \A m \in SealAll(p, c, S): MessageType(m) /\ m.session \in 1..sessions'[{m.src, m.dst}]
        BY <1>3, <1>12, <1>16, <2>3, SealedTypes
    <2>5. net' = AddAll(AddAll(net, SealAll(p, keyed, Syncs(p, keyed))), SealAll(p, c, S))
        BY <1>1 DEF c, keyed
    <2>6. IsABag(net) /\ IsABag(outbound) /\ IsABag(opened)
        BY DEF GossipInv, MessagesOK
    <2> HIDE DEF S
    <2>7. /\ IsABag(AddAll(net, SealAll(p, keyed, Syncs(p, keyed))))
          /\ DOMAIN AddAll(net, SealAll(p, keyed, Syncs(p, keyed)))
               = DOMAIN net \cup SealAll(p, keyed, Syncs(p, keyed))
        BY <2>6, AddAllBag
    <2>8. /\ IsABag(net')
          /\ DOMAIN net' = (DOMAIN net \cup SealAll(p, keyed, Syncs(p, keyed))) \cup SealAll(p, c, S)
        BY <2>5, <2>7, AddAllBag
    <2> QED
        BY <1>2, <1>8, <2>2, <2>4, <2>6, <2>8, MessagesMove
<1> QED
    BY <1>2, <1>8, <1>15, <1>17, <1>18 DEF GossipInv

(* What is sent of p is sealed and typed.                                  *)
LEMMA NetSent ==
    ASSUME GossipInv, NEW p \in PeerSet, NEW c \in ClientType(p),
           \A q \in Neighbours(p): c.key[q] \in {NoSession, client[p].key[q]},
           NEW S, \A m \in S: m.src = p /\ MessageType(m)
    PROVE  /\ IsABag(AddAll(net, SealAll(p, c, S)))
           /\ DOMAIN AddAll(net, SealAll(p, c, S)) = DOMAIN net \cup SealAll(p, c, S)
           /\ \A m \in SealAll(p, c, S): MessageType(m) /\ m.session \in 1..sessions[{m.src, m.dst}]
<1>1. setup.sessions \in Nat /\ sessions \in [setup.links -> Nat]
    BY SetupFacts
<1>2. \A q \in Neighbours(p): c.key[q] <= sessions[{p, q}] /\ sessions[{p, q}] \in Nat
    <2>1. SUFFICES ASSUME NEW q \in Neighbours(p)
                   PROVE  c.key[q] <= sessions[{p, q}] /\ sessions[{p, q}] \in Nat
        OBVIOUS
    <2>2. sessions[{p, q}] \in Nat
        BY <1>1, NeighbourFacts
    <2>3. client[p].key[q] <= sessions[{p, q}]
        BY DEF GossipInv, Negotiated
    <2> QED
        BY <2>2, <2>3 DEF NoSession
<1>3. \A m \in SealAll(p, c, S): MessageType(m) /\ m.session \in 1..sessions[{m.src, m.dst}]
    BY <1>1, <1>2, SealedTypes
<1>4. IsABag(net)
    BY DEF GossipInv, MessagesOK
<1> QED
    BY <1>3, <1>4, AddAllBag

(* Messages move, and no session is negotiated.                            *)
LEMMA MessagesSame ==
    ASSUME GossipInv, UNCHANGED <<setup, sessions>>,
           IsABag(outbound'), IsABag(net'), IsABag(opened'),
           \A m \in DOMAIN outbound': m \in DOMAIN outbound \/ MessageType(m),
           \A m \in DOMAIN net': \/ m \in DOMAIN net
                                 \/ MessageType(m) /\ m.session \in 1..sessions[{m.src, m.dst}],
           \A m \in DOMAIN opened': m \in DOMAIN opened \/ MessageType(m)
    PROVE  MessagesOK'
<1>1. sessions' \in [setup.links -> Nat] /\ \A l \in setup.links: sessions[l] <= sessions'[l]
    BY SetupFacts
<1> QED
    BY <1>1, MessagesMove

(* One Client moves, and no session is negotiated.                         *)
LEMMA ClientStep ==
    ASSUME GossipInv, UNCHANGED <<setup, sessions>>, spent' \in [Bounds -> Nat], MessagesOK',
           NEW p \in PeerSet, NEW c \in ClientType(p), Mirrors(c), Keyed(c),
           Follows(client[p].routes, c.routes),
           \A q \in Neighbours(p): c.key[q] \in {NoSession, client[p].key[q]},
           c.last = client[p].last,
           client' = [client EXCEPT ![p] = c]
    PROVE  GossipInv' /\ AllFollow
<1>1. setup.sessions \in Nat /\ sessions \in [setup.links -> Nat]
    BY SetupFacts
<1>2. ClientsOK' /\ AllFollow
    BY ClientMoves DEF GossipInv
<1>3. \A q \in Neighbours(p): c.key[q] <= c.last[q] /\ c.key[q] <= sessions'[{p, q}]
    <2>1. SUFFICES ASSUME NEW q \in Neighbours(p)
                   PROVE  c.key[q] <= c.last[q] /\ c.key[q] <= sessions[{p, q}]
        OBVIOUS
    <2>2. sessions[{p, q}] \in Nat
        BY <1>1, NeighbourFacts
    <2>3. client[p].key[q] <= sessions[{p, q}] /\ client[p].key[q] <= client[p].last[q]
        BY DEF GossipInv, Negotiated
    <2>4. c.last[q] \in Nat
        BY <1>1, ClientFields DEF NoSession
    <2> QED
        BY <2>2, <2>3, <2>4 DEF NoSession
<1>4. \A l \in setup.links: sessions[l] <= sessions'[l]
    BY <1>1
<1>5. Negotiated'
    BY <1>1, <1>3, <1>4, NegotiatedMoves DEF GossipInv
<1> QED
    BY <1>2, <1>5 DEF GossipInv

(* Only messages move.                                                     *)
LEMMA MessageStep ==
    ASSUME GossipInv, UNCHANGED <<setup, sessions, client>>, spent' \in [Bounds -> Nat],
           MessagesOK'
    PROVE  GossipInv' /\ AllFollow
<1>1. ClientsOK' /\ AllFollow
    BY ClientsStay DEF GossipInv
<1>2. Negotiated'
    BY SameTypes DEF GossipInv, Negotiated
<1> QED
    BY <1>1, <1>2 DEF GossipInv

LaneSet(b, lane) == [b EXCEPT !.lane = lane]

(* A Client whose lanes change, under the keys it has, is in order.        *)
LEMMA LaneMoves ==
    ASSUME NEW p \in PeerSet, NEW b \in ClientType(p), Mirrors(b), Keyed(b),
           NEW lane \in [Neighbours(p) -> BOOLEAN],
           \A q \in Neighbours(p): lane[q] => b.key[q] # NoSession
    PROVE  /\ LaneSet(b, lane) \in ClientType(p)
           /\ Mirrors(LaneSet(b, lane)) /\ Keyed(LaneSet(b, lane))
           /\ LaneSet(b, lane).key = b.key /\ LaneSet(b, lane).last = b.last
           /\ LaneSet(b, lane).routes = b.routes
<1> DEFINE c == LaneSet(b, lane)
<1>1. b.link \in [Neighbours(p) -> LinkStates]
    BY ClientFields
<1>2. /\ c \in ClientType(p)
      /\ c.key = b.key /\ c.last = b.last /\ c.routes = b.routes
      /\ c.usable = b.usable /\ c.link = b.link /\ c.directory = b.directory
      /\ c.lane = lane
    BY DEF ClientType, LaneSet
<1> HIDE DEF c
<1>3. Mirrors(c)
    BY <1>2 DEF Mirrors
<1>4. Keyed(c)
    BY <1>1, <1>2 DEF Keyed
<1> QED
    BY <1>2, <1>3, <1>4 DEF c

LEMMA LaneUpKeeps ==
    ASSUME GossipInv, NEW p \in PeerSet, NEW q \in Neighbours(p), LaneUp(p, q)
    PROVE  GossipInv' /\ AllFollow
<1> DEFINE b == client[p]
<1> DEFINE l == [b.lane EXCEPT ![q] = TRUE]
<1> DEFINE c == LaneSet(b, l)
<1>1. b \in ClientType(p) /\ Mirrors(b) /\ Keyed(b)
    BY DEF GossipInv, ClientsOK
<1>2. /\ c \in ClientType(p) /\ Mirrors(c) /\ Keyed(c)
      /\ c.key = b.key /\ c.last = b.last /\ c.routes = b.routes
    <2>1. b.lane \in [Neighbours(p) -> BOOLEAN] /\ b.link \in [Neighbours(p) -> LinkStates]
        BY <1>1, ClientFields
    <2>2. l \in [Neighbours(p) -> BOOLEAN]
        BY <2>1
    <2>3. \A o \in Neighbours(p): l[o] => b.key[o] # NoSession
        BY <1>1, <2>1 DEF LaneUp, Keyed
    <2> HIDE DEF b, l
    <2> QED
        BY <1>1, <2>2, <2>3, LaneMoves
<1>3. client' = [client EXCEPT ![p] = c] /\ UNCHANGED <<outbound, net, opened, sessions, spent, setup>>
    BY DEF LaneUp, LaneSet
<1>4. Follows(b.routes, b.routes)
    BY <1>1, ClientFields, FollowsSelf
<1>5. MessagesOK'
    BY <1>3, MessagesSame DEF GossipInv, MessagesOK
<1>6. spent' \in [Bounds -> Nat]
    BY <1>3 DEF GossipInv
<1> HIDE DEF c
<1> QED
    BY <1>2, <1>3, <1>4, <1>5, <1>6, ClientStep

LEMMA LaneDownKeeps ==
    ASSUME GossipInv, NEW p \in PeerSet, NEW q \in Neighbours(p), LaneDown(p, q)
    PROVE  GossipInv' /\ AllFollow
<1> DEFINE b == client[p]
<1> DEFINE l == [b.lane EXCEPT ![q] = FALSE]
<1> DEFINE c == LaneSet(b, l)
<1>1. b \in ClientType(p) /\ Mirrors(b) /\ Keyed(b)
    BY DEF GossipInv, ClientsOK
<1>2. /\ c \in ClientType(p) /\ Mirrors(c) /\ Keyed(c)
      /\ c.key = b.key /\ c.last = b.last /\ c.routes = b.routes
    <2>1. b.lane \in [Neighbours(p) -> BOOLEAN] /\ b.link \in [Neighbours(p) -> LinkStates]
        BY <1>1, ClientFields
    <2>2. l \in [Neighbours(p) -> BOOLEAN]
        BY <2>1
    <2>3. \A o \in Neighbours(p): l[o] => b.key[o] # NoSession
        BY <1>1, <2>1 DEF LaneDown, Keyed
    <2> HIDE DEF b, l
    <2> QED
        BY <1>1, <2>2, <2>3, LaneMoves
<1>3. client' = [client EXCEPT ![p] = c] /\ UNCHANGED <<outbound, net, opened, sessions, setup>>
    BY DEF LaneDown, LaneSet
<1>4. Follows(b.routes, b.routes)
    BY <1>1, ClientFields, FollowsSelf
<1>5. MessagesOK'
    BY <1>3, MessagesSame DEF GossipInv, MessagesOK
<1>6. spent' \in [Bounds -> Nat]
    BY SpendType DEF GossipInv, LaneDown, Bounds
<1> HIDE DEF c
<1> QED
    BY <1>2, <1>3, <1>4, <1>5, <1>6, ClientStep

LEMMA ObserveKeeps ==
    ASSUME GossipInv, NEW p \in PeerSet, Observe(p)
    PROVE  GossipInv' /\ AllFollow
<1> DEFINE b == client[p]
<1>1. b \in ClientType(p) /\ Mirrors(b) /\ Keyed(b)
    BY DEF GossipInv, ClientsOK
<1>2. /\ client' = [client EXCEPT ![p] = Reconcile(b)]
      /\ net' = AddAll(net, SealAll(p, b, Syncs(p, b)))
      /\ UNCHANGED <<outbound, opened, sessions, spent, setup>>
    BY DEF Observe
<1>3. /\ Reconcile(b) \in ClientType(p) /\ Mirrors(Reconcile(b)) /\ Keyed(Reconcile(b))
      /\ Reconcile(b).key = b.key /\ Reconcile(b).last = b.last
      /\ Follows(b.routes, Reconcile(b).routes)
    BY <1>1, Reconciles
<1>4. \A m \in Syncs(p, b): m.src = p /\ MessageType(m)
    BY <1>1, SyncsTypes
<1>5. /\ IsABag(net')
      /\ \A m \in DOMAIN net': \/ m \in DOMAIN net
                               \/ MessageType(m) /\ m.session \in 1..sessions[{m.src, m.dst}]
    <2>1. \A q \in Neighbours(p): b.key[q] \in {NoSession, client[p].key[q]}
        OBVIOUS
    <2> DEFINE n == AddAll(net, SealAll(p, b, Syncs(p, b)))
    <2>2. /\ IsABag(n)
          /\ DOMAIN n = DOMAIN net \cup SealAll(p, b, Syncs(p, b))
          /\ \A m \in SealAll(p, b, Syncs(p, b)):
               MessageType(m) /\ m.session \in 1..sessions[{m.src, m.dst}]
        BY <1>1, <1>4, <2>1, NetSent
    <2> HIDE DEF n
    <2> QED
        BY <1>2, <2>2 DEF n
<1>6. MessagesOK'
    BY <1>2, <1>5, MessagesSame DEF GossipInv, MessagesOK
<1>7. spent' \in [Bounds -> Nat]
    BY <1>2 DEF GossipInv
<1> QED
    BY <1>2, <1>3, <1>6, <1>7, ClientStep

(* Removing origins keeps some of the entries of each list.                *)
LEMMA RemovalOrder ==
    ASSUME NEW N, N \subseteq PeerSet, NEW d \in Directories(N), NEW gone \in SUBSET N,
           NEW x \in LanPrefixes
    PROVE  \E T: Update(d, gone, <<>>).order[x] = Retain(d.order[x], T)
<1> DEFINE T == PeerSet \ Leaving(d, gone, <<>>, x)
<1>1. DOMAIN <<>> = {} /\ DOMAIN <<>> \subseteq N
    OBVIOUS
<1>2. UpdatedList(d.order[x], Update(d, gone, <<>>).order[x], N,
                  Leaving(d, gone, <<>>, x), Entering(d, <<>>, x))
    BY <1>1, UpdateOrder
<1>3. Entering(d, <<>>, x) = {} /\ Sorted({}) = <<>>
    BY <1>1, SortedIds DEF Entering
<1>4. Retain(d.order[x], T) \in Seq(N)
    BY <1>2, RetainEntries DEF UpdatedList
<1>5. Update(d, gone, <<>>).order[x] = Retain(d.order[x], T) \o <<>>
    BY <1>2, <1>3 DEF UpdatedList
<1>6. ASSUME NEW s \in Seq(N) PROVE s \o <<>> = s
    OBVIOUS
<1> HIDE DEF T
<1>7. Update(d, gone, <<>>).order[x] = Retain(d.order[x], T)
    BY <1>4, <1>5, <1>6
<1> QED
    BY <1>7

LEMMA RemovalsFollow ==
    ASSUME NEW N, N \subseteq PeerSet, NEW d \in Directories(N), NEW gone \in SUBSET N,
           NEW lost \in SUBSET N, NEW e, e = Update(d, gone, <<>>)
    PROVE  Follows(d, Update(e, lost, <<>>))
<1>1. SUFFICES ASSUME NEW x \in LanPrefixes
               PROVE  IsPrefix(Retain(d.order[x], ToSet(Update(e, lost, <<>>).order[x])),
                               Update(e, lost, <<>>).order[x])
    BY DEF Follows
<1>2. e \in Directories(N)
    <2>1. <<>> \in [{} -> Records] /\ {} \in SUBSET N
        OBVIOUS
    <2> QED
        BY <2>1, UpdateType
<1>3. d.order[x] \in Seq(N)
    BY DirectoryFields
<1>4. PICK T: e.order[x] = Retain(d.order[x], T)
    BY RemovalOrder
<1>5. PICK U: Update(e, lost, <<>>).order[x] = Retain(e.order[x], U)
    BY <1>2, RemovalOrder
<1>6. Update(e, lost, <<>>).order[x] = Retain(d.order[x], T \cap U)
    BY <1>3, <1>4, <1>5, RetainRetain
<1> DEFINE o == d.order[x]
<1> DEFINE V == T \cap U
<1> HIDE DEF o, V
<1>7. o \in Seq(N) /\ <<>> \in Seq(N) /\ ToSet(<<>>) = {}
    BY <1>3 DEF o, ToSet
<1>8. Retain(o, V) \in Seq(N)
    BY <1>7, RetainEntries
<1>9. IsPrefix(Retain(o, ToSet(Retain(o, V) \o <<>>)), Retain(o, V) \o <<>>)
    BY <1>7, EntersBehind
<1>10. ASSUME NEW s \in Seq(N) PROVE s \o <<>> = s
    OBVIOUS
<1>11. IsPrefix(Retain(o, ToSet(Retain(o, V))), Retain(o, V))
    BY <1>8, <1>9, <1>10
<1> QED
    BY <1>6, <1>11 DEF o, V

LEMMA RemovedOrigin ==
    ASSUME NEW N, N \subseteq PeerSet, NEW d \in Directories(N), Exact(d), NEW q \in N
    PROVE  /\ remove_origin(d, q) \in Directories(N) /\ Exact(remove_origin(d, q))
           /\ DOMAIN remove_origin(d, q).records = DOMAIN d.records \ {q}
           /\ remove_origin(d, q) = Update(d, {q}, <<>>)
<1>1. <<>> \in [{} -> Records] /\ {} \in SUBSET N /\ {q} \in SUBSET N /\ {q} \cap {} = {}
      /\ DOMAIN <<>> = {}
    OBVIOUS
<1>2. remove_origin(d, q) = Update(d, {q}, <<>>)
    BY DEF remove_origin
<1>3. Update(d, {q}, <<>>) \in Directories(N)
    BY <1>1, UpdateType
<1>4. Exact(Update(d, {q}, <<>>))
    BY <1>1, UpdateExact
<1>5. DOMAIN Update(d, {q}, <<>>).records = (DOMAIN d.records \ {q}) \cup DOMAIN <<>>
    BY UpdateRecords
<1> QED
    BY <1>1, <1>2, <1>3, <1>4, <1>5

LEMMA RetireKeeps ==
    ASSUME GossipInv, NEW p \in PeerSet, NEW q \in Neighbours(p), Retire(p, q)
    PROVE  GossipInv' /\ AllFollow
<1> DEFINE N == Neighbours(p)
<1> DEFINE b == client[p]
<1> DEFINE c == link_closed([b EXCEPT !.key[q] = NoSession, !.usable[q] = FALSE,
                                      !.routes = remove_origin(@, q)], q)
<1>1. b \in ClientType(p) /\ Mirrors(b) /\ Keyed(b)
    BY DEF GossipInv, ClientsOK
<1>2. /\ client' = [client EXCEPT ![p] = Reconcile(c)]
      /\ net' = AddAll(net, SealAll(p, c, Syncs(p, c)))
      /\ UNCHANGED <<outbound, opened, sessions, setup>>
      /\ ~b.lane[q]
    BY DEF Retire
<1>3. spent' \in [Bounds -> Nat]
    BY SpendType DEF GossipInv, Retire, Bounds
<1>4. N \subseteq PeerSet
    BY NeighbourFacts
<1>5. /\ b.key \in [N -> NoSession..setup.sessions] /\ b.usable \in [N -> BOOLEAN]
      /\ b.lane \in [N -> BOOLEAN] /\ b.link \in [N -> LinkStates]
      /\ b.directory \in Directories(N) /\ b.routes = b.directory
    BY <1>1, ClientFields DEF Mirrors
<1> DEFINE d == remove_origin(b.directory, q)
<1>6. /\ d \in Directories(N) /\ Exact(d) /\ DOMAIN d.records = DOMAIN b.directory.records \ {q}
      /\ d = Update(b.directory, {q}, <<>>)
    <2>1. Exact(b.directory) /\ b.directory \in Directories(N) /\ q \in N
        BY <1>1, <1>5 DEF Mirrors
    <2> HIDE DEF b, N
    <2> QED
        BY <1>4, <2>1, RemovedOrigin
<1> DEFINE k == [b.key EXCEPT ![q] = NoSession]
<1> DEFINE u == [b.usable EXCEPT ![q] = FALSE]
<1> DEFINE l == [b.link EXCEPT ![q] = "closed"]
<1>7. /\ k \in [N -> NoSession..setup.sessions] /\ u \in [N -> BOOLEAN] /\ l \in [N -> LinkStates]
      /\ k[q] = NoSession /\ u[q] = FALSE /\ l[q] = "closed"
      /\ \A o \in N: o # q => k[o] = b.key[o] /\ u[o] = b.usable[o] /\ l[o] = b.link[o]
    BY <1>5, SetupFacts DEF NoSession, LinkStates
<1>8. c = [b EXCEPT !.key = k, !.usable = u, !.link = l, !.directory = d, !.routes = d]
    BY <1>1, <1>5 DEF link_closed, ClientType
<1> HIDE DEF c, d, k, u, l
<1>9. /\ c \in ClientType(p)
      /\ c.key = k /\ c.usable = u /\ c.link = l /\ c.directory = d /\ c.routes = d
      /\ c.lane = b.lane /\ c.last = b.last
    BY <1>1, <1>6, <1>7, <1>8 DEF ClientType
<1>10. Mirrors(c)
    <2>1. DOMAIN b.directory.records \subseteq N
        BY <1>5, DirectoryFields
    <2>2. \A o \in DOMAIN d.records: o \in N /\ o # q /\ b.link[o] # "closed"
        BY <1>1, <1>6, <2>1 DEF Mirrors
    <2>3. \A o \in N: l[o] # "closed" <=> u[o]
        BY <1>1, <1>5, <1>7 DEF Mirrors
    <2>4. DOMAIN l = N
        BY <1>7
    <2> QED
        BY <1>6, <1>7, <1>9, <2>2, <2>3, <2>4 DEF Mirrors
<1>11. Keyed(c)
    <2>1. DOMAIN l = N /\ DOMAIN b.link = N
        BY <1>5, <1>7
    <2> QED
        BY <1>1, <1>2, <1>7, <1>9, <2>1 DEF Keyed
<1>12. /\ Reconcile(c) \in ClientType(p) /\ Mirrors(Reconcile(c)) /\ Keyed(Reconcile(c))
       /\ Reconcile(c).key = k /\ Reconcile(c).last = b.last
    BY <1>9, <1>10, <1>11, Reconciles
<1>13. Follows(b.routes, Reconcile(c).routes)
    <2>1. Reconcile(c).routes = Update(d, Lost(c), <<>>)
        BY <1>9, <1>12, ReconcileFields DEF Mirrors
    <2>2. Lost(c) \in SUBSET N /\ {q} \in SUBSET N
        BY <1>5, <1>9 DEF Lost
    <2>3. d = Update(b.directory, {q}, <<>>)
        BY <1>6
    <2> HIDE DEF b, N
    <2>4. Follows(b.directory, Update(d, Lost(c), <<>>))
        BY <1>4, <1>5, <2>2, <2>3, RemovalsFollow
    <2> QED
        BY <1>5, <2>1, <2>4
<1>14. \A o \in N: c.key[o] \in {NoSession, client[p].key[o]}
    BY <1>7, <1>9
<1>15. MessagesOK'
    <2>1. \A m \in Syncs(p, c): m.src = p /\ MessageType(m)
        BY <1>9, SyncsTypes
    <2> DEFINE n == AddAll(net, SealAll(p, c, Syncs(p, c)))
    <2>2. /\ IsABag(n)
          /\ DOMAIN n = DOMAIN net \cup SealAll(p, c, Syncs(p, c))
          /\ \A m \in SealAll(p, c, Syncs(p, c)):
               MessageType(m) /\ m.session \in 1..sessions[{m.src, m.dst}]
        BY <1>9, <1>14, <2>1, NetSent
    <2> HIDE DEF n
    <2>3. /\ IsABag(net')
          /\ \A m \in DOMAIN net': \/ m \in DOMAIN net
                                   \/ MessageType(m) /\ m.session \in 1..sessions[{m.src, m.dst}]
        BY <1>2, <2>2 DEF n
    <2> QED
        BY <1>2, <2>3, MessagesSame DEF GossipInv, MessagesOK
<1>16. \A o \in N: Reconcile(c).key[o] \in {NoSession, client[p].key[o]}
    BY <1>9, <1>12, <1>14
<1> QED
    BY <1>2, <1>3, <1>12, <1>13, <1>15, <1>16, ClientStep

Reset(p, record, last) == [Fresh(p, record) EXCEPT !.last = last]

LEMMA FreshType ==
    ASSUME NEW p \in PeerSet, NEW record \in Publishable[p], setup.sessions \in Nat,
           NEW last \in [Neighbours(p) -> NoSession..setup.sessions],
           NEW c, c = Reset(p, record, last)
    PROVE  /\ c \in ClientType(p) /\ Mirrors(c) /\ Keyed(c)
           /\ c.last = last /\ c.record = record
           /\ \A q \in Neighbours(p): /\ c.key[q] = NoSession /\ c.link[q] = "closed"
                                      /\ ~c.usable[q] /\ ~c.lane[q]
           /\ c.routes = EmptyDirectory /\ c.directory = EmptyDirectory
<1> DEFINE N == Neighbours(p)
<1>1. /\ c.key = [q \in N |-> NoSession] /\ c.last = last /\ c.record = record
      /\ c.lane = [q \in N |-> FALSE] /\ c.usable = [q \in N |-> FALSE]
      /\ c.link = [q \in N |-> "closed"]
      /\ c.directory = EmptyDirectory /\ c.routes = EmptyDirectory
    BY DEF Fresh, Reset
<1>2. EmptyDirectory \in Directories(N)
    <2>1. <<>> \in [{} -> Records] /\ {} \in SUBSET N /\ <<>> \in Seq(N)
        OBVIOUS
    <2>2. <<>> \in UNION {[D -> Records]: D \in SUBSET N}
        BY <2>1
    <2> QED
        BY <2>1, <2>2 DEF EmptyDirectory, Directories
<1>3. Exact(EmptyDirectory) /\ EmptyDirectory.records = <<>> /\ DOMAIN <<>> = {}
    <2>1. IsInjective(<<>>) /\ ToSet(<<>>) = {} /\ DOMAIN <<>> = {}
        BY DEF IsInjective, ToSet
    <2> QED
        BY <2>1 DEF Exact, EmptyDirectory
<1>4. c \in ClientType(p)
    <2>1. /\ [q \in N |-> NoSession] \in [N -> NoSession..setup.sessions]
          /\ [q \in N |-> FALSE] \in [N -> BOOLEAN]
          /\ [q \in N |-> "closed"] \in [N -> LinkStates]
        BY DEF NoSession, LinkStates
    <2> HIDE DEF N
    <2> QED
        BY <1>2, <2>1 DEF ClientType, Fresh, Reset, N
<1>5. Mirrors(c)
    BY <1>1, <1>3 DEF Mirrors
<1>6. Keyed(c)
    BY <1>1 DEF Keyed
<1> QED
    BY <1>1, <1>4, <1>5, <1>6

LEMMA FollowsEmpty ==
    ASSUME NEW N, NEW d \in Directories(N)
    PROVE  Follows(d, EmptyDirectory)
<1>1. SUFFICES ASSUME NEW x \in LanPrefixes
               PROVE  IsPrefix(Retain(d.order[x], ToSet(EmptyDirectory.order[x])),
                               EmptyDirectory.order[x])
    BY DEF Follows
<1>2. EmptyDirectory.order[x] = <<>> /\ ToSet(<<>>) = {}
    BY DEF EmptyDirectory, ToSet
<1>3. d.order[x] \in Seq(N)
    BY DirectoryFields
<1>4. Retain(d.order[x], {}) = <<>>
    BY <1>3, RetainNone
<1>5. IsPrefix(<<>>, <<>>)
    BY DEF IsPrefix
<1> QED
    BY <1>2, <1>4, <1>5

LEMMA ReconnectKeeps ==
    ASSUME GossipInv, NEW p \in PeerSet, Reconnect(p)
    PROVE  GossipInv' /\ AllFollow
<1> DEFINE b == client[p]
<1> DEFINE c == Reset(p, b.record, b.last)
<1>1. b \in ClientType(p) /\ Mirrors(b) /\ Keyed(b)
    BY DEF GossipInv, ClientsOK
<1>2. /\ client' = [client EXCEPT ![p] = c]
      /\ outbound' = [m \in {n \in DOMAIN outbound: n.src # p} |-> outbound[m]]
      /\ UNCHANGED <<net, opened, sessions, setup>>
    BY DEF Reconnect, Reset
<1>3. spent' \in [Bounds -> Nat]
    BY SpendType DEF GossipInv, Reconnect, Bounds
<1>4. b.last \in [Neighbours(p) -> NoSession..setup.sessions] /\ b.record \in Publishable[p]
      /\ b.routes \in Directories(Neighbours(p))
    BY <1>1, ClientFields
<1>5. setup.sessions \in Nat
    BY SetupFacts
<1> HIDE DEF c
<1>6. /\ c \in ClientType(p) /\ Mirrors(c) /\ Keyed(c) /\ c.last = b.last
      /\ \A q \in Neighbours(p): c.key[q] = NoSession
      /\ c.routes = EmptyDirectory
    BY <1>4, <1>5, FreshType DEF c
<1>7. Follows(b.routes, c.routes)
    BY <1>4, <1>6, FollowsEmpty
<1>8. MessagesOK'
    <2>1. IsABag(outbound') /\ DOMAIN outbound' \subseteq DOMAIN outbound
        BY <1>2 DEF GossipInv, MessagesOK, IsABag
    <2> QED
        BY <1>2, <2>1, MessagesSame DEF GossipInv, MessagesOK
<1> QED
    BY <1>2, <1>3, <1>6, <1>7, <1>8, ClientStep

LEMMA SetLocalRecordKeeps ==
    ASSUME GossipInv, NEW p \in PeerSet, SetLocalRecord(p)
    PROVE  GossipInv' /\ AllFollow
<1> DEFINE b == client[p]
<1> DEFINE S(r) == {Message(p, q, Full(r)): q \in {n \in Neighbours(p): b.link[n] # "closed"}}
<1>1. b \in ClientType(p) /\ Mirrors(b) /\ Keyed(b)
    BY DEF GossipInv, ClientsOK
<1>2. PICK r \in Publishable[p]: /\ client' = [client EXCEPT ![p] = [b EXCEPT !.record = r]]
                                 /\ outbound' = AddAll(outbound, S(r))
    BY DEF SetLocalRecord
<1>3. UNCHANGED <<net, opened, sessions, setup>>
    BY DEF SetLocalRecord
<1>4. spent' \in [Bounds -> Nat]
    BY SpendType DEF GossipInv, SetLocalRecord, Bounds
<1> DEFINE c == [b EXCEPT !.record = r]
<1>5. /\ c \in ClientType(p) /\ c.key = b.key /\ c.last = b.last /\ c.routes = b.routes
      /\ c.usable = b.usable /\ c.link = b.link /\ c.directory = b.directory /\ c.lane = b.lane
    BY <1>1 DEF ClientType
<1> HIDE DEF c
<1>6. Mirrors(c) /\ Keyed(c)
    BY <1>1, <1>5 DEF Mirrors, Keyed
<1>7. Follows(b.routes, b.routes)
    BY <1>1, ClientFields, FollowsSelf
<1>8. MessagesOK'
    <2>1. Full(r) \in Payloads
        BY PayloadTypes
    <2>2. \A m \in S(r): MessageType(m)
        BY <2>1 DEF MessageType, Message
    <2>3. IsABag(outbound)
        BY DEF GossipInv, MessagesOK
    <2>4. IsABag(outbound') /\ DOMAIN outbound' = DOMAIN outbound \cup S(r)
        BY <1>2, <2>3, AddAllBag
    <2> QED
        BY <1>3, <2>2, <2>4, MessagesSame DEF GossipInv, MessagesOK
<1>9. client' = [client EXCEPT ![p] = c]
    BY <1>2 DEF c
<1> QED
    BY <1>3, <1>4, <1>5, <1>6, <1>7, <1>8, <1>9, ClientStep

LEMMA PollDigestKeeps ==
    ASSUME GossipInv, NEW p \in PeerSet, NEW q \in Neighbours(p), PollDigest(p, q)
    PROVE  GossipInv' /\ AllFollow
<1> DEFINE S == {Message(p, q, Digest(client[p].record))}
<1>1. outbound' = AddAll(outbound, S) /\ UNCHANGED <<client, net, opened, sessions, spent, setup>>
    BY DEF PollDigest
<1>2. client[p] \in ClientType(p)
    BY DEF GossipInv, ClientsOK
<1>3. Digest(client[p].record) \in Payloads
    BY <1>2, ClientFields, PayloadTypes
<1>4. \A m \in S: MessageType(m)
    BY <1>3 DEF MessageType, Message
<1>5. IsABag(outbound)
    BY DEF GossipInv, MessagesOK
<1> HIDE DEF S
<1>6. IsABag(outbound') /\ DOMAIN outbound' = DOMAIN outbound \cup S
    BY <1>1, <1>5, AddAllBag
<1>7. MessagesOK'
    BY <1>1, <1>4, <1>6, MessagesSame DEF GossipInv, MessagesOK
<1>8. spent' \in [Bounds -> Nat]
    BY <1>1 DEF GossipInv
<1> QED
    BY <1>1, <1>7, <1>8, MessageStep

LEMMA SealKeeps ==
    ASSUME GossipInv, NEW m \in DOMAIN outbound, Seal(m)
    PROVE  GossipInv' /\ AllFollow
<1> DEFINE p == m.src
<1>1. /\ outbound' = Take(outbound, m) /\ net' = AddAll(net, SealAll(p, client[p], {m}))
      /\ UNCHANGED <<client, opened, sessions, spent, setup>>
    BY DEF Seal
<1>2. MessageType(m) /\ p \in PeerSet
    BY DEF GossipInv, MessagesOK, MessageType
<1>3. client[p] \in ClientType(p)
    BY <1>2 DEF GossipInv, ClientsOK
<1>4. \A n \in {m}: n.src = p /\ MessageType(n)
    BY <1>2
<1>5. \A q \in Neighbours(p): client[p].key[q] \in {NoSession, client[p].key[q]}
    OBVIOUS
<1> HIDE DEF p
<1>6. /\ IsABag(net') /\ DOMAIN net' = DOMAIN net \cup SealAll(p, client[p], {m})
      /\ \A n \in SealAll(p, client[p], {m}):
           MessageType(n) /\ n.session \in 1..sessions[{n.src, n.dst}]
    <2> DEFINE a == AddAll(net, SealAll(p, client[p], {m}))
    <2>1. /\ IsABag(a) /\ DOMAIN a = DOMAIN net \cup SealAll(p, client[p], {m})
          /\ \A n \in SealAll(p, client[p], {m}):
               MessageType(n) /\ n.session \in 1..sessions[{n.src, n.dst}]
        BY <1>2, <1>3, <1>4, <1>5, NetSent
    <2> HIDE DEF a
    <2> QED
        BY <1>1, <2>1 DEF a
<1>7. IsABag(outbound') /\ DOMAIN outbound' \subseteq DOMAIN outbound
    BY <1>1, TakeBag DEF GossipInv, MessagesOK
<1>8. MessagesOK'
    BY <1>1, <1>6, <1>7, MessagesSame DEF GossipInv, MessagesOK
<1>9. spent' \in [Bounds -> Nat]
    BY <1>1 DEF GossipInv
<1> QED
    BY <1>1, <1>8, <1>9, MessageStep

LEMMA LoseKeeps ==
    ASSUME GossipInv, NEW m \in DOMAIN net, Lose(m)
    PROVE  GossipInv' /\ AllFollow
<1>1. net' = Take(net, m) /\ UNCHANGED <<client, outbound, opened, sessions, setup>>
    BY DEF Lose
<1>2. spent' \in [Bounds -> Nat]
    BY SpendType DEF GossipInv, Lose, Bounds
<1>3. IsABag(net') /\ DOMAIN net' \subseteq DOMAIN net
    BY <1>1, TakeBag DEF GossipInv, MessagesOK
<1>4. MessagesOK'
    BY <1>1, <1>3, MessagesSame DEF GossipInv, MessagesOK
<1> QED
    BY <1>1, <1>2, <1>4, MessageStep

LEMMA OpenKeeps ==
    ASSUME GossipInv, NEW m \in DOMAIN net, Open(m)
    PROVE  GossipInv' /\ AllFollow
<1> DEFINE n == Message(m.src, m.dst, m.payload)
<1>1. /\ net' = Take(net, m) /\ UNCHANGED <<client, outbound, sessions, spent, setup>>
      /\ opened' = AddAll(opened, {n}) \/ opened' = opened
    BY DEF Open
<1>2. IsABag(net') /\ DOMAIN net' \subseteq DOMAIN net
    BY <1>1, TakeBag DEF GossipInv, MessagesOK
<1>3. MessageType(n)
    BY DEF GossipInv, MessagesOK, MessageType, Message
<1>4. IsABag(opened') /\ \A o \in DOMAIN opened': o \in DOMAIN opened \/ MessageType(o)
    <2> HIDE DEF n
    <2>1. IsABag(opened)
        BY DEF GossipInv, MessagesOK
    <2>2. IsABag(AddAll(opened, {n})) /\ DOMAIN AddAll(opened, {n}) = DOMAIN opened \cup {n}
        BY <2>1, AddAllBag
    <2> QED
        BY <1>1, <1>3, <2>1, <2>2
<1>5. MessagesOK'
    BY <1>1, <1>2, <1>4, MessagesSame DEF GossipInv, MessagesOK
<1>6. spent' \in [Bounds -> Nat]
    BY <1>1 DEF GossipInv
<1> QED
    BY <1>1, <1>5, <1>6, MessageStep

LEMMA RefuseKeeps ==
    ASSUME GossipInv, NEW m \in DOMAIN opened, Refuse(m)
    PROVE  GossipInv' /\ AllFollow
<1>1. opened' = Take(opened, m) /\ UNCHANGED <<client, outbound, net, sessions, spent, setup>>
    BY DEF Refuse
<1>2. IsABag(opened') /\ DOMAIN opened' \subseteq DOMAIN opened
    BY <1>1, TakeBag DEF GossipInv, MessagesOK
<1>3. MessagesOK'
    BY <1>1, <1>2, MessagesSame DEF GossipInv, MessagesOK
<1>4. spent' \in [Bounds -> Nat]
    BY <1>1 DEF GossipInv
<1> QED
    BY <1>1, <1>3, <1>4, MessageStep

(* The state of a Client after it took a payload off an open link.         *)
AppliedRecord(c, q, payload) ==
    IF q \in DOMAIN Apply(c, q, payload).directory.records THEN Reconcile(Apply(c, q, payload))
    ELSE Apply(c, q, payload)

LEMMA AppliedFields ==
    ASSUME NEW p \in PeerSet, NEW b \in ClientType(p), Mirrors(b), Keyed(b),
           NEW q \in Neighbours(p), b.link[q] # "closed", NEW payload \in Payloads
    PROVE  /\ Apply(b, q, payload) \in ClientType(p)
           /\ Apply(b, q, payload).key = b.key /\ Apply(b, q, payload).last = b.last
           /\ Apply(b, q, payload).lane = b.lane /\ Apply(b, q, payload).usable = b.usable
           /\ Apply(b, q, payload).record = b.record
           /\ AppliedRecord(b, q, payload) \in ClientType(p)
           /\ Mirrors(AppliedRecord(b, q, payload)) /\ Keyed(AppliedRecord(b, q, payload))
           /\ AppliedRecord(b, q, payload).key = b.key
           /\ AppliedRecord(b, q, payload).last = b.last
           /\ Follows(b.routes, AppliedRecord(b, q, payload).routes)
<1> DEFINE N == Neighbours(p)
<1> DEFINE c == Apply(b, q, payload)
<1> DEFINE a == AppliedRecord(b, q, payload)
<1>1. CASE payload.kind = "RuntimeRecord"
    <2>1. payload.record \in Records
        BY <1>1 DEF Payloads
    <2>2. c \in ClientType(p) /\ Mirrors(Reconcile(c)) /\ Follows(b.routes, Reconcile(c).routes)
        BY <1>1, <2>1, ReconcileReceived
    <2>3. /\ c.key = b.key /\ c.last = b.last /\ c.lane = b.lane /\ c.usable = b.usable
          /\ c.record = b.record /\ c.directory = replace_origin(b.directory, q, payload.record)
        BY <1>1 DEF Apply, ClientType
    <2>4. q \in DOMAIN c.directory.records
        <3> DEFINE one == [o \in {q} |-> payload.record]
        <3>1. DOMAIN one = {q} /\ replace_origin(b.directory, q, payload.record) = Update(b.directory, {}, one)
            BY DEF replace_origin
        <3> HIDE DEF one
        <3>2. DOMAIN Update(b.directory, {}, one).records
                = (DOMAIN b.directory.records \ {}) \cup DOMAIN one
            BY UpdateRecords
        <3> QED
            BY <2>3, <3>1, <3>2
    <2>5. a = Reconcile(c)
        BY <2>4 DEF AppliedRecord
    <2> HIDE DEF c
    <2>6. /\ Reconcile(c) \in ClientType(p) /\ Reconcile(c).key = b.key /\ Reconcile(c).last = b.last
          /\ Reconcile(c).lane = b.lane /\ Reconcile(c).usable = b.lane
        BY <2>2, <2>3, ReconcileFields
    <2>7. DOMAIN Reconcile(c).link = N /\ DOMAIN b.link = N
        BY <2>6, ClientFields
    <2>8. Keyed(Reconcile(c))
        BY <2>6, <2>7 DEF Keyed
    <2> QED
        BY <2>2, <2>3, <2>5, <2>6, <2>8 DEF c
<1>2. CASE payload.kind # "RuntimeRecord"
    <2>1. c = b
        BY <1>2 DEF Apply
    <2>2. a = Reconcile(b) \/ a = b
        BY <2>1 DEF AppliedRecord
    <2>3. Follows(b.routes, b.routes)
        BY ClientFields, FollowsSelf
    <2>4. /\ Reconcile(b) \in ClientType(p) /\ Mirrors(Reconcile(b)) /\ Keyed(Reconcile(b))
          /\ Reconcile(b).key = b.key /\ Reconcile(b).last = b.last
          /\ Follows(b.routes, Reconcile(b).routes)
        BY Reconciles
    <2> HIDE DEF a, c
    <2> QED
        BY <2>1, <2>2, <2>3, <2>4 DEF a, c
<1> QED
    BY <1>1, <1>2

LEMMA AnswerTypes ==
    ASSUME NEW p \in PeerSet, NEW c \in ClientType(p), NEW q \in Neighbours(p), NEW payload
    PROVE  \A a \in Answer(c, q, payload): MessageType(Message(p, q, a))
<1>1. Full(c.record) \in Payloads /\ Need \in Payloads
    BY ClientFields, PayloadTypes
<1>2. Answer(c, q, payload) \subseteq {Full(c.record), Need}
    BY DEF Answer
<1> QED
    BY <1>1, <1>2 DEF MessageType, Message

LEMMA ReceiveSteps ==
    ASSUME NEW m, Receive(m), NEW p, p = m.dst, NEW q, q = m.src
    PROVE  /\ client[p].link[q] # "closed"
           /\ client' = [client EXCEPT ![p] = AppliedRecord(client[p], q, m.payload)]
           /\ \/ UNCHANGED net
              \/ net' = AddAll(net, SealAll(p, Apply(client[p], q, m.payload),
                                            Syncs(p, Apply(client[p], q, m.payload))))
           /\ opened' = Take(opened, m)
           /\ outbound' = AddAll(outbound, {Message(p, q, a): a \in Answer(client[p], q, m.payload)})
           /\ UNCHANGED <<sessions, spent, setup>>
BY DEF Receive, AppliedRecord

LEMMA ReceiveKeeps ==
    ASSUME GossipInv, NEW m \in DOMAIN opened, Receive(m)
    PROVE  GossipInv' /\ AllFollow
<1> DEFINE p == m.dst
<1> DEFINE q == m.src
<1> DEFINE c == Apply(client[p], q, m.payload)
<1> DEFINE e == AppliedRecord(client[p], q, m.payload)
<1> DEFINE S == {Message(p, q, a): a \in Answer(client[p], q, m.payload)}
<1>1. /\ client[p].link[q] # "closed"
      /\ client' = [client EXCEPT ![p] = e]
      /\ UNCHANGED net \/ net' = AddAll(net, SealAll(p, c, Syncs(p, c)))
      /\ opened' = Take(opened, m) /\ outbound' = AddAll(outbound, S)
      /\ UNCHANGED <<sessions, spent, setup>>
    BY ReceiveSteps
<1>2. p \in PeerSet /\ q \in Neighbours(p) /\ m.payload \in Payloads
    BY NeighbourFacts DEF GossipInv, MessagesOK, MessageType
<1>3. client[p] \in ClientType(p) /\ Mirrors(client[p]) /\ Keyed(client[p])
    BY <1>2 DEF GossipInv, ClientsOK
<1>4. /\ c \in ClientType(p) /\ c.key = client[p].key
      /\ e \in ClientType(p) /\ Mirrors(e) /\ Keyed(e) /\ e.key = client[p].key
      /\ e.last = client[p].last /\ Follows(client[p].routes, e.routes)
    BY <1>1, <1>2, <1>3, AppliedFields
<1>5. \A a \in S: MessageType(a)
    BY <1>2, <1>3, AnswerTypes
<1>6. \A a \in Syncs(p, c): a.src = p /\ MessageType(a)
    BY <1>2, <1>4, SyncsTypes
<1> HIDE DEF p, q, c, e, S
<1>7. /\ IsABag(net')
      /\ \A a \in DOMAIN net': \/ a \in DOMAIN net
                               \/ MessageType(a) /\ a.session \in 1..sessions[{a.src, a.dst}]
    <2> DEFINE n == AddAll(net, SealAll(p, c, Syncs(p, c)))
    <2>1. \A o \in Neighbours(p): c.key[o] \in {NoSession, client[p].key[o]}
        BY <1>4
    <2>2. /\ IsABag(n)
          /\ DOMAIN n = DOMAIN net \cup SealAll(p, c, Syncs(p, c))
          /\ \A a \in SealAll(p, c, Syncs(p, c)):
               MessageType(a) /\ a.session \in 1..sessions[{a.src, a.dst}]
        BY <1>2, <1>4, <1>6, <2>1, NetSent
    <2> HIDE DEF n
    <2>3. IsABag(net)
        BY DEF GossipInv, MessagesOK
    <2> QED
        BY <1>1, <2>2, <2>3 DEF n
<1>8. IsABag(outbound') /\ DOMAIN outbound' = DOMAIN outbound \cup S
    BY <1>1, AddAllBag DEF GossipInv, MessagesOK
<1>9. IsABag(opened') /\ DOMAIN opened' \subseteq DOMAIN opened
    BY <1>1, TakeBag DEF GossipInv, MessagesOK
<1>10. MessagesOK'
    BY <1>1, <1>5, <1>7, <1>8, <1>9, MessagesSame
<1>11. spent' \in [Bounds -> Nat]
    BY <1>1 DEF GossipInv
<1>12. \A o \in Neighbours(p): e.key[o] \in {NoSession, client[p].key[o]}
    BY <1>4
<1> QED
    BY <1>1, <1>2, <1>4, <1>10, <1>11, <1>12, ClientStep

LEMMA GossipInvInit == Init => GossipInv
<1> SUFFICES ASSUME Init PROVE GossipInv
    OBVIOUS
<1>1. setup \in Setups /\ spent \in [Bounds -> Nat]
    BY DEF Init
<1>2. setup.sessions \in Nat
    BY <1>1, GossipAssumption DEF SetupType
<1>3. sessions \in [setup.links -> NoSession..setup.sessions]
    BY <1>2 DEF Init, NoSession
<1>4. DOMAIN client = PeerSet
    BY DEF Init
<1>5. ASSUME NEW p \in PeerSet
      PROVE  /\ client[p] \in ClientType(p) /\ Mirrors(client[p]) /\ Keyed(client[p])
             /\ \A q \in Neighbours(p): client[p].key[q] = NoSession
             /\ client[p].last \in [Neighbours(p) -> NoSession..setup.sessions]
    <2>1. PICK r \in Publishable[p]: client[p] = Fresh(p, r)
        BY DEF Init
    <2> DEFINE l == [q \in Neighbours(p) |-> NoSession]
    <2>2. l \in [Neighbours(p) -> NoSession..setup.sessions]
        BY <1>2 DEF NoSession
    <2>3. Fresh(p, r) = Reset(p, r, l)
        <3> DEFINE off == [q \in Neighbours(p) |-> FALSE]
        <3> DEFINE shut == [q \in Neighbours(p) |-> "closed"]
        <3>1. Fresh(p, r) = [record |-> r, key |-> l, last |-> l, lane |-> off, usable |-> off,
                             link |-> shut, directory |-> EmptyDirectory, routes |-> EmptyDirectory]
            BY DEF Fresh
        <3> HIDE DEF l, off, shut
        <3> QED
            BY <3>1 DEF Reset
    <2> HIDE DEF l
    <2>4. /\ client[p] \in ClientType(p) /\ Mirrors(client[p]) /\ Keyed(client[p])
          /\ client[p].last = l
          /\ \A q \in Neighbours(p): client[p].key[q] = NoSession
        BY <1>2, <2>1, <2>2, <2>3, FreshType
    <2> QED
        BY <2>2, <2>4
<1>6. ClientsOK
    BY <1>4, <1>5 DEF ClientsOK
<1>7. Negotiated
    <2>1. SUFFICES ASSUME NEW p \in PeerSet, NEW q \in Neighbours(p)
                   PROVE  client[p].key[q] <= client[p].last[q] /\ client[p].key[q] <= sessions[{p, q}]
        BY DEF Negotiated
    <2>2. client[p].key[q] = 0 /\ client[p].last[q] \in NoSession..setup.sessions
          /\ {p, q} \in setup.links
        BY <1>5, NeighbourFacts DEF NoSession
    <2> QED
        BY <1>2, <1>3, <2>2 DEF NoSession
<1>8. IsABag(EmptyBag) /\ DOMAIN EmptyBag = {}
    BY DEF IsABag, EmptyBag, SetToBag
<1>9. MessagesOK
    BY <1>8 DEF Init, MessagesOK
<1> QED
    BY <1>1, <1>3, <1>6, <1>7, <1>9 DEF GossipInv

LEMMA GossipInvStep ==
    ASSUME GossipInv, [Next]_vars
    PROVE  GossipInv' /\ AllFollow
<1>1. ASSUME NEW p \in PeerSet, NEW q \in Neighbours(p), LinkStep(p, q)
      PROVE  GossipInv' /\ AllFollow
    BY <1>1, InstallLinkKeeps, LaneUpKeeps, LaneDownKeeps, RetireKeeps, PollDigestKeeps DEF LinkStep
<1>2. ASSUME NEW p \in PeerSet, Observe(p) \/ Reconnect(p) \/ SetLocalRecord(p)
      PROVE  GossipInv' /\ AllFollow
    BY <1>2, ObserveKeeps, ReconnectKeeps, SetLocalRecordKeeps
<1>3. ASSUME NEW m \in DOMAIN outbound, Seal(m) PROVE GossipInv' /\ AllFollow
    BY <1>3, SealKeeps
<1>4. ASSUME NEW m \in DOMAIN net, Lose(m) \/ Open(m) PROVE GossipInv' /\ AllFollow
    BY <1>4, LoseKeeps, OpenKeeps
<1>5. ASSUME NEW m \in DOMAIN opened, Receive(m) \/ Refuse(m) PROVE GossipInv' /\ AllFollow
    BY <1>5, ReceiveKeeps, RefuseKeeps
<1>6. ASSUME UNCHANGED vars PROVE GossipInv' /\ AllFollow
    <2>1. UNCHANGED <<client, outbound, net, opened, sessions, spent, setup>>
        BY <1>6 DEF vars
    <2>2. spent' \in [Bounds -> Nat]
        BY <2>1 DEF GossipInv
    <2>3. MessagesOK'
        BY <2>1, MessagesSame DEF GossipInv, MessagesOK
    <2> QED
        BY <2>1, <2>2, <2>3, MessageStep
<1> QED
    BY <1>1, <1>2, <1>3, <1>4, <1>5, <1>6 DEF Next

LEMMA GossipInvAlways == Spec => []GossipInv
<1>1. GossipInv /\ [Next]_vars => GossipInv'
    BY GossipInvStep
<1> QED
    BY <1>1, GossipInvInit, PTL DEF Spec

(* Every part of every Client, and every message, has its type, for any    *)
(* Peers, links, records and bounds.                                       *)
THEOREM GossipTypeCorrect == Spec => []TypeOK
<1>1. GossipInv => TypeOK
    BY DEF GossipInv, ClientsOK, MessagesOK, MessageType, TypeOK
<1> QED
    BY <1>1, GossipInvAlways, PTL

(* reconcile_v2_routes_and_runtime_locked and receive_v2_gossip keep the   *)
(* route matcher and the gossip controller in step: whatever arrives, in   *)
(* whatever order, and whenever lanes come and go, both hold the same      *)
(* records in the same order.                                              *)
THEOREM RoutesAlwaysMirror == Spec => []RoutesMirrorGossip
<1>1. GossipInv => RoutesMirrorGossip
    BY DEF GossipInv, ClientsOK, Mirrors, RoutesMirrorGossip
<1> QED
    BY <1>1, GossipInvAlways, PTL

(* The order that replace_origin and remove_origin maintain by hand lists  *)
(* exactly the origins that have the prefix ready, each once.              *)
THEOREM OrderAlwaysExact == Spec => []OrderExact
<1>1. GossipInv => OrderExact
    BY DEF GossipInv, ClientsOK, Mirrors, OrderExact
<1> QED
    BY <1>1, GossipInvAlways, PTL

(* A record is kept only of an origin whose link is open, under a key, and *)
(* was usable when the lanes were last looked at.                          *)
THEOREM OriginsAlwaysLinked == Spec => []OnlyLinkedOrigins
<1>1. GossipInv => OnlyLinkedOrigins
    <2>1. SUFFICES ASSUME GossipInv, NEW p \in PeerSet, NEW q \in DOMAIN client[p].directory.records
                   PROVE  /\ client[p].link[q] # "closed" /\ client[p].usable[q]
                          /\ client[p].key[q] # NoSession
        BY DEF OnlyLinkedOrigins
    <2>2. client[p] \in ClientType(p) /\ Mirrors(client[p]) /\ Keyed(client[p])
        BY <2>1 DEF GossipInv, ClientsOK
    <2>3. DOMAIN client[p].directory.records \subseteq Neighbours(p) /\ DOMAIN client[p].link = Neighbours(p)
        BY <2>2, ClientFields, DirectoryFields
    <2> QED
        BY <2>1, <2>2, <2>3 DEF Mirrors, Keyed
<1> QED
    BY <1>1, GossipInvAlways, PTL

(* No step swaps two exporters of a prefix that stay, and whoever enters   *)
(* stands behind everyone who stays.                                       *)
THEOREM OrderOnlyGrowsBehind == Spec => FirstSeenOrder
<1>1. GossipInv /\ [Next]_vars =>
        [\A p \in PeerSet: \A x \in LanPrefixes:
           LET old == client[p].routes.order[x]
               new == client'[p].routes.order[x]
           IN  IsPrefix(Retain(old, ToSet(new)), new)]_vars
    BY GossipInvStep DEF AllFollow, Follows
<1> QED
    BY <1>1, GossipInvAlways, PTL DEF Spec, FirstSeenOrder

-----------------------------------------------------------------------------
(* The exchange that opens a link.  While nothing is disturbed no link     *)
(* closes and no record is lost or replaced: what a step may do then.      *)

SamePayload(m, n) == m.src = n.src /\ m.dst = n.dst /\ m.payload = n.payload

(* The Client of p opens and answers links, and learns current records.    *)
ClientOpens(p) ==
    \A q \in Neighbours(p):
        /\ client'[p].usable[q] => client'[p].lane[q]
        /\ client[p].link[q] # "closed" => client'[p].link[q] # "closed"
        /\ client[p].link[q] = "closed" /\ client'[p].link[q] # "closed" =>
             client'[p].link[q] = "pending" /\ Coming(p, q)'
        /\ client'[p].link[q] = "answered" => client[p].link[q] = "answered" \/ Coming(q, p)
        /\ client[p].link[q] = "pending" => client'[p].link[q] = "pending" \/ Coming(p, q)'
        /\ Known(p, q) => Known(p, q)'
        /\ Known(p, q)' => client'[p].directory.records[q] = client[q].record

(* Records set out from p, over open links.                                *)
RecordsSetOut(p) ==
    \A m \in UnderWayAll': IsFull(m) =>
        \/ \E n \in UnderWayAll: SamePayload(m, n)
        \/ /\ m.src = p /\ m.dst \in Neighbours(p) /\ client'[p].link[m.dst] # "closed"
           /\ m.payload = Full(client[p].record)

(* Records on their way to an open link of the first session arrive.       *)
RecordsPass(p) ==
    \A x \in PeerSet: \A y \in Neighbours(x):
        sessions'[{x, y}] = 1 /\ client[x].link[y] # "closed" /\ Coming(y, x) =>
            \/ Coming(y, x)'
            \/ x = p /\ Known(x, y)' /\ client'[x].link[y] = "answered"

OpeningStep(p) ==
    /\ UNCHANGED setup
    /\ \A x \in PeerSet: client'[x].record = client[x].record
    /\ \A x \in PeerSet: x # p => client'[x] = client[x]
    /\ \A l \in setup.links: sessions[l] <= sessions'[l]
    /\ ClientOpens(p)
    /\ RecordsSetOut(p)
    /\ RecordsPass(p)

(* An open link has a key of a negotiated session.                         *)
LEMMA OpenLink ==
    ASSUME GossipInv, NEW p \in PeerSet, NEW q \in Neighbours(p), client[p].link[q] # "closed"
    PROVE  /\ client[p].usable[q] /\ client[p].key[q] # NoSession
           /\ client[p].key[q] \in 1..sessions[{p, q}] /\ sessions[{p, q}] \in Nat
<1>1. client[p] \in ClientType(p) /\ Mirrors(client[p]) /\ Keyed(client[p])
    BY DEF GossipInv, ClientsOK
<1>2. DOMAIN client[p].link = Neighbours(p) /\ client[p].key[q] \in NoSession..setup.sessions
    BY <1>1, ClientFields
<1>3. client[p].usable[q] /\ client[p].key[q] # NoSession
    BY <1>1, <1>2 DEF Mirrors, Keyed
<1>4. client[p].key[q] <= sessions[{p, q}]
    BY DEF GossipInv, Negotiated
<1>5. sessions[{p, q}] \in Nat /\ setup.sessions \in Nat
    BY SetupFacts, NeighbourFacts
<1>6. client[p].key[q] \in Nat /\ client[p].key[q] # 0
    BY <1>2, <1>3, <1>5 DEF NoSession
<1> QED
    BY <1>3, <1>4, <1>5, <1>6

LEMMA OpeningMoves ==
    ASSUME GossipInv, GossipInv', Opening, NEW p \in PeerSet, OpeningStep(p)
    PROVE  Opening'
<1>1. \A x: Neighbours(x)' = Neighbours(x)
    BY SameTypes DEF OpeningStep
<1>2. /\ \A x \in PeerSet: client'[x].record = client[x].record
      /\ \A x \in PeerSet: x # p => client'[x] = client[x]
      /\ ClientOpens(p)
    BY DEF OpeningStep
<1>3. \A x \in PeerSet: Neighbours(x) \subseteq PeerSet
    BY NeighbourFacts
<1>4. \A x \in PeerSet: \A y \in Neighbours(x): y # x /\ x \in Neighbours(y)
    BY NeighbourFacts
<1>5. \A x \in PeerSet: \A y \in Neighbours(x):
         client[x].link[y] # "closed" => client'[x].link[y] # "closed"
    BY <1>2 DEF ClientOpens
<1>6. ASSUME NEW x \in PeerSet, NEW y \in Neighbours(x)
      PROVE  client'[x].usable[y] => client'[x].lane[y]
    BY <1>2, <1>6 DEF ClientOpens, Opening
<1>7. ASSUME NEW x \in PeerSet, NEW y \in Neighbours(x), client'[x].link[y] = "answered"
      PROVE  client'[y].link[x] # "closed"
    <2>1. client[x].link[y] = "answered" \/ Coming(y, x)
        BY <1>2, <1>7 DEF ClientOpens
    <2>2. client[y].link[x] # "closed"
        BY <2>1 DEF Opening, Coming
    <2> QED
        BY <1>3, <1>4, <1>5, <2>2
<1>8. ASSUME NEW x \in PeerSet, NEW y \in Neighbours(x), Known(x, y)'
      PROVE  client'[x].directory.records[y] = client'[y].record
    <2>1. client'[x].directory.records[y] = client[y].record
        BY <1>2, <1>8 DEF ClientOpens, Opening, Known
    <2> QED
        BY <1>2, <1>3, <2>1
<1>9. ASSUME NEW m \in UnderWayAll', IsFull(m)
      PROVE  /\ client'[m.src].link[m.dst] # "closed"
             /\ m.payload = Full(client'[m.src].record)
    <2>1. CASE \E n \in UnderWayAll: SamePayload(m, n)
        <3>1. PICK n \in UnderWayAll: SamePayload(m, n)
            BY <2>1
        <3>2. IsFull(n) /\ MessageType(n)
            BY <1>9, <3>1 DEF IsFull, SamePayload, GossipInv, MessagesOK, UnderWayAll
        <3>3. client[n.src].link[n.dst] # "closed" /\ n.payload = Full(client[n.src].record)
            BY <3>1, <3>2 DEF Opening
        <3>4. m.src = n.src /\ m.dst = n.dst /\ m.payload = n.payload
              /\ n.src \in PeerSet /\ n.dst \in Neighbours(n.src)
            BY <3>1, <3>2 DEF SamePayload, MessageType
        <3> QED
            BY <1>2, <1>5, <3>3, <3>4
    <2>2. CASE /\ m.src = p /\ m.dst \in Neighbours(p) /\ client'[p].link[m.dst] # "closed"
               /\ m.payload = Full(client[p].record)
        BY <1>2, <2>2
    <2> QED
        BY <1>9, <2>1, <2>2 DEF OpeningStep, RecordsSetOut
<1>10. ASSUME NEW x \in PeerSet, NEW y \in Neighbours(x), sessions'[{x, y}] = 1,
              client'[x].link[y] # "closed"
       PROVE  \/ Known(x, y)' \/ Coming(y, x)'
              \/ client'[y].link[x] = "closed"
              \/ client'[y].link[x] = "pending" /\ Coming(x, y)'
    <2>1. y \in PeerSet /\ x \in Neighbours(y) /\ x # y /\ {x, y} = {y, x} /\ {x, y} \in setup.links
        BY NeighbourFacts
    <2>2. client[y].link[x] \in LinkStates /\ client'[y].link[x] \in LinkStates
          /\ client[x].link[y] \in LinkStates
        <3>1. client[y] \in ClientType(y) /\ client'[y] \in ClientType(y) /\ client[x] \in ClientType(x)
            <4>1. ClientType(y)' = ClientType(y)
                BY SameTypes DEF OpeningStep
            <4> QED
                BY <2>1, <4>1 DEF GossipInv, ClientsOK
        <3> QED
            BY <2>1, <3>1, ClientFields
    <2>3. CASE client[x].link[y] = "closed"
        <3>1. x = p /\ client'[y] = client[y] /\ Coming(x, y)'
            BY <1>2, <1>10, <2>1, <2>3 DEF ClientOpens
        <3>2. client[y].link[x] # "answered"
            BY <2>1, <2>3 DEF Opening
        <3> QED
            BY <2>2, <3>1, <3>2 DEF LinkStates
    <2>4. CASE client[x].link[y] # "closed"
        <3>1. sessions[{x, y}] = 1
            <4>1. sessions[{x, y}] \in Nat /\ client[x].key[y] \in 1..sessions[{x, y}]
                BY <2>4, OpenLink
            <4>2. sessions[{x, y}] <= 1
                BY <1>10, <2>1 DEF OpeningStep
            <4> QED
                BY <4>1, <4>2
        <3>2. \/ Known(x, y) \/ Coming(y, x) \/ client[y].link[x] = "closed"
              \/ client[y].link[x] = "pending" /\ Coming(x, y)
            BY <2>4, <3>1 DEF Opening, Answered
        <3>3. CASE Known(x, y)
            BY <1>2, <3>3 DEF ClientOpens, Known
        <3>4. CASE Coming(y, x)
            BY <1>10, <2>4, <3>4 DEF OpeningStep, RecordsPass
        <3>5. CASE client[y].link[x] = "closed"
            <4>1. CASE client'[y].link[x] = "closed"
                BY <4>1
            <4>2. CASE client'[y].link[x] # "closed"
                <5>1. y = p
                    BY <1>2, <2>1, <3>5, <4>2
                <5> QED
                    BY <1>2, <2>1, <3>5, <4>2, <5>1 DEF ClientOpens
            <4> QED
                BY <4>1, <4>2
        <3>6. CASE client[y].link[x] = "pending" /\ Coming(x, y)
            <4>1. sessions'[{y, x}] = 1
                BY <1>10, <2>1
            <4>2. \/ Coming(x, y)'
                  \/ y = p /\ Known(y, x)' /\ client'[y].link[x] = "answered"
                BY <2>1, <3>6, <4>1 DEF OpeningStep, RecordsPass
            <4>3. client'[y].link[x] = "pending" \/ Coming(y, x)'
                <5>1. CASE y = p
                    BY <1>2, <2>1, <3>6, <5>1 DEF ClientOpens
                <5>2. CASE y # p
                    BY <1>2, <2>1, <3>6, <5>2
                <5> QED
                    BY <5>1, <5>2
            <4> QED
                BY <4>2, <4>3
        <3> QED
            BY <3>2, <3>3, <3>4, <3>5, <3>6
    <2> QED
        BY <2>3, <2>4
<1>11. \A x \in PeerSet: \A y \in Neighbours(x): Answered(x, y)'
    BY <1>10 DEF Answered
<1> QED
    BY <1>1, <1>6, <1>7, <1>8, <1>9, <1>11 DEF Opening

(* A reconciliation of a Client that lost no lane: it opens links and      *)
(* sends its record over each.                                             *)
LEMMA ReconcileOpens ==
    ASSUME NEW p \in PeerSet, NEW c \in ClientType(p), \A q \in Neighbours(p): c.usable[q] => c.lane[q]
    PROVE  /\ \A q \in Neighbours(p):
                Reconcile(c).link[q] = IF q \in Gained(c) THEN "pending" ELSE c.link[q]
           /\ DOMAIN Reconcile(c).directory.records = DOMAIN c.directory.records
           /\ \A q \in DOMAIN c.directory.records:
                Reconcile(c).directory.records[q] = c.directory.records[q]
<1>1. c.lane \in [Neighbours(p) -> BOOLEAN]
    BY ClientFields
<1>2. Lost(c) = {}
    BY <1>1 DEF Lost
<1>3. /\ \A q \in Neighbours(p): Reconcile(c).link[q] = LinkAfter(c, q)
      /\ Reconcile(c).directory = Update(c.directory, {}, <<>>)
    BY <1>2, ReconcileFields
<1>4. DOMAIN <<>> = {}
    OBVIOUS
<1>5. Update(c.directory, {}, <<>>).records = Replaced(c.directory.records, {}, <<>>)
    BY DEF Update
<1>6. /\ DOMAIN Replaced(c.directory.records, {}, <<>>) = DOMAIN c.directory.records
      /\ \A q \in DOMAIN c.directory.records:
           Replaced(c.directory.records, {}, <<>>)[q] = c.directory.records[q]
    BY <1>4 DEF Replaced
<1> QED
    BY <1>2, <1>3, <1>5, <1>6 DEF LinkAfter

LEMMA SyncsSealed ==
    ASSUME NEW p \in PeerSet, NEW c \in ClientType(p),
           \A q \in Neighbours(p): c.lane[q] => c.key[q] # NoSession
    PROVE  /\ \A q \in Gained(c): \E m \in SealAll(p, c, Syncs(p, c)):
                m.src = p /\ m.dst = q /\ IsFull(m)
           /\ \A m \in SealAll(p, c, Syncs(p, c)):
                m.src = p /\ m.dst \in Gained(c) /\ m.payload = Full(c.record)
<1>1. Gained(c) \subseteq Neighbours(p) /\ \A q \in Gained(c): c.lane[q]
    BY ClientFields DEF Gained
<1>2. ASSUME NEW q \in Gained(c)
      PROVE  \E m \in SealAll(p, c, Syncs(p, c)): m.src = p /\ m.dst = q /\ IsFull(m)
    <2> DEFINE n == Message(p, q, Full(c.record))
    <2> DEFINE m == [src |-> p, dst |-> n.dst, payload |-> n.payload, session |-> c.key[n.dst]]
    <2>1. n \in Syncs(p, c) /\ n.dst = q /\ n.payload = Full(c.record)
        BY DEF Syncs, Message
    <2>2. c.key[n.dst] # NoSession
        BY <1>1, <2>1
    <2>3. m.src = p /\ m.dst = q /\ IsFull(m)
        BY <2>1 DEF IsFull, Full
    <2> HIDE DEF n
    <2>4. m \in SealAll(p, c, Syncs(p, c))
        BY <2>1, <2>2 DEF SealAll
    <2> QED
        BY <2>3, <2>4
<1>3. \A m \in SealAll(p, c, Syncs(p, c)):
         m.src = p /\ m.dst \in Gained(c) /\ m.payload = Full(c.record)
    BY DEF SealAll, Syncs, Message
<1> QED
    BY <1>2, <1>3

(* c is b with other keys.                                                 *)
Rekeyed(p, b, c) ==
    /\ c \in ClientType(p)
    /\ c.lane = b.lane /\ c.usable = b.usable /\ c.link = b.link
    /\ c.directory = b.directory /\ c.record = b.record
    /\ \A q \in Neighbours(p): c.lane[q] => c.key[q] # NoSession

(* e is c reconciled, with some usable links opened again.                 *)
Reopened(p, c, e) ==
    /\ e.record = c.record /\ e.lane = c.lane /\ e.usable = c.lane
    /\ e.directory = Reconcile(c).directory
    /\ \A q \in Neighbours(p): e.link[q] \in {Reconcile(c).link[q], "pending"}
    /\ \A q \in Neighbours(p): ~c.lane[q] => e.link[q] = c.link[q]

(* The full records p sends for that.                                      *)
FullSent(p, c, e, S) ==
    /\ DOMAIN net' = (DOMAIN net \cup SealAll(p, c, Syncs(p, c))) \cup S
    /\ \A m \in S: /\ m.src = p /\ m.dst \in Neighbours(p) /\ e.link[m.dst] # "closed"
                   /\ m.payload = Full(c.record)

(* A Client that only reconciles.                                          *)
LEMMA ReconcileOpening ==
    ASSUME GossipInv, Opening, NEW p \in PeerSet, NEW c, Rekeyed(p, client[p], c),
           NEW e, Reopened(p, c, e), NEW S, FullSent(p, c, e, S),
           client' = [client EXCEPT ![p] = e],
           UNCHANGED <<outbound, opened, setup>>,
           \A l \in setup.links: sessions[l] <= sessions'[l]
    PROVE  OpeningStep(p)
<1> DEFINE N == Neighbours(p)
<1> USE DEF Rekeyed, Reopened, FullSent
<1>0. DOMAIN client = PeerSet
    BY DEF GossipInv, ClientsOK
<1>1. /\ client'[p] = e
      /\ \A x \in PeerSet: x # p => client'[x] = client[x]
      /\ \A x \in PeerSet: client'[x].record = client[x].record
    BY <1>0
<1>2. client[p] \in ClientType(p) /\ Mirrors(client[p])
    BY DEF GossipInv, ClientsOK
<1>3. /\ \A q \in N: Reconcile(c).link[q] = IF q \in Gained(c) THEN "pending" ELSE c.link[q]
      /\ DOMAIN Reconcile(c).directory.records = DOMAIN c.directory.records
      /\ \A q \in DOMAIN c.directory.records:
           Reconcile(c).directory.records[q] = c.directory.records[q]
    <2>1. \A q \in N: c.usable[q] => c.lane[q]
        BY DEF Opening
    <2> QED
        BY <2>1, ReconcileOpens
<1>4. UnderWayAll' = (UnderWayAll \cup SealAll(p, c, Syncs(p, c))) \cup S
    BY DEF UnderWayAll
<1>5. /\ \A q \in Gained(c): \E m \in SealAll(p, c, Syncs(p, c)):
           m.src = p /\ m.dst = q /\ IsFull(m)
      /\ \A m \in SealAll(p, c, Syncs(p, c)):
           m.src = p /\ m.dst \in Gained(c) /\ m.payload = Full(c.record)
    BY SyncsSealed
<1>6. Gained(c) \subseteq N
    BY ClientFields DEF Gained
<1>7. \A q \in Gained(c): Coming(p, q)'
    BY <1>4, <1>5 DEF Coming
<1>8. ASSUME NEW q \in N, c.link[q] = "closed", e.link[q] # "closed" PROVE q \in Gained(c)
    <2>1. c.lane[q]
        BY <1>8
    <2>2. ~c.usable[q]
        BY <1>2, <1>8, ClientFields DEF Mirrors
    <2> QED
        BY <2>1, <2>2, ClientFields DEF Gained
<1>9. ClientOpens(p)
    <2>1. SUFFICES ASSUME NEW q \in N
                   PROVE  /\ e.usable[q] => e.lane[q]
                          /\ c.link[q] # "closed" => e.link[q] # "closed"
                          /\ c.link[q] = "closed" /\ e.link[q] # "closed" =>
                               e.link[q] = "pending" /\ Coming(p, q)'
                          /\ e.link[q] = "answered" => c.link[q] = "answered" \/ Coming(q, p)
                          /\ c.link[q] = "pending" => e.link[q] = "pending" \/ Coming(p, q)'
                          /\ Known(p, q) => Known(p, q)'
                          /\ Known(p, q)' => e.directory.records[q] = client[q].record
        BY <1>1 DEF ClientOpens
    <2>2. e.usable[q] => e.lane[q]
        OBVIOUS
    <2>3. c.link[q] # "closed" => e.link[q] # "closed"
        BY <1>3
    <2>4. c.link[q] = "closed" /\ e.link[q] # "closed" => e.link[q] = "pending" /\ Coming(p, q)'
        BY <1>3, <1>7, <1>8
    <2>5. e.link[q] = "answered" => c.link[q] = "answered"
        BY <1>3
    <2>6. c.link[q] = "pending" => e.link[q] = "pending"
        BY <1>3
    <2>7. Known(p, q) <=> Known(p, q)'
        BY <1>1, <1>3 DEF Known
    <2>8. Known(p, q)' => e.directory.records[q] = client[q].record
        BY <1>3, <2>7 DEF Known, Opening
    <2> QED
        BY <2>2, <2>3, <2>4, <2>5, <2>6, <2>7, <2>8
<1>10. RecordsSetOut(p)
    <2>1. SUFFICES ASSUME NEW m \in UnderWayAll'
                   PROVE  \/ \E n \in UnderWayAll: SamePayload(m, n)
                          \/ /\ m.src = p /\ m.dst \in N /\ e.link[m.dst] # "closed"
                             /\ m.payload = Full(c.record)
        BY <1>1 DEF RecordsSetOut
    <2>2. CASE m \in UnderWayAll
        BY <2>2 DEF SamePayload
    <2>3. CASE m \in SealAll(p, c, Syncs(p, c))
        BY <1>3, <1>5, <1>6, <2>3
    <2> QED
        BY <1>4, <2>1, <2>2, <2>3
<1>11. RecordsPass(p)
    BY <1>4 DEF RecordsPass, Coming
<1> QED
    BY <1>1, <1>9, <1>10, <1>11 DEF OpeningStep

LEMMA ObserveOpening ==
    ASSUME GossipInv, Opening, NEW p \in PeerSet, Observe(p)
    PROVE  OpeningStep(p)
<1> DEFINE b == client[p]
<1> DEFINE e == Reconcile(b)
<1>1. b \in ClientType(p) /\ Mirrors(b) /\ Keyed(b) /\ DOMAIN client = PeerSet
    BY DEF GossipInv, ClientsOK
<1>2. /\ client' = [client EXCEPT ![p] = e]
      /\ net' = AddAll(net, SealAll(p, b, Syncs(p, b)))
      /\ UNCHANGED <<outbound, opened, sessions, setup>>
    BY DEF Observe
<1>3. \A q \in Neighbours(p): b.lane[q] => b.key[q] # NoSession
    BY <1>1, ClientFields DEF Keyed
<1>4. /\ e.record = b.record /\ e.lane = b.lane /\ e.usable = b.lane
      /\ \A q \in Neighbours(p): e.link[q] = IF q \in Gained(b) THEN "pending" ELSE b.link[q]
    BY <1>1, ReconcileFields, ReconcileOpens DEF Opening
<1>5. \A q \in Neighbours(p): ~b.lane[q] => e.link[q] = b.link[q]
    BY <1>4 DEF Gained
<1>6. \A l \in setup.links: sessions[l] <= sessions'[l]
    BY <1>2, SetupFacts
<1>7. DOMAIN net' = (DOMAIN net \cup SealAll(p, b, Syncs(p, b))) \cup {}
    BY <1>2, AddAllBag DEF GossipInv, MessagesOK
<1>8. Rekeyed(p, client[p], b)
    BY <1>1, <1>3 DEF Rekeyed
<1>9. Reopened(p, b, e)
    BY <1>4, <1>5 DEF Reopened
<1>10. FullSent(p, b, e, {})
    BY <1>7 DEF FullSent
<1> QED
    BY <1>2, <1>6, <1>8, <1>9, <1>10, ReconcileOpening

LEMMA InstallLinkOpening ==
    ASSUME GossipInv, Opening, NEW p \in PeerSet, NEW q \in Neighbours(p), InstallLink(p, q)
    PROVE  OpeningStep(p)
<1> DEFINE N == Neighbours(p)
<1> DEFINE b == client[p]
<1>1. PICK n \in {sessions[{p, q}], sessions[{p, q}] + 1}:
         /\ n \in (b.last[q] + 1)..setup.sessions
         /\ LET keyed == [b EXCEPT !.key[q] = n, !.last[q] = n]
                c == Reconcile(keyed)
                again == b.key[q] # NoSession /\ c.usable[q]
            IN  /\ client' = [client EXCEPT ![p] = IF again THEN link_ready(c, q) ELSE c]
                /\ net' = AddAll(AddAll(net, SealAll(p, keyed, Syncs(p, keyed))),
                                 SealAll(p, c, {Message(p, o, Full(c.record)):
                                                  o \in {m \in {q}: again}}))
         /\ sessions' = [sessions EXCEPT ![{p, q}] = n]
    BY DEF InstallLink
<1> DEFINE keyed == [b EXCEPT !.key[q] = n, !.last[q] = n]
<1> DEFINE c == Reconcile(keyed)
<1> DEFINE again == b.key[q] # NoSession /\ c.usable[q]
<1> DEFINE e == IF again THEN link_ready(c, q) ELSE c
<1> DEFINE M == {Message(p, o, Full(c.record)): o \in {m \in {q}: again}}
<1>2. UNCHANGED <<outbound, opened, spent, setup>>
    BY DEF InstallLink
<1>3. setup.sessions \in Nat /\ sessions \in [setup.links -> Nat] /\ {p, q} \in setup.links
    BY SetupFacts, NeighbourFacts
<1>4. b \in ClientType(p) /\ Mirrors(b) /\ Keyed(b) /\ DOMAIN client = PeerSet
    BY DEF GossipInv, ClientsOK
<1>5. b.key \in [N -> NoSession..setup.sessions] /\ b.last \in [N -> NoSession..setup.sessions]
    BY <1>4, ClientFields
<1>6. n \in Nat /\ n > 0 /\ n <= setup.sessions /\ sessions[{p, q}] <= n
    BY <1>1, <1>3, <1>5 DEF NoSession
<1>7. \A l \in setup.links: sessions[l] <= sessions'[l]
    <2>1. /\ sessions'[{p, q}] = n
          /\ \A l \in setup.links: l # {p, q} => sessions'[l] = sessions[l]
        BY <1>1, <1>3
    <2>2. \A l \in setup.links: sessions[l] <= sessions[l]
        BY <1>3
    <2> QED
        BY <1>6, <2>1, <2>2
<1>8. /\ keyed \in ClientType(p)
      /\ keyed.lane = b.lane /\ keyed.usable = b.usable /\ keyed.link = b.link
      /\ keyed.directory = b.directory /\ keyed.record = b.record
      /\ keyed.key = [b.key EXCEPT ![q] = n]
    <2>1. n \in NoSession..setup.sessions
        BY <1>3, <1>6 DEF NoSession
    <2>2. /\ [b.key EXCEPT ![q] = n] \in [N -> NoSession..setup.sessions]
          /\ [b.last EXCEPT ![q] = n] \in [N -> NoSession..setup.sessions]
        BY <1>5, <2>1
    <2> HIDE DEF b
    <2> QED
        BY <1>4, <2>2 DEF ClientType
<1>9. \A o \in N: keyed.lane[o] => keyed.key[o] # NoSession
    <2>1. \A o \in N: keyed.key[o] = IF o = q THEN n ELSE b.key[o]
        BY <1>5, <1>8
    <2>2. DOMAIN b.link = N
        BY <1>4, ClientFields
    <2> QED
        BY <1>4, <1>6, <1>8, <2>1, <2>2 DEF Keyed, NoSession
<1> HIDE DEF keyed
<1>10. /\ c \in ClientType(p) /\ c.record = keyed.record /\ c.lane = keyed.lane
       /\ c.usable = keyed.lane
       /\ \A o \in N: c.link[o] = IF o \in Gained(keyed) THEN "pending" ELSE keyed.link[o]
    <2>1. \A o \in N: keyed.usable[o] => keyed.lane[o]
        BY <1>8 DEF Opening
    <2> QED
        BY <1>8, <2>1, ReconcileFields, ReconcileOpens
<1> HIDE DEF c
<1>11. /\ e.record = keyed.record /\ e.lane = keyed.lane /\ e.usable = keyed.lane
       /\ e.directory = c.directory
       /\ \A o \in N: e.link[o] \in {c.link[o], "pending"}
       /\ \A o \in N: ~keyed.lane[o] => e.link[o] = keyed.link[o]
       /\ again => e.link[q] = "pending"
    <2>0. \A o \in N: ~keyed.lane[o] => c.link[o] = keyed.link[o]
        BY <1>10 DEF Gained
    <2>1. CASE again
        <3>1. c.link \in [N -> LinkStates]
            BY <1>10, ClientFields
        <3>2. /\ e.link = [c.link EXCEPT ![q] = "pending"]
              /\ e.record = c.record /\ e.lane = c.lane /\ e.usable = c.usable
              /\ e.directory = c.directory
            BY <1>10, <2>1 DEF link_ready, ClientType
        <3>3. keyed.lane[q]
            BY <1>10, <2>1
        <3>4. \A o \in N: e.link[o] = IF o = q THEN "pending" ELSE c.link[o]
            BY <3>1, <3>2
        <3> HIDE DEF e
        <3> QED
            BY <1>10, <2>0, <3>2, <3>3, <3>4
    <2>2. CASE ~again
        <3>1. e = c
            BY <2>2
        <3> HIDE DEF e
        <3> QED
            BY <1>10, <2>0, <2>2, <3>1
    <2> QED
        BY <2>1, <2>2
<1>12. client' = [client EXCEPT ![p] = e]
    BY <1>1 DEF c, keyed
<1> DEFINE S == SealAll(p, c, M)
<1>13. \A m \in S: /\ m.src = p /\ m.dst \in N /\ e.link[m.dst] # "closed"
                   /\ m.payload = Full(keyed.record)
    <2>1. \A m \in M: m.dst = q /\ again /\ m.payload = Full(keyed.record)
        BY <1>10 DEF Message
    <2> HIDE DEF M, e, again
    <2>2. \A m \in S: m.src = p /\ m.dst = q /\ again /\ m.payload = Full(keyed.record)
        BY <2>1 DEF SealAll
    <2> QED
        BY <1>11, <2>2
<1>14. DOMAIN net' = (DOMAIN net \cup SealAll(p, keyed, Syncs(p, keyed))) \cup S
    <2>1. net' = AddAll(AddAll(net, SealAll(p, keyed, Syncs(p, keyed))), S)
        BY <1>1 DEF c, keyed
    <2> HIDE DEF S
    <2>2. IsABag(net)
        BY DEF GossipInv, MessagesOK
    <2>3. /\ IsABag(AddAll(net, SealAll(p, keyed, Syncs(p, keyed))))
          /\ DOMAIN AddAll(net, SealAll(p, keyed, Syncs(p, keyed)))
               = DOMAIN net \cup SealAll(p, keyed, Syncs(p, keyed))
        BY <2>2, AddAllBag
    <2> QED
        BY <2>1, <2>3, AddAllBag
<1> HIDE DEF S, e
<1>15. /\ keyed.lane = client[p].lane /\ keyed.usable = client[p].usable
       /\ keyed.link = client[p].link /\ keyed.directory = client[p].directory
       /\ keyed.record = client[p].record
    BY <1>8
<1>16. /\ e.directory = Reconcile(keyed).directory
       /\ \A o \in N: e.link[o] \in {Reconcile(keyed).link[o], "pending"}
    BY <1>11 DEF c
<1>17. Rekeyed(p, client[p], keyed)
    BY <1>8, <1>9, <1>15 DEF Rekeyed
<1>18. Reopened(p, keyed, e)
    BY <1>11, <1>16 DEF Reopened
<1>19. FullSent(p, keyed, e, S)
    BY <1>13, <1>14 DEF FullSent
<1> QED
    BY <1>2, <1>7, <1>12, <1>17, <1>18, <1>19, ReconcileOpening

LEMMA LaneUpOpening ==
    ASSUME GossipInv, Opening, NEW p \in PeerSet, NEW q \in Neighbours(p), LaneUp(p, q)
    PROVE  OpeningStep(p)
<1> DEFINE b == client[p]
<1> DEFINE e == client'[p]
<1>1. b \in ClientType(p) /\ DOMAIN client = PeerSet /\ b.lane \in [Neighbours(p) -> BOOLEAN]
    BY ClientFields DEF GossipInv, ClientsOK
<1>2. /\ client' = [client EXCEPT ![p] = [b EXCEPT !.lane = [b.lane EXCEPT ![q] = TRUE]]]
      /\ UNCHANGED <<outbound, net, opened, sessions, setup>>
    BY DEF LaneUp
<1>3. /\ e.record = b.record /\ e.usable = b.usable /\ e.link = b.link /\ e.directory = b.directory
      /\ e.lane = [b.lane EXCEPT ![q] = TRUE]
      /\ \A x \in PeerSet: x # p => client'[x] = client[x]
    BY <1>1, <1>2 DEF ClientType
<1>4. \A o \in Neighbours(p): b.lane[o] => e.lane[o]
    BY <1>1, <1>3
<1>5. \A x \in PeerSet: client'[x].record = client[x].record
    BY <1>3
<1>6. ClientOpens(p)
    <2>1. \A o \in Neighbours(p): Known(p, o)' <=> Known(p, o)
        BY <1>3 DEF Known
    <2> QED
        BY <1>3, <1>4, <2>1 DEF ClientOpens, Opening
<1>7. UnderWayAll' = UnderWayAll
    BY <1>2 DEF UnderWayAll
<1>8. RecordsSetOut(p) /\ RecordsPass(p)
    BY <1>7 DEF RecordsSetOut, RecordsPass, Coming, SamePayload
<1>9. \A l \in setup.links: sessions[l] <= sessions'[l]
    BY <1>2, SetupFacts
<1> QED
    BY <1>2, <1>3, <1>5, <1>6, <1>8, <1>9 DEF OpeningStep

(* Only messages move.                                                     *)
LEMMA StillOpening ==
    ASSUME GossipInv, Opening, NEW p \in PeerSet, UNCHANGED <<client, setup, sessions>>,
           RecordsSetOut(p), RecordsPass(p)
    PROVE  OpeningStep(p)
<1>1. \A o \in Neighbours(p): Known(p, o)' <=> Known(p, o)
    BY DEF Known
<1>2. ClientOpens(p)
    BY <1>1 DEF ClientOpens, Opening
<1>3. \A l \in setup.links: sessions[l] <= sessions'[l]
    BY SetupFacts
<1> QED
    BY <1>2, <1>3 DEF OpeningStep

LEMMA PollDigestOpening ==
    ASSUME GossipInv, Opening, NEW p \in PeerSet, NEW q \in Neighbours(p), PollDigest(p, q)
    PROVE  OpeningStep(p)
<1> DEFINE d == Message(p, q, Digest(client[p].record))
<1>1. outbound' = AddAll(outbound, {d}) /\ UNCHANGED <<client, net, opened, sessions, setup>>
    BY DEF PollDigest
<1>2. ~IsFull(d)
    BY DEF IsFull, Message, Digest
<1> HIDE DEF d
<1>3. DOMAIN outbound' = DOMAIN outbound \cup {d}
    BY <1>1, AddAllBag DEF GossipInv, MessagesOK
<1>4. UnderWayAll' = UnderWayAll \cup {d}
    BY <1>1, <1>3 DEF UnderWayAll
<1>5. RecordsSetOut(p) /\ RecordsPass(p)
    BY <1>2, <1>4 DEF RecordsSetOut, RecordsPass, Coming, SamePayload
<1> QED
    BY <1>1, <1>5, StillOpening

LEMMA SealOpening ==
    ASSUME GossipInv, Opening, NEW m \in DOMAIN outbound, Seal(m)
    PROVE  OpeningStep(m.src)
<1> DEFINE p == m.src
<1> DEFINE S == SealAll(p, client[p], {m})
<1>1. /\ outbound' = Take(outbound, m) /\ net' = AddAll(net, S)
      /\ UNCHANGED <<client, opened, sessions, setup>>
    BY DEF Seal
<1>2. p \in PeerSet /\ m.dst \in Neighbours(p) /\ m \in UnderWayAll
    BY DEF GossipInv, MessagesOK, MessageType, UnderWayAll
<1>3. \A n \in S: SamePayload(n, m)
    BY DEF SealAll, SamePayload
<1>4. ASSUME IsFull(m) PROVE \E n \in S: SamePayload(n, m)
    <2>1. client[p].key[m.dst] # NoSession
        BY <1>2, <1>4, OpenLink DEF Opening
    <2>2. [src |-> p, dst |-> m.dst, payload |-> m.payload, session |-> client[p].key[m.dst]] \in S
        BY <2>1 DEF SealAll
    <2> QED
        BY <1>3, <2>2
<1> HIDE DEF S
<1>5. DOMAIN net' = DOMAIN net \cup S
    BY <1>1, AddAllBag DEF GossipInv, MessagesOK
<1>6. DOMAIN outbound' \subseteq DOMAIN outbound /\ DOMAIN outbound \ {m} \subseteq DOMAIN outbound'
    BY <1>1, TakeBag DEF GossipInv, MessagesOK
<1>7. UnderWayAll' \subseteq UnderWayAll \cup S /\ UnderWayAll \ {m} \subseteq UnderWayAll' /\ S \subseteq UnderWayAll'
    BY <1>1, <1>5, <1>6 DEF UnderWayAll
<1>8. RecordsSetOut(p)
    BY <1>2, <1>3, <1>7 DEF RecordsSetOut, SamePayload
<1>9. \A x, y: Coming(x, y) => Coming(x, y)'
    <2>1. SUFFICES ASSUME NEW x, NEW y, NEW n \in UnderWayAll, n.src = x, n.dst = y, IsFull(n)
                   PROVE  Coming(x, y)'
        BY DEF Coming
    <2>2. CASE n # m
        BY <1>7, <2>1, <2>2 DEF Coming
    <2>3. CASE n = m
        BY <1>4, <1>7, <2>1, <2>3 DEF Coming, SamePayload, IsFull
    <2> QED
        BY <2>2, <2>3
<1>10. RecordsPass(p)
    BY <1>9 DEF RecordsPass
<1> QED
    BY <1>1, <1>2, <1>8, <1>10, StillOpening

(* A message is taken off, and every record on its way to an open link of  *)
(* the first session is still on its way.                                  *)
LEMMA TakenOpening ==
    ASSUME GossipInv, Opening, UNCHANGED <<client, setup, sessions>>,
           NEW m \in UnderWayAll, UnderWayAll \ {m} \subseteq UnderWayAll',
           \A n \in UnderWayAll': \E o \in UnderWayAll: SamePayload(n, o),
           IsFull(m) /\ client[m.dst].link[m.src] # "closed" /\ sessions[{m.dst, m.src}] = 1
             => \E n \in UnderWayAll': SamePayload(n, m)
    PROVE  OpeningStep(m.src)
<1> DEFINE p == m.src
<1>1. p \in PeerSet
    BY DEF GossipInv, MessagesOK, MessageType, UnderWayAll
<1>2. RecordsSetOut(p)
    BY DEF RecordsSetOut
<1>3. RecordsPass(p)
    <2>1. SUFFICES ASSUME NEW x \in PeerSet, NEW y \in Neighbours(x), sessions[{x, y}] = 1,
                          client[x].link[y] # "closed", NEW n \in UnderWayAll,
                          n.src = y, n.dst = x, IsFull(n)
                   PROVE  Coming(y, x)'
        BY DEF RecordsPass, Coming
    <2>2. CASE n # m
        BY <2>1, <2>2 DEF Coming
    <2>3. CASE n = m
        <3>1. PICK o \in UnderWayAll': SamePayload(o, m)
            BY <2>1, <2>3
        <3> QED
            BY <2>1, <2>3, <3>1 DEF Coming, SamePayload, IsFull
    <2> QED
        BY <2>2, <2>3
<1> QED
    BY <1>1, <1>2, <1>3, StillOpening

LEMMA LoseOpening ==
    ASSUME GossipInv, Opening, NEW m \in DOMAIN net, Lose(m), UNCHANGED spent
    PROVE  OpeningStep(m.src)
<1>1. net' = Take(net, m) /\ UNCHANGED <<client, outbound, opened, sessions, setup>>
    BY DEF Lose
<1>2. ~(client[m.src].lane[m.dst] /\ client[m.dst].lane[m.src])
    <2>1. ASSUME Spend("faults") PROVE FALSE
        <3>1. spent["faults"] \in Nat /\ spent' = [spent EXCEPT !["faults"] = @ + 1]
              /\ spent \in [Bounds -> Nat] /\ "faults" \in Bounds
            BY <2>1 DEF Spend, GossipInv, Bounds
        <3>2. spent'["faults"] = spent["faults"] + 1
            BY <3>1
        <3> QED
            BY <3>1, <3>2
    <2> QED
        BY <2>1 DEF Lose
<1>3. m.src \in PeerSet /\ m.dst \in Neighbours(m.src) /\ m \in UnderWayAll
    BY DEF GossipInv, MessagesOK, MessageType, UnderWayAll
<1>4. m.dst \in PeerSet /\ m.src \in Neighbours(m.dst)
    BY <1>3, NeighbourFacts
<1>5. ASSUME IsFull(m), client[m.dst].link[m.src] # "closed" PROVE FALSE
    <2>1. client[m.src].link[m.dst] # "closed"
        BY <1>3, <1>5 DEF Opening
    <2>2. client[m.src].usable[m.dst] /\ client[m.dst].usable[m.src]
        BY <1>3, <1>4, <1>5, <2>1, OpenLink
    <2> QED
        BY <1>2, <1>3, <1>4, <2>2 DEF Opening
<1>6. DOMAIN net' \subseteq DOMAIN net /\ DOMAIN net \ {m} \subseteq DOMAIN net'
    BY <1>1, TakeBag DEF GossipInv, MessagesOK
<1>7. UnderWayAll' \subseteq UnderWayAll /\ UnderWayAll \ {m} \subseteq UnderWayAll'
    BY <1>1, <1>6 DEF UnderWayAll
<1>8. \A n \in UnderWayAll': \E o \in UnderWayAll: SamePayload(n, o)
    BY <1>7 DEF SamePayload
<1> QED
    BY <1>1, <1>3, <1>5, <1>7, <1>8, TakenOpening

LEMMA OpenOpening ==
    ASSUME GossipInv, Opening, NEW m \in DOMAIN net, Open(m)
    PROVE  OpeningStep(m.src)
<1> DEFINE w == Message(m.src, m.dst, m.payload)
<1>1. /\ net' = Take(net, m) /\ UNCHANGED <<client, outbound, sessions, setup>>
      /\ opened' = IF m.session = client[m.dst].key[m.src] THEN AddAll(opened, {w}) ELSE opened
    BY DEF Open
<1>2. m.src \in PeerSet /\ m.dst \in Neighbours(m.src) /\ m \in UnderWayAll
      /\ m.session \in 1..sessions[{m.src, m.dst}]
    BY DEF GossipInv, MessagesOK, MessageType, UnderWayAll
<1>3. m.dst \in PeerSet /\ m.src \in Neighbours(m.dst) /\ {m.src, m.dst} = {m.dst, m.src}
    BY <1>2, NeighbourFacts
<1>4. SamePayload(w, m)
    BY DEF Message, SamePayload
<1> HIDE DEF w
<1>5. /\ DOMAIN opened \subseteq DOMAIN opened' /\ DOMAIN opened' \subseteq DOMAIN opened \cup {w}
      /\ m.session = client[m.dst].key[m.src] => w \in DOMAIN opened'
    <2>1. DOMAIN AddAll(opened, {w}) = DOMAIN opened \cup {w}
        BY AddAllBag DEF GossipInv, MessagesOK
    <2> QED
        BY <1>1, <2>1
<1>6. ASSUME client[m.dst].link[m.src] # "closed", sessions[{m.dst, m.src}] = 1
      PROVE  \E n \in UnderWayAll': SamePayload(n, m)
    <2>1. client[m.dst].key[m.src] \in 1..sessions[{m.dst, m.src}]
        BY <1>3, <1>6, OpenLink
    <2>2. m.session = 1 /\ client[m.dst].key[m.src] = 1
        BY <1>2, <1>3, <1>6, <2>1
    <2> QED
        BY <1>4, <1>5, <2>2 DEF UnderWayAll
<1>7. DOMAIN net' \subseteq DOMAIN net /\ DOMAIN net \ {m} \subseteq DOMAIN net'
    BY <1>1, TakeBag DEF GossipInv, MessagesOK
<1>8. UnderWayAll' \subseteq UnderWayAll \cup {w} /\ UnderWayAll \ {m} \subseteq UnderWayAll'
    BY <1>1, <1>5, <1>7 DEF UnderWayAll
<1>9. \A n \in UnderWayAll': \E o \in UnderWayAll: SamePayload(n, o)
    BY <1>2, <1>4, <1>8 DEF SamePayload
<1> QED
    BY <1>1, <1>2, <1>6, <1>8, <1>9, TakenOpening

LEMMA RefuseOpening ==
    ASSUME GossipInv, Opening, NEW m \in DOMAIN opened, Refuse(m)
    PROVE  OpeningStep(m.src)
<1>1. opened' = Take(opened, m) /\ UNCHANGED <<client, outbound, net, sessions, setup>>
      /\ client[m.dst].link[m.src] = "closed"
    BY DEF Refuse
<1>2. m \in UnderWayAll
    BY DEF UnderWayAll
<1>3. DOMAIN opened' \subseteq DOMAIN opened /\ DOMAIN opened \ {m} \subseteq DOMAIN opened'
    BY <1>1, TakeBag DEF GossipInv, MessagesOK
<1>4. UnderWayAll' \subseteq UnderWayAll /\ UnderWayAll \ {m} \subseteq UnderWayAll'
    BY <1>1, <1>3 DEF UnderWayAll
<1>5. \A n \in UnderWayAll': \E o \in UnderWayAll: SamePayload(n, o)
    BY <1>4 DEF SamePayload
<1> QED
    BY <1>1, <1>2, <1>4, <1>5, TakenOpening

(* What a Client takes from a payload off an open link while no lane is    *)
(* lost.  G are the links it opens meanwhile.                              *)
Taken(p, b, q, payload, c, e, G) ==
    /\ e.record = b.record
    /\ \A o \in Neighbours(p): e.usable[o] => e.lane[o]
    /\ \A o \in Neighbours(p): e.link[o] = IF o \in G THEN "pending" ELSE c.link[o]
    /\ \A o \in G: b.link[o] = "closed"
    /\ G \subseteq Neighbours(p)
    /\ \A o \in Neighbours(p):
         c.link[o] = IF payload.kind = "RuntimeRecord" /\ o = q THEN "answered" ELSE b.link[o]
    /\ DOMAIN e.directory.records =
         DOMAIN b.directory.records \cup {o \in {q}: payload.kind = "RuntimeRecord"}
    /\ \A o \in DOMAIN e.directory.records:
         e.directory.records[o] = IF payload.kind = "RuntimeRecord" /\ o = q THEN payload.record
                                  ELSE b.directory.records[o]

LEMMA AppliedLinks ==
    ASSUME NEW p \in PeerSet, NEW b \in ClientType(p), NEW q \in Neighbours(p), NEW payload
    PROVE  LET c == Apply(b, q, payload)
           IN  /\ \A o \in Neighbours(p):
                    c.link[o] = IF payload.kind = "RuntimeRecord" /\ o = q THEN "answered" ELSE b.link[o]
               /\ DOMAIN c.directory.records =
                    DOMAIN b.directory.records \cup {o \in {q}: payload.kind = "RuntimeRecord"}
               /\ \A o \in DOMAIN c.directory.records:
                    c.directory.records[o] = IF payload.kind = "RuntimeRecord" /\ o = q
                                             THEN payload.record ELSE b.directory.records[o]
<1> DEFINE c == Apply(b, q, payload)
<1>1. b.link \in [Neighbours(p) -> LinkStates]
    BY ClientFields
<1>2. CASE payload.kind = "RuntimeRecord"
    <2> DEFINE one == [o \in {q} |-> payload.record]
    <2>1. /\ c.link = [b.link EXCEPT ![q] = "answered"]
          /\ c.directory = Update(b.directory, {}, one)
        BY <1>2 DEF Apply, replace_origin, ClientType
    <2>2. Update(b.directory, {}, one).records = Replaced(b.directory.records, {}, one)
        BY DEF Update
    <2>3. DOMAIN one = {q} /\ one[q] = payload.record
        OBVIOUS
    <2> HIDE DEF one, c
    <2>4. /\ DOMAIN Replaced(b.directory.records, {}, one) = DOMAIN b.directory.records \cup {q}
          /\ \A o \in DOMAIN b.directory.records \cup {q}:
               Replaced(b.directory.records, {}, one)[o] =
                 IF o = q THEN payload.record ELSE b.directory.records[o]
        BY <2>3 DEF Replaced
    <2>5. \A o \in Neighbours(p): c.link[o] = IF o = q THEN "answered" ELSE b.link[o]
        BY <1>1, <2>1
    <2>6. {o \in {q}: payload.kind = "RuntimeRecord"} = {q}
        BY <1>2
    <2> QED
        BY <1>2, <2>1, <2>2, <2>4, <2>5, <2>6 DEF c
<1>3. CASE payload.kind # "RuntimeRecord"
    <2>1. c = b
        BY <1>3 DEF Apply
    <2>2. {o \in {q}: payload.kind = "RuntimeRecord"} = {}
        BY <1>3
    <2> HIDE DEF c
    <2> QED
        BY <1>3, <2>1, <2>2 DEF c
<1> QED
    BY <1>2, <1>3

LEMMA AppliedTaken ==
    ASSUME NEW p \in PeerSet, NEW b \in ClientType(p), Mirrors(b), Keyed(b),
           NEW q \in Neighbours(p), b.link[q] # "closed", NEW payload \in Payloads,
           \A o \in Neighbours(p): b.usable[o] => b.lane[o],
           NEW c, c = Apply(b, q, payload)
    PROVE  /\ q \in DOMAIN c.directory.records =>
                Taken(p, b, q, payload, c, Reconcile(c), Gained(c))
           /\ q \notin DOMAIN c.directory.records => Taken(p, b, q, payload, c, c, {})
<1>1. /\ c \in ClientType(p) /\ c.lane = b.lane /\ c.usable = b.usable /\ c.record = b.record
    BY AppliedFields
<1>2. /\ \A o \in Neighbours(p):
           c.link[o] = IF payload.kind = "RuntimeRecord" /\ o = q THEN "answered" ELSE b.link[o]
      /\ DOMAIN c.directory.records =
           DOMAIN b.directory.records \cup {o \in {q}: payload.kind = "RuntimeRecord"}
      /\ \A o \in DOMAIN c.directory.records:
           c.directory.records[o] = IF payload.kind = "RuntimeRecord" /\ o = q
                                    THEN payload.record ELSE b.directory.records[o]
    BY AppliedLinks
<1>3. /\ Reconcile(c).record = c.record /\ Reconcile(c).lane = c.lane /\ Reconcile(c).usable = c.lane
      /\ \A o \in Neighbours(p): Reconcile(c).link[o] = IF o \in Gained(c) THEN "pending" ELSE c.link[o]
      /\ DOMAIN Reconcile(c).directory.records = DOMAIN c.directory.records
      /\ \A o \in DOMAIN c.directory.records:
           Reconcile(c).directory.records[o] = c.directory.records[o]
    BY <1>1, ReconcileFields, ReconcileOpens
<1>4. Gained(c) \subseteq Neighbours(p) /\ \A o \in Gained(c): b.link[o] = "closed"
    <2>1. DOMAIN b.link = Neighbours(p) /\ DOMAIN c.lane = Neighbours(p)
        BY <1>1, ClientFields
    <2> QED
        BY <1>1, <2>1 DEF Gained, Mirrors
<1>5. Taken(p, b, q, payload, c, Reconcile(c), Gained(c))
    BY <1>1, <1>2, <1>3, <1>4 DEF Taken
<1>6. Taken(p, b, q, payload, c, c, {})
    BY <1>1, <1>2 DEF Taken
<1> QED
    BY <1>5, <1>6

LEMMA ReceiveOpening ==
    ASSUME GossipInv, Opening, NEW m \in DOMAIN opened, Receive(m)
    PROVE  OpeningStep(m.dst)
<1> DEFINE p == m.dst
<1> DEFINE q == m.src
<1> DEFINE b == client[p]
<1> DEFINE c == Apply(b, q, m.payload)
<1> DEFINE e == AppliedRecord(b, q, m.payload)
<1> DEFINE S == {Message(p, q, a): a \in Answer(b, q, m.payload)}
<1> DEFINE G == IF q \in DOMAIN c.directory.records THEN Gained(c) ELSE {}
<1>1. /\ b.link[q] # "closed"
      /\ client' = [client EXCEPT ![p] = e]
      /\ UNCHANGED net \/ net' = AddAll(net, SealAll(p, c, Syncs(p, c)))
      /\ q \in DOMAIN c.directory.records => net' = AddAll(net, SealAll(p, c, Syncs(p, c)))
      /\ opened' = Take(opened, m) /\ outbound' = AddAll(outbound, S)
      /\ UNCHANGED <<sessions, setup>>
    BY DEF Receive, AppliedRecord
<1>1a. q \notin DOMAIN c.directory.records => UNCHANGED net
    BY DEF Receive
<1>2. p \in PeerSet /\ q \in Neighbours(p) /\ m.payload \in Payloads /\ m \in UnderWayAll
    BY NeighbourFacts DEF GossipInv, MessagesOK, MessageType, UnderWayAll
<1>3. b \in ClientType(p) /\ Mirrors(b) /\ Keyed(b) /\ DOMAIN client = PeerSet
    BY <1>2 DEF GossipInv, ClientsOK
<1>4. c \in ClientType(p) /\ c.key = b.key /\ c.lane = b.lane /\ c.record = b.record
    BY <1>1, <1>2, <1>3, AppliedFields
<1>5. Taken(p, b, q, m.payload, c, e, G)
    <2>1. \A o \in Neighbours(p): b.usable[o] => b.lane[o]
        BY <1>2 DEF Opening
    <2>2. /\ q \in DOMAIN c.directory.records =>
               Taken(p, b, q, m.payload, c, Reconcile(c), Gained(c))
          /\ q \notin DOMAIN c.directory.records => Taken(p, b, q, m.payload, c, c, {})
        BY <1>1, <1>2, <1>3, <2>1, AppliedTaken
    <2> QED
        BY <2>2 DEF AppliedRecord
<1>6. \A o \in Neighbours(p): c.lane[o] => c.key[o] # NoSession
    BY <1>3, <1>4, ClientFields DEF Keyed
<1>7. /\ \A o \in Gained(c): \E n \in SealAll(p, c, Syncs(p, c)):
           n.src = p /\ n.dst = o /\ IsFull(n)
      /\ \A n \in SealAll(p, c, Syncs(p, c)):
           n.src = p /\ n.dst \in Gained(c) /\ n.payload = Full(c.record)
    BY <1>2, <1>4, <1>6, SyncsSealed
<1> DEFINE Z == IF q \in DOMAIN c.directory.records THEN SealAll(p, c, Syncs(p, c)) ELSE {}
<1>8. DOMAIN net' = DOMAIN net \cup Z
    <2>1. DOMAIN AddAll(net, SealAll(p, c, Syncs(p, c))) = DOMAIN net \cup SealAll(p, c, Syncs(p, c))
        BY AddAllBag DEF GossipInv, MessagesOK
    <2> QED
        BY <1>1, <1>1a, <2>1
<1>9. /\ \A o \in G: \E n \in Z: n.src = p /\ n.dst = o /\ IsFull(n)
      /\ \A n \in Z: n.src = p /\ n.dst \in G /\ n.payload = Full(b.record)
    BY <1>4, <1>7
<1>10. \A n \in S: n.src = p /\ n.dst = q /\ (IsFull(n) => n.payload = Full(b.record))
    <2>1. Answer(b, q, m.payload) \subseteq {Full(b.record), Need}
        BY DEF Answer
    <2>2. Need.kind # "RuntimeRecord"
        BY DEF Need
    <2> QED
        BY <2>1, <2>2 DEF Message, IsFull
<1>11. ASSUME IsFull(m), b.link[q] = "pending" PROVE \E n \in S: n.src = p /\ n.dst = q /\ IsFull(n)
    <2>1. Answer(b, q, m.payload) = {Full(b.record)}
        BY <1>11 DEF Answer, IsFull
    <2>2. Message(p, q, Full(b.record)) \in S
        BY <2>1
    <2> QED
        BY <2>2 DEF Message, Full, IsFull
<1>12. ASSUME IsFull(m) PROVE m.payload = Full(client[q].record) /\ m.payload.record = client[q].record
                              /\ client[q].link[p] # "closed"
    BY <1>2, <1>12 DEF Opening, Full
<1> HIDE DEF S, Z, G, c, e
<1>13. DOMAIN outbound' = DOMAIN outbound \cup S
    BY <1>1, AddAllBag DEF GossipInv, MessagesOK
<1>14. DOMAIN opened' \subseteq DOMAIN opened /\ DOMAIN opened \ {m} \subseteq DOMAIN opened'
    BY <1>1, TakeBag DEF GossipInv, MessagesOK
<1>15. /\ UnderWayAll' \subseteq (UnderWayAll \cup S) \cup Z
       /\ UnderWayAll \ {m} \subseteq UnderWayAll' /\ S \subseteq UnderWayAll' /\ Z \subseteq UnderWayAll'
    BY <1>8, <1>13, <1>14 DEF UnderWayAll
<1>16. /\ client'[p] = e
       /\ \A x \in PeerSet: x # p => client'[x] = client[x]
       /\ \A x \in PeerSet: client'[x].record = client[x].record
    <2>1. client'[p] = e /\ \A x \in PeerSet: x # p => client'[x] = client[x]
        BY <1>1, <1>2, <1>3
    <2>2. e.record = b.record
        BY <1>5 DEF Taken
    <2> QED
        BY <2>1, <2>2
<1>17. \A o \in G: Coming(p, o)'
    BY <1>9, <1>15 DEF Coming
<1>18. IsFull(m) /\ b.link[q] = "pending" => Coming(p, q)'
    BY <1>11, <1>15 DEF Coming
<1>19. IsFull(m) => Coming(q, p)
    BY <1>2 DEF Coming
<1>20. ASSUME NEW o \in Neighbours(p)
       PROVE  /\ e.usable[o] => e.lane[o]
              /\ b.link[o] # "closed" => e.link[o] # "closed"
              /\ b.link[o] = "closed" /\ e.link[o] # "closed" => e.link[o] = "pending" /\ Coming(p, o)'
              /\ e.link[o] = "answered" => b.link[o] = "answered" \/ Coming(o, p)
              /\ b.link[o] = "pending" => e.link[o] = "pending" \/ Coming(p, o)'
    <2>1. CASE o \in G
        BY <1>5, <1>17, <2>1 DEF Taken
    <2>2. CASE o \notin G /\ IsFull(m) /\ o = q
        BY <1>1, <1>5, <1>18, <1>19, <2>2 DEF Taken, IsFull
    <2>3. CASE o \notin G /\ ~(IsFull(m) /\ o = q)
        <3>1. e.link[o] = b.link[o]
            BY <1>5, <2>3 DEF Taken, IsFull
        <3> QED
            BY <1>5, <3>1 DEF Taken
    <2> QED
        BY <2>1, <2>2, <2>3
<1>21. ASSUME NEW o \in Neighbours(p)
       PROVE  /\ Known(p, o) => Known(p, o)'
              /\ Known(p, o)' => e.directory.records[o] = client[o].record
    <2>1. Known(p, o)' <=> o \in DOMAIN e.directory.records
        BY <1>16 DEF Known
    <2>2. Known(p, o) => Known(p, o)'
        BY <1>5, <2>1 DEF Taken, Known
    <2>3. CASE IsFull(m) /\ o = q
        BY <1>5, <1>12, <2>1, <2>3 DEF Taken, IsFull
    <2>4. CASE ~(IsFull(m) /\ o = q)
        <3>1. Known(p, o)' => Known(p, o) /\ e.directory.records[o] = b.directory.records[o]
            BY <1>5, <2>1, <2>4 DEF Taken, IsFull, Known
        <3> QED
            BY <1>2, <2>2, <3>1 DEF Opening
    <2> QED
        BY <2>2, <2>3, <2>4
<1>22. ClientOpens(p)
    BY <1>16, <1>20, <1>21 DEF ClientOpens
<1>23. RecordsSetOut(p)
    <2>1. SUFFICES ASSUME NEW n \in UnderWayAll', IsFull(n)
                   PROVE  \/ \E o \in UnderWayAll: SamePayload(n, o)
                          \/ /\ n.src = p /\ n.dst \in Neighbours(p) /\ e.link[n.dst] # "closed"
                             /\ n.payload = Full(b.record)
        BY <1>16 DEF RecordsSetOut
    <2>2. CASE n \in UnderWayAll
        BY <2>2 DEF SamePayload
    <2>3. CASE n \in S
        BY <1>1, <1>2, <1>10, <1>20, <2>1, <2>3
    <2>4. CASE n \in Z
        BY <1>5, <1>9, <2>4 DEF Taken
    <2> QED
        BY <1>15, <2>2, <2>3, <2>4
<1>24. RecordsPass(p)
    <2>1. SUFFICES ASSUME NEW x \in PeerSet, NEW y \in Neighbours(x), NEW n \in UnderWayAll,
                          n.src = y, n.dst = x, IsFull(n)
                   PROVE  \/ Coming(y, x)'
                          \/ x = p /\ Known(x, y)' /\ client'[x].link[y] = "answered"
        BY DEF RecordsPass, Coming
    <2>2. CASE n # m
        BY <1>15, <2>1, <2>2 DEF Coming
    <2>3. CASE n = m
        <3>1. x = p /\ y = q
            BY <2>1, <2>3
        <3>2. q \notin G
            BY <1>1, <1>5 DEF Taken
        <3>3. e.link[q] = "answered" /\ q \in DOMAIN e.directory.records
            BY <1>2, <1>5, <2>1, <2>3, <3>2 DEF Taken, IsFull
        <3> QED
            BY <1>16, <3>1, <3>3 DEF Known
    <2> QED
        BY <2>2, <2>3
<1>25. \A l \in setup.links: sessions[l] <= sessions'[l]
    BY <1>1, SetupFacts
<1> QED
    BY <1>1, <1>16, <1>22, <1>23, <1>24, <1>25 DEF OpeningStep

(* What is disturbed stays so.                                             *)
LEMMA StaysDisturbed ==
    ASSUME GossipInv, NEW what \in Bounds, Spend(what), Undisturbed'
    PROVE  FALSE
BY SpendType DEF GossipInv, Undisturbed

LEMMA OpeningInvStep ==
    ASSUME GossipInv, GossipInv', OpeningInv, [Next]_vars
    PROVE  OpeningInv'
<1>1. SUFFICES ASSUME Undisturbed' PROVE Opening'
    BY DEF OpeningInv
<1>2. \A what \in Bounds: ~Spend(what)
    BY <1>1, StaysDisturbed
<1>3. ~Spend("changes") /\ ~Spend("faults") /\ ~Spend("resets")
    BY <1>2 DEF Bounds
<1>4. ASSUME UNCHANGED spent PROVE Opening
    BY <1>1, <1>4 DEF Undisturbed, OpeningInv
<1>5. ASSUME NEW p \in PeerSet, NEW q \in Neighbours(p), LinkStep(p, q)
      PROVE  Opening'
    <2>1. ASSUME InstallLink(p, q) PROVE Opening'
        BY <1>4, <2>1, InstallLinkOpening, OpeningMoves DEF InstallLink
    <2>2. ASSUME LaneUp(p, q) PROVE Opening'
        BY <1>4, <2>2, LaneUpOpening, OpeningMoves DEF LaneUp
    <2>3. ASSUME PollDigest(p, q) PROVE Opening'
        BY <1>4, <2>3, PollDigestOpening, OpeningMoves DEF PollDigest
    <2>4. ~LaneDown(p, q) /\ ~Retire(p, q)
        BY <1>3 DEF LaneDown, Retire
    <2> QED
        BY <1>5, <2>1, <2>2, <2>3, <2>4 DEF LinkStep
<1>6. ASSUME NEW p \in PeerSet, Observe(p) \/ Reconnect(p) \/ SetLocalRecord(p)
      PROVE  Opening'
    <2>1. ~Reconnect(p) /\ ~SetLocalRecord(p)
        BY <1>3 DEF Reconnect, SetLocalRecord
    <2>2. Observe(p)
        BY <1>6, <2>1
    <2> QED
        BY <1>4, <2>2, ObserveOpening, OpeningMoves DEF Observe
<1>7. \A m \in DOMAIN outbound \cup DOMAIN net \cup DOMAIN opened: m.src \in PeerSet /\ m.dst \in PeerSet
    BY NeighbourFacts DEF GossipInv, MessagesOK, MessageType
<1>8. ASSUME NEW m \in DOMAIN outbound, Seal(m) PROVE Opening'
    BY <1>4, <1>7, <1>8, SealOpening, OpeningMoves DEF Seal
<1>9. ASSUME NEW m \in DOMAIN net, Lose(m) PROVE Opening'
    <2>1. UNCHANGED spent
        BY <1>3, <1>9 DEF Lose
    <2> QED
        BY <1>4, <1>7, <1>9, <2>1, LoseOpening, OpeningMoves
<1>10. ASSUME NEW m \in DOMAIN net, Open(m) PROVE Opening'
    BY <1>4, <1>7, <1>10, OpenOpening, OpeningMoves DEF Open
<1>11. ASSUME NEW m \in DOMAIN opened, Receive(m) PROVE Opening'
    BY <1>4, <1>7, <1>11, ReceiveOpening, OpeningMoves DEF Receive
<1>12. ASSUME NEW m \in DOMAIN opened, Refuse(m) PROVE Opening'
    BY <1>4, <1>7, <1>12, RefuseOpening, OpeningMoves DEF Refuse
<1>13. ASSUME UNCHANGED vars PROVE Opening'
    <2>1. UNCHANGED <<client, outbound, net, opened, sessions, spent, setup>>
        BY <1>13 DEF vars
    <2> QED
        BY <1>4, <2>1 DEF Opening, Answered, Known, Coming, UnderWayAll, Neighbours
<1> QED
    BY <1>5, <1>6, <1>8, <1>9, <1>10, <1>11, <1>12, <1>13 DEF Next

LEMMA OpeningInvInit == Init => OpeningInv
<1> SUFFICES ASSUME Init PROVE Opening
    BY DEF OpeningInv
<1>1. UnderWayAll = {}
    BY DEF Init, UnderWayAll, EmptyBag, SetToBag
<1>2. ASSUME NEW p \in PeerSet, NEW q \in Neighbours(p)
      PROVE  client[p].link[q] = "closed" /\ ~client[p].usable[q] /\ ~Known(p, q)
    <2>1. PICK r \in Publishable[p]: client[p] = Fresh(p, r)
        BY DEF Init
    <2>2. DOMAIN <<>> = {}
        OBVIOUS
    <2> QED
        BY <2>1, <2>2 DEF Fresh, Known, EmptyDirectory
<1> QED
    BY <1>1, <1>2 DEF Opening, Answered

(* "Reciprocating the first authenticated record of each link generation   *)
(* closes that race" (peer_gossip.rs): once nothing is under way, two      *)
(* Clients linked in their first session have each other's current record, *)
(* whichever end installed its key or gained its lane first, and without a *)
(* digest.                                                                 *)
THEOREM ReciprocationCloses == Spec => []ReciprocalCloses
<1>1. GossipInv /\ OpeningInv => ReciprocalCloses
    <2>1. SUFFICES ASSUME GossipInv, OpeningInv, Quiet, Undisturbed,
                          NEW p \in PeerSet, NEW q \in Neighbours(p),
                          Linked(p, q), sessions[{p, q}] = 1
                   PROVE  InSync(client[p].directory, q, client[q].record)
        BY DEF ReciprocalCloses, Undisturbed
    <2>2. Opening
        BY <2>1 DEF OpeningInv
    <2>3. UnderWayAll = {}
        BY <2>1 DEF Quiet, UnderWayAll, EmptyBag, SetToBag
    <2>4. q \in PeerSet /\ p \in Neighbours(q)
        BY NeighbourFacts
    <2>5. client[p].usable[q] /\ client[q].usable[p]
        BY <2>1, <2>4 DEF Quiet, Linked
    <2>6. client[p].link[q] # "closed" /\ client[q].link[p] # "closed"
        <3>1. /\ client[p] \in ClientType(p) /\ Mirrors(client[p])
              /\ client[q] \in ClientType(q) /\ Mirrors(client[q])
            BY <2>1, <2>4 DEF GossipInv, ClientsOK
        <3>2. DOMAIN client[p].link = Neighbours(p) /\ DOMAIN client[q].link = Neighbours(q)
            BY <3>1, ClientFields
        <3> QED
            BY <2>4, <2>5, <3>1, <3>2 DEF Mirrors
    <2>7. Known(p, q)
        BY <2>1, <2>2, <2>3, <2>6 DEF Opening, Answered, Coming
    <2> QED
        BY <2>2, <2>7 DEF Opening, Known, InSync
<1>2. GossipInv /\ GossipInv' /\ OpeningInv /\ [Next]_vars => OpeningInv'
    BY OpeningInvStep
<1> QED
    BY <1>1, <1>2, OpeningInvInit, GossipInvAlways, PTL DEF Spec
=============================================================================
