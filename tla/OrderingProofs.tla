--------------------------- MODULE OrderingProofs ---------------------------
(***************************************************************************)
(* A finite set whose elements differ in a key can be laid out by that     *)
(* key, in one way, and nothing is left out or repeated.                   *)
(***************************************************************************)
EXTENDS Ordering, FiniteSetTheorems, TLAPS

\* The place of m among the elements of S: one more than there are before it.
Place(key, S, m) == Cardinality({i \in S : key[i] < key[m]}) + 1

DistinctBy(key, S) ==
  /\ IsFiniteSet(S)
  /\ \A m \in S : key[m] \in Nat
  /\ \A i, j \in S : key[i] = key[j] => i = j

\* Places follow the key.
LEMMA PlaceOrder ==
  ASSUME NEW S, NEW key, DistinctBy(key, S), NEW a \in S, NEW b \in S, key[a] < key[b]
  PROVE  Place(key, S, a) < Place(key, S, b)
<1> DEFINE A == {i \in S : key[i] < key[a]}
           B == {i \in S : key[i] < key[b]}
<1>1. IsFiniteSet(A) /\ IsFiniteSet(B)
  BY FS_Subset DEF DistinctBy
<1>2. a \notin A /\ A \union {a} \subseteq B
  BY DEF DistinctBy
<1> HIDE DEF A, B
<1>3. Cardinality(A \union {a}) = Cardinality(A) + 1
  BY <1>1, <1>2, FS_AddElement
<1>4. Cardinality(A \union {a}) <= Cardinality(B)
  BY <1>1, <1>2, FS_Subset
<1>5. Cardinality(A) \in Nat /\ Cardinality(B) \in Nat
  BY <1>1, FS_CardinalityType
<1>6. Cardinality(A) < Cardinality(B)
  BY <1>3, <1>4, <1>5
<1>7. Place(key, S, a) = Cardinality(A) + 1 /\ Place(key, S, b) = Cardinality(B) + 1
  BY DEF Place, A, B
<1> QED
  BY <1>5, <1>6, <1>7

LEMMA PlaceRange ==
  ASSUME NEW S, NEW key, DistinctBy(key, S), NEW m \in S
  PROVE  Place(key, S, m) \in 1..Cardinality(S)
<1> DEFINE B == {i \in S : key[i] < key[m]}
<1>1. IsFiniteSet(S) /\ IsFiniteSet(B)
  BY FS_Subset DEF DistinctBy
<1>2. B \subseteq S /\ B # S
  BY DEF DistinctBy
<1> HIDE DEF B
<1>3. Cardinality(B) <= Cardinality(S) /\ Cardinality(B) # Cardinality(S)
  BY <1>1, <1>2, FS_Subset
<1>4. Cardinality(B) \in Nat /\ Cardinality(S) \in Nat
  BY <1>1, FS_CardinalityType
<1>5. Place(key, S, m) = Cardinality(B) + 1
  BY DEF Place, B
<1> QED
  BY <1>3, <1>4, <1>5

\* Every place is taken.
LEMMA PlacesAreTaken ==
  ASSUME NEW S, NEW key, DistinctBy(key, S), NEW k \in 1..Cardinality(S)
  PROVE  \E m \in S : Place(key, S, m) = k
<1> DEFINE n == Cardinality(S)
           place == [m \in S |-> Place(key, S, m)]
<1>1. n \in Nat
  BY FS_CardinalityType DEF DistinctBy
<1>2. IsFiniteSet(1..n) /\ Cardinality(1..n) = n
  BY <1>1, FS_Interval
<1>3. place \in [S -> 1..n]
  BY PlaceRange
<1>4. \A a, b \in S : place[a] = place[b] => a = b
  <2> SUFFICES ASSUME NEW a \in S, NEW b \in S, a # b
               PROVE  Place(key, S, a) # Place(key, S, b)
    OBVIOUS
  <2>1. key[a] \in Nat /\ key[b] \in Nat /\ key[a] # key[b]
    BY DEF DistinctBy
  <2>2. key[a] < key[b] \/ key[b] < key[a]
    BY <2>1
  <2>3. Place(key, S, a) \in Nat /\ Place(key, S, b) \in Nat
    BY <1>1, PlaceRange
  <2> QED
    BY <2>2, <2>3, PlaceOrder
<1>5. place \in Injection(S, 1..n)
  BY <1>3, <1>4 DEF Injection, IsInjective
<1>6. place \in Surjection(S, 1..n)
  BY <1>2, <1>5, FS_Injection
<1>7. PICK m \in S : place[m] = k
  BY <1>6 DEF Surjection
<1> QED
  BY <1>7

-----------------------------------------------------------------------------
\* ORDER BY: the rows, all of them, each once, by increasing key.
LEMMA SortedByKey ==
  ASSUME NEW S, NEW key, DistinctBy(key, S)
  PROVE  /\ SortedBy(key, S) \in Seq(S)
         /\ Len(SortedBy(key, S)) = Cardinality(S)
         /\ \A i, j \in 1..Cardinality(S) :
              i < j => key[SortedBy(key, S)[i]] < key[SortedBy(key, S)[j]]
         /\ \A m \in S : \E k \in 1..Cardinality(S) : SortedBy(key, S)[k] = m
<1> DEFINE n == Cardinality(S)
           s == SortedBy(key, S)
           first == [k \in 1..n |-> CHOOSE m \in S : Place(key, S, m) = k]
<1>1. n \in Nat
  BY FS_CardinalityType DEF DistinctBy
<1>2. \A k \in 1..n : first[k] \in S /\ Place(key, S, first[k]) = k
  BY PlacesAreTaken
<1>3. first \in [1..n -> S]
  BY <1>2
<1>4. Increasing(key, first)
  <2> SUFFICES ASSUME NEW i \in 1..n, NEW j \in 1..n, i < j
               PROVE  key[first[i]] < key[first[j]]
    BY DEF Increasing
  <2>1. first[i] \in S /\ first[j] \in S
    BY <1>2
  <2>2. key[first[i]] \in Nat /\ key[first[j]] \in Nat
    BY <2>1 DEF DistinctBy
  <2>3. first[i] # first[j]
    BY <1>1, <1>2
  <2>4. key[first[i]] # key[first[j]]
    BY <2>1, <2>3 DEF DistinctBy
  <2>5. ~(key[first[j]] < key[first[i]])
    <3>1. key[first[j]] < key[first[i]] => Place(key, S, first[j]) < Place(key, S, first[i])
      BY <2>1, PlaceOrder
    <3>2. Place(key, S, first[i]) = i /\ Place(key, S, first[j]) = j
      BY <1>2
    <3> QED
      BY <1>1, <3>1, <3>2
  <2> QED
    BY <2>2, <2>4, <2>5
<1> HIDE DEF first
<1>5. s \in [1..n -> S] /\ Increasing(key, s)
  BY <1>3, <1>4 DEF SortedBy
<1> HIDE DEF s
<1>6. \A i, j \in 1..n : i < j => key[s[i]] < key[s[j]]
  BY <1>5 DEF Increasing
<1>7. s \in Injection(1..n, S)
  <2> SUFFICES ASSUME NEW i \in 1..n, NEW j \in 1..n, s[i] = s[j]
               PROVE  i = j
    BY <1>5 DEF Injection, IsInjective
  <2>1. key[s[i]] \in Nat
    BY <1>5 DEF DistinctBy
  <2>2. ~(i < j) /\ ~(j < i)
    BY <1>6, <2>1
  <2> QED
    BY <1>1, <2>2
<1>8. s \in Surjection(1..n, S)
  <2>1. IsFiniteSet(1..n) /\ Cardinality(1..n) = n
    BY <1>1, FS_Interval
  <2> QED
    BY <1>7, <2>1, FS_Injection DEF DistinctBy
<1>9. \A m \in S : \E k \in 1..n : s[k] = m
  BY <1>8 DEF Surjection
<1>10. s \in Seq(S) /\ Len(s) = n
  BY <1>1, <1>5
<1> QED
  BY <1>6, <1>9, <1>10 DEF s

\* So the elements are distinct, and are those of S.
LEMMA SortedByElements ==
  ASSUME NEW S, NEW key, DistinctBy(key, S), NEW s, s = SortedBy(key, S)
  PROVE  /\ \A i, j \in 1..Len(s) : s[i] = s[j] => i = j
         /\ {s[k] : k \in 1..Len(s)} = S
<1>1. /\ s \in Seq(S) /\ Len(s) = Cardinality(S) /\ Len(s) \in Nat
      /\ \A i, j \in 1..Len(s) : i < j => key[s[i]] < key[s[j]]
      /\ \A m \in S : \E k \in 1..Len(s) : s[k] = m
  BY SortedByKey, FS_CardinalityType DEF DistinctBy
<1>2. ASSUME NEW i \in 1..Len(s), NEW j \in 1..Len(s), s[i] = s[j]
      PROVE  i = j
  <2>1. key[s[i]] \in Nat
    BY <1>1 DEF DistinctBy
  <2> QED
    BY <1>1, <1>2, <2>1
<1>3. \A k \in 1..Len(s) : s[k] \in S
  BY <1>1
<1> QED
  BY <1>1, <1>2, <1>3

\* A loop that keeps some of the elements of a list: in order, and each once.
LEMMA PickedInOrder ==
  ASSUME NEW T, NEW s \in Seq(T), NEW P \in SUBSET (1..Len(s))
  PROVE  /\ Picked(s, P) \in Seq(T)
         /\ Len(Picked(s, P)) = Cardinality(P)
         /\ \E order \in [1..Cardinality(P) -> P] :
              /\ \A i, j \in 1..Cardinality(P) : i < j => order[i] < order[j]
              /\ \A k \in P : \E i \in 1..Cardinality(P) : order[i] = k
              /\ \A i \in 1..Cardinality(P) : Picked(s, P)[i] = s[order[i]]
<1> DEFINE key == [k \in P |-> k]
           order == SortedBy(key, P)
           n == Cardinality(P)
<1>1. Len(s) \in Nat /\ IsFiniteSet(1..Len(s))
  BY FS_Interval
<1>2. DistinctBy(key, P)
  <2>1. IsFiniteSet(P)
    BY <1>1, FS_Subset
  <2> QED
    BY <2>1 DEF DistinctBy
<1>3. n \in Nat
  BY <1>2, FS_CardinalityType DEF DistinctBy
<1> HIDE DEF key
<1>4. /\ order \in Seq(P) /\ Len(order) = n
      /\ \A i, j \in 1..n : i < j => key[order[i]] < key[order[j]]
      /\ \A k \in P : \E i \in 1..n : order[i] = k
  BY <1>2, SortedByKey
<1>5. \A k \in P : key[k] = k
  BY DEF key
<1>6. Picked(s, P) = [i \in 1..n |-> s[order[i]]]
  BY DEF Picked, key
<1> HIDE DEF order
<1>7. order \in [1..n -> P]
  BY <1>4
<1>8. \A i, j \in 1..n : i < j => order[i] < order[j]
  BY <1>4, <1>5, <1>7
<1>9. \A i \in 1..n : s[order[i]] \in T
  <2>1. \A k \in 1..Len(s) : s[k] \in T
    OBVIOUS
  <2> QED
    BY <1>7, <2>1
<1>10. Picked(s, P) \in Seq(T) /\ Len(Picked(s, P)) = n
  BY <1>3, <1>6, <1>9
<1> QED
  BY <1>4, <1>6, <1>7, <1>8, <1>10

\* Its elements are those at the positions, so that it is empty when there are none.
LEMMA PickedElements ==
  ASSUME NEW T, NEW s \in Seq(T), NEW P \in SUBSET (1..Len(s))
  PROVE  /\ Picked(s, P) \in Seq(T)
         /\ \A i \in 1..Len(Picked(s, P)) : \E k \in P : Picked(s, P)[i] = s[k]
         /\ \A k \in P : \E i \in 1..Len(Picked(s, P)) : Picked(s, P)[i] = s[k]
<1> DEFINE n == Cardinality(P)
<1>1. Picked(s, P) \in Seq(T) /\ Len(Picked(s, P)) = n
  BY PickedInOrder
<1>2. PICK order \in [1..n -> P] :
              /\ \A k \in P : \E i \in 1..n : order[i] = k
              /\ \A i \in 1..n : Picked(s, P)[i] = s[order[i]]
  BY PickedInOrder
<1> HIDE DEF n
<1>3. \A i \in 1..n : order[i] \in P
  OBVIOUS
<1>4. \A i \in 1..n : \E k \in P : Picked(s, P)[i] = s[k]
  BY <1>2, <1>3
<1>5. \A k \in P : \E i \in 1..n : Picked(s, P)[i] = s[k]
  BY <1>2
<1> QED
  BY <1>1, <1>4, <1>5

-----------------------------------------------------------------------------
\* The first of the numbers laid out in order is the least.
LEMMA LeastNumber ==
  ASSUME NEW S \in SUBSET Nat, NEW n \in S
  PROVE  \E l \in S : \A k \in S : l <= k
<1> DEFINE B == {k \in S : k <= n}
           key == [k \in B |-> k]
           s == SortedBy(key, B)
<1>1. n \in Nat /\ n \in B /\ B \subseteq S
  OBVIOUS
<1>2. \A k \in S : k \in Nat /\ (k \in B \/ n < k)
  OBVIOUS
<1>3. IsFiniteSet(B)
  <2>1. \A k \in S : k <= n => k \in 0..n
    BY <1>1, <1>2
  <2>2. B \subseteq 0..n
    BY <2>1
  <2>3. IsFiniteSet(0..n)
    BY <1>1, FS_Interval
  <2> HIDE DEF B
  <2> QED
    BY <2>2, <2>3, FS_Subset
<1> HIDE DEF B
<1>4. \A k \in B : k \in Nat /\ key[k] = k
  BY <1>1
<1>5. DistinctBy(key, B)
  BY <1>3, <1>4 DEF DistinctBy
<1>6. Cardinality(B) \in Nat
  BY <1>3, FS_CardinalityType
<1> HIDE DEF key
<1>7. /\ s \in Seq(B) /\ Len(s) = Cardinality(B)
      /\ \A i, j \in 1..Cardinality(B) : i < j => key[s[i]] < key[s[j]]
      /\ \A m \in B : \E k \in 1..Cardinality(B) : s[k] = m
  BY <1>5, SortedByKey
<1> HIDE DEF s
<1>8. 1 \in 1..Cardinality(B)
  BY <1>1, <1>6, <1>7
<1>9. s[1] \in B
  BY <1>7, <1>8
<1>10. \A m \in B : s[1] <= m
  <2> TAKE m \in B
  <2>1. PICK k \in 1..Cardinality(B) : s[k] = m
    BY <1>7
  <2>2. CASE k = 1
    BY <2>1, <2>2, <1>4, <1>9
  <2>3. CASE 1 < k
    BY <2>1, <2>3, <1>4, <1>7, <1>8, <1>9
  <2> QED
    BY <1>6, <2>1, <2>2, <2>3
<1>11. \A m \in S : s[1] <= m
  <2>1. s[1] \in Nat /\ s[1] <= n
    BY <1>1, <1>4, <1>9, <1>10
  <2> QED
    BY <1>1, <1>2, <1>10, <2>1
<1> QED
  BY <1>1, <1>9, <1>11

\* Induction, for a set of numbers: there is no least one outside.
LEMMA InductiveSet ==
  ASSUME NEW S, 0 \in S, \A n \in Nat : n \in S => n + 1 \in S
  PROVE  \A n \in Nat : n \in S
<1> SUFFICES ASSUME NEW m \in Nat, m \notin S PROVE FALSE
  OBVIOUS
<1> DEFINE Out == Nat \ S
<1>1. PICK l \in Out : \A k \in Out : l <= k
  <2>1. Out \in SUBSET Nat /\ m \in Out
    OBVIOUS
  <2> HIDE DEF Out
  <2> QED
    BY <2>1, LeastNumber
<1>2. l # 0 /\ l - 1 \in Nat
  OBVIOUS
<1>3. l - 1 \in S
  BY <1>1, <1>2
<1> QED
  BY <1>2, <1>3
=============================================================================
