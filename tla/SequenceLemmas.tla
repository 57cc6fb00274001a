--------------------------- MODULE SequenceLemmas ---------------------------
(***************************************************************************)
(* Facts about sequences, finite sets and numbers that the proofs about    *)
(* the models of this project share: the vectors and lists of the code and *)
(* the stacks of calls, which grow at their end.                           *)
(***************************************************************************)
EXTENDS Integers, Sequences, FiniteSets, SequencesExt, FiniteSetTheorems,
        SequenceTheorems, WellFoundedInduction, TLAPS

(* A set of naturals that is not empty has a least element. *)
LEMMA LeastIndex ==
    ASSUME NEW T \in SUBSET Nat, T # {}
    PROVE  \E m \in T : \A k \in T : m <= k
<1> DEFINE C == {1 .. k : k \in T}
<1>1. C \subseteq FiniteSubsetsOf(Nat) /\ C # {}
  <2>1. ASSUME NEW k \in T PROVE 1 .. k \in FiniteSubsetsOf(Nat)
    <3>1. IsFiniteSet(1 .. k)
      BY FS_Interval
    <3> QED BY <3>1 DEF FiniteSubsetsOf
  <2> QED BY <2>1
<1>2. PICK x \in C : \A y \in C : ~(<<y, x>> \in StrictSubsetOrdering(Nat))
  <2> HIDE DEF C
  <2> QED BY <1>1, FS_StrictSubsetOrderingWellFounded, WFMin
<1>3. PICK m \in T : x = 1 .. m
  OBVIOUS
<1>4. ASSUME NEW k \in T PROVE m <= k
  <2>1. ~(<<1 .. k, 1 .. m>> \in StrictSubsetOrdering(Nat))
    BY <1>2, <1>3
  <2> SUFFICES ASSUME k < m PROVE FALSE
    OBVIOUS
  <2>2. /\ 1 .. k \subseteq 1 .. m /\ 1 .. k # 1 .. m
        /\ 1 .. k \subseteq Nat /\ 1 .. m \subseteq Nat
    <3>1. m \in 1 .. m /\ m \notin 1 .. k
      OBVIOUS
    <3> QED BY <3>1
  <2> QED BY <2>1, <2>2 DEF StrictSubsetOrdering
<1> QED BY <1>4

(* A set of numbers that has 0, and the next of each it has, has them all. *)
LEMMA AllNumbers ==
    ASSUME NEW T, 0 \in T, \A n \in Nat : n \in T => n + 1 \in T
    PROVE  Nat \subseteq T
<1> SUFFICES ASSUME Nat \ T # {} PROVE FALSE
  OBVIOUS
<1>1. PICK m \in Nat \ T : \A k \in Nat \ T : m <= k
  BY LeastIndex
<1>2. m # 0 /\ m - 1 \in Nat /\ m - 1 + 1 = m /\ ~(m <= m - 1)
  OBVIOUS
<1>3. m - 1 \in T
  BY <1>1, <1>2
<1> QED BY <1>2, <1>3

(* vec_push adds its argument to the elements and nothing else. *)
LEMMA AppendElems ==
    ASSUME NEW S, NEW s \in Seq(S), NEW x
    PROVE  ToSet(Append(s, x)) = ToSet(s) \cup {x}
<1>1. /\ DOMAIN Append(s, x) = 1 .. Len(s) + 1
      /\ DOMAIN s = 1 .. Len(s)
      /\ Len(s) \in Nat
      /\ Append(s, x)[Len(s) + 1] = x
      /\ \A i \in 1 .. Len(s) : Append(s, x)[i] = s[i]
  BY AppendProperties
<1>2. ASSUME NEW y \in ToSet(Append(s, x)) PROVE y \in ToSet(s) \cup {x}
  BY <1>1, <1>2 DEF ToSet
<1>3. ASSUME NEW y \in ToSet(s) PROVE y \in ToSet(Append(s, x))
  BY <1>1, <1>3 DEF ToSet
<1>4. x \in ToSet(Append(s, x))
  BY <1>1 DEF ToSet
<1> QED BY <1>2, <1>3, <1>4

(* Removing one element moves the later ones down by one (vec_splice). *)
LEMMA RemovedAt ==
    ASSUME NEW S, NEW s \in Seq(S), NEW r \in 1 .. Len(s)
    PROVE  /\ RemoveAt(s, r) \in Seq(S)
           /\ Len(RemoveAt(s, r)) = Len(s) - 1
           /\ \A m \in 1 .. Len(s) - 1 :
                 RemoveAt(s, r)[m] = IF m < r THEN s[m] ELSE s[m + 1]
<1> DEFINE a == SubSeq(s, 1, r - 1)
           b == SubSeq(s, r + 1, Len(s))
<1>1. /\ a \in Seq(S) /\ Len(a) = r - 1
      /\ \A m \in 1 .. r - 1 : a[m] = s[m]
  OBVIOUS
<1>2. /\ b \in Seq(S) /\ Len(b) = Len(s) - r
      /\ \A m \in 1 .. Len(s) - r : b[m] = s[r + m]
  OBVIOUS
<1>3. RemoveAt(s, r) = a \o b
  BY DEF RemoveAt
<1> HIDE DEF a, b
<1>4. /\ a \o b \in Seq(S) /\ Len(a \o b) = Len(a) + Len(b)
      /\ \A m \in 1 .. Len(a) + Len(b) :
            (a \o b)[m] = IF m <= Len(a) THEN a[m] ELSE b[m - Len(a)]
  BY <1>1, <1>2, ConcatProperties
<1> QED BY <1>1, <1>2, <1>3, <1>4

(* A vector of n listeners holds at most n different ones. *)
LEMMA FewElements ==
    ASSUME NEW S, NEW s \in Seq(S)
    PROVE  IsFiniteSet(ToSet(s)) /\ Cardinality(ToSet(s)) <= Len(s)
<1>1. s \in [1 .. Len(s) -> ToSet(s)] /\ Len(s) \in Nat
  BY DEF ToSet
<1>2. \A x \in ToSet(s) : \E m \in 1 .. Len(s) : s[m] = x
  BY DEF ToSet
<1>3. ExistsSurjection(1 .. Len(s), ToSet(s))
  BY <1>1, <1>2 DEF ExistsSurjection, Surjection
<1> QED BY <1>1, <1>3, FS_NatSurjection, FS_SurjCardinalityBound

(* A return takes the last frame off and leaves the others. *)
LEMMA FrontOf ==
    ASSUME NEW S, NEW s \in Seq(S), Len(s) >= 1
    PROVE  /\ Front(s) \in Seq(S) /\ Len(Front(s)) = Len(s) - 1
           /\ DOMAIN Front(s) = 1 .. Len(s) - 1
           /\ \A k \in 1 .. Len(s) - 1 : Front(s)[k] = s[k]
<1> DEFINE n == Len(s) - 1
<1>1. n \in Nat /\ 1 \in Int /\ n - 1 + 1 = n /\ \A k \in 1 .. n : 1 + k - 1 = k
  OBVIOUS
<1>2. Front(s) = SubSeq(s, 1, n)
  BY Zenon DEF Front
<1>3. \A k \in 1 .. n : s[k] \in S
  OBVIOUS
<1> HIDE DEF n
<1>4. /\ SubSeq(s, 1, n) \in Seq(S)
      /\ Len(SubSeq(s, 1, n)) = n
      /\ \A k \in 1 .. n : SubSeq(s, 1, n)[k] = s[k]
  BY <1>1, <1>3, SubSeqProperties
<1>5. DOMAIN Front(s) = 1 .. n
  BY <1>1, <1>2, <1>4
<1> QED BY <1>2, <1>4, <1>5 DEF n

(* Changing the last frame leaves the others. *)
LEMMA LastReplaced ==
    ASSUME NEW S, NEW s \in Seq(S), Len(s) >= 1, NEW x \in S
    PROVE  LET t == [s EXCEPT ![Len(s)] = x]
           IN  /\ t \in Seq(S) /\ Len(t) = Len(s) /\ t[Len(s)] = x
               /\ \A k \in 1 .. Len(s) - 1 : t[k] = s[k]
<1> DEFINE n == Len(s)
           t == [s EXCEPT ![n] = x]
<1>1. n \in Nat /\ n \in 1 .. n /\ s \in [1 .. n -> S]
      /\ \A k \in 1 .. n - 1 : k \in 1 .. n /\ k # n
  OBVIOUS
<1>2. t \in [1 .. n -> S] /\ t[n] = x /\ \A k \in 1 .. n - 1 : t[k] = s[k]
  <2> HIDE DEF n
  <2> QED BY <1>1
<1>3. t \in Seq(S) /\ Len(t) = n
  <2> HIDE DEF n, t
  <2> QED BY <1>1, <1>2
<1> QED BY <1>2, <1>3

(* A sequence without repetition has as many elements as it is long, and   *)
(* the other way round.                                                    *)
LEMMA DistinctElements ==
    ASSUME NEW S, NEW s \in Seq(S)
    PROVE  /\ IsFiniteSet(ToSet(s)) /\ Cardinality(ToSet(s)) \in Nat
           /\ Cardinality(ToSet(s)) = Len(s)
                <=> \A i, j \in 1 .. Len(s) : s[i] = s[j] => i = j
<1>1. s \in [1 .. Len(s) -> ToSet(s)] /\ Len(s) \in Nat
  BY DEF ToSet
<1>2. \A x \in ToSet(s) : \E m \in 1 .. Len(s) : s[m] = x
  BY DEF ToSet
<1>3. s \in Surjection(1 .. Len(s), ToSet(s))
  BY <1>1, <1>2 DEF Surjection
<1>4. IsFiniteSet(1 .. Len(s)) /\ Cardinality(1 .. Len(s)) = Len(s)
  <2>1. /\ IsFiniteSet(1 .. Len(s))
        /\ Cardinality(1 .. Len(s)) = IF 1 > Len(s) THEN 0 ELSE Len(s) - 1 + 1
    BY <1>1, FS_Interval
  <2> QED BY <1>1, <2>1
<1>5. /\ IsFiniteSet(ToSet(s))
      /\ Cardinality(ToSet(s)) = Cardinality(1 .. Len(s))
           <=> s \in Injection(1 .. Len(s), ToSet(s))
  BY <1>3, <1>4, FS_Surjection
<1>6. s \in Injection(1 .. Len(s), ToSet(s))
        <=> \A i, j \in 1 .. Len(s) : s[i] = s[j] => i = j
  BY <1>1 DEF Injection, IsInjective
<1> QED BY <1>4, <1>5, <1>6, FS_CardinalityType

(* No more than n different numbers up to n. *)
LEMMA FewDistinct ==
    ASSUME NEW m \in Nat, NEW n \in Nat, NEW f \in [1 .. m -> 1 .. n],
           \A i, j \in 1 .. m : f[i] = f[j] => i = j
    PROVE  m <= n
<1>1. f \in Injection(1 .. m, 1 .. n)
  BY DEF Injection, IsInjective
<1>2. /\ IsFiniteSet(1 .. n) /\ Cardinality(1 .. n) = n /\ Cardinality(1 .. m) = m
  BY FS_Interval
<1> QED BY <1>1, <1>2, FS_Injection

(* A finite set of numbers can be put in order ... *)
LEMMA Sortable ==
    ASSUME NEW S \in SUBSET Nat, IsFiniteSet(S)
    PROVE  \E s \in [1 .. Cardinality(S) -> S] :
              \A i, j \in DOMAIN s : i < j => s[i] < s[j]
<1> DEFINE n == Cardinality(S)
           Upto(x) == {y \in S : y <= x}
           r == [x \in S |-> Cardinality(Upto(x))]
<1>1. n \in Nat
  BY FS_CardinalityType
<1>2. ASSUME NEW x \in S
      PROVE  IsFiniteSet(Upto(x)) /\ r[x] \in 1 .. n
  <2>1. IsFiniteSet(Upto(x)) /\ Cardinality(Upto(x)) <= n
    BY FS_Subset
  <2>2. Cardinality(Upto(x)) \in Nat
    BY <2>1, FS_CardinalityType
  <2>3. Upto(x) # {}
    OBVIOUS
  <2>4. Cardinality(Upto(x)) # 0
    BY <2>1, <2>3, FS_EmptySet
  <2> QED BY <1>1, <2>1, <2>2, <2>4
<1>3. ASSUME NEW x \in S, NEW z \in S, x < z
      PROVE  r[x] < r[z]
  <2>1. Upto(x) \in SUBSET Upto(z) /\ Upto(x) # Upto(z)
    <3>1. x \in Nat /\ z \in Nat
      OBVIOUS
    <3>2. z \in Upto(z) /\ z \notin Upto(x)
      BY <1>3, <3>1
    <3>3. \A y \in S : y <= x => y <= z
      BY <1>3, <3>1
    <3> QED BY <3>2, <3>3
  <2>2. Cardinality(Upto(x)) <= Cardinality(Upto(z))
        /\ Cardinality(Upto(x)) # Cardinality(Upto(z))
    BY <1>2, <2>1, FS_Subset
  <2>3. r[x] \in Nat /\ r[z] \in Nat
    BY <1>2
  <2> QED BY <2>2, <2>3
<1>4. r \in [S -> 1 .. n]
  BY <1>2
<1> HIDE DEF r
<1>5. r \in Injection(S, 1 .. n)
  <2>1. \A x, z \in S : r[x] = r[z] => x = z
    <3> SUFFICES ASSUME NEW x \in S, NEW z \in S, x # z PROVE r[x] # r[z]
      OBVIOUS
    <3>1. x < z \/ z < x
      OBVIOUS
    <3>2. r[x] \in Nat /\ r[z] \in Nat
      BY <1>4
    <3> QED BY <1>3, <3>1, <3>2
  <2> QED BY <1>4, <2>1 DEF Injection, IsInjective
<1>6. r \in Surjection(S, 1 .. n)
  BY <1>1, <1>5, FS_Injection, FS_Interval
<1>7. \A i \in 1 .. n : \E x \in S : r[x] = i
  BY <1>6 DEF Surjection
<1> DEFINE s == [i \in 1 .. n |-> CHOOSE x \in S : r[x] = i]
<1>8. \A i \in 1 .. n : s[i] \in S /\ r[s[i]] = i
  BY <1>7
<1>9. s \in [1 .. n -> S]
  BY <1>8
<1> HIDE DEF s
<1>10. ASSUME NEW i \in 1 .. n, NEW j \in 1 .. n, i < j
       PROVE  s[i] < s[j]
  <2>b. s[i] \in S /\ s[j] \in S
    BY <1>8
  <2>c. i \in Nat /\ j \in Nat
    OBVIOUS
  <2>1. s[i] \in Nat /\ s[j] \in Nat /\ i \in Nat /\ j \in Nat
    BY <2>b, <2>c
  <2>a. s[i] # s[j]
    BY <1>8, <1>10, <2>1
  <2>2. ~(s[j] < s[i])
    <3> SUFFICES ASSUME s[j] < s[i] PROVE FALSE
      OBVIOUS
    <3>1. r[s[j]] < r[s[i]]
      BY <1>3, <1>8
    <3> QED BY <1>8, <1>10, <2>1, <3>1
  <2> QED BY <2>1, <2>a, <2>2
<1> QED BY <1>9, <1>10

(* ... and a function that does so misses none of them. *)
LEMMA SortedComplete ==
    ASSUME NEW S \in SUBSET Nat, IsFiniteSet(S), NEW s \in [1 .. Cardinality(S) -> S],
           \A i, j \in DOMAIN s : i < j => s[i] < s[j]
    PROVE  /\ s \in Seq(S) /\ Len(s) = Cardinality(S) /\ ToSet(s) = S
           /\ \A i, j \in 1 .. Len(s) : s[i] = s[j] => i = j
<1> DEFINE n == Cardinality(S)
<1>1. n \in Nat
  BY FS_CardinalityType
<1> HIDE DEF n
<1>2. s \in [1 .. n -> S] /\ DOMAIN s = 1 .. n
  BY DEF n
<1>3. s \in Seq(S) /\ Len(s) = n
  BY <1>1, <1>2
<1>4. \A i, j \in 1 .. n : s[i] = s[j] => i = j
  <2> SUFFICES ASSUME NEW i \in 1 .. n, NEW j \in 1 .. n, i # j PROVE s[i] # s[j]
    OBVIOUS
  <2>1. i < j \/ j < i
    BY <1>1
  <2>2. s[i] \in Nat /\ s[j] \in Nat
    BY <1>2
  <2> QED BY <1>2, <2>1, <2>2
<1>5. s \in Injection(1 .. n, S)
  BY <1>2, <1>4 DEF Injection, IsInjective
<1>6. IsFiniteSet(1 .. n) /\ Cardinality(1 .. n) = n
  BY <1>1, FS_Interval
<1>7. s \in Surjection(1 .. n, S)
  BY <1>5, <1>6, FS_Injection DEF n
<1>8. ToSet(s) = S
  BY <1>2, <1>7 DEF ToSet, Surjection
<1> QED BY <1>3, <1>4, <1>8 DEF n
=============================================================================
