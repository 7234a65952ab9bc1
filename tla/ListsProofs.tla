---------------------------- MODULE ListsProofs ----------------------------
(***************************************************************************)
(* Facts about lists of every length and the selections of module Lists.    *)
(***************************************************************************)
EXTENDS Lists, Functions, FiniteSetTheorems, FunctionTheorems, TLAPS

\* Different positions have different places, a later one a later place.
LEMMA RankIncreases ==
    ASSUME NEW n \in Nat, NEW kept \in SUBSET (1..n), NEW i \in kept, NEW j \in kept, i < j
    PROVE  Rank(kept, i) < Rank(kept, j)
  <1> DEFINE upTo(x) == {k \in kept : k <= x}
  <1>0. n \in Int /\ 1 \in Int /\ kept \subseteq Int
    OBVIOUS
  <1>1. IsFiniteSet(kept)
    <2>1. IsFiniteSet(1..n)
      BY <1>0, FS_Interval
    <2> QED
      BY <2>1, FS_Subset
  <1>2. upTo(i) \subseteq upTo(j) /\ j \in upTo(j) /\ j \notin upTo(i)
    <2>1. i \in Int /\ j \in Int /\ j <= j /\ ~(j <= i)
      BY <1>0
    <2>2. \A k \in kept : k <= i => k <= j
      BY <1>0, <2>1
    <2> QED
      BY <2>1, <2>2
  <1>3. /\ IsFiniteSet(upTo(i)) /\ IsFiniteSet(upTo(j))
        /\ Cardinality(upTo(i)) \in Nat /\ Cardinality(upTo(j)) \in Nat
    BY <1>1, FS_Subset, FS_CardinalityType
  <1>4. Cardinality(upTo(i)) <= Cardinality(upTo(j))
    BY <1>2, <1>3, FS_Subset
  <1>5. Cardinality(upTo(i)) # Cardinality(upTo(j))
    BY <1>2, <1>3, FS_Subset
  <1> QED
    BY <1>3, <1>4, <1>5 DEF Rank

\* The places of the positions are the numbers from 1 to their count.
LEMMA RankCounts ==
    ASSUME NEW n \in Nat, NEW kept \in SUBSET (1..n)
    PROVE  /\ IsFiniteSet(kept) /\ Cardinality(kept) \in Nat
           /\ \A i \in kept : Rank(kept, i) \in 1..Cardinality(kept)
           /\ \A k \in 1..Cardinality(kept) : \E i \in kept : Rank(kept, i) = k
  <1> DEFINE size == Cardinality(kept)
             rank == [i \in kept |-> Rank(kept, i)]
  <1>0. kept \subseteq Int
    OBVIOUS
  <1>1. IsFiniteSet(kept) /\ size \in Nat
    <2>1. IsFiniteSet(1..n)
      BY FS_Interval
    <2>2. IsFiniteSet(kept)
      BY <2>1, FS_Subset
    <2> QED
      BY <2>2, FS_CardinalityType
  <1>2. ASSUME NEW i \in kept PROVE Rank(kept, i) \in 1..size
    <2> DEFINE upTo == {j \in kept : j <= i}
    <2>1. upTo \subseteq kept /\ i \in upTo
      OBVIOUS
    <2>2. IsFiniteSet(upTo) /\ Cardinality(upTo) \in Nat /\ Cardinality(upTo) <= size
      BY <1>1, <2>1, FS_Subset, FS_CardinalityType
    <2>3. Cardinality(upTo) # 0
      BY <2>1, <2>2, FS_EmptySet
    <2> QED
      BY <1>1, <2>2, <2>3 DEF Rank
  <1>3. rank \in [kept -> 1..size]
    BY <1>2
  <1>4. \A i, j \in kept : rank[i] = rank[j] => i = j
    <2> SUFFICES ASSUME NEW i \in kept, NEW j \in kept, rank[i] = rank[j], i # j PROVE FALSE
      OBVIOUS
    <2>1. /\ i \in Int /\ j \in Int
          /\ Rank(kept, i) = Rank(kept, j) /\ Rank(kept, i) \in Int
      BY <1>0, <1>2
    <2>2. CASE i < j
      <3>1. Rank(kept, i) < Rank(kept, j)
        BY <2>2, RankIncreases
      <3> QED
        BY <2>1, <3>1
    <2>3. CASE j < i
      <3>1. Rank(kept, j) < Rank(kept, i)
        BY <2>3, RankIncreases
      <3> QED
        BY <2>1, <3>1
    <2> QED
      BY <2>1, <2>2, <2>3
  <1>5. rank \in Injection(kept, 1..size)
    BY <1>3, <1>4, Fun_IsInj
  <1>6. IsFiniteSet(1..size) /\ Cardinality(1..size) = size
    BY <1>1, FS_Interval
  <1>7. rank \in Surjection(kept, 1..size)
    BY <1>1, <1>5, <1>6, FS_Injection
  <1>8. \A k \in 1..size : \E i \in kept : rank[i] = k
    BY <1>7 DEF Surjection
  <1> QED
    BY <1>1, <1>2, <1>8

\* A selection has the selected elements, each at its place, and no others.
LEMMA Selects ==
    ASSUME NEW S, NEW list \in Seq(S), NEW kept \in SUBSET (DOMAIN list)
    PROVE  /\ ElementsAt(list, kept) \in Seq(S)
           /\ Len(ElementsAt(list, kept)) = Cardinality(kept)
           /\ \A i \in kept : /\ Rank(kept, i) \in DOMAIN ElementsAt(list, kept)
                              /\ ElementsAt(list, kept)[Rank(kept, i)] = list[i]
           /\ \A k \in DOMAIN ElementsAt(list, kept) : \E i \in kept : Rank(kept, i) = k
  <1> DEFINE size == Cardinality(kept)
             from(k) == CHOOSE i \in kept : Rank(kept, i) = k
             result == [k \in 1..size |-> list[from(k)]]
  <1>1. Len(list) \in Nat /\ kept \in SUBSET (1..Len(list)) /\ \A i \in kept : list[i] \in S
    OBVIOUS
  <1>2. size \in Nat /\ \A i \in kept : Rank(kept, i) \in 1..size
    BY <1>1, RankCounts
  <1>3. \A k \in 1..size : from(k) \in kept /\ Rank(kept, from(k)) = k
    BY <1>1, RankCounts
  <1>4. \A i, j \in kept : Rank(kept, i) = Rank(kept, j) => i = j
    <2> SUFFICES ASSUME NEW i \in kept, NEW j \in kept, Rank(kept, i) = Rank(kept, j), i # j
                 PROVE  FALSE
      OBVIOUS
    <2>1. i < j \/ j < i
      BY <1>1
    <2>2. Rank(kept, i) \in Int /\ Rank(kept, j) \in Int
      BY <1>2
    <2>3. Len(list) \in Nat /\ kept \in SUBSET (1..Len(list))
      BY <1>1
    <2>4. Rank(kept, i) < Rank(kept, j) \/ Rank(kept, j) < Rank(kept, i)
      BY <2>1, <2>3, RankIncreases
    <2> QED
      BY <2>2, <2>4
  <1> HIDE DEF from, size
  <1>5. \A i \in kept : from(Rank(kept, i)) = i
    BY <1>2, <1>3, <1>4
  <1>6. result \in [1..size -> S]
    BY <1>1, <1>3
  <1>7. result \in Seq(S) /\ Len(result) = size /\ DOMAIN result = 1..size
    BY <1>2, <1>6
  <1>8. ElementsAt(list, kept) = result
    BY DEF ElementsAt, from, size
  <1>9. \A i \in kept : result[Rank(kept, i)] = list[i]
    BY <1>2, <1>5
  <1> HIDE DEF result
  <1> QED
    BY <1>2, <1>3, <1>7, <1>8, <1>9 DEF size

-----------------------------------------------------------------------------
(* The elements of a list *)

\* No element is there twice.
Distinct(list) == \A i, j \in DOMAIN list : list[i] = list[j] => i = j

\* Appending adds one element.
LEMMA RangeOfAppend ==
    ASSUME NEW S, NEW list \in Seq(S), NEW s \in S
    PROVE  Range(Append(list, s)) = Range(list) \cup {s}
  <1>1. /\ Len(list) \in Nat /\ DOMAIN list = 1..Len(list)
        /\ DOMAIN Append(list, s) = 1..Len(list) + 1
        /\ Append(list, s)[Len(list) + 1] = s
        /\ \A i \in 1..Len(list) : Append(list, s)[i] = list[i]
    OBVIOUS
  <1>2. \A i \in 1..Len(list) + 1 : i \in 1..Len(list) \/ i = Len(list) + 1
    BY <1>1
  <1> QED
    BY <1>1, <1>2 DEF Range

\* Passing the first element leaves the others, without it if none is there twice.
LEMMA RangeOfTail ==
    ASSUME NEW S, NEW list \in Seq(S), list # <<>>
    PROVE  /\ Head(list) \in S /\ Tail(list) \in Seq(S)
           /\ Range(list) = Range(Tail(list)) \cup {Head(list)}
           /\ Distinct(list) => Distinct(Tail(list)) /\ Head(list) \notin Range(Tail(list))
  <1>1. /\ Head(list) \in S /\ Tail(list) \in Seq(S)
        /\ Len(list) \in Nat \ {0} /\ Len(Tail(list)) = Len(list) - 1
        /\ Head(list) = list[1]
        /\ \A i \in 1..Len(list) - 1 : Tail(list)[i] = list[i + 1]
    OBVIOUS
  <1>2. Range(list) = Range(Tail(list)) \cup {Head(list)}
    <2>1. ASSUME NEW i \in DOMAIN list PROVE list[i] \in Range(Tail(list)) \cup {Head(list)}
      <3>1. i = 1 \/ i - 1 \in 1..Len(list) - 1
        BY <1>1
      <3> QED
        BY <1>1, <3>1 DEF Range
    <2> QED
      BY <1>1, <2>1 DEF Range
  <1>3. ASSUME Distinct(list)
        PROVE  Distinct(Tail(list)) /\ Head(list) \notin Range(Tail(list))
    <2>1. \A i \in 1..Len(list) - 1 : i + 1 \in DOMAIN list /\ i + 1 # 1 /\ 1 \in DOMAIN list
      BY <1>1
    <2>2. \A i, j \in 1..Len(list) - 1 : Tail(list)[i] = Tail(list)[j] => i = j
      BY <1>1, <1>3, <2>1 DEF Distinct
    <2>3. \A i \in 1..Len(list) - 1 : Tail(list)[i] # Head(list)
      BY <1>1, <1>3, <2>1 DEF Distinct
    <2> QED
      BY <1>1, <2>2, <2>3 DEF Distinct, Range
  <1> QED
    BY <1>1, <1>2, <1>3
=============================================================================
