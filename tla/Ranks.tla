------------------------------- MODULE Ranks -------------------------------
(***************************************************************************)
(* The rank of a number in a set of numbers from 1 to h: how many elements *)
(* go up to it.  PrepareContext numbers the parts of a block by the rank   *)
(* of their cuts and Install the blocks it keeps by the rank of their      *)
(* place.                                                                  *)
(*                                                                         *)
(* Induction over a rank goes by a least counterexample (Least).           *)
(***************************************************************************)
EXTENDS Integers, FiniteSets, FiniteSetTheorems, WellFoundedInduction, TLAPS

----------------------------------------------------------------------------
\* A nonempty set of natural numbers has a least one.
LEMMA Least ==
  ASSUME NEW S, S \subseteq Nat, S # {}
  PROVE  \E m \in S : \A k \in S : m <= k
<1> DEFINE R == OpToRel(<, Nat)
<1>1. IsWellFoundedOn(R, Nat)
  BY NatLessThanWellFounded
<1>2. \A a, b \in Nat : a < b => <<a, b>> \in R
  BY DEF OpToRel
<1> HIDE DEF R
<1>3. \E m \in S : \A k \in S : <<k, m>> \notin R
  BY <1>1, WFMin
<1>4. PICK m \in S : \A k \in S : <<k, m>> \notin R
  BY <1>3
<1>5. ASSUME NEW k \in S PROVE m <= k
  <2>1. m \in Nat /\ k \in Nat /\ <<k, m>> \notin R
    BY <1>4
  <2>2. ~(k < m)
    BY <1>2, <2>1
  <2> QED
    BY <2>1, <2>2
<1> QED
  BY <1>5

----------------------------------------------------------------------------
\* How many elements of a set go up to i.
Rank(at, i) == Cardinality({h \in at : h <= i})

LEMMA RankedNat ==
  ASSUME NEW h \in Nat, NEW at \in SUBSET (1..h)
  PROVE  \A c \in at : c \in Nat /\ c >= 1 /\ c <= h /\ c \in 0..h
  OBVIOUS

LEMMA RankType ==
  ASSUME NEW h \in Nat, NEW at \in SUBSET (1..h), NEW i \in 0..h
  PROVE  /\ IsFiniteSet(at) /\ Cardinality(at) \in Nat
         /\ IsFiniteSet({k \in at : k <= i})
         /\ Rank(at, i) \in 0..Cardinality(at)
         /\ Rank(at, 0) = 0
<1>1. IsFiniteSet(1..h)
  BY FS_Interval
<1>2. IsFiniteSet(at) /\ Cardinality(at) \in Nat
  BY <1>1, FS_Subset, FS_CardinalityType
<1>3. {k \in at : k <= i} \in SUBSET at /\ {k \in at : k <= 0} = {}
  <2>1. \A c \in at : c \in Nat /\ c >= 1
    BY RankedNat
  <2>2. \A c \in at : ~(c <= 0)
    BY <2>1
  <2> QED
    BY <2>2
<1>4. /\ IsFiniteSet({k \in at : k <= i})
      /\ Rank(at, i) <= Cardinality(at)
  BY <1>2, <1>3, FS_Subset DEF Rank
<1>5. Rank(at, i) \in Nat
  BY <1>4, FS_CardinalityType DEF Rank
<1>6. Rank(at, 0) = 0
  BY <1>3, FS_EmptySet DEF Rank
<1> QED
  BY <1>2, <1>4, <1>5, <1>6

LEMMA RankStrict ==
  ASSUME NEW h \in Nat, NEW at \in SUBSET (1..h), NEW i \in 0..h, NEW k \in at, i < k
  PROVE  Rank(at, i) < Rank(at, k)
<1> DEFINE low == {c \in at : c <= i}
           high == {c \in at : c <= k}
<1>1. k \in 0..h
  OBVIOUS
<1>2. /\ IsFiniteSet(high) /\ Rank(at, k) = Cardinality(high) /\ Rank(at, k) \in Nat
      /\ Rank(at, i) = Cardinality(low) /\ Rank(at, i) \in Nat
  <2>1. Cardinality(at) \in Nat /\ Rank(at, k) \in 0..Cardinality(at)
        /\ Rank(at, i) \in 0..Cardinality(at) /\ IsFiniteSet(high)
    BY <1>1, RankType
  <2> QED BY <2>1 DEF Rank
<1>3. low \in SUBSET high /\ k \in high /\ k \notin low
  <2>1. i \in Nat /\ k \in Nat /\ \A c \in at : c \in Nat
    BY RankedNat
  <2>2. \A c \in at : c <= i => c <= k
    BY <2>1
  <2>3. k <= k /\ ~(k <= i)
    BY <2>1
  <2> QED
    BY <2>2, <2>3
<1>4. Cardinality(low) <= Cardinality(high) /\ Cardinality(low) # Cardinality(high)
  <2> HIDE DEF low, high
  <2> QED BY <1>2, <1>3, FS_Subset
<1> QED
  BY <1>2, <1>4

\* After an element that is not the last, or 0, comes a next one.
LEMMA RankNext ==
  ASSUME NEW h \in Nat, NEW at \in SUBSET (1..h), NEW i \in at \cup {0},
         Rank(at, i) < Cardinality(at)
  PROVE  \E k \in at : Rank(at, k) = Rank(at, i) + 1
<1> DEFINE low == {c \in at : c <= i}
           rest == {c \in at : c > i}
<1>1. i \in 0..h /\ i \in Nat
  OBVIOUS
<1>2. IsFiniteSet(low) /\ Rank(at, i) = Cardinality(low)
  BY <1>1, RankType DEF Rank
<1>3. rest # {}
  <2> SUFFICES ASSUME rest = {} PROVE FALSE
    OBVIOUS
  <2>1. \A c \in at : c \in Nat
    BY RankedNat
  <2>3. \A c \in at : c <= i
    <3> SUFFICES ASSUME NEW c \in at PROVE c <= i
      OBVIOUS
    <3>1. ~(c > i)
      OBVIOUS
    <3> QED
      BY <1>1, <2>1, <3>1
  <2>4. low = at
    BY <2>3
  <2>2. Cardinality(at) \in Nat
    BY <1>1, RankType
  <2> QED
    BY <1>2, <2>2, <2>4
<1>4. PICK k \in rest : \A c \in rest : k <= c
  <2>1. rest \in SUBSET Nat
    BY RankedNat
  <2> HIDE DEF rest
  <2> QED
    BY <1>3, <2>1, Least
<1>5. {c \in at : c <= k} = low \cup {k} /\ k \notin low
  <2>1. \A c \in at : c \in Nat
    BY RankedNat
  <2>2. k \in at /\ k \in Nat /\ k > i
    BY <1>4, <2>1
  <2>3. \A c \in at : c <= k <=> c <= i \/ c = k
    <3> SUFFICES ASSUME NEW c \in at PROVE c <= k <=> c <= i \/ c = k
      OBVIOUS
    <3>1. c \in Nat /\ (c > i => k <= c)
      BY <1>4, <2>1
    <3> QED
      BY <1>1, <2>2, <3>1
  <2>4. ~(k <= i)
    BY <1>1, <2>2
  <2> QED
    BY <2>2, <2>3, <2>4
<1>6. Cardinality(low \cup {k}) = Cardinality(low) + 1
  <2> HIDE DEF low
  <2> QED
    BY <1>2, <1>5, FS_AddElement
<1> QED
  BY <1>2, <1>4, <1>5, <1>6 DEF Rank

\* There is an element of every rank: a smallest rank without one would have a
\* predecessor, and so a next element.
LEMMA RankOnto ==
  ASSUME NEW h \in Nat, NEW at \in SUBSET (1..h)
  PROVE  \A m \in 0..Cardinality(at) : \E i \in at \cup {0} : Rank(at, i) = m
<1>0. 0 \in 0..h
  OBVIOUS
<1>1. Cardinality(at) \in Nat /\ Rank(at, 0) = 0
  BY <1>0, RankType
<1> DEFINE Lost == {m \in 0..Cardinality(at) : ~\E i \in at \cup {0} : Rank(at, i) = m}
<1> SUFFICES ASSUME Lost # {} PROVE FALSE
  OBVIOUS
<1>2. PICK m \in Lost : \A k \in Lost : m <= k
  <2>1. Lost \in SUBSET Nat
    BY <1>1
  <2> HIDE DEF Lost
  <2> QED
    BY <2>1, Least
<1>3. m \in 0..Cardinality(at) /\ m # 0
  BY <1>1, <1>2
<1>4. m - 1 \in 0..Cardinality(at) /\ m - 1 \notin Lost
  BY <1>1, <1>2, <1>3
<1>5. PICK i \in at \cup {0} : Rank(at, i) = m - 1
  BY <1>4
<1>6. Rank(at, i) < Cardinality(at)
  BY <1>1, <1>3, <1>5
<1>7. PICK k \in at : Rank(at, k) = m
  <2>1. PICK k \in at : Rank(at, k) = Rank(at, i) + 1
    BY <1>6, RankNext
  <2>2. Rank(at, k) = m
    BY <1>1, <1>3, <1>5, <2>1
  <2> QED
    BY <2>2
<1> QED
  BY <1>2, <1>7

----------------------------------------------------------------------------
\* The element of rank n.
Place(at, n) == CHOOSE i \in at : Cardinality({h \in at : h <= i}) = n

LEMMA PlaceRank ==
  ASSUME NEW h \in Nat, NEW at \in SUBSET (1..h), NEW n \in 1..Cardinality(at)
  PROVE  Place(at, n) \in at /\ Rank(at, Place(at, n)) = n
<1>1. Cardinality(at) \in Nat /\ Rank(at, 0) = 0
  <2>1. 0 \in 0..h
    OBVIOUS
  <2> QED
    BY <2>1, RankType
<1>2. n \in 0..Cardinality(at) /\ n # 0
  BY <1>1
<1>3. PICK i \in at \cup {0} : Rank(at, i) = n
  BY <1>2, RankOnto
<1>4. i \in at /\ Cardinality({k \in at : k <= i}) = n
  BY <1>1, <1>2, <1>3 DEF Rank
<1> QED
  BY <1>4 DEF Place, Rank

\* Different elements have different ranks.
LEMMA RankPlace ==
  ASSUME NEW h \in Nat, NEW at \in SUBSET (1..h), NEW i \in at
  PROVE  Rank(at, i) \in 1..Cardinality(at) /\ Place(at, Rank(at, i)) = i
<1>1. /\ 0 \in 0..h /\ 0 < i /\ i \in Nat /\ i \in 0..h
  BY RankedNat
<1>2. Cardinality(at) \in Nat /\ Rank(at, i) \in 0..Cardinality(at) /\ Rank(at, 0) = 0
  BY <1>1, RankType
<1>3. Rank(at, 0) < Rank(at, i)
  BY <1>1, RankStrict
<1>4. Rank(at, i) \in 1..Cardinality(at)
  BY <1>2, <1>3
<1> DEFINE k == Place(at, Rank(at, i))
<1>5. k \in at /\ Rank(at, k) = Rank(at, i)
  BY <1>4, PlaceRank
<1>6. k \in Nat /\ k \in 0..h
  BY <1>5, RankedNat
<1> HIDE DEF k
<1>7. ~(i < k) /\ ~(k < i)
  BY <1>1, <1>2, <1>5, <1>6, RankStrict
<1>8. k = i
  BY <1>1, <1>6, <1>7
<1> QED
  BY <1>4, <1>8 DEF k

LEMMA PlaceOrder ==
  ASSUME NEW h \in Nat, NEW at \in SUBSET (1..h),
         NEW m \in 1..Cardinality(at), NEW n \in 1..Cardinality(at)
  PROVE  m <= n <=> Place(at, m) <= Place(at, n)
<1> DEFINE i == Place(at, m)
           k == Place(at, n)
<1>1. i \in at /\ Rank(at, i) = m /\ k \in at /\ Rank(at, k) = n
  BY PlaceRank
<1>2. i \in Nat /\ k \in Nat /\ i \in 0..h /\ k \in 0..h
  BY <1>1, RankedNat
<1>3. m \in Nat /\ n \in Nat
  <2>1. 0 \in 0..h
    OBVIOUS
  <2> QED
    BY <2>1, RankType
<1> HIDE DEF i, k
<1>4. (i < k => m < n) /\ (k < i => n < m)
  BY <1>1, <1>2, RankStrict
<1>5. m <= n <=> i <= k
  BY <1>1, <1>2, <1>3, <1>4
<1> QED
  BY <1>5 DEF i, k

\* As many ranks as elements.
LEMMA RanksOfSubset ==
  ASSUME NEW h \in Nat, NEW at \in SUBSET (1..h), NEW D \in SUBSET at
  PROVE  LET C == {n \in 1..Cardinality(at) : Place(at, n) \in D} IN
         Cardinality(C) = Cardinality(D)
<1> DEFINE C == {n \in 1..Cardinality(at) : Place(at, n) \in D}
           f == [n \in C |-> Place(at, n)]
<1>1. IsFiniteSet(C)
  <2>1. 0 \in 0..h
    OBVIOUS
  <2>2. Cardinality(at) \in Nat
    BY <2>1, RankType
  <2>3. IsFiniteSet(1..Cardinality(at)) /\ C \in SUBSET (1..Cardinality(at))
    BY <2>2, FS_Interval
  <2> HIDE DEF C
  <2> QED
    BY <2>3, FS_Subset
<1>2. \A n \in C : Place(at, n) \in D /\ Rank(at, Place(at, n)) = n
  BY PlaceRank
<1>3. \A d \in D : Rank(at, d) \in C /\ Place(at, Rank(at, d)) = d
  BY RankPlace
<1> HIDE DEF C
<1>4. f \in Bijection(C, D)
  <2>1. f \in [C -> D]
    BY <1>2
  <2>2. \A m, n \in C : f[m] = f[n] => m = n
    BY <1>2
  <2>3. \A d \in D : \E n \in C : f[n] = d
    BY <1>3
  <2> QED
    BY <2>1, <2>2, <2>3 DEF Bijection, Injection, Surjection, IsInjective
<1>5. ExistsBijection(C, D)
  BY <1>4 DEF ExistsBijection
<1>6. Cardinality(C) = Cardinality(D)
  BY <1>1, <1>5, FS_Bijection
<1> QED
  BY <1>6 DEF C

\* The ranks of a subset within a set have the order of the subset.
LEMMA PlaceOfPlace ==
  ASSUME NEW h \in Nat, NEW at \in SUBSET (1..h), NEW B \in SUBSET at
  PROVE  LET C == {n \in 1..Cardinality(at) : Place(at, n) \in B} IN
         /\ Cardinality(C) = Cardinality(B)
         /\ C \in SUBSET (1..Cardinality(at))
         /\ \A m \in 1..Cardinality(B) :
               Place(C, m) \in C /\ Place(at, Place(C, m)) = Place(B, m)
<1> DEFINE C == {n \in 1..Cardinality(at) : Place(at, n) \in B}
<1>1. Cardinality(C) = Cardinality(B)
  BY RanksOfSubset
<1>2. C \in SUBSET (1..Cardinality(at)) /\ Cardinality(at) \in Nat
  <2>1. 0 \in 0..h
    OBVIOUS
  <2> QED
    BY <2>1, RankType
<1>3. \A n \in C : Place(at, n) \in B /\ n \in 1..Cardinality(at)
  OBVIOUS
<1>4. B \in SUBSET (1..h)
  OBVIOUS
<1>5. \A n \in C : Rank(C, n) = Rank(B, Place(at, n))
  <2> SUFFICES ASSUME NEW n \in C PROVE Rank(C, n) = Rank(B, Place(at, n))
    OBVIOUS
  <2> DEFINE D == {b \in B : b <= Place(at, n)}
  <2>1. D \in SUBSET at
    OBVIOUS
  <2>2. \A k \in 1..Cardinality(at) : k <= n <=> Place(at, k) <= Place(at, n)
    BY <1>3, PlaceOrder
  <2>3. {k \in C : k <= n} = {k \in 1..Cardinality(at) : Place(at, k) \in D}
    BY <2>2
  <2> HIDE DEF D
  <2>4. Cardinality({k \in 1..Cardinality(at) : Place(at, k) \in D}) = Cardinality(D)
    BY <2>1, RanksOfSubset
  <2>5. Rank(C, n) = Cardinality({k \in 1..Cardinality(at) : Place(at, k) \in D})
    BY <2>3 DEF Rank
  <2>6. Rank(B, Place(at, n)) = Cardinality(D)
    BY DEF Rank, D
  <2> QED
    BY <2>4, <2>5, <2>6
<1> HIDE DEF C
<1>6. ASSUME NEW m \in 1..Cardinality(B)
      PROVE  Place(C, m) \in C /\ Place(at, Place(C, m)) = Place(B, m)
  <2>1. Place(C, m) \in C /\ Rank(C, Place(C, m)) = m
    BY <1>1, <1>2, PlaceRank
  <2>2. Place(at, Place(C, m)) \in B /\ Rank(B, Place(at, Place(C, m))) = m
    BY <1>3, <1>5, <2>1
  <2> QED
    BY <1>4, <2>1, <2>2, RankPlace
<1>7. \A m \in 1..Cardinality(B) :
         Place(C, m) \in C /\ Place(at, Place(C, m)) = Place(B, m)
  BY <1>6
<1> QED
  BY <1>1, <1>2, <1>7 DEF C
=============================================================================
