----------------------------- MODULE IntegerSets -----------------------------
(***************************************************************************)
(* Finite sets of integers have a greatest and a least element, and so has *)
(* every set of natural numbers a least one: the facts behind the searches *)
(* of the broker's code (the largest id in db/users, the first entry of a  *)
(* table), and behind proofs by least counterexample.                      *)
(***************************************************************************)
EXTENDS Integers, Sequences, FiniteSets, Ascending, FiniteSetTheorems, SequenceTheorems, WellFoundedInduction, TLAPS

\* A finite set of integers that is not empty has a greatest element.
LEMMA GreatestOfFinite ==
  ASSUME NEW S, IsFiniteSet(S), S # {}, S \subseteq Int
  PROVE  \E m \in S : \A n \in S : n <= m
<1> DEFINE U(m) == {n \in S : n > m}
           F == {U(m) : m \in S}
<1>1. F \subseteq FiniteSubsetsOf(S)
  <2>1. \A m \in S : U(m) \in SUBSET S /\ IsFiniteSet(U(m)) BY FS_Subset
  <2> QED BY <2>1 DEF FiniteSubsetsOf
<1>2. F # {}
  OBVIOUS
<1>3. IsWellFoundedOn(StrictSubsetOrdering(S), FiniteSubsetsOf(S))
  BY FS_StrictSubsetOrderingWellFounded
<1>4. PICK x \in F : \A y \in F : ~(<<y, x>> \in StrictSubsetOrdering(S))
  <2> HIDE DEF F
  <2> QED BY <1>1, <1>2, <1>3, WFMin
<1>5. PICK m \in S : x = U(m) BY <1>4
<1>6. ASSUME NEW n \in S, n > m PROVE FALSE
  <2>0. \A k \in S : k \in Int OBVIOUS
  <2>1. U(n) \subseteq U(m) /\ n \in U(m) /\ n \notin U(n)
    <3>1. \A k \in S : k > n => k > m BY <1>6, <2>0
    <3>2. ~(n > n) BY <2>0
    <3> QED BY <1>6, <3>1, <3>2
  <2>2. <<U(n), U(m)>> \in StrictSubsetOrdering(S)
    <3> HIDE DEF U
    <3>1. U(n) \in SUBSET S /\ U(m) \in SUBSET S BY DEF U
    <3> QED BY <2>1, <3>1 DEF StrictSubsetOrdering
  <2> QED BY <2>2, <1>4, <1>5
<1> QED BY <1>6

\* A finite set of integers that is not empty has a least element.
LEMMA LeastOfFinite ==
  ASSUME NEW S, IsFiniteSet(S), S # {}, S \subseteq Int
  PROVE  \E m \in S : \A n \in S : m <= n
<1> DEFINE negative == [n \in S |-> -n]
           T == {negative[n] : n \in S}
<1>1. IsFiniteSet(T)
  <2>1. negative \in Surjection(S, T) BY DEF Surjection
  <2> HIDE DEF T
  <2> QED BY <2>1, FS_Surjection
<1>2. \A n \in S : n \in Int /\ negative[n] = -n /\ negative[n] \in Int
  OBVIOUS
<1> HIDE DEF negative
<1>3. T # {} /\ T \subseteq Int
  BY <1>2
<1>4. PICK k \in T : \A j \in T : j <= k
  <2> HIDE DEF T
  <2> QED BY <1>1, <1>3, GreatestOfFinite
<1>5. PICK m \in S : k = negative[m] BY <1>4
<1>6. \A n \in S : negative[n] <= negative[m] BY <1>4, <1>5
<1>7. \A n \in S : m <= n
  <2> TAKE n \in S
  <2>1. n \in Int /\ m \in Int /\ -n <= -m BY <1>2, <1>6
  <2> QED BY <2>1
<1> QED BY <1>7

\* A set of natural numbers that is not empty has a least element.
LEMMA LeastNatural ==
  ASSUME NEW S \in SUBSET Nat, S # {}
  PROVE  \E m \in S : \A n \in S : m <= n
<1> DEFINE R == {pair \in Nat \X Nat : pair[1] < pair[2]}
<1>1. IsWellFoundedOn(R, Nat) BY NatLessThanWellFounded, Zenon DEF OpToRel
<1>2. \A m, n \in Nat : n < m => <<n, m>> \in R OBVIOUS
<1> HIDE DEF R
<1>3. PICK m \in S : \A n \in S : ~(<<n, m>> \in R) BY <1>1, WFMin
<1>4. \A n \in S : ~(n < m) BY <1>2, <1>3
<1>5. \A n \in S : m <= n BY <1>4
<1> QED BY <1>5

-----------------------------------------------------------------------------
(* Elements by their rank.                                                 *)

LEMMA RanksGrow ==
  ASSUME NEW S, IsFiniteSet(S), \A j \in S : j \in Nat, NEW i \in S, NEW k \in S, i < k
  PROVE  Cardinality(UpTo(S, i)) < Cardinality(UpTo(S, k))
<1>1. UpTo(S, i) \subseteq UpTo(S, k) /\ k \in UpTo(S, k) /\ k \notin UpTo(S, i)
  BY DEF UpTo
<1>2. IsFiniteSet(UpTo(S, i)) /\ IsFiniteSet(UpTo(S, k)) BY FS_Subset DEF UpTo
<1>3. /\ Cardinality(UpTo(S, i)) \in Nat /\ Cardinality(UpTo(S, k)) \in Nat
      /\ Cardinality(UpTo(S, i)) <= Cardinality(UpTo(S, k))
      /\ Cardinality(UpTo(S, i)) = Cardinality(UpTo(S, k)) => UpTo(S, i) = UpTo(S, k)
  BY <1>1, <1>2, FS_Subset, FS_CardinalityType
<1> QED BY <1>1, <1>3

\* What is found at a rank.
LEMMA NthIs ==
  ASSUME NEW S, IsFiniteSet(S), \A j \in S : j \in Nat, NEW i \in S
  PROVE  Nth(S, Cardinality(UpTo(S, i))) = i
<1> DEFINE n == Cardinality(UpTo(S, i))
           k == Nth(S, n)
<1>1. k \in S /\ Cardinality(UpTo(S, k)) = n BY DEF Nth
<1>2. \A j \in S : Cardinality(UpTo(S, j)) \in Nat
  BY FS_Subset, FS_CardinalityType DEF UpTo
<1> HIDE DEF k, n
<1>3. ~(k < i) /\ ~(i < k)
  <2>1. Cardinality(UpTo(S, k)) = Cardinality(UpTo(S, i)) BY <1>1 DEF n
  <2> QED BY <1>1, <1>2, <2>1, RanksGrow
<1>4. k \in Nat /\ i \in Nat BY <1>1
<1> QED BY <1>3, <1>4 DEF k, n

\* Every rank is taken.
LEMMA NthFound ==
  ASSUME NEW S, IsFiniteSet(S), \A j \in S : j \in Nat, NEW n \in 1..Cardinality(S)
  PROVE  Nth(S, n) \in S /\ Cardinality(UpTo(S, Nth(S, n))) = n
<1> DEFINE T == {m \in Nat : Cardinality(UpTo(S, m)) >= n}
<1>0. \A m : IsFiniteSet(UpTo(S, m)) /\ Cardinality(UpTo(S, m)) \in Nat
  BY FS_Subset, FS_CardinalityType DEF UpTo
<1>1. T # {}
  <2>1. S # {} BY FS_EmptySet
  <2>2. PICK m \in S : \A k \in S : k <= m BY <2>1, GreatestOfFinite
  <2>3. UpTo(S, m) = S BY <2>2 DEF UpTo
  <2>4. Cardinality(S) \in Nat BY FS_CardinalityType
  <2> QED BY <2>2, <2>3, <2>4
<1>2. PICK m \in T : \A k \in T : m <= k
  <2> HIDE DEF T
  <2>1. T \in SUBSET Nat BY DEF T
  <2> QED BY <1>1, <2>1, LeastNatural
<1>3. m \in Nat /\ Cardinality(UpTo(S, m)) >= n OBVIOUS
<1> DEFINE P == {j \in S : j < m}
<1>4. IsFiniteSet(P) /\ Cardinality(P) \in Nat /\ Cardinality(P) < n
  <2>1. CASE m = 0
    <3>1. P = {} BY <2>1
    <3> HIDE DEF P
    <3> QED BY <3>1, FS_EmptySet
  <2>2. CASE m # 0
    <3>1. P = UpTo(S, m - 1) BY <1>3, <2>2 DEF UpTo
    <3>2. m - 1 \in Nat /\ m - 1 \notin T BY <1>2, <1>3, <2>2
    <3> HIDE DEF P
    <3> QED BY <1>0, <3>1, <3>2
  <2> QED BY <2>1, <2>2
<1>5. m \in S
  <2> SUFFICES ASSUME m \notin S PROVE FALSE OBVIOUS
  <2>1. UpTo(S, m) = P BY <1>3 DEF UpTo
  <2> HIDE DEF P
  <2> QED BY <1>3, <1>4, <2>1
<1>6. Cardinality(UpTo(S, m)) = n
  <2>0. \A j \in S : j <= m <=> j < m \/ j = m BY <1>3
  <2>1. UpTo(S, m) = P \cup {m} BY <1>5, <2>0 DEF UpTo
  <2>3. m \notin P BY <1>3
  <2> HIDE DEF P
  <2>2. Cardinality(UpTo(S, m)) = Cardinality(P) + 1 BY <1>4, <2>1, <2>3, FS_AddElement
  <2> QED BY <1>3, <1>4, <2>2
<1> QED BY <1>5, <1>6, NthIs

LEMMA AscendingIsSeq ==
  ASSUME NEW S, IsFiniteSet(S), \A j \in S : j \in Nat
  PROVE  /\ Ascending(S) \in Seq(S) /\ Len(Ascending(S)) = Cardinality(S)
         /\ Cardinality(S) \in Nat
         /\ DOMAIN Ascending(S) = 1..Cardinality(S)
         /\ \A n \in 1..Cardinality(S) : Ascending(S)[n] = Nth(S, n) /\ Nth(S, n) \in S
         /\ \A i \in S : Cardinality(UpTo(S, i)) \in 1..Cardinality(S)
<1>1. Cardinality(S) \in Nat BY FS_CardinalityType
<1>2. \A n \in 1..Cardinality(S) : Nth(S, n) \in S BY NthFound
<1>3. Ascending(S) \in [1..Cardinality(S) -> S] BY <1>2 DEF Ascending
<1>4. ASSUME NEW i \in S PROVE Cardinality(UpTo(S, i)) \in 1..Cardinality(S)
  <2>1. UpTo(S, i) \subseteq S /\ i \in UpTo(S, i) BY DEF UpTo
  <2>2. Cardinality(UpTo(S, i)) <= Cardinality(S) BY <2>1, FS_Subset
  <2>3. IsFiniteSet(UpTo(S, i)) /\ UpTo(S, i) # {} BY <2>1, FS_Subset
  <2>4. Cardinality(UpTo(S, i)) \in Nat \ {0} BY <2>3, FS_EmptySet, FS_CardinalityType
  <2> QED BY <1>1, <2>2, <2>4
<1> QED BY <1>1, <1>2, <1>3, <1>4 DEF Ascending

\* A new element beyond the others comes last.
LEMMA AscendingAdds ==
  ASSUME NEW S, IsFiniteSet(S), \A j \in S : j \in Nat, NEW x \in Nat, \A i \in S : i < x
  PROVE  /\ IsFiniteSet(S \cup {x}) /\ Cardinality(S \cup {x}) = Cardinality(S) + 1
         /\ Nth(S \cup {x}, Cardinality(S) + 1) = x
         /\ \A n \in 1..Cardinality(S) : Nth(S \cup {x}, n) = Nth(S, n)
<1> DEFINE R == S \cup {x}
<1>1. x \notin S OBVIOUS
<1>2. IsFiniteSet(R) /\ Cardinality(R) = Cardinality(S) + 1 BY <1>1, FS_AddElement
<1>3. \A j \in R : j \in Nat OBVIOUS
<1>4. UpTo(R, x) = R /\ x \in R BY DEF UpTo
<1>5. \A i \in S : UpTo(R, i) = UpTo(S, i) /\ i \in R BY DEF UpTo
<1> HIDE DEF R
<1>6. Nth(R, Cardinality(S) + 1) = x BY <1>2, <1>3, <1>4, NthIs
<1>7. ASSUME NEW n \in 1..Cardinality(S) PROVE Nth(R, n) = Nth(S, n)
  <2>1. Nth(S, n) \in S /\ Cardinality(UpTo(S, Nth(S, n))) = n BY NthFound
  <2>2. Nth(S, n) \in R /\ Cardinality(UpTo(R, Nth(S, n))) = n BY <1>5, <2>1
  <2> QED BY <1>2, <1>3, <2>2, NthIs
<1> QED BY <1>2, <1>6, <1>7 DEF R

\* The places that are left when the first one of a sequence is taken away.
Moved(S) == {i \in Nat \ {0} : i + 1 \in S}

LEMMA AscendingMoves ==
  ASSUME NEW S, IsFiniteSet(S), \A j \in S : j \in Nat /\ j >= 1,
         NEW d \in {0, 1}, d = 1 <=> 1 \in S
  PROVE  /\ IsFiniteSet(Moved(S)) /\ Cardinality(S) = Cardinality(Moved(S)) + d
         /\ \A n \in 1..Cardinality(Moved(S)) : Nth(S, n + d) = Nth(Moved(S), n) + 1
<1> DEFINE From(m) == {j \in S : 1 < j /\ j <= m}
           To(m) == UpTo(Moved(S), m)
<1>0. \A m : IsFiniteSet(From(m)) /\ Cardinality(From(m)) \in Nat
  <2>1. \A m : From(m) \subseteq S OBVIOUS
  <2> HIDE DEF From
  <2> QED BY <2>1, FS_Subset, FS_CardinalityType
<1>1. ASSUME NEW m \in Nat
      PROVE  IsFiniteSet(To(m)) /\ Cardinality(To(m)) = Cardinality(From(m + 1))
  <2> DEFINE down == [j \in From(m + 1) |-> j - 1]
  <2>1. down \in Bijection(From(m + 1), To(m))
    <3>1. \A j \in From(m + 1) : j \in Nat /\ down[j] = j - 1 /\ j - 1 \in To(m)
      BY DEF UpTo, Moved
    <3>2. \A i \in To(m) : i + 1 \in From(m + 1) /\ down[i + 1] = i BY DEF UpTo, Moved
    <3> HIDE DEF From, To
    <3>3. down \in [From(m + 1) -> To(m)] BY <3>1
    <3> HIDE DEF down
    <3>4. \A j, k \in From(m + 1) : down[j] = down[k] => j = k BY <3>1
    <3> QED BY <3>2, <3>3, <3>4 DEF Bijection, Injection, Surjection, IsInjective
  <2> HIDE DEF From, To, down
  <2> QED BY <1>0, <2>1, FS_Bijection DEF ExistsBijection
<1>2. ASSUME NEW m \in Nat, m >= 1
      PROVE  Cardinality(UpTo(S, m)) = Cardinality(From(m)) + d
  <2>1. CASE d = 1
    <3>1. UpTo(S, m) = From(m) \cup {1} /\ 1 \notin From(m) BY <1>2, <2>1 DEF UpTo
    <3> HIDE DEF From
    <3> QED BY <1>0, <2>1, <3>1, FS_AddElement
  <2>2. CASE d = 0
    <3>1. UpTo(S, m) = From(m) BY <2>2 DEF UpTo
    <3> HIDE DEF From
    <3> QED BY <1>0, <2>2, <3>1
  <2> QED BY <2>1, <2>2
<1>3. IsFiniteSet(Moved(S)) /\ Cardinality(S) = Cardinality(Moved(S)) + d
  <2>1. CASE S = {}
    <3>1. Moved(S) = {} BY <2>1 DEF Moved
    <3> QED BY <2>1, <3>1, FS_EmptySet
  <2>2. CASE S # {}
    <3>1. PICK m \in S : \A k \in S : k <= m BY <2>2, GreatestOfFinite
    <3>2. m \in Nat /\ m >= 1 OBVIOUS
    <3>3. UpTo(S, m) = S /\ To(m) = Moved(S)
      <4>1. \A i \in Moved(S) : i <= m BY <3>1, <3>2 DEF Moved
      <4> QED BY <3>1, <4>1 DEF UpTo
    <3>4. From(m + 1) = From(m)
      <4>1. \A j \in S : j <= m /\ j <= m + 1 BY <3>1, <3>2
      <4> QED BY <4>1
    <3> HIDE DEF From, To
    <3> QED BY <1>1, <1>2, <3>2, <3>3, <3>4
  <2> QED BY <2>1, <2>2
<1>4. ASSUME NEW n \in 1..Cardinality(Moved(S))
      PROVE  Nth(S, n + d) = Nth(Moved(S), n) + 1
  <2>1. PICK i \in Moved(S) : i = Nth(Moved(S), n) /\ Cardinality(UpTo(Moved(S), i)) = n
    <3>1. \A j \in Moved(S) : j \in Nat BY DEF Moved
    <3> QED BY <1>3, <3>1, NthFound
  <2>2. i \in Nat /\ i + 1 \in S /\ i + 1 \in Nat /\ i + 1 >= 1 BY DEF Moved
  <2>3. Cardinality(UpTo(S, i + 1)) = n + d
    <3> HIDE DEF From
    <3> QED BY <1>1, <1>2, <2>1, <2>2
  <2> QED BY <2>1, <2>2, <2>3, NthIs
<1> QED BY <1>3, <1>4
=============================================================================
