---------------------------- MODULE NaturalLemmas ----------------------------
(***************************************************************************)
(* Extremes of sets of natural numbers, which the specifications take with *)
(* Min and Max: uids in one, row ids in the other; and ranks of the        *)
(* members of a finite set that some order lists.                          *)
(***************************************************************************)
EXTENDS Integers, FiniteSets, FiniteSetsExt, FiniteSetTheorems, WellFoundedInduction, TLAPS

\* A set of naturals has a least element, and Min is it.
LEMMA MinOfNaturals ==
  ASSUME NEW S \in SUBSET Nat, S # {}
  PROVE  Min(S) \in S /\ \A x \in S : Min(S) <= x
<1>1. \E x \in S : \A y \in S : ~(<<y, x>> \in OpToRel(<, Nat))
  BY NatLessThanWellFounded, WFMin
<1>2. PICK x \in S : \A y \in S : ~(<<y, x>> \in OpToRel(<, Nat))
  BY <1>1
<1>3. \A y \in S : x <= y
  <2>1. SUFFICES ASSUME NEW y \in S PROVE x <= y
    OBVIOUS
  <2>2. <<y, x>> \in Nat \X Nat
    OBVIOUS
  <2>3. ~(y < x)
    BY <1>2, <2>2 DEF OpToRel
  <2> QED BY <2>3
<1> QED BY <1>3 DEF Min

\* A bounded set of naturals has a greatest element, and Max is it.
LEMMA MaxOfBounded ==
  ASSUME NEW n \in Nat, NEW S \in SUBSET (0..n), S # {}
  PROVE  Max(S) \in S /\ \A x \in S : x <= Max(S)
<1> DEFINE T == {m \in 0..n : n - m \in S}
<1>1. T \in SUBSET Nat /\ T # {}
  <2>1. PICK x \in S : TRUE
    OBVIOUS
  <2>2. n - x \in 0..n /\ n - (n - x) = x
    OBVIOUS
  <2>3. n - x \in T
    BY <2>2
  <2>4. T \in SUBSET Nat
    OBVIOUS
  <2> QED BY <2>3, <2>4
<1>2. Min(T) \in T /\ \A m \in T : Min(T) <= m
  BY <1>1, MinOfNaturals
<1>3. n - Min(T) \in S
  BY <1>2
<1>4. \A x \in S : x <= n - Min(T)
  <2>1. SUFFICES ASSUME NEW x \in S PROVE x <= n - Min(T)
    OBVIOUS
  <2>2. n - x \in 0..n /\ n - (n - x) = x
    OBVIOUS
  <2>3. n - x \in T
    BY <2>2
  <2>4. Min(T) <= n - x /\ Min(T) \in Nat
    BY <1>2, <2>3
  <2> QED BY <2>4
<1> QED BY <1>3, <1>4 DEF Max

\* The values of a function on a finite set have a bound.  The library's
\* induction over finite sets is out of reach here, so this goes by a least
\* counterexample: a smallest subset on which the values have none.
LEMMA FiniteBounded ==
  ASSUME NEW S, IsFiniteSet(S), NEW f \in [S -> Nat]
  PROVE  \E b \in Nat : \A x \in S : f[x] <= b
<1> DEFINE Bounded(T) == \E b \in Nat : \A x \in T : f[x] <= b
           K == {k \in Nat : \E T \in SUBSET S : Cardinality(T) = k /\ ~Bounded(T)}
<1>1. SUFFICES ASSUME ~Bounded(S) PROVE FALSE
  OBVIOUS
<1>2. Cardinality(S) \in K
  BY <1>1, FS_CardinalityType
<1>3. Min(K) \in K /\ \A k \in K : Min(K) <= k
  <2>1. K \in SUBSET Nat /\ K # {}
    BY <1>2
  <2> QED BY <2>1, MinOfNaturals
<1>4. PICK T \in SUBSET S : Cardinality(T) = Min(K) /\ ~Bounded(T)
  BY <1>3
<1>5. PICK x \in T : TRUE
  <2>1. T # {}
    BY <1>4
  <2> QED BY <2>1
<1>6. IsFiniteSet(T)
  BY FS_Subset
<1>7. /\ Cardinality(T \ {x}) = Cardinality(T) - 1
      /\ IsFiniteSet(T \ {x})
  BY <1>6, FS_RemoveElement
<1>8. Bounded(T \ {x})
  <2>1. SUFFICES ASSUME ~Bounded(T \ {x}) PROVE FALSE
    OBVIOUS
  <2>2. Cardinality(T \ {x}) \in Nat
    BY <1>7, FS_CardinalityType
  <2>3. Cardinality(T \ {x}) \in K
    BY <2>1, <2>2
  <2>4. Min(K) <= Cardinality(T \ {x}) /\ Min(K) \in Nat
    BY <1>3, <2>3
  <2> QED BY <1>4, <1>7, <2>2, <2>4
<1>9. PICK b \in Nat : \A y \in T \ {x} : f[y] <= b
  BY <1>8
<1>10. b + f[x] \in Nat /\ \A y \in T : f[y] <= b + f[x]
  BY <1>9
<1> QED BY <1>4, <1>10

-----------------------------------------------------------------------------
(* Orders of finite sets, the window's newest first and the list's rows *)

\* What comes before what, on a finite set: a strict and total order.
Order(S, before) ==
  /\ before \in [S -> SUBSET S]
  /\ \A i \in S : i \notin before[i]
  /\ \A i, j \in S : j \in before[i] => before[j] \subseteq before[i]
  /\ \A i, j \in S : i = j \/ i \in before[j] \/ j \in before[i]

\* The one that k - 1 others come before.
Nth(before, k) == CHOOSE i \in DOMAIN before : Cardinality(before[i]) = k - 1

\* Every rank is that of one member.
LEMMA Ranks ==
  ASSUME NEW S, IsFiniteSet(S), NEW before, Order(S, before)
  PROVE  /\ Cardinality(S) \in Nat
         /\ \A i \in S : Cardinality(before[i]) \in 0..(Cardinality(S) - 1)
         /\ \A i, j \in S : Cardinality(before[i]) = Cardinality(before[j]) => i = j
         /\ \A k \in 1..Cardinality(S) :
              Nth(before, k) \in S /\ Cardinality(before[Nth(before, k)]) = k - 1
<1> DEFINE rank == [i \in S |-> Cardinality(before[i])]
           ranks == 0..(Cardinality(S) - 1)
<1>1. Cardinality(S) \in Nat
  BY FS_CardinalityType
<1>2. ASSUME NEW i \in S PROVE IsFiniteSet(before[i]) /\ Cardinality(before[i]) \in ranks
  <2>1. before[i] \subseteq S \ {i}
    BY DEF Order
  <2>2. IsFiniteSet(S \ {i}) /\ Cardinality(S \ {i}) = Cardinality(S) - 1
    BY FS_RemoveElement
  <2>3. IsFiniteSet(before[i]) /\ Cardinality(before[i]) <= Cardinality(S) - 1
    BY <2>1, <2>2, FS_Subset
  <2> QED BY <1>1, <2>3, FS_CardinalityType
<1>3. ASSUME NEW i \in S, NEW j \in S, j \in before[i]
      PROVE  Cardinality(before[i]) # Cardinality(before[j])
  <2>1. before[j] \in SUBSET before[i] /\ before[j] # before[i]
    BY <1>3 DEF Order
  <2> QED BY <1>2, <2>1, FS_Subset
<1>4. \A i, j \in S : Cardinality(before[i]) = Cardinality(before[j]) => i = j
  BY <1>3 DEF Order
<1>5. rank \in Injection(S, ranks)
  BY <1>2, <1>4 DEF Injection, IsInjective
<1>6. IsFiniteSet(ranks) /\ Cardinality(ranks) = Cardinality(S)
  <2>1. Cardinality(S) - 1 \in Int
    BY <1>1
  <2>2. /\ IsFiniteSet(ranks)
        /\ Cardinality(ranks) = IF 0 > Cardinality(S) - 1 THEN 0 ELSE Cardinality(S) - 1 - 0 + 1
    BY <2>1, FS_Interval
  <2> QED BY <1>1, <2>2
<1>7. rank \in Surjection(S, ranks)
  BY <1>5, <1>6, FS_Injection
<1>8. \A r \in ranks : \E i \in S : Cardinality(before[i]) = r
  BY <1>7 DEF Surjection
<1>9. ASSUME NEW k \in 1..Cardinality(S)
      PROVE  Nth(before, k) \in S /\ Cardinality(before[Nth(before, k)]) = k - 1
  <2>1. k - 1 \in ranks /\ DOMAIN before = S
    BY <1>1 DEF Order
  <2>2. \E i \in DOMAIN before : Cardinality(before[i]) = k - 1
    BY <1>8, <2>1
  <2> QED BY <2>1, <2>2 DEF Nth
<1> QED BY <1>1, <1>2, <1>4, <1>9

\* The members of a set of naturals that are greater than each.
Newer(S) == [i \in S |-> {j \in S : j > i}]

LEMMA NewerOrders ==
  ASSUME NEW S \in SUBSET Nat
  PROVE  Order(S, Newer(S))
<1> DEFINE before == Newer(S)
<1>0. \A i \in S : before[i] = {j \in S : j > i}
  BY DEF Newer
<1>1. before \in [S -> SUBSET S]
  BY DEF Newer
<1> HIDE DEF before
<1>2. \A i \in S : i \in Nat
  OBVIOUS
<1>3. \A i \in S : i \notin before[i]
  BY <1>0, <1>2
<1>4. ASSUME NEW i \in S, NEW j \in S, j \in before[i] PROVE before[j] \subseteq before[i]
  <2>1. SUFFICES ASSUME NEW k \in before[j] PROVE k \in before[i]
    OBVIOUS
  <2>2. k \in S /\ k > j /\ j > i
    BY <1>0, <1>4, <2>1
  <2>3. k > i
    BY <1>2, <2>2
  <2> QED BY <1>0, <2>2, <2>3
<1>5. ASSUME NEW i \in S, NEW j \in S PROVE i = j \/ i \in before[j] \/ j \in before[i]
  <2>1. i = j \/ i > j \/ j > i
    BY <1>2
  <2> QED BY <1>0, <2>1
<1>6. Order(S, before)
  BY <1>1, <1>3, <1>4, <1>5 DEF Order
<1> QED BY <1>6 DEF before

=============================================================================
