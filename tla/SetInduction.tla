---------------------------- MODULE SetInduction ----------------------------
(***************************************************************************)
(* Induction over finite sets, by a least counterexample: a property is    *)
(* the set of those that have it.                                          *)
(***************************************************************************)
EXTENDS Integers, FiniteSetTheorems, WellFoundedInduction, TLAPS

\* The least element principle.
LEMMA LeastElement ==
    ASSUME NEW S \in SUBSET Nat, S # {}
    PROVE  \E m \in S : \A n \in S : m <= n
<1> DEFINE R == OpToRel(<, Nat)
<1>1. IsWellFoundedOn(R, Nat)
  BY NatLessThanWellFounded, Zenon
<1>2. \A m, n \in Nat : m < n => <<m, n>> \in R
  BY DEF OpToRel
<1> HIDE DEF R
<1>3. \E m \in S : \A n \in S : ~(<<n, m>> \in R)
  BY <1>1, WFMin, Zenon
<1>4. \A n \in S : n \in Nat
  OBVIOUS
<1>5. \A m, n \in Nat : ~(n < m) => m <= n
  OBVIOUS
<1>6. \A m, n \in S : <<n, m>> \notin R => m <= n
  BY <1>2, <1>4, <1>5
<1> QED
  BY <1>3, <1>6, Zenon

\* The largest of a bounded set of numbers.
LEMMA Greatest ==
  ASSUME NEW S \in SUBSET Nat, S # {}, NEW n \in Nat, \A i \in S : i <= n
  PROVE  \E m \in S : \A i \in S : i <= m
<1> DEFINE F == {n - i : i \in S}
<1>1. F \in SUBSET Nat /\ F # {}
  <2>1. \A i \in S : n - i \in Nat
    OBVIOUS
  <2>2. PICK i : i \in S
    OBVIOUS
  <2>3. n - i \in F
    BY <2>2
  <2> QED
    BY <2>1, <2>3
<1>2. PICK k \in F : \A j \in F : k <= j
  BY <1>1, LeastElement
<1>3. PICK m \in S : k = n - m
  BY <1>2
<1>4. ASSUME NEW i \in S PROVE i <= m
  <2>1. n - m <= n - i
    BY <1>2, <1>3
  <2> QED
    BY <2>1
<1> QED
  BY <1>4

\* Induction over the subsets of a finite set.
LEMMA Inductively ==
    ASSUME NEW S, IsFiniteSet(S), NEW F,
           \A T \in SUBSET S : (\A x \in T : T \ {x} \in F) => T \in F
    PROVE  \A T \in SUBSET S : T \in F
<1> DEFINE Counts == {Cardinality(T) : T \in {U \in SUBSET S : U \notin F}}
<1>1. \A T \in SUBSET S : IsFiniteSet(T) /\ Cardinality(T) \in Nat
  BY FS_Subset, FS_CardinalityType
<1>2. Counts \in SUBSET Nat
  BY <1>1
<1>3. SUFFICES ASSUME NEW U \in SUBSET S, U \notin F PROVE FALSE
  OBVIOUS
<1>4. Cardinality(U) \in Counts
  BY <1>3
<1>5. PICK k \in Counts : \A n \in Counts : k <= n
  BY <1>2, <1>4, LeastElement
<1>6. PICK T \in SUBSET S : T \notin F /\ k = Cardinality(T)
  BY <1>5
<1>7. PICK x \in T : T \ {x} \notin F
  BY <1>6
<1>8. Cardinality(T \ {x}) = k - 1 /\ k \in Nat /\ k - 1 < k
  BY <1>1, <1>6, FS_RemoveElement
<1>9. Cardinality(T \ {x}) \in Counts
  BY <1>7
<1>10. k <= Cardinality(T \ {x})
  BY <1>5, <1>9
<1> QED
  BY <1>8, <1>10

\* A finite set has an arrangement by any strict order on it: the element with
\* i - 1 others before it comes i-th.
StrictOn(R, S) ==
    /\ \A x \in S : <<x, x>> \notin R
    /\ \A x, y \in S : x # y => <<x, y>> \in R \/ <<y, x>> \in R
    /\ \A x, y, z \in S : <<x, y>> \in R /\ <<y, z>> \in R => <<x, z>> \in R
UpTo(R, S, x) == {y \in S : y = x \/ <<y, x>> \in R}

LEMMA Arranged ==
    ASSUME NEW S, IsFiniteSet(S), NEW R, StrictOn(R, S)
    PROVE  \E f \in [1..Cardinality(S) -> S] :
              /\ \A i, j \in 1..Cardinality(S) : i < j => <<f[i], f[j]>> \in R
              /\ \A x \in S : \E i \in 1..Cardinality(S) : f[i] = x
<1> DEFINE n == Cardinality(S)
           rank == [x \in S |-> Cardinality(UpTo(R, S, x))]
<1>1. n \in Nat
  BY FS_CardinalityType
<1>2. \A x \in S : UpTo(R, S, x) \in SUBSET S /\ x \in UpTo(R, S, x)
  BY DEF UpTo
<1>3. \A x \in S : IsFiniteSet(UpTo(R, S, x)) /\ rank[x] \in Nat /\ rank[x] <= n
  BY <1>2, FS_Subset, FS_CardinalityType
<1>4. \A x \in S : rank[x] # 0
  BY <1>2, <1>3, FS_EmptySet
<1>5. rank \in [S -> 1..n]
  BY <1>1, <1>3, <1>4
<1>6. ASSUME NEW x \in S, NEW y \in S, <<x, y>> \in R
      PROVE  rank[x] < rank[y]
  <2>1. UpTo(R, S, x) \in SUBSET UpTo(R, S, y)
    BY <1>6 DEF UpTo, StrictOn
  <2>2. y \notin UpTo(R, S, x)
    BY <1>6 DEF UpTo, StrictOn
  <2>3. UpTo(R, S, x) # UpTo(R, S, y)
    BY <1>2, <2>2
  <2>4. rank[x] <= rank[y] /\ rank[x] # rank[y]
    BY <1>3, <2>1, <2>3, FS_Subset
  <2> QED
    BY <1>3, <2>4
<1> HIDE DEF rank
<1>7. \A x, y \in S : rank[x] = rank[y] => x = y
  <2> SUFFICES ASSUME NEW x \in S, NEW y \in S, rank[x] = rank[y], x # y PROVE FALSE
    OBVIOUS
  <2>1. rank[x] < rank[y] \/ rank[y] < rank[x]
    BY <1>6 DEF StrictOn
  <2> QED
    BY <1>3, <2>1
<1>8. \A x, y \in S : rank[x] < rank[y] => <<x, y>> \in R
  <2> SUFFICES ASSUME NEW x \in S, NEW y \in S, rank[x] < rank[y], <<x, y>> \notin R
               PROVE  FALSE
    OBVIOUS
  <2>1. rank[x] \in Nat /\ rank[y] \in Nat
    BY <1>3
  <2>2. x # y
    BY <2>1
  <2>3. <<y, x>> \in R
    BY <2>2 DEF StrictOn
  <2>4. rank[y] < rank[x]
    BY <1>6, <2>3
  <2> QED
    BY <2>1, <2>4
<1>9. rank \in Injection(S, 1..n)
  BY <1>5, <1>7 DEF Injection, IsInjective
<1>10. IsFiniteSet(1..n) /\ Cardinality(1..n) = n
  BY <1>1, FS_Interval
<1>11. rank \in Surjection(S, 1..n)
  BY <1>9, <1>10, FS_Injection
<1>12. \A i \in 1..n : \E x \in S : rank[x] = i
  BY <1>11 DEF Surjection
<1> DEFINE f == [i \in 1..n |-> CHOOSE x \in S : rank[x] = i]
<1>13. \A i \in 1..n : f[i] \in S /\ rank[f[i]] = i
  BY <1>12
<1>14. \A x \in S : rank[x] \in 1..n /\ f[rank[x]] = x
  BY <1>5, <1>7, <1>13
<1>15. f \in [1..n -> S]
  BY <1>13
<1> HIDE DEF f
<1> QED
  BY <1>8, <1>13, <1>14, <1>15
=============================================================================
