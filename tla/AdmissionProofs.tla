-------------------------- MODULE AdmissionProofs --------------------------
(***************************************************************************)
(* Proofs about transactions at documents and jobs.  Admission: racing      *)
(* admissions dispatch each content once, and their waits never form a     *)
(* circle.  Recovery: what it changes is as the plan saw it, and nobody's  *)
(* work.                                                                   *)
(***************************************************************************)
EXTENDS Admission, Recovery, FiniteSetTheorems, SequenceTheorems, WellFoundedInduction,
        TLAPS

-----------------------------------------------------------------------------
(* Finite sets of naturals.                                                *)

\* A nonempty set of natural numbers has a least element.
LEMMA Least ==
    ASSUME NEW S \in SUBSET Nat, S # {}
    PROVE  \E m \in S : \A n \in S : m <= n
<1> DEFINE R == OpToRel(<, Nat)
<1>1. IsWellFoundedOn(R, Nat)
  BY NatLessThanWellFounded, Zenon
<1>2. \A m, n \in Nat : m < n => <<m, n>> \in R
  BY DEF OpToRel
<1> HIDE DEF R
<1>3. \E m \in S : \A n \in S : ~(<<n, m>> \in R)
  BY <1>1, WFMin, Zenon
<1>4. \A n \in S : n \in Nat
  OBVIOUS
<1>5. \A m, n \in Nat : ~(n < m) => m <= n
  OBVIOUS
<1>6. \A m, n \in S : <<n, m>> \notin R => m <= n
  BY <1>2, <1>4, <1>5
<1> QED
  BY <1>3, <1>6, Zenon

\* A finite nonempty set of natural numbers has a greatest element: one with
\* the fewest elements above it has none.
LEMMA Greatest ==
    ASSUME NEW S \in SUBSET Nat, IsFiniteSet(S), S # {}
    PROVE  \E m \in S : \A n \in S : n <= m
<1> DEFINE Above(m) == {n \in S : m < n}
           Counts == {Cardinality(Above(m)) : m \in S}
<1>1. \A m \in S : IsFiniteSet(Above(m)) /\ Cardinality(Above(m)) \in Nat
  BY FS_Subset, FS_CardinalityType
<1>2. Counts \in SUBSET Nat /\ Counts # {}
  BY <1>1
<1>3. PICK k \in Counts : \A n \in Counts : k <= n
  BY <1>2, Least
<1>4. PICK m \in S : k = Cardinality(Above(m))
  BY <1>3
<1>5. SUFFICES ASSUME NEW n \in S, m < n PROVE FALSE
  BY <1>4
<1>6. Above(n) \in SUBSET Above(m)
  <2>1. \A i \in S : i \in Nat
    OBVIOUS
  <2>2. m \in Nat /\ n \in Nat /\ m < n
    BY <1>5, <2>1
  <2>3. \A l \in S : n < l => m < l
    BY <2>1, <2>2
  <2> QED BY <2>3, Zenon
<1>7. Above(n) # Above(m)
  BY <1>5
<1>8. Cardinality(Above(n)) <= Cardinality(Above(m))
      /\ Cardinality(Above(n)) # Cardinality(Above(m))
  <2> HIDE DEF Above
  <2> QED BY <1>1, <1>6, <1>7, FS_Subset
<1>9. Cardinality(Above(n)) \in Counts
  BY <1>5
<1> HIDE DEF Above, Counts
<1> QED
  BY <1>1, <1>2, <1>3, <1>4, <1>5, <1>8, <1>9

-----------------------------------------------------------------------------
(* The order of admission.                                                 *)

\* The counts that Order compares are of finite sets of positions.
LEMMA MembersCounted ==
    ASSUME NEW a \in Actors
    PROVE  IsFiniteSet(Members(a)) /\ Cardinality(Members(a)) \in Nat
<1>1. Listed[a] \in Seq(Bytes)
  BY AdmissionAssumption
<1>2. DOMAIN Listed[a] = 1..Len(Listed[a]) /\ Len(Listed[a]) \in Nat
  BY <1>1
<1>3. IsFiniteSet(DOMAIN Listed[a])
  <2>1. \A n \in Nat : IsFiniteSet(1..n)
    <3>1. \A n \in Nat : 1 \in Int /\ n \in Int
      OBVIOUS
    <3> QED BY <3>1, FS_Interval, Zenon
  <2>2. IsFiniteSet(1..Len(Listed[a]))
    BY <1>2, <2>1, Zenon
  <2> QED BY <1>2, <2>2, Zenon
<1>4. Members(a) \in SUBSET DOMAIN Listed[a]
  BY DEF Members
<1> QED
  BY <1>3, <1>4, FS_Subset, FS_CardinalityType

LEMMA Counted ==
    ASSUME NEW a \in Actors, NEW c \in Bytes
    PROVE  /\ IsFiniteSet(UpTo(a, c)) /\ Cardinality(UpTo(a, c)) \in Nat
           /\ IsFiniteSet(Before(a, c)) /\ Cardinality(Before(a, c)) \in Nat
<1>1. UpTo(a, c) \in SUBSET Members(a) /\ Before(a, c) \in SUBSET Members(a)
  BY DEF UpTo, Before
<1> QED
  BY <1>1, MembersCounted, FS_Subset, FS_CardinalityType

\* Hashes are natural numbers, and different contents have different ones.
LEMMA Hashes ==
    /\ \A c \in Bytes : Hash[c] \in Nat
    /\ \A c, d \in Bytes : Hash[c] = Hash[d] => c = d
BY AdmissionAssumption DEF Injection, IsInjective

\* Of a set of a container's members one comes last in hash order.
LEMMA LastOf ==
    ASSUME NEW a \in Actors, NEW T \in SUBSET Members(a), T # {}
    PROVE  \E i \in T : \A j \in T : Hash[Listed[a][j]] <= Hash[Listed[a][i]]
<1> DEFINE H(i) == Hash[Listed[a][i]]
<1>1. Listed[a] \in Seq(Bytes) /\ Members(a) \in SUBSET DOMAIN Listed[a]
  BY AdmissionAssumption DEF Members
<1>2. \A i \in T : H(i) \in Nat
  BY <1>1, Hashes
<1>3. IsFiniteSet(T)
  BY MembersCounted, FS_Subset
<1>4. IsFiniteSet({H(i) : i \in T})
  <2> DEFINE g == [i \in T |-> H(i)]
  <2>1. g \in Surjection(T, {H(i) : i \in T})
    BY DEF Surjection
  <2> QED BY <1>3, <2>1, FS_Surjection
<1>5. {H(i) : i \in T} \in SUBSET Nat /\ {H(i) : i \in T} # {}
  BY <1>2
<1>6. PICK m \in {H(i) : i \in T} : \A n \in {H(i) : i \in T} : n <= m
  BY <1>4, <1>5, Greatest
<1> QED
  BY <1>6

\* Every place in the order of a container is taken by one of its members:
\* that with the least hash among those up to which there are enough.
LEMMA Placed ==
    ASSUME NEW a \in Actors, NEW k \in 1..Cardinality(Members(a))
    PROVE  \E c \in Bytes : /\ Cardinality(Before(a, c)) < k
                            /\ k <= Cardinality(UpTo(a, c))
<1> DEFINE H(i) == Hash[Listed[a][i]]
           Enough == {i \in Members(a) : k <= Cardinality(UpTo(a, Listed[a][i]))}
<1>1. Listed[a] \in Seq(Bytes) /\ Members(a) \in SUBSET DOMAIN Listed[a]
  BY AdmissionAssumption DEF Members
<1>2. \A i \in Members(a) : Listed[a][i] \in Bytes /\ H(i) \in Nat
  BY <1>1, Hashes
<1>3. IsFiniteSet(Members(a)) /\ Cardinality(Members(a)) \in Nat
  BY MembersCounted
<1>4. Members(a) # {}
  BY <1>3, FS_EmptySet
<1>5. Enough # {}
  <2>1. PICK i \in Members(a) : \A j \in Members(a) : H(j) <= H(i)
    BY <1>4, LastOf
  <2>2. UpTo(a, Listed[a][i]) = Members(a)
    BY <2>1 DEF UpTo
  <2> QED BY <2>2
<1>6. PICK i \in Enough : \A j \in Enough : H(i) <= H(j)
  <2>1. {H(j) : j \in Enough} \in SUBSET Nat /\ {H(j) : j \in Enough} # {}
    BY <1>2, <1>5
  <2>2. PICK m \in {H(j) : j \in Enough} : \A n \in {H(j) : j \in Enough} : m <= n
    BY <2>1, Least
  <2> QED BY <2>2
<1> DEFINE c == Listed[a][i]
<1>7. c \in Bytes /\ k <= Cardinality(UpTo(a, c))
  BY <1>2, <1>6
<1>8. Cardinality(Before(a, c)) < k
  <2>1. SUFFICES ASSUME k <= Cardinality(Before(a, c)) PROVE FALSE
    BY <1>7, Counted
  <2>2. Before(a, c) # {}
    BY <2>1, FS_EmptySet
  <2>3. Before(a, c) \in SUBSET Members(a)
    BY DEF Before
  <2>4. PICK j \in Before(a, c) : \A l \in Before(a, c) : H(l) <= H(j)
    BY <2>2, <2>3, LastOf
  <2>5. j \in Members(a) /\ H(j) < H(i)
    BY <2>4 DEF Before
  <2>6. UpTo(a, Listed[a][j]) = Before(a, c)
    <3>1. \A l \in Members(a) : H(l) <= H(j) <=> H(l) < H(i)
      BY <1>2, <1>6, <2>4, <2>5 DEF Before
    <3> QED BY <3>1 DEF UpTo, Before
  <2>7. j \in Enough
    BY <2>1, <2>5, <2>6
  <2> QED
    BY <1>2, <1>6, <2>5, <2>7
<1> QED
  BY <1>7, <1>8

\* The operator Order arranges contents, those of a container in ascending
\* hash order, as admissionOrder sorts them, and each of them a member.
LEMMA Arranged ==
    ASSUME NEW a \in Actors
    PROVE  /\ Order[a] \in Seq(Bytes)
           /\ a # Scan => \A i, j \in 1..Len(Order[a]) :
                i < j => Hash[Order[a][i]] <= Hash[Order[a][j]]
<1>1. CASE a = Scan
  BY <1>1, AdmissionAssumption DEF Order
<1>2. CASE a # Scan
  <2> DEFINE n == Cardinality(Members(a))
             Kth(k) == CHOOSE c \in Bytes : /\ Cardinality(Before(a, c)) < k
                                           /\ k <= Cardinality(UpTo(a, c))
  <2>1. Order[a] = [k \in 1..n |-> Kth(k)]
    BY <1>2 DEF Order
  <2>2. \A k \in 1..n : /\ Kth(k) \in Bytes
                        /\ Cardinality(Before(a, Kth(k))) < k
                        /\ k <= Cardinality(UpTo(a, Kth(k)))
    BY Placed
  <2> HIDE DEF Kth
  <2>3. n \in Nat
    BY MembersCounted
  <2> HIDE DEF n
  <2>4. Order[a] \in Seq(Bytes) /\ Len(Order[a]) = n
    BY <2>1, <2>2, <2>3
  <2>5. ASSUME NEW i \in 1..n, NEW j \in 1..n, i < j,
               Hash[Kth(j)] < Hash[Kth(i)]
        PROVE  FALSE
    <3>1. UpTo(a, Kth(j)) \in SUBSET Before(a, Kth(i))
      <4>1. \A l \in Members(a) : Hash[Listed[a][l]] \in Nat
        BY AdmissionAssumption, Hashes DEF Members
      <4>2. Hash[Kth(i)] \in Nat /\ Hash[Kth(j)] \in Nat
        BY <2>2, Hashes
      <4> QED BY <2>5, <4>1, <4>2 DEF UpTo, Before
    <3>2. Cardinality(UpTo(a, Kth(j))) <= Cardinality(Before(a, Kth(i)))
      BY <3>1, <2>2, Counted, FS_Subset
    <3>3. Cardinality(UpTo(a, Kth(j))) \in Nat /\ Cardinality(Before(a, Kth(i))) \in Nat
      BY <2>2, Counted
    <3> QED
      BY <2>2, <2>3, <2>5, <3>2, <3>3
  <2>6. \A i, j \in 1..n : i < j => Hash[Kth(i)] <= Hash[Kth(j)]
    BY <2>2, <2>5, Hashes
  <2>7. \A i \in 1..n : Order[a][i] = Kth(i)
    BY <2>1
  <2> QED
    BY <2>4, <2>6, <2>7
<1> QED
  BY <1>1, <1>2

\* Between two contents of which one comes before the other in hash order, the
\* members up to the one are members before the other.
LEMMA Apart ==
    ASSUME NEW a \in Actors, NEW c \in Bytes, NEW d \in Bytes, Hash[c] < Hash[d]
    PROVE  Cardinality(UpTo(a, c)) <= Cardinality(Before(a, d))
<1>1. \A i \in Members(a) : Hash[Listed[a][i]] \in Nat
  BY AdmissionAssumption, Hashes DEF Members
<1>2. Hash[c] \in Nat /\ Hash[d] \in Nat
  BY Hashes
<1>3. UpTo(a, c) \in SUBSET Before(a, d)
  BY <1>1, <1>2 DEF UpTo, Before
<1> QED
  BY <1>3, Counted, FS_Subset

\* A container's order has each of its members, and nothing else.
LEMMA Complete ==
    ASSUME NEW a \in Actors, a # Scan
    PROVE  /\ \A k \in 1..Len(Order[a]) :
                 \E i \in Members(a) : Order[a][k] = Listed[a][i]
           /\ \A i \in Members(a) :
                 \E k \in 1..Len(Order[a]) : Listed[a][i] = Order[a][k]
<1> DEFINE n == Cardinality(Members(a))
           Fits(c, k) == /\ Cardinality(Before(a, c)) < k
                         /\ k <= Cardinality(UpTo(a, c))
           Kth(k) == CHOOSE c \in Bytes : Fits(c, k)
<1>1. Order[a] = [k \in 1..n |-> Kth(k)]
  BY DEF Order
<1>2. \A k \in 1..n : Kth(k) \in Bytes /\ Fits(Kth(k), k)
  BY Placed
<1> HIDE DEF Kth
<1>3. n \in Nat
  BY MembersCounted
<1>4. Len(Order[a]) = n
  <2> HIDE DEF n, Fits
  <2> QED BY <1>1, <1>2, <1>3
<1>5. \A k \in 1..n : Order[a][k] = Kth(k)
  BY <1>1
<1>6. Listed[a] \in Seq(Bytes) /\ Members(a) \in SUBSET DOMAIN Listed[a]
  BY AdmissionAssumption DEF Members
<1>7. \A i \in Members(a) : Listed[a][i] \in Bytes
  BY <1>6
<1>8. ASSUME NEW k \in 1..n PROVE \E i \in Members(a) : Kth(k) = Listed[a][i]
  <2>1. Kth(k) \in Bytes /\ Fits(Kth(k), k)
    BY <1>2
  <2>2. UpTo(a, Kth(k)) # Before(a, Kth(k))
    BY <2>1, <1>3, Counted
  <2>3. Before(a, Kth(k)) \in SUBSET UpTo(a, Kth(k))
    BY <2>1, <1>7, Hashes DEF UpTo, Before
  <2>4. PICK i \in UpTo(a, Kth(k)) : i \notin Before(a, Kth(k))
    BY <2>2, <2>3
  <2>5. i \in Members(a) /\ Hash[Listed[a][i]] = Hash[Kth(k)]
    BY <2>1, <2>4, <1>7, Hashes DEF UpTo, Before
  <2> QED BY <2>1, <2>5, <1>7, Hashes
<1>9. ASSUME NEW i \in Members(a) PROVE \E k \in 1..n : Kth(k) = Listed[a][i]
  <2> DEFINE c == Listed[a][i]
             k == Cardinality(UpTo(a, c))
  <2>1. c \in Bytes /\ Hash[c] \in Nat
    BY <1>7, Hashes
  <2>2. k \in Nat /\ Cardinality(Before(a, c)) \in Nat
    BY <2>1, Counted
  <2>3. Cardinality(Before(a, c)) < k
    <3>1. Before(a, c) \in SUBSET UpTo(a, c)
      BY <2>1, <1>7, Hashes DEF UpTo, Before
    <3>2. i \in UpTo(a, c) /\ i \notin Before(a, c)
      BY <2>1 DEF UpTo, Before
    <3>3. IsFiniteSet(UpTo(a, c))
      BY <2>1, Counted
    <3>4. Cardinality(Before(a, c)) # Cardinality(UpTo(a, c))
      BY <3>1, <3>2, <3>3, FS_Subset
    <3>5. Cardinality(Before(a, c)) <= Cardinality(UpTo(a, c))
      BY <3>1, <3>3, FS_Subset
    <3> QED BY <2>2, <3>4, <3>5
  <2>4. k \in 1..n
    <3>1. UpTo(a, c) \in SUBSET Members(a)
      BY DEF UpTo
    <3>2. k <= n
      BY <3>1, MembersCounted, FS_Subset
    <3> QED BY <2>2, <2>3, <3>2, <1>3
  <2> HIDE DEF k, n
  <2>5. Kth(k) \in Bytes /\ Fits(Kth(k), k)
    BY <2>4, <1>2
  <2>6. Cardinality(Before(a, Kth(k))) \in Nat /\ Cardinality(UpTo(a, Kth(k))) \in Nat
    BY <2>5, Counted
  <2>7. ~(Hash[Kth(k)] < Hash[c])
    <3>1. SUFFICES ASSUME Hash[Kth(k)] < Hash[c] PROVE FALSE
      OBVIOUS
    <3>2. Cardinality(UpTo(a, Kth(k))) <= Cardinality(Before(a, c))
      BY <3>1, <2>1, <2>5, Apart
    <3> QED BY <3>2, <2>2, <2>3, <2>5, <2>6
  <2>8. ~(Hash[c] < Hash[Kth(k)])
    <3>1. SUFFICES ASSUME Hash[c] < Hash[Kth(k)] PROVE FALSE
      OBVIOUS
    <3>2. Cardinality(UpTo(a, c)) <= Cardinality(Before(a, Kth(k)))
      BY <3>1, <2>1, <2>5, Apart
    <3> QED BY <3>2, <2>2, <2>5, <2>6 DEF k
  <2>9. Hash[Kth(k)] = Hash[c]
    BY <2>1, <2>5, <2>7, <2>8, Hashes
  <2> QED BY <2>1, <2>4, <2>5, <2>9, Hashes
<1> HIDE DEF n, Fits
<1>10. \A k \in 1..n : \E i \in Members(a) : Order[a][k] = Listed[a][i]
  BY <1>5, <1>8
<1>11. \A i \in Members(a) : \E k \in 1..n : Listed[a][i] = Order[a][k]
  BY <1>5, <1>9
<1> QED
  BY <1>4, <1>10, <1>11

-----------------------------------------------------------------------------
(* The inductive invariant.                                                *)

\* The rows that a transaction is inserting are those it has created.
Owned(a) == \A c \in Bytes : stub[c] = a <=> c \in actor[a].created

\* While it goes on, it has created only what comes before in its order, the
\* scan nothing at all; and a statement that finds no row is not looking for a
\* row of its own.
OnItsWay(a) ==
    /\ actor[a].next >= 1
    /\ actor[a].at # "read" => actor[a].next <= Len(Order[a])
    /\ actor[a].at # "over" => \A c \in actor[a].created :
          /\ a # Scan
          /\ \E i \in 1..Len(Order[a]) : i < actor[a].next /\ Order[a][i] = c
    /\ actor[a].at = "insert" => stub[Due(a)] # a

ActorInv(a) == Owned(a) /\ OnItsWay(a)

\* At most one publication of a content, and one exactly when it is committed.
ContentInv(c) ==
    /\ \A a, b \in published[c] : a = b
    /\ published[c] # {} <=> stub[c] = "committed"

IInv ==
    /\ AdmissionTypeOK
    /\ \A a \in Actors : ActorInv(a)
    /\ \A c \in Bytes : ContentInv(c)

-----------------------------------------------------------------------------
(* The steps.                                                              *)

\* No actor is one of the two other values of a row.
LEMMA ActorIsNoValue == \A a \in Actors : a # "none" /\ a # "committed"
BY AdmissionAssumption

\* What is due is one of the contents.
LEMMA DueType ==
    ASSUME NEW a \in Actors, ActorInv(a), AdmissionTypeOK,
           actor[a].next <= Len(Order[a])
    PROVE  /\ actor[a].next \in 1..Len(Order[a])
           /\ Len(Order[a]) \in Nat
           /\ Due(a) \in Bytes
<1>1. Order[a] \in Seq(Bytes) /\ Len(Order[a]) \in Nat
  BY Arranged
<1>2. actor[a].next \in Nat /\ actor[a].next >= 1
  BY DEF AdmissionTypeOK, Progress, ActorInv, OnItsWay
<1>3. actor[a].next \in 1..Len(Order[a])
  BY <1>1, <1>2
<1> QED
  BY <1>1, <1>3 DEF Due

LEMMA InitInv == AdmissionInit => IInv
<1> SUFFICES ASSUME AdmissionInit PROVE IInv
  OBVIOUS
<1>1. AdmissionTypeOK
  <2>1. Fresh(1) \in Progress
    BY DEF Fresh, Progress
  <2> QED BY <2>1, AdmissionAssumption DEF AdmissionInit, AdmissionTypeOK
<1>2. ASSUME NEW a \in Actors PROVE ActorInv(a)
  <2>1. actor[a] = Fresh(1)
    BY DEF AdmissionInit
  <2> QED
    BY <2>1, ActorIsNoValue DEF AdmissionInit, ActorInv, Owned, OnItsWay, Fresh
<1>3. ASSUME NEW c \in Bytes PROVE ContentInv(c)
  BY DEF AdmissionInit, ContentInv
<1> QED
  BY <1>1, <1>2, <1>3 DEF IInv

\* Whoever does not move, and whose rows do not change, keeps its invariant.
LEMMA StaysPut ==
    ASSUME AdmissionTypeOK, NEW b \in Actors, ActorInv(b), actor'[b] = actor[b],
           \A c \in Bytes : stub'[c] = b <=> stub[c] = b
    PROVE  ActorInv(b)'
<1>1. Owned(b)'
  BY DEF ActorInv, Owned
<1>2. OnItsWay(b)'
  <2>1. actor[b].at = "insert" => Due(b) \in Bytes
    BY DueType DEF ActorInv, OnItsWay
  <2> QED
    BY <2>1 DEF ActorInv, OnItsWay, Due
<1> QED
  BY <1>1, <1>2 DEF ActorInv

\* The step to the next member.
LEMMA Advance ==
    ASSUME AdmissionTypeOK, NEW a \in Actors, ActorInv(a), Admitting(a),
           NEW made \in SUBSET Bytes, Admitted(a, made),
           \A c \in made : c \in actor[a].created \/ c = Due(a),
           \A c \in Bytes : stub'[c] = a <=> c \in made
    PROVE  /\ actor' \in [Actors -> Progress]
           /\ ActorInv(a)'
           /\ \A b \in Actors : b # a => actor'[b] = actor[b]
<1> DEFINE n == actor[a].next
           more == a # Scan /\ n < Len(Order[a])
<1>1. /\ n \in 1..Len(Order[a]) /\ Len(Order[a]) \in Nat /\ n \in Nat
      /\ Due(a) = Order[a][n]
      /\ actor[a].at # "over"
  BY DueType DEF Admitting, Due
<1>2. actor \in [Actors -> Progress]
  BY DEF AdmissionTypeOK
<1>3. \A b \in Actors : b # a => actor'[b] = actor[b]
  BY <1>2 DEF Admitted
<1>4. /\ more => actor'[a] = [at |-> "read", next |-> n + 1, created |-> made]
      /\ ~more => actor'[a] = [at |-> "over", next |-> n, created |-> made]
  BY <1>2 DEF Admitted
<1>5. actor'[a] \in Progress
  BY <1>1, <1>4 DEF Progress
<1>6. actor' \in [Actors -> Progress]
  BY <1>2, <1>5 DEF Admitted
<1>7. actor'[a].created = made
  BY <1>4
<1>8. Owned(a)'
  BY <1>7 DEF Owned
<1>9. OnItsWay(a)'
  <2>1. CASE more
    <3>1. actor'[a].at = "read" /\ actor'[a].next = n + 1
      BY <1>4, <2>1
    <3>2. ASSUME NEW c \in made
          PROVE  \E i \in 1..Len(Order[a]) : i < n + 1 /\ Order[a][i] = c
      <4>1. CASE c = Due(a)
        BY <1>1, <4>1
      <4>2. CASE c \in actor[a].created
        <5>1. PICK i \in 1..Len(Order[a]) : i < n /\ Order[a][i] = c
          BY <1>1, <4>2 DEF ActorInv, OnItsWay
        <5> QED BY <1>1, <5>1
      <4> QED BY <3>2, <4>1, <4>2
    <3> QED
      BY <1>1, <1>7, <2>1, <3>1, <3>2 DEF OnItsWay
  <2>2. CASE ~more
    <3>1. actor'[a].at = "over" /\ actor'[a].next = n
      BY <1>4, <2>2
    <3> QED
      BY <1>1, <3>1 DEF OnItsWay
  <2> QED BY <2>1, <2>2
<1> QED
  BY <1>3, <1>6, <1>8, <1>9 DEF ActorInv

LEMMA ReadKeeps ==
    ASSUME IInv, NEW a \in Actors, ReadStub(a) PROVE IInv'
<1>0. AdmissionTypeOK /\ ActorInv(a) /\ Admitting(a) /\ stub' = stub
      /\ published' = published /\ held' = held /\ rollbacks' = rollbacks
  BY DEF IInv, ReadStub
<1>1. Due(a) \in Bytes
  BY <1>0, DueType DEF Admitting
<1>2. /\ actor' \in [Actors -> Progress]
      /\ ActorInv(a)'
      /\ \A b \in Actors : b # a => actor'[b] = actor[b]
  <2>1. CASE Seen(a, Due(a))
    <3>1. Admitted(a, actor[a].created)
      BY <2>1 DEF ReadStub
    <3>2. actor[a].created \in SUBSET Bytes
      BY <1>0 DEF AdmissionTypeOK, Progress
    <3>3. \A c \in Bytes : stub'[c] = a <=> c \in actor[a].created
      BY <1>0 DEF ActorInv, Owned
    <3> QED BY <1>0, <3>1, <3>2, <3>3, Advance
  <2>2. CASE ~Seen(a, Due(a))
    <3>1. actor' = [actor EXCEPT ![a].at = "insert"]
      BY <2>2 DEF ReadStub
    <3>2. actor \in [Actors -> Progress]
      BY <1>0 DEF AdmissionTypeOK
    <3>3. /\ actor'[a].at = "insert" /\ actor'[a].next = actor[a].next
          /\ actor'[a].created = actor[a].created
      BY <3>1, <3>2 DEF Progress
    <3>4. actor' \in [Actors -> Progress]
      BY <3>1, <3>2 DEF Progress
    <3>5. Owned(a)'
      BY <1>0, <3>3 DEF ActorInv, Owned
    <3>6. OnItsWay(a)'
      <4>1. stub[Due(a)] # a
        BY <2>2 DEF Seen
      <4> QED
        BY <1>0, <3>3, <4>1 DEF ActorInv, OnItsWay, Admitting, Due
    <3> QED BY <3>1, <3>2, <3>4, <3>5, <3>6 DEF ActorInv
  <2> QED BY <2>1, <2>2
<1>3. AdmissionTypeOK'
  BY <1>0, <1>2 DEF AdmissionTypeOK
<1>4. \A b \in Actors : ActorInv(b)'
  BY <1>0, <1>2, StaysPut DEF IInv
<1>5. \A c \in Bytes : ContentInv(c)'
  BY <1>0 DEF IInv, ContentInv
<1> QED
  BY <1>3, <1>4, <1>5 DEF IInv

LEMMA ConflictKeeps ==
    ASSUME IInv, NEW a \in Actors, Conflict(a) PROVE IInv'
<1>0. AdmissionTypeOK /\ ActorInv(a) /\ stub' = stub /\ actor[a].at = "insert"
      /\ published' = published /\ held' = held /\ rollbacks' = rollbacks
  BY DEF IInv, Conflict
<1>1. actor \in [Actors -> Progress] /\ actor' = [actor EXCEPT ![a].at = "reread"]
  BY <1>0 DEF AdmissionTypeOK, Conflict
<1>2. /\ actor'[a].at = "reread" /\ actor'[a].next = actor[a].next
      /\ actor'[a].created = actor[a].created
  BY <1>1 DEF Progress
<1>3. actor' \in [Actors -> Progress]
  BY <1>1 DEF Progress
<1>4. ActorInv(a)'
  BY <1>0, <1>2 DEF ActorInv, Owned, OnItsWay
<1>5. \A b \in Actors : b # a => actor'[b] = actor[b]
  BY <1>1
<1>6. AdmissionTypeOK'
  BY <1>0, <1>3 DEF AdmissionTypeOK
<1>7. \A b \in Actors : ActorInv(b)'
  BY <1>0, <1>4, <1>5, StaysPut DEF IInv
<1>8. \A c \in Bytes : ContentInv(c)'
  BY <1>0 DEF IInv, ContentInv
<1> QED
  BY <1>6, <1>7, <1>8 DEF IInv

LEMMA InsertKeeps ==
    ASSUME IInv, NEW a \in Actors, InsertStub(a) PROVE IInv'
<1>0. AdmissionTypeOK /\ ActorInv(a) /\ actor[a].at = "insert"
      /\ stub[Due(a)] = "none" /\ stub' = [stub EXCEPT ![Due(a)] = a]
      /\ published' = published /\ held' = held /\ rollbacks' = rollbacks
  BY DEF IInv, InsertStub
<1>1. Admitting(a) /\ Due(a) \in Bytes
  BY <1>0, DueType DEF ActorInv, OnItsWay, Admitting
<1>2. stub \in [Bytes -> {"none", "committed"} \union Actors]
  BY <1>0 DEF AdmissionTypeOK
<1>3. \A c \in Bytes : stub'[c] = IF c = Due(a) THEN a ELSE stub[c]
  BY <1>0, <1>1, <1>2
<1>4. /\ actor' \in [Actors -> Progress]
      /\ ActorInv(a)'
      /\ \A b \in Actors : b # a => actor'[b] = actor[b]
  <2> DEFINE made == actor[a].created \union {Due(a)}
  <2>1. Admitted(a, made)
    BY DEF InsertStub
  <2>2. made \in SUBSET Bytes
    BY <1>0, <1>1 DEF AdmissionTypeOK, Progress
  <2>3. \A c \in Bytes : stub'[c] = a <=> c \in made
    BY <1>0, <1>3 DEF ActorInv, Owned
  <2>4. \A c \in made : c \in actor[a].created \/ c = Due(a)
    OBVIOUS
  <2> HIDE DEF made
  <2> QED BY <1>0, <1>1, <2>1, <2>2, <2>3, <2>4, Advance
<1>5. AdmissionTypeOK'
  BY <1>0, <1>2, <1>4 DEF AdmissionTypeOK
<1>6. ASSUME NEW b \in Actors PROVE ActorInv(b)'
  <2>1. CASE b = a
    BY <1>4, <2>1
  <2>2. CASE b # a
    <3>1. \A c \in Bytes : stub'[c] = b <=> stub[c] = b
      BY <1>0, <1>3, <2>2, ActorIsNoValue
    <3> QED BY <1>0, <1>4, <2>2, <3>1, StaysPut DEF IInv
  <2> QED BY <2>1, <2>2
<1>7. ASSUME NEW c \in Bytes PROVE ContentInv(c)'
  <2>1. stub'[c] = "committed" <=> stub[c] = "committed"
    BY <1>0, <1>3, ActorIsNoValue
  <2> QED BY <1>0, <2>1 DEF IInv, ContentInv
<1> QED
  BY <1>5, <1>6, <1>7 DEF IInv

LEMMA RereadKeeps ==
    ASSUME IInv, NEW a \in Actors, Reread(a) PROVE IInv'
<1>0. AdmissionTypeOK /\ ActorInv(a) /\ stub' = stub /\ actor[a].at = "reread"
      /\ Admitted(a, actor[a].created)
      /\ published' = published /\ held' = held /\ rollbacks' = rollbacks
  BY DEF IInv, Reread
<1>1. Admitting(a)
  BY <1>0 DEF ActorInv, OnItsWay, Admitting
<1>2. actor[a].created \in SUBSET Bytes
  BY <1>0 DEF AdmissionTypeOK, Progress
<1>3. \A c \in Bytes : stub'[c] = a <=> c \in actor[a].created
  BY <1>0 DEF ActorInv, Owned
<1>4. /\ actor' \in [Actors -> Progress]
      /\ ActorInv(a)'
      /\ \A b \in Actors : b # a => actor'[b] = actor[b]
  BY <1>0, <1>1, <1>2, <1>3, Advance
<1>5. AdmissionTypeOK'
  BY <1>0, <1>4 DEF AdmissionTypeOK
<1>6. \A b \in Actors : ActorInv(b)'
  BY <1>0, <1>4, StaysPut DEF IInv
<1>7. \A c \in Bytes : ContentInv(c)'
  BY <1>0 DEF IInv, ContentInv
<1> QED
  BY <1>5, <1>6, <1>7 DEF IInv

LEMMA CommitKeeps ==
    ASSUME IInv, NEW a \in Actors, CommitAdmission(a) PROVE IInv'
<1>0. AdmissionTypeOK /\ ActorInv(a) /\ actor[a].at = "over"
      /\ rollbacks' = rollbacks
  BY DEF IInv, CommitAdmission
<1>1. /\ stub \in [Bytes -> {"none", "committed"} \union Actors]
      /\ published \in [Bytes -> SUBSET Actors]
      /\ actor \in [Actors -> Progress]
      /\ held \subseteq Actors \X Bytes
  BY <1>0 DEF AdmissionTypeOK
<1>2. actor' = [actor EXCEPT ![a] = Fresh(actor[a].next + 1)]
  BY DEF CommitAdmission
<1>3. actor' \in [Actors -> Progress] /\ actor'[a] = Fresh(actor[a].next + 1)
  <2>1. Fresh(actor[a].next + 1) \in Progress
    BY <1>1 DEF Fresh, Progress
  <2> QED BY <1>1, <1>2, <2>1
<1>4. \A c \in Bytes : stub'[c] = IF stub[c] = a THEN "committed" ELSE stub[c]
  BY DEF CommitAdmission
<1>5. \A c \in Bytes : published'[c] =
         IF c \in actor[a].created THEN published[c] \union {a} ELSE published[c]
  BY DEF CommitAdmission
<1>6. AdmissionTypeOK'
  <2>1. stub' \in [Bytes -> {"none", "committed"} \union Actors]
    BY <1>1 DEF CommitAdmission
  <2>2. published' \in [Bytes -> SUBSET Actors]
    BY <1>1 DEF CommitAdmission
  <2>3. held' \subseteq Actors \X Bytes
    <3>1. \A i \in 1..actor[a].next : Order[a][i] \in Bytes
      <4>1. Order[a] \in Seq(Bytes) /\ Len(Order[a]) \in Nat
        BY Arranged
      <4>2. actor[a].next <= Len(Order[a]) /\ actor[a].next \in Nat
        BY <1>0, <1>1 DEF ActorInv, OnItsWay, Progress
      <4> QED BY <4>1, <4>2
    <3> QED BY <1>1, <3>1 DEF CommitAdmission
  <2> QED BY <1>0, <1>3, <2>1, <2>2, <2>3 DEF AdmissionTypeOK
<1>7. ASSUME NEW b \in Actors PROVE ActorInv(b)'
  <2>1. CASE b = a
    <3>1. /\ actor'[a].at = "read" /\ actor'[a].next = actor[a].next + 1
          /\ actor'[a].created = {}
      BY <1>3 DEF Fresh
    <3>2. \A c \in Bytes : stub'[c] # a
      BY <1>4, ActorIsNoValue
    <3>3. actor[a].next \in Nat
      BY <1>1 DEF Progress
    <3> QED BY <2>1, <3>1, <3>2, <3>3 DEF ActorInv, Owned, OnItsWay
  <2>2. CASE b # a
    <3>1. \A c \in Bytes : stub'[c] = b <=> stub[c] = b
      BY <1>4, <2>2, ActorIsNoValue
    <3>2. actor'[b] = actor[b]
      BY <1>1, <1>2, <2>2
    <3> QED BY <1>0, <3>1, <3>2, StaysPut DEF IInv
  <2> QED BY <2>1, <2>2
<1>8. ASSUME NEW c \in Bytes PROVE ContentInv(c)'
  <2>0. ContentInv(c) /\ (stub[c] = a <=> c \in actor[a].created)
    BY <1>0 DEF IInv, ActorInv, Owned
  <2>1. CASE stub[c] = a
    <3>1. published[c] = {}
      BY <2>0, <2>1, ActorIsNoValue DEF ContentInv
    <3>2. published'[c] = {a} /\ stub'[c] = "committed"
      BY <1>4, <1>5, <2>0, <2>1, <3>1
    <3> QED BY <3>2 DEF ContentInv
  <2>2. CASE stub[c] # a
    <3>1. published'[c] = published[c] /\ stub'[c] = stub[c]
      BY <1>4, <1>5, <2>0, <2>2
    <3> QED BY <2>0, <3>1 DEF ContentInv
  <2> QED BY <2>1, <2>2
<1> QED
  BY <1>6, <1>7, <1>8 DEF IInv

LEMMA RollBackKeeps ==
    ASSUME IInv, NEW a \in Actors, RollBack(a) PROVE IInv'
<1> DEFINE n == IF a = Scan THEN actor[a].next ELSE 1
<1>0. AdmissionTypeOK /\ ActorInv(a)
      /\ published' = published /\ held' = held
      /\ rollbacks < MaxRollbacks /\ rollbacks' = rollbacks + 1
  BY DEF IInv, RollBack
<1>1. /\ stub \in [Bytes -> {"none", "committed"} \union Actors]
      /\ actor \in [Actors -> Progress]
  BY <1>0 DEF AdmissionTypeOK
<1>2. n \in Nat /\ n >= 1
  BY <1>0, <1>1 DEF ActorInv, OnItsWay, Progress
<1>3. actor' = [actor EXCEPT ![a] = Fresh(n)]
  BY DEF RollBack
<1> HIDE DEF n
<1>4. actor' \in [Actors -> Progress] /\ actor'[a] = Fresh(n)
  <2>1. Fresh(n) \in Progress
    BY <1>2 DEF Fresh, Progress
  <2> QED BY <1>1, <1>3, <2>1
<1>5. \A c \in Bytes : stub'[c] = IF stub[c] = a THEN "none" ELSE stub[c]
  BY DEF RollBack
<1>6. AdmissionTypeOK'
  <2>1. stub' \in [Bytes -> {"none", "committed"} \union Actors]
    BY <1>1 DEF RollBack
  <2>2. rollbacks' \in 0..MaxRollbacks
    BY <1>0, AdmissionAssumption DEF AdmissionTypeOK
  <2> QED BY <1>0, <1>4, <2>1, <2>2 DEF AdmissionTypeOK
<1>7. ASSUME NEW b \in Actors PROVE ActorInv(b)'
  <2>1. CASE b = a
    <3>1. /\ actor'[a].at = "read" /\ actor'[a].next = n /\ actor'[a].created = {}
      BY <1>4 DEF Fresh
    <3>2. \A c \in Bytes : stub'[c] # a
      BY <1>5, ActorIsNoValue
    <3> QED BY <1>2, <2>1, <3>1, <3>2 DEF ActorInv, Owned, OnItsWay
  <2>2. CASE b # a
    <3>1. \A c \in Bytes : stub'[c] = b <=> stub[c] = b
      BY <1>5, <2>2, ActorIsNoValue
    <3>2. actor'[b] = actor[b]
      BY <1>1, <1>3, <2>2
    <3> QED BY <1>0, <3>1, <3>2, StaysPut DEF IInv
  <2> QED BY <2>1, <2>2
<1>8. ASSUME NEW c \in Bytes PROVE ContentInv(c)'
  <2>1. stub'[c] = "committed" <=> stub[c] = "committed"
    BY <1>5, ActorIsNoValue
  <2> QED BY <1>0, <2>1 DEF IInv, ContentInv
<1> QED
  BY <1>6, <1>7, <1>8 DEF IInv

LEMMA NextInv == IInv /\ [AdmissionNext]_admissionVars => IInv'
<1> SUFFICES ASSUME IInv, [AdmissionNext]_admissionVars PROVE IInv'
  OBVIOUS
<1>1. CASE \E a \in Actors : AdmissionStep(a) \/ RollBack(a)
  <2>1. PICK a \in Actors : AdmissionStep(a) \/ RollBack(a)
    BY <1>1
  <2> QED
    BY <2>1, ReadKeeps, ConflictKeeps, InsertKeeps, RereadKeeps, CommitKeeps,
       RollBackKeeps DEF AdmissionStep
<1>2. CASE UNCHANGED admissionVars
  BY <1>2 DEF admissionVars, IInv, AdmissionTypeOK, ActorInv, Owned, OnItsWay,
              Due, ContentInv
<1> QED
  BY <1>1, <1>2 DEF AdmissionNext, AllAdmitted

-----------------------------------------------------------------------------
(* The theorems.                                                           *)

\* Whoever is waited for within a set of waiting admissions waits for content
\* with a larger hash than those who wait for it.
LEMMA Upwards ==
    ASSUME IInv, NEW a \in Actors, NEW b \in Blocker(a), Blocker(b) # {}
    PROVE  b \in Actors /\ Hash[Due(a)] < Hash[Due(b)]
<1>1. actor[a].at = "insert" /\ b = stub[Due(a)] /\ b # "none" /\ b # "committed"
  BY DEF Blocker
<1>2. ActorInv(a) /\ AdmissionTypeOK
  BY DEF IInv
<1>3. Due(a) \in Bytes
  BY <1>1, <1>2, DueType DEF ActorInv, OnItsWay
<1>4. b \in Actors
  BY <1>1, <1>2, <1>3 DEF AdmissionTypeOK
<1>5. actor[b].at = "insert" /\ ActorInv(b)
  BY <1>4 DEF Blocker, IInv
<1>6. /\ actor[b].next \in 1..Len(Order[b]) /\ Len(Order[b]) \in Nat
      /\ Due(b) \in Bytes /\ Due(b) = Order[b][actor[b].next]
  BY <1>2, <1>4, <1>5, DueType DEF ActorInv, OnItsWay, Due
<1>7. Due(a) \in actor[b].created
  BY <1>1, <1>3, <1>5 DEF ActorInv, Owned
<1>8. b # Scan
      /\ \E i \in 1..Len(Order[b]) : i < actor[b].next /\ Order[b][i] = Due(a)
  BY <1>5, <1>7 DEF ActorInv, OnItsWay
<1>9. Hash[Due(a)] <= Hash[Due(b)]
  BY <1>4, <1>6, <1>8, Arranged
<1>10. Due(a) # Due(b)
  BY <1>1, <1>5 DEF ActorInv, OnItsWay
<1> QED
  BY <1>3, <1>4, <1>6, <1>9, <1>10, Hashes

\* There are finitely many actors.
LEMMA FewActors == IsFiniteSet(Actors)
BY AdmissionAssumption, FS_AddElement DEF Actors

\* A circle of waits would have a member that waits for the largest hash.
LEMMA NoCircle == IInv => NoAdmissionCycle
<1> SUFFICES ASSUME IInv, NEW C \in SUBSET Actors, C # {},
                    \A a \in C : Blocker(a) \intersect C # {}
             PROVE  FALSE
  BY DEF NoAdmissionCycle
<1> DEFINE H(a) == Hash[Due(a)]
<1>1. ASSUME NEW a \in C PROVE H(a) \in Nat /\ \E b \in C : H(a) < H(b)
  <2>1. PICK b \in C : b \in Blocker(a)
    OBVIOUS
  <2>2. Blocker(b) # {}
    OBVIOUS
  <2>3. H(a) < H(b)
    BY <2>1, <2>2, Upwards
  <2>4. actor[a].at = "insert" /\ ActorInv(a) /\ AdmissionTypeOK
    BY <2>1 DEF Blocker, IInv
  <2>5. Due(a) \in Bytes
    BY <2>4, DueType DEF ActorInv, OnItsWay
  <2> QED BY <2>3, <2>5, Hashes
<1>2. IsFiniteSet(C)
  BY FewActors, FS_Subset
<1> DEFINE T == {H(a) : a \in C}
<1>3. IsFiniteSet(T)
  <2> DEFINE g == [a \in C |-> H(a)]
  <2>1. g \in Surjection(C, T)
    BY DEF Surjection
  <2> QED BY <1>2, <2>1, FS_Surjection
<1>4. T \in SUBSET Nat /\ T # {}
  BY <1>1
<1>5. PICK m \in T : \A n \in T : n <= m
  <2> HIDE DEF T
  <2> QED BY <1>3, <1>4, Greatest
<1>6. PICK a \in C : m = H(a)
  BY <1>5
<1>7. PICK b \in C : H(a) < H(b)
  BY <1>1
<1> QED
  <2>1. H(b) \in T
    OBVIOUS
  <2>2. H(b) <= m
    BY <1>5, <2>1
  <2>3. H(a) \in Nat /\ H(b) \in Nat
    BY <1>1
  <2> HIDE DEF H, T
  <2> QED BY <1>6, <1>7, <2>2, <2>3

\* The invariant holds in every state of every behaviour.
THEOREM Inductive == AdmissionSpec => []IInv
BY InitInv, NextInv, PTL DEF AdmissionSpec

\* However many transactions race to admit the same bytes, one of those that
\* commit dispatches work for the document (CreateStub, dispatchChild), for
\* any number of containers, members and contents.
THEOREM AlwaysDispatchedOnce == AdmissionSpec => []DispatchedOnce
<1>1. IInv => DispatchedOnce
  BY DEF IInv, ContentInv, DispatchedOnce, AdmissionTypeOK
<1> QED
  BY <1>1, Inductive, PTL

\* The waits of admissions for each other never form a circle, because every
\* handler inserts in ascending hash order and the scan holds no row while it
\* waits (admissionOrder), for any listings that contents appear in.
THEOREM NeverInACircle == AdmissionSpec => []NoAdmissionCycle
BY NoCircle, Inductive, PTL

-----------------------------------------------------------------------------
(* Recovery: its inductive invariant.                                      *)

IsSequence(items) == items \in Seq({items[i] : i \in DOMAIN items})
IsItem(item) ==
    item = [doc |-> item.doc, status |-> item.status, reason |-> item.reason,
            jobless |-> item.jobless, jobs |-> item.jobs]
IsRecovery(run) ==
    run = [at |-> run.at, mode |-> run.mode, items |-> run.items, ids |-> run.ids,
           exclusive |-> run.exclusive]
OpTyped ==
    /\ IsRecovery(op)
    /\ IsSequence(op.items) /\ \A i \in DOMAIN op.items : IsItem(op.items[i])
    /\ op.at \in {"apply", "lock", "reset"} => op.items # <<>>
    /\ op.at \in {"lock", "reset"} => op.ids \subseteq Stages

\* What was planned for existed and goes on to exist; completed, it stays so.
Planned(item) ==
    \A ref \in item.jobs :
        /\ ref.stage \in Stages
        /\ item.doc \in Files => jobs[item.doc][ref.stage].state # "NONE"
\* The locks that will be tried, or are held, are those of all planned jobs that may
\* still run.
AllListed ==
    \A ref \in AtHand.jobs :
        \/ ref.stage \in op.ids
        \/ AtHand.doc \in Files => jobs[AtHand.doc][ref.stage].state = "COMPLETED"
QuietJobs == \A s \in op.ids : AtHand.doc \in Files => hold[AtHand.doc][s] = 0

RecoveryInv ==
    /\ \A d \in Files : Sound(file[d], jobs[d], hold[d])
    /\ DOMAIN file = Files /\ DOMAIN jobs = Files /\ DOMAIN hold = Files
    /\ stale \subseteq Files
    /\ OpTyped
    /\ \A i \in DOMAIN op.items : Planned(op.items[i])
    /\ op.at \in {"lock", "reset"} => AllListed
    /\ op.at = "reset" => QuietJobs

\* A run that has come to applying has an item at hand.
LEMMA FirstItem ==
    ASSUME RecoveryInv, op.at \in {"apply", "lock", "reset"}
    PROVE  1 \in DOMAIN op.items /\ AtHand = op.items[1] /\ Len(op.items) \in Nat \ {0}
<1> DEFINE all == {op.items[i] : i \in DOMAIN op.items}
<1>1. op.items \in Seq(all) /\ op.items # <<>>
  BY DEF RecoveryInv, OpTyped, IsSequence
<1> HIDE DEF all
<1> QED BY <1>1 DEF AtHand

\* A statement of ingestion at one document: others stay as they are, jobs are not
\* forgotten, a completed one stays completed, and nobody passes a lock.
LEMMA Meanwhile ==
    ASSUME RecoveryInv, UNCHANGED op, NEW d \in Files, stale' \subseteq Files,
           DOMAIN file' = Files, DOMAIN jobs' = Files, DOMAIN hold' = Files,
           \A e \in Files \ {d} :
              file'[e] = file[e] /\ jobs'[e] = jobs[e] /\ hold'[e] = hold[e],
           Sound(file'[d], jobs'[d], hold'[d]),
           \A s \in Stages :
              /\ jobs[d][s].state # "NONE" => jobs'[d][s].state # "NONE"
              /\ jobs[d][s].state = "COMPLETED" => jobs'[d][s].state = "COMPLETED",
           \A s \in Stages : hold'[d][s] \in {0, hold[d][s]} \/ ~Locked(d, s)
    PROVE  RecoveryInv'
<1>1. \A e \in Files : Sound(file'[e], jobs'[e], hold'[e])
  BY DEF RecoveryInv
<1>2. OpTyped' /\ AtHand' = AtHand
  BY DEF RecoveryInv, OpTyped, IsRecovery, IsSequence, IsItem, AtHand
<1>3. (\A i \in DOMAIN op.items : Planned(op.items[i]))'
  <2> SUFFICES ASSUME NEW i \in DOMAIN op.items, NEW ref \in op.items[i].jobs
               PROVE  /\ ref.stage \in Stages
                      /\ op.items[i].doc \in Files =>
                            jobs'[op.items[i].doc][ref.stage].state # "NONE"
    BY DEF Planned
  <2>1. /\ ref.stage \in Stages
        /\ op.items[i].doc \in Files => jobs[op.items[i].doc][ref.stage].state # "NONE"
    BY DEF RecoveryInv, Planned
  <2> QED BY <2>1
<1>4. (op.at \in {"lock", "reset"} => AllListed)'
  <2> SUFFICES ASSUME op.at \in {"lock", "reset"}, NEW ref \in AtHand.jobs
               PROVE  \/ ref.stage \in op.ids
                      \/ AtHand.doc \in Files =>
                            jobs'[AtHand.doc][ref.stage].state = "COMPLETED"
    BY <1>2 DEF AllListed
  <2>1. \/ ref.stage \in op.ids
        \/ AtHand.doc \in Files => jobs[AtHand.doc][ref.stage].state = "COMPLETED"
    BY DEF RecoveryInv, AllListed
  <2>2. ref.stage \in Stages
    BY FirstItem DEF RecoveryInv, Planned
  <2> QED BY <2>1, <2>2
<1>5. (op.at = "reset" => QuietJobs)'
  <2> SUFFICES ASSUME op.at = "reset", NEW s \in op.ids, AtHand.doc \in Files
               PROVE  hold'[AtHand.doc][s] = 0
    BY <1>2 DEF QuietJobs
  <2>1. hold[AtHand.doc][s] = 0 /\ s \in Stages
    BY DEF RecoveryInv, QuietJobs, OpTyped
  <2>2. AtHand.doc = d => Locked(d, s)
    BY DEF Locked
  <2>3. CASE AtHand.doc = d
    BY <2>1, <2>2, <2>3
  <2>4. CASE AtHand.doc # d
    BY <2>1, <2>4
  <2> QED BY <2>3, <2>4
<1> QED BY <1>1, <1>2, <1>3, <1>4, <1>5 DEF RecoveryInv

\* What SetJob does, and leaves.
LEMMA OneJobSet ==
    ASSUME NEW d \in Files, NEW s \in Stages, NEW job \in JobRows, SetJob(d, s, job),
           DOMAIN jobs = Files, jobs[d] \in [Stages -> JobRows]
    PROVE  /\ DOMAIN jobs' = Files
           /\ \A e \in Files \ {d} : jobs'[e] = jobs[e]
           /\ jobs'[d] \in [Stages -> JobRows] /\ jobs'[d][s] = job
           /\ \A t \in Stages \ {s} : jobs'[d][t] = jobs[d][t]
BY DEF SetJob

LEMMA SoundRows ==
    ASSUME RecoveryInv, NEW d \in Files
    PROVE  /\ file[d] \in DocumentRows
           /\ jobs[d] \in [Stages -> JobRows] /\ hold[d] \in [Stages -> Nat]
           /\ \A s \in Stages : jobs[d][s] \in JobRows
           /\ DOMAIN file = Files /\ DOMAIN jobs = Files /\ DOMAIN hold = Files
BY DEF RecoveryInv, Sound

LEMMA StartKeeps ==
    ASSUME RecoveryInv, NEW d \in Files, NEW s \in Stages, Start(d, s)
    PROVE  RecoveryInv'
<1> DEFINE job == [state |-> "RUNNING", gen |-> jobs[d][s].gen + 1, live |-> TRUE]
<1>1. job \in JobRows
  BY SoundRows DEF JobRows
<1>2. SetJob(d, s, job) /\ UNCHANGED op /\ UNCHANGED file
  BY DEF Start
<1>3. /\ DOMAIN jobs' = Files
      /\ \A e \in Files \ {d} : jobs'[e] = jobs[e]
      /\ jobs'[d] \in [Stages -> JobRows] /\ jobs'[d][s] = job
      /\ \A t \in Stages \ {s} : jobs'[d][t] = jobs[d][t]
  BY <1>1, <1>2, OneJobSet, SoundRows
<1>4. /\ DOMAIN hold' = Files
      /\ \A e \in Files \ {d} : hold'[e] = hold[e]
      /\ hold'[d] \in [Stages -> Nat]
      /\ \A t \in Stages : hold'[d][t] = hold[d][t] \/ (t = s /\ ~Locked(d, s))
  <2>0. DOMAIN hold = Files /\ hold[d] \in [Stages -> Nat]
    BY SoundRows
  <2>1. CASE hold' = hold
    BY <2>0, <2>1
  <2>2. CASE ~Locked(d, s) /\ hold' = [hold EXCEPT ![d][s] = jobs[d][s].gen + 1]
    BY <2>2, SoundRows DEF JobRows
  <2> QED BY <2>1, <2>2 DEF Start
<1>5. jobs[d][s].state \in {"READY", "RUNNING"}
  BY DEF Start
<1>6. Sound(file'[d], jobs'[d], hold'[d])
  <2>1. Sound(file[d], jobs[d], hold[d])
    BY DEF RecoveryInv
  <2>2. job.state = "RUNNING"
    OBVIOUS
  <2> HIDE DEF job
  <2> QED BY <2>1, <2>2, <1>2, <1>3, <1>4, <1>5 DEF Sound, Stages
<1>7. stale' \subseteq Files
  BY DEF Start, RecoveryInv
<1>8. \A t \in Stages : hold'[d][t] \in {0, hold[d][t]} \/ ~Locked(d, t)
  BY <1>4
<1>9. \A t \in Stages :
         /\ jobs[d][t].state # "NONE" => jobs'[d][t].state # "NONE"
         /\ jobs[d][t].state = "COMPLETED" => jobs'[d][t].state = "COMPLETED"
  BY <1>3, <1>5
<1>10. DOMAIN file' = Files /\ \A e \in Files \ {d} : file'[e] = file[e]
  BY <1>2, SoundRows
<1> QED BY <1>2, <1>3, <1>4, <1>6, <1>7, <1>8, <1>9, <1>10, Meanwhile

LEMMA ExpireKeeps ==
    ASSUME RecoveryInv, NEW d \in Files, NEW s \in Stages, Expire(d, s)
    PROVE  RecoveryInv'
<1> DEFINE job == [jobs[d][s] EXCEPT !.live = FALSE]
<1>1. job \in JobRows /\ job.state = jobs[d][s].state
  BY SoundRows, ZenonT(60) DEF JobRows
<1>2. SetJob(d, s, job) /\ UNCHANGED <<op, file, hold>>
  BY DEF Expire
<1>3. /\ DOMAIN jobs' = Files
      /\ \A e \in Files \ {d} : jobs'[e] = jobs[e]
      /\ jobs'[d] \in [Stages -> JobRows] /\ jobs'[d][s] = job
      /\ \A t \in Stages \ {s} : jobs'[d][t] = jobs[d][t]
  BY <1>1, <1>2, OneJobSet, SoundRows
<1> HIDE DEF job
<1>4. \A t \in Stages : jobs'[d][t].state = jobs[d][t].state
  BY <1>1, <1>3
<1>6. Sound(file'[d], jobs'[d], hold'[d])
  BY <1>2, <1>3, <1>4 DEF RecoveryInv, Sound, Stages
<1>7. stale' \subseteq Files
  BY DEF Expire, RecoveryInv
<1> QED BY <1>2, <1>3, <1>4, <1>6, <1>7, SoundRows, Meanwhile

LEMMA RollsBackKeeps ==
    ASSUME RecoveryInv, NEW d \in Files, NEW s \in Stages, HandlerRollsBack(d, s)
    PROVE  RecoveryInv'
<1>1. UNCHANGED <<op, file, jobs>>
  BY DEF HandlerRollsBack
<1>2. /\ DOMAIN hold' = Files
      /\ \A e \in Files \ {d} : hold'[e] = hold[e]
      /\ hold'[d] \in [Stages -> Nat]
      /\ \A t \in Stages : hold'[d][t] \in {0, hold[d][t]}
  BY SoundRows DEF HandlerRollsBack
<1>3. Sound(file'[d], jobs'[d], hold'[d])
  BY <1>1, <1>2 DEF RecoveryInv, Sound
<1>4. stale' \subseteq Files
  BY DEF HandlerRollsBack, RecoveryInv
<1> QED BY <1>1, <1>2, <1>3, <1>4, SoundRows, Meanwhile

LEMMA VerdictKeeps ==
    ASSUME RecoveryInv, NEW d \in Files, NEW s \in Stages, Verdict(d, s)
    PROVE  RecoveryInv'
<1>1. /\ UNCHANGED <<op, hold>>
      /\ jobs[d][s].state = "RUNNING"
  BY DEF Verdict
<1>2. PICK state \in {"READY", "WAITING_SOURCE", "FAILED"} :
         /\ SetJob(d, s, [jobs[d][s] EXCEPT !.state = state, !.live = FALSE])
         /\ \/ UNCHANGED file /\ state # "FAILED"
            \/ /\ state = "FAILED" /\ hold[d][s] = 0
               /\ \E reason \in {"retryable", "terminal"} :
                     file' = [file EXCEPT ![d] = [status |-> "FAILED", reason |-> reason]]
  BY DEF Verdict, Locked
<1> DEFINE job == [jobs[d][s] EXCEPT !.state = state, !.live = FALSE]
<1>3. job \in JobRows /\ job.state = state
  BY SoundRows DEF JobRows
<1>4. /\ DOMAIN jobs' = Files
      /\ \A e \in Files \ {d} : jobs'[e] = jobs[e]
      /\ jobs'[d] \in [Stages -> JobRows] /\ jobs'[d][s] = job
      /\ \A t \in Stages \ {s} : jobs'[d][t] = jobs[d][t]
  BY <1>2, <1>3, OneJobSet, SoundRows
<1>5. /\ DOMAIN file' = Files /\ \A e \in Files \ {d} : file'[e] = file[e]
      /\ file'[d] \in DocumentRows
      /\ file'[d].status = file[d].status \/ file'[d].status = "FAILED"
  BY <1>2, SoundRows DEF DocumentRows, Redrivable
<1> HIDE DEF job
<1>6. Sound(file'[d], jobs'[d], hold'[d])
  <2>1. Sound(file[d], jobs[d], hold[d])
    BY DEF RecoveryInv
  <2>2. \A t \in Stages : hold'[d][t] # 0 =>
           jobs'[d][t].state \in {"READY", "RUNNING", "WAITING_SOURCE"}
    BY <2>1, <1>1, <1>2, <1>3, <1>4 DEF Sound
  <2>3. jobs'[d][1].state \in {"NONE", "COMPLETED"} \/ jobs'[d][2].state = "NONE"
    BY <2>1, <1>1, <1>3, <1>4 DEF Sound, Stages
  <2>4. jobs'[d][s].state \notin {"NONE", "COMPLETED"}
    BY <1>3, <1>4
  <2> QED BY <2>1, <2>2, <2>3, <2>4, <1>1, <1>4, <1>5 DEF Sound
<1>7. stale' \subseteq Files
  BY DEF Verdict, Touch, RecoveryInv
<1> QED BY <1>1, <1>3, <1>4, <1>5, <1>6, <1>7, SoundRows, Meanwhile

LEMMA ResumeKeeps ==
    ASSUME RecoveryInv, NEW d \in Files, ResumesSources(d)
    PROVE  RecoveryInv'
<1>1. UNCHANGED <<op, file, hold>>
  BY DEF ResumesSources
<1> DEFINE Resumed(s, old) == /\ SetJob(d, s, Requeued(old))
                              /\ \/ jobs[d][s].state = "WAITING_SOURCE"
                                 \/ HasNoJob(d) /\ s = 1
<1>a. PICK s \in Stages : Resumed(s, jobs[d][s]) \/ Resumed(s, NoJob)
  BY DEF ResumesSources, Stages
<1>b. PICK old \in {jobs[d][s], NoJob} : Resumed(s, old)
  BY <1>a
<1>2. /\ SetJob(d, s, Requeued(old))
      /\ \/ jobs[d][s].state = "WAITING_SOURCE"
         \/ HasNoJob(d) /\ s = 1
  BY <1>b
<1>3. Requeued(old) \in JobRows /\ Requeued(old).state = "READY"
  BY SoundRows DEF JobRows, NoJob, Requeued
<1>4. /\ DOMAIN jobs' = Files
      /\ \A e \in Files \ {d} : jobs'[e] = jobs[e]
      /\ jobs'[d] \in [Stages -> JobRows] /\ jobs'[d][s] = Requeued(old)
      /\ \A t \in Stages \ {s} : jobs'[d][t] = jobs[d][t]
  BY <1>2, <1>3, OneJobSet, SoundRows
<1>5. jobs[d][s].state \in {"WAITING_SOURCE", "NONE"}
  BY <1>2 DEF HasNoJob
<1>6. Sound(file'[d], jobs'[d], hold'[d])
  <2>1. Sound(file[d], jobs[d], hold[d])
    BY DEF RecoveryInv
  <2>2. \A t \in Stages : hold'[d][t] # 0 =>
           jobs'[d][t].state \in {"READY", "RUNNING", "WAITING_SOURCE"}
    BY <2>1, <1>1, <1>3, <1>4 DEF Sound
  <2>3. jobs'[d][1].state \in {"NONE", "COMPLETED"} \/ jobs'[d][2].state = "NONE"
    BY <2>1, <1>2, <1>4 DEF Sound, Stages, HasNoJob
  <2>4. jobs'[d][s].state \notin {"NONE", "COMPLETED"}
    BY <1>3, <1>4
  <2> QED BY <2>1, <2>2, <2>3, <2>4, <1>1, <1>4 DEF Sound
<1>7. stale' \subseteq Files
  BY DEF ResumesSources, RecoveryInv
<1> QED BY <1>1, <1>3, <1>4, <1>5, <1>6, <1>7, SoundRows, Meanwhile

LEMMA HandlerKeeps ==
    ASSUME RecoveryInv, NEW d \in Files, NEW s \in Stages, HandlerCommits(d, s)
    PROVE  RecoveryInv'
<1> DEFINE done == [jobs[d][s] EXCEPT !.state = "COMPLETED", !.live = FALSE]
           next == [state |-> "READY", gen |-> 1, live |-> FALSE]
<1>1. UNCHANGED op /\ jobs[d][s].state = "RUNNING" /\ hold' = [hold EXCEPT ![d][s] = 0]
  BY DEF HandlerCommits
<1>2. \/ /\ s = 1
         /\ file' = [file EXCEPT ![d].status = "PROCESSING"]
         /\ jobs' = [jobs EXCEPT ![d] = <<done, next>>]
      \/ /\ s = 2
         /\ file' = [file EXCEPT ![d].status = "COMPLETED"]
         /\ SetJob(d, s, done)
      \/ /\ file' = [file EXCEPT ![d] = [status |-> "SKIPPED", reason |-> "decline"]]
         /\ SetJob(d, s, done)
  BY DEF HandlerCommits
<1>3. /\ DOMAIN hold' = Files /\ hold'[d] \in [Stages -> Nat]
      /\ \A e \in Files \ {d} : hold'[e] = hold[e]
      /\ hold'[d][s] = 0 /\ \A t \in Stages \ {s} : hold'[d][t] = hold[d][t]
  BY <1>1, SoundRows
<1>4. done \in JobRows /\ next \in JobRows
      /\ done.state = "COMPLETED" /\ next.state = "READY"
  BY SoundRows DEF JobRows
<1> HIDE DEF done, next
<1>5. /\ DOMAIN file' = Files /\ \A e \in Files \ {d} : file'[e] = file[e]
      /\ file'[d] \in DocumentRows
  BY <1>2, SoundRows DEF DocumentRows, Unfinished, Redrivable
<1>6. Sound(file[d], jobs[d], hold[d])
  BY DEF RecoveryInv
<1>7. /\ DOMAIN jobs' = Files
      /\ \A e \in Files \ {d} : jobs'[e] = jobs[e]
      /\ jobs'[d] \in [Stages -> JobRows]
      /\ jobs'[d][s] = done
      /\ \/ s = 1 /\ jobs'[d][2] = next
         \/ /\ file'[d].status \in {"COMPLETED", "SKIPPED"}
            /\ \A t \in Stages \ {s} : jobs'[d][t] = jobs[d][t]
  <2>1. CASE s = 1 /\ jobs' = [jobs EXCEPT ![d] = <<done, next>>]
    <3>1. <<done, next>> \in [Stages -> JobRows]
      BY <1>4 DEF Stages
    <3> QED BY <2>1, <3>1, SoundRows
  <2>2. CASE /\ SetJob(d, s, done)
             /\ \/ file' = [file EXCEPT ![d].status = "COMPLETED"]
                \/ file' = [file EXCEPT ![d] = [status |-> "SKIPPED", reason |-> "decline"]]
    <3>1. file'[d].status \in {"COMPLETED", "SKIPPED"}
      BY <2>2, SoundRows DEF DocumentRows
    <3> QED BY <2>2, <3>1, <1>4, OneJobSet, SoundRows
  <2> QED BY <2>1, <2>2, <1>2
<1>8. \A t \in Stages : jobs[d][t].state # "NONE" => jobs'[d][t].state # "NONE"
  BY <1>4, <1>7 DEF Stages
<1>9. \A t \in Stages :
         jobs[d][t].state = "COMPLETED" => jobs'[d][t].state = "COMPLETED"
  BY <1>1, <1>4, <1>6, <1>7 DEF Sound, Stages
<1>10. Sound(file'[d], jobs'[d], hold'[d])
  <2>1. \A t \in Stages : hold'[d][t] # 0 =>
           jobs'[d][t].state \in {"READY", "RUNNING", "WAITING_SOURCE"}
    BY <1>1, <1>3, <1>6, <1>7 DEF Sound, Stages
  <2>2. jobs'[d][1].state \in {"NONE", "COMPLETED"} \/ jobs'[d][2].state = "NONE"
    BY <1>1, <1>4, <1>6, <1>7 DEF Sound, Stages
  <2>3. \/ file'[d].status \in {"COMPLETED", "SKIPPED"}
        \/ \E t \in Stages : jobs'[d][t].state \notin {"NONE", "COMPLETED"}
    BY <1>4, <1>7 DEF Stages
  <2> QED BY <2>1, <2>2, <2>3, <1>3, <1>5, <1>7 DEF Sound, Unfinished
<1>11. \A t \in Stages : hold'[d][t] \in {0, hold[d][t]}
  BY <1>3
<1>12. UNCHANGED op /\ DOMAIN file' = Files /\ DOMAIN jobs' = Files /\ DOMAIN hold' = Files
  BY <1>1, <1>3, <1>5, <1>7
<1>13. \A e \in Files \ {d} :
          file'[e] = file[e] /\ jobs'[e] = jobs[e] /\ hold'[e] = hold[e]
  BY <1>3, <1>5, <1>7
<1>14. stale' \subseteq Files
  BY DEF HandlerCommits, Touch, RecoveryInv
<1> QED BY <1>8, <1>9, <1>10, <1>11, <1>12, <1>13, <1>14, Meanwhile

-----------------------------------------------------------------------------
(* The recovery's own steps.                                               *)

\* The fields of the run after a step, as far as the invariant speaks of them.
LEMMA Moves ==
    ASSUME RecoveryInv, UNCHANGED <<file, jobs, hold, stale>>,
           OpTyped', (\A i \in DOMAIN op.items : Planned(op.items[i]))',
           (op.at \in {"lock", "reset"} => AllListed)', (op.at = "reset" => QuietJobs)'
    PROVE  RecoveryInv'
BY DEF RecoveryInv

LEMMA ToIdle ==
    ASSUME RecoveryInv, UNCHANGED <<file, jobs, hold, stale>>, op' = NoRecovery
    PROVE  RecoveryInv'
<1>1. op'.at = "idle" /\ op'.items = <<>> /\ DOMAIN op'.items = {}
  BY DEF NoRecovery
<1>2. OpTyped'
  <2>1. <<>> \in Seq({<<>>[i] : i \in DOMAIN <<>>})
    OBVIOUS
  <2> QED BY <1>1, <2>1 DEF OpTyped, IsSequence, IsRecovery, NoRecovery
<1> QED BY <1>1, <1>2, Moves

\* What was selected is a sequence of items of which nothing has been read yet.
LEMMA ItemsAre ==
    ASSUME RecoveryInv, NEW docs \in SUBSET Files
    PROVE  /\ IsSequence(Items(Oldest(docs)))
           /\ \A i \in DOMAIN Items(Oldest(docs)) :
                 IsItem(Items(Oldest(docs))[i]) /\ Items(Oldest(docs))[i].jobs = {}
<1>1. Selected(docs) \in Nat
  BY RecoveryAssumption, FS_Subset, FS_CardinalityType DEF Selected
<1> DEFINE its == Items(Oldest(docs))
<1>2. DOMAIN its = 1..Selected(docs)
  BY DEF Items, Oldest
<1>3. \A i \in DOMAIN its : its[i] = Item(Oldest(docs)[i])
  BY DEF Items
<1>4. its = [i \in 1..Selected(docs) |-> its[i]]
  BY DEF Items, Oldest
<1>5. \A i \in DOMAIN its : IsItem(its[i]) /\ its[i].jobs = {}
  BY <1>3 DEF Item, IsItem
<1> HIDE DEF its
<1>6. its \in Seq({its[i] : i \in DOMAIN its})
  BY <1>1, <1>2, <1>4
<1> QED BY <1>5, <1>6 DEF IsSequence, its

\* A sequence is one of its own elements.
LEMMA Ranged ==
    ASSUME NEW S, NEW q \in Seq(S)
    PROVE  IsSequence(q)
<1>1. Len(q) \in Nat /\ q \in [1..Len(q) -> S]
  BY LenProperties
<1>2. q \in [1..Len(q) -> {q[i] : i \in DOMAIN q}]
  BY <1>1
<1> QED BY <1>1, <1>2, SeqDef DEF IsSequence

LEMMA Both ==
    ASSUME NEW a, NEW b, IsSequence(a), IsSequence(b)
    PROVE  /\ IsSequence(a \o b)
           /\ \A i \in DOMAIN (a \o b) :
                 \/ \E k \in DOMAIN a : (a \o b)[i] = a[k]
                 \/ \E k \in DOMAIN b : (a \o b)[i] = b[k]
<1> DEFINE A == {a[i] : i \in DOMAIN a}
           B == {b[i] : i \in DOMAIN b}
<1>1. a \in Seq(A) /\ b \in Seq(B)
  BY DEF IsSequence
<1>2. a \in Seq(A \union B) /\ b \in Seq(A \union B)
  BY <1>1
<1> HIDE DEF A, B
<1>3. a \o b \in Seq(A \union B) /\ Len(a \o b) = Len(a) + Len(b)
      /\ Len(a) \in Nat /\ Len(b) \in Nat
      /\ DOMAIN a = 1..Len(a) /\ DOMAIN b = 1..Len(b)
      /\ DOMAIN (a \o b) = 1..Len(a \o b)
  BY <1>2
<1>4. ASSUME NEW i \in DOMAIN (a \o b)
      PROVE  \/ \E k \in DOMAIN a : (a \o b)[i] = a[k]
             \/ \E k \in DOMAIN b : (a \o b)[i] = b[k]
  <2>1. CASE i <= Len(a)
    BY <1>2, <1>3, <2>1
  <2>2. CASE i > Len(a)
    <3>1. i - Len(a) \in DOMAIN b /\ (a \o b)[i] = b[i - Len(a)]
      BY <1>2, <1>3, <2>2
    <3> QED BY <3>1
  <2> QED BY <2>1, <2>2, <1>3
<1> QED BY <1>3, <1>4, Ranged

LEMMA Rest ==
    ASSUME NEW a, IsSequence(a), Len(a) # 1, a # <<>>
    PROVE  /\ IsSequence(Tail(a)) /\ Tail(a) # <<>>
           /\ \A i \in DOMAIN Tail(a) : \E k \in DOMAIN a : Tail(a)[i] = a[k]
<1> DEFINE A == {a[i] : i \in DOMAIN a}
<1>1. a \in Seq(A)
  BY DEF IsSequence
<1> HIDE DEF A
<1>a. Len(a) \in Nat /\ DOMAIN a = 1..Len(a)
  BY <1>1, LenProperties
<1>b. Len(a) # 0
  BY <1>1, EmptySeq
<1>2. Len(a) \in Nat /\ Len(a) > 1 /\ DOMAIN a = 1..Len(a)
  BY <1>a, <1>b
<1>3. Tail(a) \in Seq(A) /\ Len(Tail(a)) = Len(a) - 1 /\ DOMAIN Tail(a) = 1..Len(Tail(a))
  BY <1>1, <1>2
<1>4. \A i \in DOMAIN Tail(a) : i + 1 \in DOMAIN a /\ Tail(a)[i] = a[i + 1]
  BY <1>1, <1>2, <1>3
<1>5. IsSequence(Tail(a))
  BY <1>3, Ranged
<1>6. Tail(a) # <<>>
  <2>1. Len(Tail(a)) # 0
    BY <1>2, <1>3
  <2>2. Len(<<>>) = 0
    BY EmptySeq
  <2> QED BY <2>1, <2>2
<1> QED BY <1>4, <1>5, <1>6

\* On to the next item, whatever became of this one: jobs are not forgotten.
LEMMA AppliedKeeps ==
    ASSUME RecoveryInv, op' = Done, op.at \in {"apply", "lock", "reset"},
           DOMAIN file' = Files, DOMAIN jobs' = Files, DOMAIN hold' = Files,
           stale' \subseteq Files,
           \A d \in Files : Sound(file'[d], jobs'[d], hold'[d]),
           \A d \in Files : \A s \in Stages :
              jobs[d][s].state # "NONE" => jobs'[d][s].state # "NONE"
    PROVE  RecoveryInv'
<1>1. IsRecovery(op) /\ IsSequence(op.items) /\ op.items # <<>>
      /\ \A i \in DOMAIN op.items : IsItem(op.items[i]) /\ Planned(op.items[i])
  BY DEF RecoveryInv, OpTyped
<1>2. /\ IsRecovery(op') /\ op'.at \in {"idle", "apply"} /\ IsSequence(op'.items)
      /\ op'.at = "apply" => op'.items # <<>>
      /\ \A i \in DOMAIN op'.items : \E k \in DOMAIN op.items : op'.items[i] = op.items[k]
  <2>1. CASE Len(op.items) = 1
    <3>1. op' = NoRecovery
      BY <2>1 DEF Done
    <3>2. op'.at = "idle" /\ op'.items = <<>> /\ IsRecovery(op')
      BY <3>1 DEF NoRecovery, IsRecovery
    <3>3. IsSequence(<<>>) /\ DOMAIN <<>> = {}
      BY DEF IsSequence
    <3> QED BY <3>2, <3>3
  <2>2. CASE Len(op.items) # 1
    <3>1. op' = [op EXCEPT !.at = "apply", !.items = Tail(@), !.ids = {}]
      BY <2>2 DEF Done
    <3>2. IsRecovery(op') /\ op'.at = "apply" /\ op'.items = Tail(op.items)
      BY <3>1, <1>1 DEF IsRecovery
    <3> QED BY <3>2, <1>1, <2>2, Rest
  <2> QED BY <2>1, <2>2
<1>3. OpTyped'
  BY <1>1, <1>2 DEF OpTyped
<1>4. (\A i \in DOMAIN op.items : Planned(op.items[i]))'
  <2> SUFFICES ASSUME NEW i \in DOMAIN op'.items, NEW ref \in op'.items[i].jobs
               PROVE  /\ ref.stage \in Stages
                      /\ op'.items[i].doc \in Files =>
                            jobs'[op'.items[i].doc][ref.stage].state # "NONE"
    BY DEF Planned
  <2>1. PICK k \in DOMAIN op.items : op'.items[i] = op.items[k]
    BY <1>2
  <2>2. /\ ref.stage \in Stages
        /\ op.items[k].doc \in Files => jobs[op.items[k].doc][ref.stage].state # "NONE"
    BY <1>1, <2>1 DEF Planned
  <2> QED BY <2>1, <2>2
<1> QED BY <1>2, <1>3, <1>4 DEF RecoveryInv

LEMMA DoneKeeps ==
    ASSUME RecoveryInv, UNCHANGED <<file, jobs, hold, stale>>, op' = Done,
           op.at \in {"apply", "lock", "reset"}
    PROVE  RecoveryInv'
BY AppliedKeeps DEF RecoveryInv

\* A selection adds items of which nothing has been read.
LEMMA SelectionKeeps ==
    ASSUME RecoveryInv, UNCHANGED <<file, jobs, hold, stale>>, NEW its,
           IsSequence(its), \A i \in DOMAIN its : IsItem(its[i]) /\ its[i].jobs = {},
           IsRecovery(op'), op'.at \in {"processing", "failed", "jobs"},
           op'.items \in {its, op.items \o its}
    PROVE  RecoveryInv'
<1>1. IsSequence(op.items) /\ \A i \in DOMAIN op.items : IsItem(op.items[i])
                                                       /\ Planned(op.items[i])
  BY DEF RecoveryInv, OpTyped
<1>2. \A i \in DOMAIN its : IsItem(its[i]) /\ Planned(its[i])
  BY DEF Planned
<1>3. IsSequence(op'.items) /\ \A i \in DOMAIN op'.items : IsItem(op'.items[i])
                                                         /\ Planned(op'.items[i])
  <2>1. CASE op'.items = its
    BY <2>1, <1>2
  <2>2. CASE op'.items = op.items \o its
    BY <2>2, <1>1, <1>2, Both
  <2> QED BY <2>1, <2>2
<1>4. OpTyped'
  BY <1>3 DEF OpTyped
<1>5. (\A i \in DOMAIN op.items : Planned(op.items[i]))'
  BY <1>3 DEF Planned
<1> QED BY <1>4, <1>5, Moves

\* Nothing selected is a selection, too.
LEMMA Selection ==
    ASSUME RecoveryInv, NEW docs, docs = <<>> \/ \E set \in SUBSET Files : docs = Oldest(set)
    PROVE  /\ IsSequence(Items(docs))
           /\ \A i \in DOMAIN Items(docs) :
                 IsItem(Items(docs)[i]) /\ Items(docs)[i].jobs = {}
<1>1. CASE docs = <<>>
  <2>1. Items(docs) = <<>> /\ DOMAIN Items(docs) = {}
    BY <1>1 DEF Items
  <2> QED BY <2>1 DEF IsSequence
<1>2. CASE docs # <<>>
  BY <1>2, ItemsAre
<1> QED BY <1>1, <1>2

LEMMA SelectsKeep ==
    ASSUME RecoveryInv, StalePENDING \/ StalePROCESSING \/ SelectFailed
    PROVE  RecoveryInv'
<1>1. IsRecovery(op) /\ stale \subseteq Files
  BY DEF RecoveryInv, OpTyped
<1>2. UNCHANGED <<file, jobs, hold, stale>>
  BY DEF StalePENDING, StalePROCESSING, SelectFailed, recoveryTables
<1> DEFINE Chosen(docs) == docs = <<>> \/ \E set \in SUBSET Files : docs = Oldest(set)
           Takes(docs) ==
              /\ IsRecovery(op') /\ op'.at \in {"processing", "failed", "jobs"}
              /\ op'.items \in {Items(docs), op.items \o Items(docs)}
<1>3. ASSUME NEW docs, Chosen(docs), Takes(docs)
      PROVE  RecoveryInv'
  BY <1>2, <1>3, Selection, SelectionKeeps
<1>4. CASE StalePENDING
  <2> DEFINE set == {d \in stale : file[d].status = "PENDING"}
  <2>1. PICK docs \in {Oldest(set), <<>>} :
           op' = [op EXCEPT !.at = "processing", !.items = Items(docs)]
    BY <1>4 DEF StalePENDING
  <2>2. set \in SUBSET Files
    BY <1>1
  <2>3. Chosen(docs)
    BY <2>1, <2>2
  <2>4. Takes(docs)
    BY <1>1, <2>1 DEF IsRecovery
  <2> QED BY <1>3, <2>3, <2>4
<1>5. CASE StalePROCESSING
  <2> DEFINE set == {d \in stale : file[d].status = "PROCESSING"}
  <2>1. PICK docs \in {Oldest(set), <<>>} :
           op' = [op EXCEPT !.at = "failed", !.items = @ \o Items(docs)]
    BY <1>5 DEF StalePROCESSING
  <2>2. set \in SUBSET Files
    BY <1>1
  <2>3. Chosen(docs)
    BY <2>1, <2>2
  <2>4. Takes(docs)
    BY <1>1, <2>1 DEF IsRecovery
  <2> QED BY <1>3, <2>3, <2>4
<1>6. CASE SelectFailed
  <2>1. \/ op' = NoRecovery
        \/ \E set \in SUBSET Files : \E docs \in {Oldest(set), <<>>} :
              op' = [op EXCEPT !.at = "jobs", !.items = @ \o Items(docs)]
    BY <1>6 DEF SelectFailed
  <2>2. CASE op' = NoRecovery
    BY <1>2, <2>2, ToIdle
  <2>3. ASSUME NEW set \in SUBSET Files, NEW docs \in {Oldest(set), <<>>},
               op' = [op EXCEPT !.at = "jobs", !.items = @ \o Items(docs)]
        PROVE  RecoveryInv'
    <3>1. Chosen(docs)
      OBVIOUS
    <3>2. Takes(docs)
      BY <1>1, <2>3 DEF IsRecovery
    <3> QED BY <1>3, <3>1, <3>2
  <2> QED BY <2>1, <2>2, <2>3
<1> QED BY <1>4, <1>5, <1>6

\* Reading the jobs plans only what is there.
LEMMA ReadJobsKeeps ==
    ASSUME RecoveryInv, ReadJobs
    PROVE  RecoveryInv'
<1>1. UNCHANGED <<file, jobs, hold, stale>>
  BY DEF ReadJobs, recoveryTables
<1>2. CASE op' = NoRecovery
  BY <1>1, <1>2, ToIdle
<1>3. CASE op' # NoRecovery
  <2> DEFINE Read(i) == [op.items[i] EXCEPT
                           !.jobs = {Ref(op.items[i].doc, s) : s \in OpenJobs(op.items[i].doc)}]
  <2>1. /\ IsRecovery(op) /\ IsSequence(op.items)
        /\ \A i \in DOMAIN op.items : IsItem(op.items[i])
    BY DEF RecoveryInv, OpTyped
  <2>2. op' = [op EXCEPT !.at = "planned", !.items = [i \in DOMAIN op.items |-> Read(i)]]
    BY <1>3 DEF ReadJobs
  <2>3. IsRecovery(op') /\ op'.at = "planned"
        /\ op'.items = [i \in DOMAIN op.items |-> Read(i)]
    BY <2>1, <2>2 DEF IsRecovery
  <2>4. ASSUME NEW i \in DOMAIN op.items
        PROVE  IsItem(Read(i)) /\ Planned(Read(i))
    <3> DEFINE it == op.items[i]
               refs == {Ref(it.doc, s) : s \in OpenJobs(it.doc)}
               new == [doc |-> it.doc, status |-> it.status, reason |-> it.reason,
                       jobless |-> it.jobless, jobs |-> refs]
    <3>1. Read(i) = new
      <4>1. it = [doc |-> it.doc, status |-> it.status, reason |-> it.reason,
                  jobless |-> it.jobless, jobs |-> it.jobs]
        BY <2>1 DEF IsItem
      <4>2. [it EXCEPT !.jobs = refs] = new
        <5> HIDE DEF refs
        <5> QED BY <4>1
      <4> QED BY <4>2
    <3>2. IsItem(Read(i))
      <4> HIDE DEF refs
      <4> QED BY <3>1 DEF IsItem
    <3> HIDE DEF Read
    <3>3. Planned(Read(i))
      BY <3>1 DEF Planned, Ref, OpenJobs
    <3> QED BY <3>2, <3>3
  <2> HIDE DEF Read
  <2>5. DOMAIN op'.items = DOMAIN op.items /\ \A i \in DOMAIN op.items : op'.items[i] = Read(i)
    BY <2>3
  <2>6. IsSequence(op'.items)
    <3>1. Len(op.items) \in Nat /\ DOMAIN op.items = 1..Len(op.items)
      BY <2>1, LenProperties DEF IsSequence
    <3> DEFINE all == {Read(i) : i \in DOMAIN op.items}
    <3>2. op'.items \in [1..Len(op.items) -> all]
      BY <2>3, <3>1
    <3> HIDE DEF all
    <3>3. op'.items \in Seq(all)
      BY <3>1, <3>2, SeqDef
    <3> QED BY <3>3, Ranged
  <2>7. OpTyped'
    BY <2>3, <2>4, <2>5, <2>6 DEF OpTyped
  <2>8. (\A i \in DOMAIN op.items : Planned(op.items[i]))'
    BY <1>1, <2>4, <2>5 DEF Planned
  <2> QED BY <1>1, <2>3, <2>7, <2>8, Moves
<1> QED BY <1>2, <1>3

\* Steps that leave the items and the rows as they are.
LEMMA PlaceKeeps ==
    ASSUME RecoveryInv, UNCHANGED <<file, jobs, hold, stale>>,
           IsRecovery(op'), op'.items = op.items, op'.ids \subseteq Stages,
           op'.at \in {"apply", "lock", "reset"} => op.items # <<>>,
           (op.at \in {"lock", "reset"} => AllListed)', (op.at = "reset" => QuietJobs)'
    PROVE  RecoveryInv'
<1>1. OpTyped'
  BY DEF RecoveryInv, OpTyped
<1>2. (\A i \in DOMAIN op.items : Planned(op.items[i]))'
  BY DEF RecoveryInv, Planned
<1> QED BY <1>1, <1>2, Moves

LEMMA BeginsKeep ==
    ASSUME RecoveryInv, (\E mode \in Modes : Recover(mode)) \/ OperatorDecides \/ LoseMaintenance
    PROVE  RecoveryInv'
<1>1. IsRecovery(op) /\ UNCHANGED <<file, jobs, hold, stale>>
  BY DEF RecoveryInv, OpTyped, Recover, OperatorDecides, LoseMaintenance, recoveryTables
<1>2. CASE \E mode \in Modes : Recover(mode)
  <2>1. PICK mode \in Modes : Recover(mode)
    BY <1>2
  <2>2. IsRecovery(op') /\ op'.at \in {"failed", "pending"} /\ op'.items = <<>>
    BY <2>1 DEF Recover, NoRecovery, IsRecovery
  <2>3. OpTyped'
    <3>1. IsSequence(<<>>) /\ DOMAIN <<>> = {}
      BY DEF IsSequence
    <3> QED BY <2>2, <3>1 DEF OpTyped
  <2>4. (\A i \in DOMAIN op.items : Planned(op.items[i]))'
    BY <2>2
  <2> QED BY <1>1, <2>2, <2>3, <2>4, Moves
<1>3. CASE OperatorDecides
  <2>1. CASE op' = NoRecovery
    BY <1>1, <2>1, ToIdle
  <2>2. CASE op' = [op EXCEPT !.at = "apply"] /\ op.items # <<>>
    <3>1. IsRecovery(op') /\ op'.at = "apply" /\ op'.items = op.items
      BY <1>1, <2>2 DEF IsRecovery
    <3>2. OpTyped'
      BY <2>2, <3>1 DEF RecoveryInv, OpTyped
    <3>3. (\A i \in DOMAIN op.items : Planned(op.items[i]))'
      BY <1>1, <3>1 DEF RecoveryInv, Planned
    <3> QED BY <1>1, <3>1, <3>2, <3>3, Moves
  <2> QED BY <1>3, <2>1, <2>2 DEF OperatorDecides
<1>4. CASE LoseMaintenance
  <2>1. /\ IsRecovery(op') /\ op'.at = op.at /\ op'.items = op.items /\ op'.ids = op.ids
        /\ AtHand' = AtHand
    BY <1>1, <1>4 DEF LoseMaintenance, IsRecovery, AtHand
  <2>2. OpTyped'
    BY <2>1 DEF RecoveryInv, OpTyped
  <2>3. (\A i \in DOMAIN op.items : Planned(op.items[i]))'
    BY <1>1, <2>1 DEF RecoveryInv, Planned
  <2>4. (op.at \in {"lock", "reset"} => AllListed)' /\ (op.at = "reset" => QuietJobs)'
    BY <1>1, <2>1 DEF RecoveryInv, AllListed, QuietJobs
  <2> QED BY <1>1, <2>2, <2>3, <2>4, Moves
<1> QED BY <1>2, <1>3, <1>4

LEMMA IngestKeeps ==
    ASSUME RecoveryInv, UNCHANGED <<file, jobs, hold, op>>, stale' \subseteq Files
    PROVE  RecoveryInv'
<1>1. OpTyped' /\ AtHand' = AtHand
  BY DEF RecoveryInv, OpTyped, AtHand
<1>2. (\A i \in DOMAIN op.items : Planned(op.items[i]))'
  BY DEF RecoveryInv, Planned
<1>3. (op.at \in {"lock", "reset"} => AllListed)' /\ (op.at = "reset" => QuietJobs)'
  BY <1>1 DEF RecoveryInv, AllListed, QuietJobs
<1> QED BY <1>1, <1>2, <1>3 DEF RecoveryInv

\* Whoever is not listed now, though it was planned, is completed.
LEMMA ListKeeps ==
    ASSUME RecoveryInv, ListJobs
    PROVE  RecoveryInv'
<1>1. /\ IsRecovery(op) /\ op.at = "apply"
      /\ UNCHANGED <<file, jobs, hold, stale>>
      /\ op' = [op EXCEPT !.at = "lock", !.ids = OpenJobs(AtHand.doc)]
  BY DEF RecoveryInv, OpTyped, ListJobs, recoveryTables
<1>2. /\ IsRecovery(op') /\ op'.at = "lock" /\ op'.items = op.items
      /\ op'.ids = OpenJobs(AtHand.doc) /\ AtHand' = AtHand
  BY <1>1 DEF IsRecovery, AtHand
<1>3. op'.ids \subseteq Stages
  BY <1>2 DEF OpenJobs
<1>4. AllListed'
  <2> SUFFICES ASSUME NEW ref \in AtHand.jobs, AtHand.doc \in Files,
                      ref.stage \notin OpenJobs(AtHand.doc)
               PROVE  jobs[AtHand.doc][ref.stage].state = "COMPLETED"
    BY <1>1, <1>2 DEF AllListed
  <2>1. ref.stage \in Stages /\ jobs[AtHand.doc][ref.stage].state # "NONE"
    BY <1>1, FirstItem DEF RecoveryInv, Planned
  <2> QED BY <2>1 DEF OpenJobs
<1>5. op.items # <<>>
  BY <1>1 DEF RecoveryInv, OpTyped
<1> QED BY <1>1, <1>2, <1>3, <1>4, <1>5, PlaceKeeps

LEMMA LocksKeep ==
    ASSUME RecoveryInv, TryLocks
    PROVE  RecoveryInv'
<1>1. op.at = "lock" /\ UNCHANGED <<file, jobs, hold, stale>>
  BY DEF TryLocks, recoveryTables
<1>2. CASE op' = Done
  BY <1>1, <1>2, DoneKeeps
<1>3. CASE op' # Done
  <2>1. /\ IsRecovery(op) /\ op' = [op EXCEPT !.at = "reset"] /\ op.items # <<>>
        /\ op.ids \subseteq Stages /\ AllListed
        /\ \A s \in op.ids : hold[AtHand.doc][s] = 0
    BY <1>1, <1>3 DEF RecoveryInv, OpTyped, TryLocks
  <2>2. /\ IsRecovery(op') /\ op'.at = "reset" /\ op'.items = op.items
        /\ op'.ids = op.ids /\ AtHand' = AtHand
    BY <2>1 DEF IsRecovery, AtHand
  <2>3. AllListed' /\ QuietJobs'
    BY <1>1, <2>1, <2>2 DEF AllListed, QuietJobs
  <2> QED BY <1>1, <2>1, <2>2, <2>3, PlaceKeeps
<1> QED BY <1>2, <1>3

\* Whom a reset changes.
Resets(d) ==
    /\ op.at = "reset" /\ d = AtHand.doc /\ d \in Files
    /\ ~Refuses(d, AtHand.jobs)
    /\ OpenJobs(d) # {} => Eligible(d) # {}
    /\ file[d].status \in Unfinished \union {"FAILED"}

\* A job under a handler's lock is not settled; so the plan had it, it was listed
\* unless it was completed in the meantime, and the lock of what is listed was free.
LEMMA NobodyWorks ==
    ASSUME RecoveryInv, NEW d \in Files, Resets(d), NEW s \in Stages
    PROVE  hold[d][s] = 0
<1> SUFFICES ASSUME hold[d][s] # 0 PROVE FALSE
  OBVIOUS
<1>1. op.at = "reset" /\ d = AtHand.doc /\ AllListed /\ QuietJobs
  BY DEF RecoveryInv, Resets
<1>2. jobs[d][s].state \in {"READY", "RUNNING", "WAITING_SOURCE"}
  BY DEF RecoveryInv, Sound
<1>3. s \in OpenJobs(d)
  BY <1>2 DEF OpenJobs
<1>4. PICK ref \in AtHand.jobs : ref.stage = s
  <2>1. AsPlanned(d, AtHand.jobs)
    BY DEF Resets, Refuses
  <2>2. <<s, jobs[d][s].state, jobs[d][s].gen>>
           \in {<<j.stage, j.state, j.gen>> : j \in AtHand.jobs}
    BY <1>3, <2>1 DEF AsPlanned
  <2> QED BY <2>2
<1>5. s \in op.ids
  BY <1>1, <1>2, <1>4 DEF AllListed
<1> QED BY <1>1, <1>5 DEF QuietJobs

SameRows ==
    /\ DOMAIN file' = Files /\ DOMAIN jobs' = Files
    /\ \A d \in Files : file'[d] = file[d] /\ jobs'[d] = jobs[d]

LEMMA ResetRows ==
    ASSUME RecoveryInv, Reset
    PROVE  /\ op.at = "reset" /\ op' = Done /\ hold' = hold
           /\ \/ UNCHANGED <<file, jobs, stale>>
              \/ /\ AtHand.doc \notin Files => SameRows
                 /\ AtHand.doc \in Files => Resets(AtHand.doc)
                 /\ file' = [file EXCEPT ![AtHand.doc] =
                                [status |-> "PENDING", reason |-> "none"]]
                 /\ jobs' = [jobs EXCEPT ![AtHand.doc] = [s \in Stages |->
                       IF s \in Eligible(AtHand.doc) THEN Requeued(jobs[AtHand.doc][s])
                       ELSE jobs[AtHand.doc][s]]]
                 /\ stale' = stale \ {AtHand.doc}
<1> DEFINE d == AtHand.doc
<1>1. op.at = "reset" /\ op' = Done
  BY DEF Reset
<1>2. CASE UNCHANGED recoveryTables
  BY <1>1, <1>2 DEF recoveryTables
<1>3. CASE ~UNCHANGED recoveryTables
  <2>1. /\ ~Refuses(d, AtHand.jobs)
        /\ ~(OpenJobs(d) # {} /\ Eligible(d) = {})
        /\ file[d].status \in Unfinished \union {"FAILED"}
        /\ file' = [file EXCEPT ![d] = [status |-> "PENDING", reason |-> "none"]]
        /\ jobs' = [jobs EXCEPT ![d] = [s \in Stages |->
              IF s \in Eligible(d) THEN Requeued(jobs[d][s]) ELSE jobs[d][s]]]
        /\ Touch(d) /\ hold' = hold
    BY <1>3 DEF Reset
  <2>2. stale' = stale \ {d}
    BY <2>1 DEF Touch
  <2>3. d \in Files => Resets(d)
    BY <1>1, <2>1 DEF Resets
  <2>4. d \notin Files => SameRows
    BY <2>1 DEF RecoveryInv, SameRows
  <2> QED BY <1>1, <2>1, <2>2, <2>3, <2>4
<1> QED BY <1>2, <1>3

\* What a reset leaves of the document's jobs.
LEMMA ResetJobs ==
    ASSUME RecoveryInv, NEW d \in Files, Resets(d),
           jobs' = [jobs EXCEPT ![d] = [s \in Stages |->
              IF s \in Eligible(d) THEN Requeued(jobs[d][s]) ELSE jobs[d][s]]]
    PROVE  /\ DOMAIN jobs' = Files /\ \A e \in Files \ {d} : jobs'[e] = jobs[e]
           /\ jobs'[d] \in [Stages -> JobRows]
           /\ \A s \in Stages :
                 \/ jobs'[d][s] = jobs[d][s] /\ s \notin Eligible(d)
                 \/ s \in Eligible(d) /\ jobs'[d][s].state = "READY"
           /\ HasNoJob(d) \/ \E s \in Stages : s \in Eligible(d)
<1>1. \A s \in Stages : Requeued(jobs[d][s]) \in JobRows
                        /\ Requeued(jobs[d][s]).state = "READY"
  BY SoundRows DEF JobRows, Requeued
<1>2. /\ DOMAIN jobs' = Files /\ \A e \in Files \ {d} : jobs'[e] = jobs[e]
      /\ jobs'[d] = [s \in Stages |->
            IF s \in Eligible(d) THEN Requeued(jobs[d][s]) ELSE jobs[d][s]]
  BY SoundRows
<1>3. \A s \in Stages : \/ jobs'[d][s] = jobs[d][s] /\ s \notin Eligible(d)
                        \/ s \in Eligible(d) /\ jobs'[d][s] = Requeued(jobs[d][s])
  BY <1>2
<1>4. jobs'[d] \in [Stages -> JobRows]
  BY <1>1, <1>2, SoundRows
<1>5. HasNoJob(d) \/ \E s \in Stages : s \in Eligible(d)
  <2>1. HasNoJob(d) \/ OpenJobs(d) # {}
    BY DEF RecoveryInv, Sound, Resets, HasNoJob, OpenJobs
  <2> QED BY <2>1 DEF Resets, Eligible, OpenJobs
<1> QED BY <1>1, <1>2, <1>3, <1>4, <1>5

LEMMA ResetKeeps ==
    ASSUME RecoveryInv, Reset
    PROVE  RecoveryInv'
<1> DEFINE d == AtHand.doc
<1>1. op.at = "reset" /\ op' = Done /\ hold' = hold
  BY ResetRows
<1>2. CASE UNCHANGED <<file, jobs, stale>>
  BY <1>1, <1>2, DoneKeeps
<1>3. CASE ~UNCHANGED <<file, jobs, stale>> /\ d \notin Files
  <2>1. SameRows /\ stale' \subseteq Files
    BY <1>3, ResetRows DEF RecoveryInv
  <2>2. /\ DOMAIN file' = Files /\ DOMAIN jobs' = Files /\ DOMAIN hold' = Files
        /\ \A e \in Files : Sound(file'[e], jobs'[e], hold'[e])
    BY <1>1, <2>1 DEF RecoveryInv, SameRows
  <2>3. \A e \in Files : \A s \in Stages :
           jobs[e][s].state # "NONE" => jobs'[e][s].state # "NONE"
    BY <2>1 DEF SameRows
  <2> QED BY <1>1, <2>1, <2>2, <2>3, AppliedKeeps
<1>4. CASE ~UNCHANGED <<file, jobs, stale>> /\ d \in Files
  <2>1. /\ Resets(d)
        /\ file' = [file EXCEPT ![d] = [status |-> "PENDING", reason |-> "none"]]
        /\ jobs' = [jobs EXCEPT ![d] = [s \in Stages |->
              IF s \in Eligible(d) THEN Requeued(jobs[d][s]) ELSE jobs[d][s]]]
        /\ stale' = stale \ {d}
    BY <1>4, ResetRows
  <2>2. /\ DOMAIN jobs' = Files /\ \A e \in Files \ {d} : jobs'[e] = jobs[e]
        /\ jobs'[d] \in [Stages -> JobRows]
        /\ \A s \in Stages :
              \/ jobs'[d][s] = jobs[d][s] /\ s \notin Eligible(d)
              \/ s \in Eligible(d) /\ jobs'[d][s].state = "READY"
        /\ HasNoJob(d) \/ \E s \in Stages : s \in Eligible(d)
    BY <1>4, <2>1, ResetJobs
  <2>3. /\ DOMAIN file' = Files /\ \A e \in Files \ {d} : file'[e] = file[e]
        /\ file'[d] \in DocumentRows
    BY <1>4, <2>1, SoundRows DEF DocumentRows, Unfinished, Redrivable
  <2>4. \A s \in Stages : hold[d][s] = 0
    BY <1>4, <2>1, NobodyWorks
  <2>5. \A s \in Eligible(d) : jobs[d][s].state \notin {"NONE", "COMPLETED"}
    BY DEF Eligible, OpenJobs
  <2>6. Sound(file'[d], jobs'[d], hold'[d])
    <3>1. Sound(file[d], jobs[d], hold[d])
      BY <1>4 DEF RecoveryInv
    <3>2. jobs'[d][1].state \in {"NONE", "COMPLETED"} \/ jobs'[d][2].state = "NONE"
      BY <3>1, <2>2, <2>5 DEF Sound, Stages
    <3>3. \/ \A s \in Stages : jobs'[d][s].state = "NONE"
          \/ \E s \in Stages : jobs'[d][s].state \notin {"NONE", "COMPLETED"}
      BY <2>2, <2>5 DEF HasNoJob
    <3> QED BY <3>1, <3>2, <3>3, <1>1, <2>2, <2>3, <2>4 DEF Sound
  <2>7. \A e \in Files : Sound(file'[e], jobs'[e], hold'[e])
    BY <1>1, <2>2, <2>3, <2>6 DEF RecoveryInv
  <2>8. \A e \in Files : \A s \in Stages :
           jobs[e][s].state # "NONE" => jobs'[e][s].state # "NONE"
    BY <2>2
  <2>9. stale' \subseteq Files /\ DOMAIN hold' = Files
    BY <1>1, <2>1 DEF RecoveryInv
  <2> QED BY <1>1, <2>2, <2>3, <2>7, <2>8, <2>9, AppliedKeeps
<1> QED BY <1>2, <1>3, <1>4

LEMMA RecoveryInitInv == RecoveryInit => RecoveryInv
<1> SUFFICES ASSUME RecoveryInit PROVE RecoveryInv
  OBVIOUS
<1>1. PICK found \in [Files -> UNION {Found[d] : d \in Files}] :
         /\ \A d \in Files : found[d] \in Found[d]
         /\ file = [d \in Files |-> found[d].file]
         /\ jobs = [d \in Files |-> found[d].jobs]
         /\ hold = [d \in Files |-> found[d].hold]
  BY DEF RecoveryInit
<1>2. \A d \in Files : Sound(file[d], jobs[d], hold[d])
  BY <1>1, RecoveryAssumption
<1>3. op = NoRecovery /\ stale = Files
  BY DEF RecoveryInit
<1>4. op.at = "idle" /\ op.items = <<>> /\ IsRecovery(op)
  BY <1>3 DEF NoRecovery, IsRecovery
<1>5. IsSequence(<<>>) /\ DOMAIN <<>> = {}
  BY DEF IsSequence
<1> QED BY <1>1, <1>2, <1>3, <1>4, <1>5 DEF RecoveryInv, OpTyped

LEMMA RecoveryNextInv ==
    ASSUME RecoveryInv, [RecoveryNext]_recoveryVars
    PROVE  RecoveryInv'
<1>1. CASE UNCHANGED recoveryVars \/ IngestBegins \/ IngestEnds \/ Age
  <2>1. UNCHANGED <<file, jobs, hold, op>> /\ stale' \subseteq Files
    BY <1>1 DEF recoveryVars, IngestBegins, IngestEnds, Age, recoveryTables, RecoveryInv
  <2> QED BY <2>1, IngestKeeps
<1>2. CASE (\E mode \in Modes : Recover(mode)) \/ OperatorDecides \/ LoseMaintenance
  BY <1>2, BeginsKeep
<1>3. CASE StalePENDING \/ StalePROCESSING \/ SelectFailed
  BY <1>3, SelectsKeep
<1>4. CASE ReadJobs
  BY <1>4, ReadJobsKeeps
<1>5. CASE Skip \/ NotReset
  <2>1. UNCHANGED <<file, jobs, hold, stale>> /\ op' = Done
        /\ op.at \in {"apply", "lock", "reset"}
    BY <1>5 DEF Skip, NotReset, recoveryTables
  <2> QED BY <2>1, DoneKeeps
<1>6. CASE ListJobs \/ TryLocks \/ Reset
  BY <1>6, ListKeeps, LocksKeep, ResetKeeps
<1>7. CASE \E d \in Files :
              \/ ResumesSources(d)
              \/ \E s \in Stages : \/ Start(d, s) \/ Expire(d, s) \/ Verdict(d, s)
                                   \/ HandlerCommits(d, s) \/ HandlerRollsBack(d, s)
  BY <1>7, ResumeKeeps, StartKeeps, ExpireKeeps, VerdictKeeps, HandlerKeeps, RollsBackKeeps
<1> QED BY <1>1, <1>2, <1>3, <1>4, <1>5, <1>6, <1>7 DEF RecoveryNext

\* Found in order, the rows stay so; planned jobs are never forgotten; and once the
\* locks are taken, a planned job is locked and idle, or completed.
THEOREM RecoveryInductive == RecoverySpec => []RecoveryInv
<1>1. RecoveryInv /\ [RecoveryNext]_recoveryVars => RecoveryInv'
  BY RecoveryNextInv
<1> QED BY <1>1, RecoveryInitInv, PTL DEF RecoverySpec

\* What PlanHonoured says of a document that a step at "reset" changes.
Honoured(d) ==
    /\ d = AtHand.doc
    /\ \A s \in Stages : hold[d][s] = 0
    /\ \A s \in Stages : jobs'[d][s] # jobs[d][s] =>
          /\ jobs'[d][s].state = "READY"
          /\ \E j \in AtHand.jobs :
                j.stage = s /\ j.state = jobs[d][s].state /\ j.gen = jobs[d][s].gen
    /\ HasNoJob(d) \/ \E s \in Stages : jobs'[d][s].state = "READY"

LEMMA StepHonours ==
    ASSUME RecoveryInv, RecoveryNext, op.at = "reset", op' # op, NEW d \in Files,
           file'[d] # file[d] \/ jobs'[d] # jobs[d]
    PROVE  Honoured(d)
<1>1. Reset
  <2>a. \A e \in Files : /\ ~ResumesSources(e)
                         /\ \A s \in Stages :
                               /\ ~Start(e, s) /\ ~Expire(e, s) /\ ~Verdict(e, s)
                               /\ ~HandlerCommits(e, s) /\ ~HandlerRollsBack(e, s)
    <3>1. ASSUME NEW e \in Files PROVE ~ResumesSources(e)
      BY DEF ResumesSources
    <3>2. ASSUME NEW e \in Files, NEW s \in Stages
          PROVE  ~Start(e, s) /\ ~Expire(e, s) /\ ~HandlerRollsBack(e, s)
      BY DEF Start, Expire, HandlerRollsBack
    <3>3. ASSUME NEW e \in Files, NEW s \in Stages
          PROVE  ~Verdict(e, s)
      BY DEF Verdict
    <3>4. ASSUME NEW e \in Files, NEW s \in Stages
          PROVE  ~HandlerCommits(e, s)
      BY DEF HandlerCommits
    <3> QED BY <3>1, <3>2, <3>3, <3>4
  <2>b. ~IngestBegins /\ ~IngestEnds /\ ~Age /\ \A mode \in Modes : ~Recover(mode)
    BY DEF IngestBegins, IngestEnds, Age, Recover
  <2>c. ~StalePENDING /\ ~StalePROCESSING /\ ~SelectFailed /\ ~ReadJobs
    BY DEF StalePENDING, StalePROCESSING, SelectFailed, ReadJobs
  <2>d. ~OperatorDecides /\ ~Skip /\ ~ListJobs /\ ~TryLocks
    BY DEF OperatorDecides, Skip, ListJobs, TryLocks
  <2>1. Reset \/ NotReset \/ LoseMaintenance
    BY <2>a, <2>b, <2>c, <2>d DEF RecoveryNext
  <2>2. ~NotReset /\ ~LoseMaintenance
    BY DEF NotReset, LoseMaintenance, recoveryTables
  <2> QED BY <2>1, <2>2
<1>2. /\ d = AtHand.doc /\ Resets(d)
      /\ jobs' = [jobs EXCEPT ![d] = [s \in Stages |->
            IF s \in Eligible(d) THEN Requeued(jobs[d][s]) ELSE jobs[d][s]]]
  <2>1. ~UNCHANGED <<file, jobs, stale>>
    OBVIOUS
  <2>2. /\ AtHand.doc \in Files => Resets(AtHand.doc)
        /\ file' = [file EXCEPT ![AtHand.doc] = [status |-> "PENDING", reason |-> "none"]]
        /\ jobs' = [jobs EXCEPT ![AtHand.doc] = [s \in Stages |->
              IF s \in Eligible(AtHand.doc) THEN Requeued(jobs[AtHand.doc][s])
              ELSE jobs[AtHand.doc][s]]]
    BY <1>1, <2>1, ResetRows
  <2>3. d = AtHand.doc
    <3>1. d # AtHand.doc => file'[d] = file[d] /\ jobs'[d] = jobs[d]
      BY <2>2, SoundRows
    <3> QED BY <3>1
  <2> QED BY <2>2, <2>3
<1>3. /\ \A s \in Stages : \/ jobs'[d][s] = jobs[d][s] /\ s \notin Eligible(d)
                           \/ s \in Eligible(d) /\ jobs'[d][s].state = "READY"
      /\ HasNoJob(d) \/ \E s \in Stages : s \in Eligible(d)
  BY <1>2, ResetJobs
<1>4. \A s \in Stages : hold[d][s] = 0
  BY <1>2, NobodyWorks
<1>5. ASSUME NEW s \in Eligible(d)
      PROVE  \E j \in AtHand.jobs :
                j.stage = s /\ j.state = jobs[d][s].state /\ j.gen = jobs[d][s].gen
  <2>1. s \in OpenJobs(d) /\ AsPlanned(d, AtHand.jobs)
    BY <1>2 DEF Eligible, Resets, Refuses
  <2>2. <<s, jobs[d][s].state, jobs[d][s].gen>>
           \in {<<j.stage, j.state, j.gen>> : j \in AtHand.jobs}
    BY <2>1 DEF AsPlanned
  <2> QED BY <2>2
<1> QED BY <1>2, <1>3, <1>4, <1>5 DEF Honoured

\* What recovery changes is nobody's work, as the plan saw it, and queued again
\* (doctor_queries.go, ResetToPENDING).
THEOREM PlanAlwaysHonoured == RecoverySpec => PlanHonoured
<1>1. RecoveryInv /\ [RecoveryNext]_recoveryVars =>
        [op.at = "reset" /\ op' # op =>
           \A d \in {e \in Files : file'[e] # file[e] \/ jobs'[e] # jobs[e]} :
               /\ d = AtHand.doc
               /\ \A s \in Stages : hold[d][s] = 0
               /\ \A s \in Stages : jobs'[d][s] # jobs[d][s] =>
                     /\ jobs'[d][s].state = "READY"
                     /\ \E j \in AtHand.jobs :
                           j.stage = s /\ j.state = jobs[d][s].state /\ j.gen = jobs[d][s].gen
               /\ HasNoJob(d) \/ \E s \in Stages : jobs'[d][s].state = "READY"]_recoveryVars
  BY StepHonours DEF Honoured
<1> QED BY <1>1, RecoveryInductive, PTL DEF RecoverySpec, PlanHonoured

=============================================================================
