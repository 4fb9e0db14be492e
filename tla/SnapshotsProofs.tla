-------------------------- MODULE SnapshotsProofs --------------------------
(***************************************************************************)
(* Theorems about what a server answers from: the evidence snapshots, for  *)
(* every number of calls, results and identities and every bound           *)
(* (Snapshots), the pages of the mailbox, for every mailbox and every      *)
(* order of arrival (Mailbox), those of evidence, for every result and     *)
(* every room of a page (Evidence), and those of documents fetched by      *)
(* name, for every history of their revisions (Documents).                 *)
(***************************************************************************)
EXTENDS Snapshots, Mailbox, Reading, SetInduction, FiniteSetTheorems, TLAPS

-----------------------------------------------------------------------------
(* Sums over finite sets.                                                  *)

\* One step of a sum, and what defines the sums over all subsets of S.
Chosen(s) == CHOOSE x \in s : TRUE
OneMore(f, w, s) == IF s = {} THEN 0 ELSE w[Chosen(s)] + f[s \ {Chosen(s)}]
Adds(f, w, S) == f = [s \in SUBSET S |-> OneMore(f, w, s)]

LEMMA AddsExists ==
    ASSUME NEW S, IsFiniteSet(S), NEW w
    PROVE  \E f : Adds(f, w, S)
<1> DEFINE Small(n) == {s \in SUBSET S : Cardinality(s) <= n}
           Good(n) == \E f : f = [s \in Small(n) |-> OneMore(f, w, s)]
           Bad == {n \in Nat : ~Good(n)}
<1>1. \A T \in SUBSET S : IsFiniteSet(T) /\ Cardinality(T) \in Nat
  BY FS_Subset, FS_CardinalityType
<1>2. \A T \in SUBSET S : T # {} => /\ Chosen(T) \in T
                                    /\ T \ {Chosen(T)} \in SUBSET S
                                    /\ Cardinality(T \ {Chosen(T)}) = Cardinality(T) - 1
  BY <1>1, FS_RemoveElement DEF Chosen
<1>3. \A T \in SUBSET S : Cardinality(T) = 0 <=> T = {}
  BY <1>1, FS_EmptySet
<1>4. Good(0)
  <2> DEFINE f == [s \in Small(0) |-> 0]
  <2>1. \A s \in Small(0) : s = {}
    BY <1>1, <1>3
  <2>2. f = [s \in Small(0) |-> OneMore(f, w, s)]
    BY <2>1 DEF OneMore
  <2> QED BY <2>2
<1>5. ASSUME NEW n \in Nat, Good(n) PROVE Good(n + 1)
  <2>1. PICK g : g = [s \in Small(n) |-> OneMore(g, w, s)]
    BY <1>5
  <2> DEFINE f == [s \in Small(n + 1) |-> OneMore(g, w, s)]
  <2>2. \A s \in Small(n) : s \in Small(n + 1) /\ f[s] = g[s]
    BY <1>1, <2>1
  <2>3. ASSUME NEW s \in Small(n + 1), s # {}
        PROVE  s \ {Chosen(s)} \in Small(n)
    <3>1. Cardinality(s) \in Nat /\ Cardinality(s) <= n + 1
      BY <1>1
    <3> QED BY <1>2, <2>3, <3>1
  <2>4. \A s \in Small(n + 1) : f[s] = OneMore(f, w, s)
    <3> SUFFICES ASSUME NEW s \in Small(n + 1) PROVE OneMore(g, w, s) = OneMore(f, w, s)
      OBVIOUS
    <3> QED BY <2>2, <2>3 DEF OneMore
  <2>5. f = [s \in Small(n + 1) |-> OneMore(f, w, s)]
    BY <2>4
  <2> QED BY <2>5
<1>6. Good(Cardinality(S))
  <2>1. SUFFICES ASSUME Bad # {} PROVE FALSE
    BY <1>1
  <2> HIDE DEF Good
  <2>2. PICK m \in Bad : \A n \in Bad : m <= n
    BY <2>1, LeastElement
  <2>3. m # 0 /\ m - 1 \in Nat /\ m - 1 \notin Bad
    BY <1>4, <2>2
  <2> QED BY <1>5, <2>2, <2>3
<1>7. Small(Cardinality(S)) = SUBSET S
  BY <1>1, FS_Subset
<1> QED
  BY <1>6, <1>7 DEF Adds

Alike(w, v, T) == \A x \in T : w[x] = v[x]

LEMMA AddsOnce ==
    ASSUME NEW f, NEW g, NEW w, NEW v, NEW S, NEW R, NEW T,
           Adds(f, w, S), Adds(g, v, R), IsFiniteSet(T),
           T \subseteq S, T \subseteq R, Alike(w, v, T)
    PROVE  f[T] = g[T]
<1> DEFINE F == {U \in SUBSET T : f[U] = g[U]}
<1>1. ASSUME NEW U \in SUBSET T, \A x \in U : U \ {x} \in F
      PROVE  U \in F
  <2>1. f[U] = OneMore(f, w, U) /\ g[U] = OneMore(g, v, U)
    BY DEF Adds
  <2>2. U # {} => Chosen(U) \in U
    BY DEF Chosen
  <2> QED BY <1>1, <2>1, <2>2 DEF OneMore, Alike
<1>2. \A U \in SUBSET T : (\A x \in U : U \ {x} \in F) => U \in F
  BY <1>1
<1> HIDE DEF F
<1>3. \A U \in SUBSET T : U \in F
  BY <1>2, Inductively
<1> QED
  BY <1>3 DEF F

LEMMA SumAdds ==
    ASSUME NEW S, IsFiniteSet(S), NEW w
    PROVE  \E f : Adds(f, w, S) /\ SumFunctionOnSet(w, S) = f[S]
<1> DEFINE Fold ==
      LET iter[s \in SUBSET S] ==
            IF s = {} THEN 0
            ELSE LET x == CHOOSE y \in s : TRUE IN w[x] + iter[s \ {x}]
      IN  iter
<1>1. SumFunctionOnSet(w, S) = Fold[S]
  BY Zenon DEF SumFunctionOnSet, FoldFunctionOnSet, MapThenFoldSet
<1>2. Fold = CHOOSE f : Adds(f, w, S)
  BY Zenon DEF Adds, OneMore, Chosen
<1> HIDE DEF Fold
<1>3. Adds(Fold, w, S)
  BY <1>2, AddsExists
<1> QED
  BY <1>1, <1>3

\* Sums over a set depend only on the numbers at its elements.
LEMMA SumSame ==
    ASSUME NEW S, IsFiniteSet(S), NEW w, NEW v, \A x \in S : w[x] = v[x]
    PROVE  SumFunctionOnSet(w, S) = SumFunctionOnSet(v, S)
<1>1. PICK f : Adds(f, w, S) /\ SumFunctionOnSet(w, S) = f[S]
  BY SumAdds
<1>2. PICK g : Adds(g, v, S) /\ SumFunctionOnSet(v, S) = g[S]
  BY SumAdds
<1>3. S \subseteq S
  OBVIOUS
<1>4. Alike(w, v, S)
  BY DEF Alike
<1>5. f[S] = g[S]
  BY <1>1, <1>2, <1>3, <1>4, AddsOnce
<1> QED
  BY <1>1, <1>2, <1>5

LEMMA SumEmpty == ASSUME NEW w PROVE SumFunctionOnSet(w, {}) = 0
<1>1. PICK f : Adds(f, w, {}) /\ SumFunctionOnSet(w, {}) = f[{}]
  BY SumAdds, FS_EmptySet
<1> QED
  BY <1>1 DEF Adds, OneMore

\* A sum is a number, and each element contributes its own.
LEMMA SumWithout ==
    ASSUME NEW S, IsFiniteSet(S), NEW w, \A x \in S : w[x] \in Nat
    PROVE  /\ SumFunctionOnSet(w, S) \in Nat
           /\ \A x \in S : SumFunctionOnSet(w, S) = w[x] + SumFunctionOnSet(w, S \ {x})
<1>1. PICK f : Adds(f, w, S) /\ SumFunctionOnSet(w, S) = f[S]
  BY SumAdds
<1> DEFINE F == {T \in SUBSET S : /\ f[T] \in Nat
                                  /\ \A x \in T : f[T] = w[x] + f[T \ {x}]}
<1>5. \A T \in SUBSET S : f[T] \in Nat
  <2> DEFINE N == {T \in SUBSET S : f[T] \in Nat}
  <2>1. ASSUME NEW T \in SUBSET S, \A x \in T : T \ {x} \in N
        PROVE  T \in N
    <3>1. f[T] = OneMore(f, w, T)
      BY <1>1 DEF Adds
    <3>2. T # {} => Chosen(T) \in T
      BY DEF Chosen
    <3> QED BY <2>1, <3>1, <3>2 DEF OneMore
  <2>2. \A T \in SUBSET S : (\A x \in T : T \ {x} \in N) => T \in N
    BY <2>1
  <2> HIDE DEF N
  <2>3. \A T \in SUBSET S : T \in N
    BY <2>2, Inductively
  <2> QED BY <2>3 DEF N
<1>2. ASSUME NEW T \in SUBSET S, \A x \in T : T \ {x} \in F
      PROVE  T \in F
  <2>1. f[T] = OneMore(f, w, T)
    BY <1>1 DEF Adds
  <2>2. CASE T = {}
    BY <2>1, <2>2 DEF OneMore
  <2>3. CASE T # {}
    <3> DEFINE c == Chosen(T)
    <3>1. c \in T
      BY <2>3 DEF Chosen
    <3>2. f[T] = w[c] + f[T \ {c}]
      BY <2>1, <2>3 DEF OneMore
    <3> HIDE DEF c
    <3>3. f[T \ {c}] \in Nat /\ w[c] \in Nat
      BY <1>2, <3>1
    <3>4. ASSUME NEW x \in T, x # c PROVE f[T] = w[x] + f[T \ {x}]
      <4>1. f[T \ {c}] = w[x] + f[(T \ {c}) \ {x}]
        BY <1>2, <3>1, <3>4
      <4>2. f[T \ {x}] = w[c] + f[(T \ {x}) \ {c}] /\ f[T \ {x}] \in Nat
        BY <1>2, <3>1, <3>4
      <4>3. (T \ {c}) \ {x} = (T \ {x}) \ {c}
        BY Zenon
      <4>4. x \in T \ {c} /\ w[x] \in Nat
        BY <3>4
      <4>5. f[(T \ {x}) \ {c}] \in Nat
        BY <1>5
      <4> HIDE DEF F
      <4>6. \A p, q, r : /\ p \in Nat /\ q \in Nat /\ r \in Nat
                         => p + (q + r) = q + (p + r)
        OBVIOUS
      <4>7. w[c] + (w[x] + f[(T \ {x}) \ {c}]) = w[x] + (w[c] + f[(T \ {x}) \ {c}])
        BY <3>3, <4>4, <4>5, <4>6
      <4> QED BY <3>2, <4>1, <4>2, <4>3, <4>7, Zenon
    <3>5. \A x \in T : f[T] = w[x] + f[T \ {x}]
      BY <3>2, <3>4
    <3>6. f[T] \in Nat
      BY <3>2, <3>3
    <3> QED BY <3>5, <3>6
  <2> QED BY <2>2, <2>3
<1>3. S \in F
  <2>1. \A T \in SUBSET S : (\A x \in T : T \ {x} \in F) => T \in F
    BY <1>2
  <2> HIDE DEF F
  <2>2. \A T \in SUBSET S : T \in F
    BY <2>1, Inductively
  <2> QED BY <2>2
<1>4. ASSUME NEW x \in S PROVE SumFunctionOnSet(w, S \ {x}) = f[S \ {x}]
  <2>1. IsFiniteSet(S \ {x})
    BY FS_Subset
  <2>2. PICK g : Adds(g, w, S \ {x}) /\ SumFunctionOnSet(w, S \ {x}) = g[S \ {x}]
    BY <2>1, SumAdds
  <2> QED BY <1>1, <2>1, <2>2, AddsOnce DEF Alike
<1> QED
  BY <1>1, <1>3, <1>4

\* The sum over a part and the sum over the rest.
LEMMA SumSplit ==
    ASSUME NEW S, IsFiniteSet(S), NEW w, \A x \in S : w[x] \in Nat, NEW K \in SUBSET S
    PROVE  SumFunctionOnSet(w, S) = SumFunctionOnSet(w, K) + SumFunctionOnSet(w, S \ K)
<1> DEFINE Sum(T) == SumFunctionOnSet(w, T)
           F == {T \in SUBSET K : Sum(S) = Sum(T) + Sum(S \ T)}
<1>1. \A T \in SUBSET S : IsFiniteSet(T) /\ Sum(T) \in Nat
  BY FS_Subset, SumWithout
<1>2. \A T \in SUBSET S : \A x \in T : Sum(T) = w[x] + Sum(T \ {x})
  BY <1>1, SumWithout
<1>3. Sum({}) = 0
  BY SumEmpty
<1> HIDE DEF Sum
<1>4. ASSUME NEW T \in SUBSET K, \A x \in T : T \ {x} \in F
      PROVE  T \in F
  <2>1. CASE T = {}
    <3>1. S \ T = S
      BY <2>1
    <3> QED BY <1>1, <1>3, <2>1, <3>1
  <2>2. CASE T # {}
    <3>1. PICK x \in T : TRUE
      BY <2>2
    <3>2. Sum(S) = Sum(T \ {x}) + Sum(S \ (T \ {x}))
      BY <1>4
    <3>3. Sum(T) = w[x] + Sum(T \ {x})
      BY <1>2
    <3>4. Sum(S \ (T \ {x})) = w[x] + Sum((S \ (T \ {x})) \ {x})
      BY <1>2
    <3>5. (S \ (T \ {x})) \ {x} = S \ T
      BY Zenon
    <3>6. /\ Sum(T \ {x}) \in Nat /\ Sum(S \ T) \in Nat /\ w[x] \in Nat
      BY <1>1
    <3> QED BY <3>2, <3>3, <3>4, <3>5, <3>6
  <2> QED BY <2>1, <2>2
<1>5. IsFiniteSet(K)
  BY <1>1
<1>6. K \in F
  BY <1>4, <1>5, Inductively
<1> QED
  BY <1>6 DEF Sum
-----------------------------------------------------------------------------
(* The inductive invariant.                                                *)

\* The store's account.
Account ==
    /\ IsFiniteSet(Stored)
    /\ Cardinality(Stored) <= MaxSnapshots
    /\ bytes = Total(Stored)
    /\ bytes <= MaxBytes

\* The calls under way stay within the bound on searches.
Budget ==
    /\ IsFiniteSet(Busy)
    /\ searches + Cardinality(Busy) <= MaxSearches

\* Until shutdown every call has an identity of its own.
Identities ==
    ~closed =>
        /\ reserved = {call[c].id : c \in Busy}
        /\ reserved \intersect Stored = {}
        /\ IsFiniteSet(reserved) /\ Cardinality(reserved) = Cardinality(Busy)
        /\ \A c, d \in Busy : call[c].id = call[d].id => c = d

\* Cursors of one result are a chain from its second page on, each but the
\* first drawn by the one before it, one per page.
Linked(t) ==
    /\ cursors[t].page >= 2
    /\ cursors[t].page > 2 =>
          \E u \in DOMAIN cursors :
             /\ cursors[u].id = cursors[t].id
             /\ cursors[u].page + 1 = cursors[t].page
             /\ cursors[u].next = t
OnePerPage(t, u) ==
    cursors[t].id = cursors[u].id /\ cursors[t].page = cursors[u].page => t = u
Chain ==
    /\ \A t \in DOMAIN cursors : Linked(t)
    /\ \A t, u \in DOMAIN cursors : OnePerPage(t, u)

\* The age by which the code evicts is how long a snapshot was not used.
Aged == \A i \in Stored : snapshots[i].age = snapshots[i].idle

IInv == TypeOK /\ Account /\ Budget /\ Identities /\ Faithful /\ Chain /\ Aged

-----------------------------------------------------------------------------
LEMMA Typed ==
    ASSUME TypeOK
    PROVE  /\ \A i \in Stored :
                 /\ i \in Ids
                 /\ snapshots[i].result \in Results /\ snapshots[i].age \in 0..TTL
                 /\ snapshots[i].search \in 1..MaxSearches /\ snapshots[i].idle \in 0..TTL
           /\ \A t \in DOMAIN cursors :
                 /\ t \in 1..tokens
                 /\ cursors[t].id \in Ids
                 /\ cursors[t].page \in Nat \ {0} /\ cursors[t].next \in Nat
           /\ \A c \in Busy : call[c].id \in Ids /\ call[c].result \in Results
           /\ Live \in SUBSET Stored
<1>1. \A i \in Stored : snapshots[i] \in Snapshot /\ i \in Ids
  BY DEF TypeOK
<1>2. \A t \in DOMAIN cursors : cursors[t] \in Cursor /\ t \in 1..tokens
  BY DEF TypeOK
<1>3. \A c \in Busy : call[c] \in Reserved
  BY DEF TypeOK, Busy
<1>4. Live \in SUBSET Stored
  BY DEF Live
<1> QED
  BY <1>1, <1>2, <1>3, <1>4 DEF Snapshot, Cursor, Reserved

\* What is in the store weighs what its account says.
LEMMA Weighed ==
    ASSUME TypeOK, Account, NEW S \in SUBSET Stored
    PROVE  /\ IsFiniteSet(S)
           /\ \A i \in Stored : Weight[i] = Size[snapshots[i].result] /\ Weight[i] \in Nat
           /\ BytesOf(S) = Total(S) /\ Total(S) \in Nat /\ Total(S) <= bytes
<1>1. \A i \in Stored : Weight[i] = Size[snapshots[i].result] /\ Weight[i] \in Nat
  BY Typed, SnapshotAssumption DEF Weight
<1>2. IsFiniteSet(S) /\ IsFiniteSet(Stored) /\ IsFiniteSet(Stored \ S)
  BY FS_Subset DEF Account
<1>3. Total(S) \in Nat /\ Total(Stored \ S) \in Nat
  BY <1>1, <1>2, SumWithout DEF Total
<1>4. Total(Stored) = Total(S) + Total(Stored \ S)
  BY <1>1, <1>2, SumSplit DEF Total
<1> QED
  BY <1>1, <1>2, <1>3, <1>4 DEF Account, BytesOf

\* What is left weighs the same after a step that leaves only S, as it was.
LEMMA Rebalanced ==
    ASSUME TypeOK, Account, NEW S \in SUBSET Stored, Stored' = S,
           \A i \in S : snapshots'[i].result = snapshots[i].result
    PROVE  Total(Stored)' = Total(S)
<1>1. IsFiniteSet(S) /\ \A i \in S : Weight[i] = Size[snapshots[i].result]
  BY Weighed
<1>2. \A i \in S : Weight'[i] = Size[snapshots'[i].result]
  BY DEF Weight
<1>3. \A i \in S : Weight[i] = Weight'[i]
  BY <1>1, <1>2
<1>4. SumFunctionOnSet(Weight, S) = SumFunctionOnSet(Weight', S)
  BY <1>1, <1>3, SumSame
<1>5. Total(Stored)' = SumFunctionOnSet(Weight', Stored')
  BY DEF Total
<1> QED
  BY <1>4, <1>5 DEF Total

-----------------------------------------------------------------------------
(* Snapshots go.                                                           *)

\* Those that stay, and their cursors, are as they were.
LEMMA KeptSame ==
    ASSUME NEW S \in SUBSET Stored, Keep(S)
    PROVE  /\ Stored' = S
           /\ \A i \in S : snapshots'[i] = snapshots[i]
           /\ \A t \in DOMAIN cursors' : /\ t \in DOMAIN cursors /\ cursors[t].id \in S
                                         /\ cursors'[t] = cursors[t]
           /\ \A t \in DOMAIN cursors : cursors[t].id \in S => t \in DOMAIN cursors'
           /\ bytes' = BytesOf(S)
BY DEF Keep, CursorsOf, Restrict, Stored

\* The store's part of the invariant after that.
StoreInv ==
    /\ Stored \subseteq Ids
    /\ \A i \in Stored : snapshots[i] \in Snapshot
    /\ DOMAIN cursors \subseteq 1..tokens
    /\ \A t \in DOMAIN cursors : cursors[t] \in Cursor
    /\ bytes \in Nat /\ tokens \in Nat
    /\ given \in [1..tokens -> [search : Nat, page : Nat]]
    /\ Account /\ Faithful /\ Chain /\ Aged

LEMMA KeepKeeps ==
    ASSUME IInv, NEW S \in SUBSET Stored, Keep(S), UNCHANGED <<tokens, given>>
    PROVE  StoreInv' /\ Stored' = S
<1>0. TypeOK /\ Account /\ Faithful /\ Chain /\ Aged
  BY DEF IInv
<1>1. /\ Stored' = S
      /\ \A i \in S : snapshots'[i] = snapshots[i]
      /\ \A t \in DOMAIN cursors' : /\ t \in DOMAIN cursors /\ cursors[t].id \in S
                                    /\ cursors'[t] = cursors[t]
      /\ \A t \in DOMAIN cursors : cursors[t].id \in S => t \in DOMAIN cursors'
      /\ bytes' = BytesOf(S)
  BY KeptSame
<1>2. /\ Stored' \subseteq Ids /\ \A i \in Stored' : snapshots'[i] \in Snapshot
      /\ DOMAIN cursors' \subseteq 1..tokens'
      /\ \A t \in DOMAIN cursors' : cursors'[t] \in Cursor
      /\ tokens' \in Nat /\ given' \in [1..tokens' -> [search : Nat, page : Nat]]
  BY <1>0, <1>1 DEF TypeOK
<1>3. Account' /\ bytes' \in Nat
  <2>1. IsFiniteSet(S) /\ BytesOf(S) = Total(S) /\ Total(S) \in Nat /\ Total(S) <= bytes
    BY <1>0, Weighed
  <2>2. Total(Stored)' = Total(S)
    BY <1>0, <1>1, Rebalanced
  <2>3. Cardinality(S) <= MaxSnapshots
    <3>1. Cardinality(S) <= Cardinality(Stored) /\ Cardinality(S) \in Nat
          /\ Cardinality(Stored) \in Nat
      BY <1>0, <2>1, FS_Subset, FS_CardinalityType DEF Account
    <3> QED BY <1>0, <3>1, SnapshotAssumption DEF Account
  <2>4. bytes' <= MaxBytes
    BY <1>0, <1>1, <2>1, SnapshotAssumption DEF Account, TypeOK
  <2> QED BY <1>1, <2>1, <2>2, <2>3, <2>4 DEF Account
<1>4. Faithful'
  BY <1>0, <1>1 DEF Faithful
<1>5. Chain'
  <2>1. ASSUME NEW t \in DOMAIN cursors' PROVE Linked(t)'
    BY <1>0, <1>1 DEF Chain, Linked
  <2>2. ASSUME NEW t \in DOMAIN cursors', NEW u \in DOMAIN cursors' PROVE OnePerPage(t, u)'
    BY <1>0, <1>1 DEF Chain, OnePerPage
  <2> QED BY <2>1, <2>2 DEF Chain
<1>6. Aged'
  BY <1>0, <1>1 DEF Aged
<1> QED
  BY <1>1, <1>2, <1>3, <1>4, <1>5, <1>6 DEF StoreInv

-----------------------------------------------------------------------------
(* Calls.                                                                  *)

CallsTyped ==
    /\ reserved \subseteq Ids
    /\ call \in [Calls -> Reserved \union {Idle}]
    /\ closed \in BOOLEAN
    /\ searches \in Nat

LEMMA Split ==
    IInv <=> StoreInv /\ CallsTyped /\ Budget /\ Identities
BY DEF IInv, StoreInv, CallsTyped, TypeOK

\* A call that ends gives its identity back; the one it may have stored under
\* it is its own.
LEMMA LetGoKeeps ==
    ASSUME IInv, NEW c \in Calls, LetGo(c), Stored' \subseteq Stored \union {call[c].id}
    PROVE  CallsTyped' /\ Budget' /\ Identities'
<1>0. TypeOK /\ Budget /\ Identities
  BY DEF IInv
<1>1. /\ c \in Busy /\ call' = [call EXCEPT ![c] = Idle]
      /\ searches' = searches + 1 /\ reserved' = reserved \ {call[c].id}
      /\ closed' = closed
  BY DEF LetGo, Busy
<1>2. CallsTyped'
  BY <1>0, <1>1 DEF CallsTyped, TypeOK
<1>3. /\ Busy' = Busy \ {c}
      /\ \A d \in Busy' : d \in Busy /\ d # c /\ call'[d] = call[d]
  BY <1>0, <1>1 DEF Busy, TypeOK
<1>4. Budget'
  <2>1. IsFiniteSet(Busy \ {c}) /\ Cardinality(Busy \ {c}) = Cardinality(Busy) - 1
    BY <1>0, <1>1, FS_RemoveElement DEF Budget
  <2>2. Cardinality(Busy) \in Nat
    BY <1>0, FS_CardinalityType DEF Budget
  <2> QED BY <1>0, <1>1, <1>3, <2>1, <2>2, SnapshotAssumption DEF Budget, TypeOK
<1>5. ASSUME ~closed'
      PROVE  /\ reserved' = {call'[d].id : d \in Busy'}
             /\ reserved' \intersect Stored' = {}
             /\ IsFiniteSet(reserved') /\ Cardinality(reserved') = Cardinality(Busy')
             /\ \A d, e \in Busy' : call'[d].id = call'[e].id => d = e
  <2>1. /\ reserved = {call[d].id : d \in Busy}
        /\ reserved \intersect Stored = {}
        /\ IsFiniteSet(reserved) /\ Cardinality(reserved) = Cardinality(Busy)
        /\ \A d, e \in Busy : call[d].id = call[e].id => d = e
    BY <1>0, <1>1, <1>5 DEF Identities
  <2>2. reserved' = {call'[d].id : d \in Busy'}
    <3>1. \A i \in reserved' : \E d \in Busy' : i = call'[d].id
      BY <1>1, <1>3, <2>1
    <3>2. \A d \in Busy' : call'[d].id \in reserved'
      BY <1>1, <1>3, <2>1
    <3> QED BY <3>1, <3>2
  <2>3. reserved' \intersect Stored' = {}
    BY <1>1, <2>1
  <2>4. IsFiniteSet(reserved') /\ Cardinality(reserved') = Cardinality(Busy')
    <3>1. call[c].id \in reserved
      BY <1>1, <2>1
    <3>2. /\ IsFiniteSet(reserved \ {call[c].id})
          /\ Cardinality(reserved \ {call[c].id}) = Cardinality(reserved) - 1
      BY <2>1, <3>1, FS_RemoveElement
    <3>3. Cardinality(Busy \ {c}) = Cardinality(Busy) - 1
      BY <1>0, <1>1, FS_RemoveElement DEF Budget
    <3> QED BY <1>1, <1>3, <2>1, <3>2, <3>3
  <2>5. \A d, e \in Busy' : call'[d].id = call'[e].id => d = e
    BY <1>3, <2>1
  <2> QED BY <2>2, <2>3, <2>4, <2>5
<1> QED
  BY <1>2, <1>4, <1>5 DEF Identities

LEMMA ReserveKeeps ==
    ASSUME IInv, NEW c \in Calls, NEW i \in Ids, NEW r \in Results, Reserve(c, i, r)
    PROVE  IInv'
<1>0. TypeOK /\ Budget /\ Identities /\ Account /\ StoreInv
  BY Split DEF IInv
<1>1. /\ call[c] = Idle /\ searches + Cardinality(Busy) < MaxSearches
      /\ i \notin Stored /\ i \notin reserved /\ reserved' = reserved \union {i}
      /\ call' = [call EXCEPT ![c] = [at |-> "reserved", id |-> i, result |-> r]]
      /\ UNCHANGED <<snapshots, cursors, bytes, tokens, closed, searches, given>>
  BY DEF Reserve, Fresh
<1>2. StoreInv'
  <2>1. Stored' = Stored /\ Total(Stored)' = Total(Stored)
    BY <1>1 DEF Stored, Total, Weight
  <2>2. Account' /\ Faithful' /\ Chain' /\ Aged'
    BY <1>0, <1>1, <2>1 DEF StoreInv, Account, Faithful, Chain, Linked, OnePerPage, Aged
  <2> QED BY <1>0, <1>1, <2>1, <2>2 DEF StoreInv
<1>3. c \in Calls /\ call'[c].id = i /\ call'[c] # Idle
  BY <1>0, <1>1 DEF TypeOK, Idle
<1>4. CallsTyped'
  <2>1. [at |-> "reserved", id |-> i, result |-> r] \in Reserved
    BY DEF Reserved
  <2> QED BY <1>0, <1>1, <2>1 DEF CallsTyped, TypeOK
<1>5. /\ Busy' = Busy \union {c} /\ c \notin Busy
      /\ \A d \in Busy : d # c /\ call'[d] = call[d]
  BY <1>0, <1>1, <1>3 DEF Busy, TypeOK
<1>6. /\ IsFiniteSet(Busy') /\ Cardinality(Busy') = Cardinality(Busy) + 1
      /\ Cardinality(Busy) \in Nat
  BY <1>0, <1>5, FS_AddElement, FS_CardinalityType DEF Budget
<1>7. Budget'
  BY <1>0, <1>1, <1>6, SnapshotAssumption DEF Budget, TypeOK
<1>8. ASSUME ~closed'
      PROVE  /\ reserved' = {call'[d].id : d \in Busy'}
             /\ reserved' \intersect Stored' = {}
             /\ IsFiniteSet(reserved') /\ Cardinality(reserved') = Cardinality(Busy')
             /\ \A d, e \in Busy' : call'[d].id = call'[e].id => d = e
  <2>1. /\ reserved = {call[d].id : d \in Busy}
        /\ reserved \intersect Stored = {}
        /\ IsFiniteSet(reserved) /\ Cardinality(reserved) = Cardinality(Busy)
        /\ \A d, e \in Busy : call[d].id = call[e].id => d = e
    BY <1>0, <1>1, <1>8 DEF Identities
  <2>2. reserved' = {call'[d].id : d \in Busy'}
    <3>1. \A j \in reserved' : \E d \in Busy' : j = call'[d].id
      BY <1>1, <1>3, <1>5, <2>1
    <3>2. \A d \in Busy' : call'[d].id \in reserved'
      BY <1>1, <1>3, <1>5, <2>1
    <3> QED BY <3>1, <3>2
  <2>3. reserved' \intersect Stored' = {}
    BY <1>1, <2>1 DEF Stored
  <2>4. IsFiniteSet(reserved') /\ Cardinality(reserved') = Cardinality(Busy')
    <3>1. /\ IsFiniteSet(reserved \union {i})
          /\ Cardinality(reserved \union {i}) = Cardinality(reserved) + 1
      BY <1>1, <2>1, FS_AddElement
    <3> QED BY <1>1, <1>6, <2>1, <3>1
  <2>5. \A d, e \in Busy' : call'[d].id = call'[e].id => d = e
    BY <1>1, <1>3, <1>5, <2>1
  <2> QED BY <2>2, <2>3, <2>4, <2>5
<1>9. Identities'
  BY <1>8 DEF Identities
<1> QED
  BY <1>2, <1>4, <1>7, <1>9 DEF IInv, StoreInv, CallsTyped, TypeOK

-----------------------------------------------------------------------------
(* Results that are stored.                                                *)

\* Evictions leave room for the result, or nothing.
LEMMA Evicts ==
    ASSUME IInv, NEW r \in Results, Size[r] <= MaxBytes, NEW K \in Evicted(r)
    PROVE  /\ K \in SUBSET Stored
           /\ Cardinality(K) < MaxSnapshots
           /\ Total(K) + Size[r] <= MaxBytes
<1>1. TypeOK /\ Account
  BY DEF IInv
<1>2. K \in SUBSET Live /\ (Room(K, r) \/ K = {})
  BY DEF Evicted
<1>3. K \in SUBSET Stored
  BY <1>1, <1>2, Typed
<1>4. BytesOf(K) = Total(K)
  BY <1>1, <1>3, Weighed
<1>5. CASE Room(K, r)
  BY <1>3, <1>4, <1>5 DEF Room
<1>6. CASE K = {}
  <2>1. Total(K) = 0
    BY <1>6, SumEmpty DEF Total
  <2>2. Cardinality(K) = 0
    BY <1>6, FS_EmptySet
  <2> QED BY <1>3, <1>6, <2>1, <2>2, SnapshotAssumption
<1> QED
  BY <1>2, <1>5, <1>6

LEMMA StoreKeeps ==
    ASSUME IInv, NEW c \in Calls, Store(c)
    PROVE  IInv'
<1> DEFINE r == call[c].result
           i == call[c].id
           new == [result |-> r, age |-> 0, search |-> searches + 1, idle |-> 0]
<1>0. TypeOK /\ Account /\ Budget /\ Identities /\ Faithful /\ Chain /\ Aged
  BY DEF IInv
<1>1. c \in Busy /\ r \in Results /\ i \in Ids
  BY <1>0, Typed DEF Store, LetGo, Busy
<1>2. /\ i \notin Stored /\ Size[r] <= MaxBytes /\ Size[r] \in Nat
      /\ tokens' = tokens + 1 /\ tokens \in Nat /\ tokens' \in Nat
      /\ searches \in Nat /\ searches' = searches + 1 /\ LetGo(c)
  BY <1>0, <1>1, SnapshotAssumption DEF Store, LetGo, TypeOK
<1>3. PICK K \in Evicted(r) :
         /\ snapshots' = Added(K, i, r)
         /\ bytes' = BytesOf(K) + Size[r]
         /\ cursors' = [t \in DOMAIN CursorsOf(K) \union {tokens'} |->
               IF t = tokens' THEN [id |-> i, page |-> 2, next |-> 0] ELSE cursors[t]]
  BY DEF Store
<1>4. /\ K \in SUBSET Stored /\ Cardinality(K) < MaxSnapshots
      /\ Total(K) + Size[r] <= MaxBytes
  BY <1>1, <1>2, <1>3, Evicts
<1>5. /\ Stored' = K \union {i} /\ i \notin K
      /\ snapshots'[i] = new
      /\ \A j \in K : snapshots'[j] = snapshots[j]
  BY <1>2, <1>3, <1>4 DEF Added, Stored
<1>6. /\ \A t \in DOMAIN cursors' : \/ t = tokens'
                                    \/ t # tokens' /\ t \in DOMAIN cursors /\ cursors[t].id \in K
      /\ tokens' \in DOMAIN cursors'
      /\ cursors'[tokens'] = [id |-> i, page |-> 2, next |-> 0]
      /\ \A t \in DOMAIN cursors :
            cursors[t].id \in K => t \in DOMAIN cursors' /\ cursors'[t] = cursors[t]
  <2>1. \A t \in DOMAIN cursors : t # tokens'
    BY <1>0, <1>2, Typed
  <2>2. DOMAIN CursorsOf(K) = {t \in DOMAIN cursors : cursors[t].id \in K}
    BY DEF CursorsOf, Restrict
  <2> QED BY <1>3, <2>1, <2>2
<1>7. /\ given' \in [1..tokens' -> [search : Nat, page : Nat]]
      /\ given'[tokens'] = [search |-> searches', page |-> 2]
      /\ \A t \in DOMAIN cursors : given'[t] = given[t]
  <2>1. given' = [t \in 1..tokens' |->
            IF t = tokens' THEN [search |-> searches', page |-> 2] ELSE given[t]]
    BY DEF Store
  <2>2. /\ [search |-> searches', page |-> 2] \in [search : Nat, page : Nat]
        /\ tokens' \in 1..tokens'
        /\ \A t \in 1..tokens' : t # tokens' => t \in 1..tokens
        /\ \A t \in DOMAIN cursors : t \in 1..tokens' /\ t # tokens'
    BY <1>0, <1>2, Typed
  <2> QED BY <1>0, <2>1, <2>2 DEF TypeOK
<1>8. new \in Snapshot
  <2>1. Cardinality(Busy) \in Nat /\ Cardinality(Busy) # 0
    BY <1>0, <1>1, FS_CardinalityType, FS_EmptySet DEF Budget
  <2>2. searches + 1 \in 1..MaxSearches /\ 0 \in 0..TTL
    BY <1>0, <1>2, <2>1, SnapshotAssumption DEF Budget
  <2> QED BY <1>1, <2>2 DEF Snapshot
<1> HIDE DEF new
<1>9. /\ Stored' \subseteq Ids /\ \A j \in Stored' : snapshots'[j] \in Snapshot
      /\ DOMAIN cursors' \subseteq 1..tokens'
      /\ \A t \in DOMAIN cursors' : cursors'[t] \in Cursor
  <2>1. \A j \in K : j \in Ids /\ snapshots[j] \in Snapshot
    BY <1>0, <1>4 DEF TypeOK
  <2>2. \A t \in DOMAIN cursors : t \in 1..tokens' /\ cursors[t] \in Cursor
    BY <1>0, <1>2, Typed DEF TypeOK
  <2>3. [id |-> i, page |-> 2, next |-> 0] \in Cursor
    BY <1>1 DEF Cursor
  <2>4. tokens' \in 1..tokens'
    BY <1>2
  <2>5. \A t \in DOMAIN cursors' : t \in 1..tokens' /\ cursors'[t] \in Cursor
    BY <1>6, <2>2, <2>3, <2>4
  <2> QED BY <1>1, <1>5, <1>8, <2>1, <2>5
<1>10. Account' /\ bytes' \in Nat
  <2>1. /\ IsFiniteSet(K) /\ BytesOf(K) = Total(K) /\ Total(K) \in Nat
        /\ \A j \in K : Weight[j] = Size[snapshots[j].result] /\ Weight[j] \in Nat
    BY <1>0, <1>4, Weighed
  <2>2. IsFiniteSet(K \union {i}) /\ Cardinality(K \union {i}) = Cardinality(K) + 1
    BY <1>5, <2>1, FS_AddElement
  <2>3. Cardinality(K) \in Nat
    BY <2>1, FS_CardinalityType
  <2>4. /\ \A j \in K : Weight'[j] = Weight[j]
        /\ Weight'[i] = Size[r]
    BY <1>5, <2>1 DEF Weight, new
  <2>5. \A j \in K \union {i} : Weight'[j] \in Nat
    BY <1>2, <2>1, <2>4
  <2>6. (K \union {i}) \ {i} = K
    BY <1>5
  <2>7. SumFunctionOnSet(Weight', K \union {i}) = Size[r] + SumFunctionOnSet(Weight', K)
    BY <2>2, <2>4, <2>5, <2>6, SumWithout
  <2>8. SumFunctionOnSet(Weight', K) = SumFunctionOnSet(Weight, K)
    BY <2>1, <2>4, SumSame
  <2>9. Total(Stored)' = Size[r] + Total(K)
    BY <1>5, <2>7, <2>8 DEF Total
  <2>10. bytes' = Size[r] + Total(K)
    BY <1>2, <1>3, <2>1
  <2>11. Cardinality(K) + 1 <= MaxSnapshots
    BY <1>4, <2>3, SnapshotAssumption
  <2>12. Size[r] + Total(K) <= MaxBytes
    BY <1>2, <1>4, <2>1
  <2> QED BY <1>2, <1>5, <2>1, <2>2, <2>9, <2>10, <2>11, <2>12 DEF Account
<1>11. Faithful'
  <2>1. ASSUME NEW t \in DOMAIN cursors'
        PROVE  /\ cursors'[t].id \in Stored'
               /\ given'[t] = [search |-> snapshots'[cursors'[t].id].search,
                              page |-> cursors'[t].page]
    <3>1. CASE t = tokens'
      BY <1>2, <1>5, <1>6, <1>7, <3>1 DEF new
    <3>2. CASE t # tokens'
      BY <1>0, <1>5, <1>6, <1>7, <3>2 DEF Faithful
    <3> QED BY <3>1, <3>2
  <2> QED BY <2>1 DEF Faithful
<1>12. Chain'
  <2>1. \A t \in DOMAIN cursors : cursors[t].id # i
    BY <1>0, <1>2 DEF Faithful
  <2>2. ASSUME NEW t \in DOMAIN cursors' PROVE Linked(t)'
    <3>1. CASE t = tokens'
      BY <1>6, <3>1 DEF Linked
    <3>2. CASE t # tokens'
      BY <1>0, <1>6, <3>2 DEF Chain, Linked
    <3> QED BY <3>1, <3>2
  <2>3. ASSUME NEW t \in DOMAIN cursors', NEW u \in DOMAIN cursors' PROVE OnePerPage(t, u)'
    BY <1>0, <1>6, <2>1 DEF Chain, OnePerPage
  <2> QED BY <2>2, <2>3 DEF Chain
<1>13. Aged'
  BY <1>0, <1>4, <1>5 DEF Aged, new
<1>14. StoreInv'
  BY <1>2, <1>7, <1>9, <1>10, <1>11, <1>12, <1>13 DEF StoreInv
<1>15. CallsTyped' /\ Budget' /\ Identities'
  BY <1>2, <1>4, <1>5, LetGoKeeps
<1> QED
  BY <1>14, <1>15 DEF IInv, StoreInv, CallsTyped, TypeOK

\* Calls that end without a result that stays.
LEMMA EndsKeep ==
    ASSUME IInv, NEW c \in Calls, Refuse(c) \/ TooLarge(c) \/ StoreBriefly(c)
    PROVE  IInv'
<1>0. TypeOK /\ Account /\ StoreInv
  BY Split DEF IInv
<1>1. CASE Refuse(c)
  <2>1. LetGo(c) /\ UNCHANGED <<snapshots, cursors, bytes, tokens, given>>
    BY <1>1 DEF Refuse
  <2>2. Stored' = Stored /\ Total(Stored)' = Total(Stored)
    BY <2>1 DEF Stored, Total, Weight
  <2>3. Account' /\ Faithful' /\ Chain' /\ Aged'
    BY <1>0, <2>1, <2>2 DEF StoreInv, Account, Faithful, Chain, Linked, OnePerPage, Aged
  <2>4. StoreInv'
    BY <1>0, <2>1, <2>2, <2>3 DEF StoreInv
  <2>5. CallsTyped' /\ Budget' /\ Identities'
    BY <2>1, <2>2, LetGoKeeps
  <2> QED BY <2>4, <2>5 DEF IInv, StoreInv, CallsTyped, TypeOK
<1>2. CASE TooLarge(c) \/ StoreBriefly(c)
  <2>1. PICK S \in SUBSET Live : Keep(S)
    BY <1>2 DEF TooLarge, StoreBriefly, Evicted
  <2>2. LetGo(c) /\ UNCHANGED <<tokens, given>> /\ S \in SUBSET Stored
    BY <1>0, <1>2, <2>1, Typed DEF TooLarge, StoreBriefly
  <2>3. StoreInv' /\ Stored' = S
    BY <2>1, <2>2, KeepKeeps
  <2>4. CallsTyped' /\ Budget' /\ Identities'
    BY <2>2, <2>3, LetGoKeeps
  <2> QED BY <2>3, <2>4 DEF IInv, StoreInv, CallsTyped, TypeOK
<1> QED
  BY <1>1, <1>2

-----------------------------------------------------------------------------
(* Cursors that are read.                                                  *)

\* Nothing is done to the calls.
LEMMA CallsRest ==
    ASSUME IInv, UNCHANGED <<reserved, call, closed, searches>>, Stored' \subseteq Stored
    PROVE  CallsTyped' /\ Budget' /\ Identities'
<1>0. TypeOK /\ Budget /\ Identities
  BY DEF IInv
<1>1. Busy' = Busy
  BY DEF Busy
<1>2. CallsTyped' /\ Budget'
  BY <1>0, <1>1 DEF CallsTyped, TypeOK, Budget
<1>3. Identities'
  BY <1>0, <1>1 DEF Identities
<1> QED
  BY <1>2, <1>3

LEMMA RefusedKeeps ==
    ASSUME IInv, NEW t \in 1..tokens, ReadRefused(t)
    PROVE  IInv'
<1>1. Keep(Live) /\ UNCHANGED <<reserved, call, tokens, closed, searches, given>>
  BY DEF ReadRefused
<1>2. Live \in SUBSET Stored
  BY DEF Live
<1>3. StoreInv' /\ Stored' = Live
  BY <1>1, <1>2, KeepKeeps
<1>4. CallsTyped' /\ Budget' /\ Identities'
  BY <1>1, <1>2, <1>3, CallsRest
<1> QED
  BY <1>3, <1>4 DEF IInv, StoreInv, CallsTyped, TypeOK

\* The cursors after a read: the live ones, and the new one for the next page.
LEMMA TurnKeeps ==
    ASSUME IInv, NEW t \in 1..tokens, Turn(t), Stored' = Live,
           \A i \in Live : /\ snapshots'[i] \in Snapshot
                           /\ snapshots'[i].result = snapshots[i].result
                           /\ snapshots'[i].search = snapshots[i].search
                           /\ snapshots'[i].age = snapshots'[i].idle
    PROVE  IInv'
<1> DEFINE i == cursors[t].id
           new == [id |-> i, next |-> 0, page |-> cursors[t].page + 1]
<1>0. TypeOK /\ Account /\ Faithful /\ Chain /\ Aged
  BY DEF IInv
<1>1. /\ t \in DOMAIN cursors /\ i \in Live /\ bytes' = BytesOf(Live)
      /\ UNCHANGED <<reserved, call, closed, searches>>
  BY DEF Turn, Valid
<1>2. /\ Live \in SUBSET Stored /\ tokens \in Nat
      /\ \A u \in DOMAIN cursors : u \in 1..tokens /\ u # tokens + 1
  BY <1>0, Typed DEF TypeOK
<1>3. Account' /\ bytes' \in Nat
  <2>1. IsFiniteSet(Live) /\ BytesOf(Live) = Total(Live) /\ Total(Live) \in Nat
        /\ Total(Live) <= bytes
    BY <1>0, <1>2, Weighed
  <2>2. Total(Stored)' = Total(Live)
    BY <1>0, <1>2, Rebalanced
  <2>3. Cardinality(Live) <= MaxSnapshots
    <3>1. Cardinality(Live) <= Cardinality(Stored) /\ Cardinality(Live) \in Nat
          /\ Cardinality(Stored) \in Nat
      BY <1>0, <1>2, <2>1, FS_Subset, FS_CardinalityType DEF Account
    <3> QED BY <1>0, <3>1, SnapshotAssumption DEF Account
  <2>4. bytes' <= MaxBytes
    BY <1>0, <1>1, <2>1, SnapshotAssumption DEF Account, TypeOK
  <2> QED BY <1>1, <2>1, <2>2, <2>3, <2>4 DEF Account
<1>4. Aged'
  BY DEF Aged
<1>5. Stored' \subseteq Ids /\ \A j \in Stored' : snapshots'[j] \in Snapshot
  BY <1>0, <1>2 DEF TypeOK
<1>6. CallsTyped' /\ Budget' /\ Identities'
  BY <1>1, <1>2, CallsRest
<1>7. DOMAIN CursorsOf(Live) = {u \in DOMAIN cursors : cursors[u].id \in Live}
      /\ \A u \in DOMAIN CursorsOf(Live) : CursorsOf(Live)[u] = cursors[u]
  BY DEF CursorsOf, Restrict
<1>8. CASE ~NeedsToken(t)
  <2>1. /\ cursors' = CursorsOf(Live) /\ UNCHANGED <<tokens, given>>
    BY <1>8 DEF Turn
  <2>2. /\ \A u \in DOMAIN cursors' : /\ u \in DOMAIN cursors /\ cursors[u].id \in Live
                                      /\ cursors'[u] = cursors[u]
        /\ \A u \in DOMAIN cursors : cursors[u].id \in Live => u \in DOMAIN cursors'
    BY <1>7, <2>1
  <2>3. /\ DOMAIN cursors' \subseteq 1..tokens'
        /\ \A u \in DOMAIN cursors' : cursors'[u] \in Cursor
        /\ tokens' \in Nat /\ given' \in [1..tokens' -> [search : Nat, page : Nat]]
    BY <1>0, <2>1, <2>2 DEF TypeOK
  <2>4. Faithful'
    BY <1>0, <2>1, <2>2 DEF Faithful
  <2>5. Chain'
    <3>1. ASSUME NEW u \in DOMAIN cursors' PROVE Linked(u)'
      BY <1>0, <2>2 DEF Chain, Linked
    <3>2. ASSUME NEW u \in DOMAIN cursors', NEW v \in DOMAIN cursors' PROVE OnePerPage(u, v)'
      BY <1>0, <2>2 DEF Chain, OnePerPage
    <3> QED BY <3>1, <3>2 DEF Chain
  <2> QED
    BY <1>3, <1>4, <1>5, <1>6, <2>3, <2>4, <2>5 DEF IInv, StoreInv, CallsTyped, TypeOK
<1>9. CASE NeedsToken(t)
  <2>1. /\ tokens' = tokens + 1
        /\ cursors' = [u \in DOMAIN CursorsOf(Live) \union {tokens'} |->
             CASE u = tokens' -> new
               [] u = t -> [cursors[t] EXCEPT !.next = tokens']
               [] OTHER -> cursors[u]]
        /\ given' = [u \in 1..tokens' |->
             IF u = tokens' THEN [given[t] EXCEPT !.page = @ + 1] ELSE given[u]]
    BY <1>9 DEF Turn, PageAfter
  <2>2. cursors[t] \in Cursor /\ cursors[t].next = 0 /\ tokens' \in Nat /\ tokens' # 0
    BY <1>0, <1>1, <1>2, <1>9, <2>1 DEF TypeOK, NeedsToken
  <2>3. /\ [cursors[t] EXCEPT !.next = tokens'] \in Cursor
        /\ [cursors[t] EXCEPT !.next = tokens'].id = i
        /\ [cursors[t] EXCEPT !.next = tokens'].page = cursors[t].page
        /\ [cursors[t] EXCEPT !.next = tokens'].next = tokens'
    BY <2>2 DEF Cursor
  <2>4. new \in Cursor
    BY <2>2 DEF Cursor
  <2>5. new.id = i /\ new.page = cursors[t].page + 1 /\ new.next = 0
    OBVIOUS
  <2> HIDE DEF new
  <2>6. \A u \in DOMAIN cursors' :
           u = tokens' \/ (u # tokens' /\ u \in DOMAIN cursors /\ cursors[u].id \in Live)
    BY <1>2, <1>7, <2>1
  <2>7. \A u \in DOMAIN cursors : cursors[u].id \in Live => u \in DOMAIN cursors' /\ u # tokens'
    BY <1>2, <1>7, <2>1
  <2>8. tokens' \in DOMAIN cursors' /\ cursors'[tokens'] = new
    <3>1. DOMAIN cursors' = DOMAIN CursorsOf(Live) \union {tokens'}
      BY <2>1
    <3>2. \A u \in DOMAIN cursors' : u = tokens' => cursors'[u] = new
      BY <1>1, <2>1, <2>7
    <3> QED BY <3>1, <3>2
  <2>9. t \in DOMAIN cursors' /\ t # tokens'
    BY <1>1, <2>7
  <2>10. cursors'[t] = [cursors[t] EXCEPT !.next = tokens']
    BY <2>1, <2>9
  <2>11. \A u \in DOMAIN cursors' : u # tokens' /\ u # t => cursors'[u] = cursors[u]
    BY <2>1
  <2>12. \A u \in DOMAIN cursors' : u # tokens' =>
            /\ cursors'[u].id = cursors[u].id /\ cursors'[u].page = cursors[u].page
            /\ u # t => cursors'[u].next = cursors[u].next
    BY <2>3, <2>10, <2>11
  <2>13. DOMAIN cursors' \subseteq 1..tokens' /\ \A u \in DOMAIN cursors' : cursors'[u] \in Cursor
    <3>1. \A u \in DOMAIN cursors : u \in 1..tokens' /\ cursors[u] \in Cursor
      BY <1>0, <1>2, <2>1 DEF TypeOK
    <3>2. tokens' \in 1..tokens'
      BY <2>2
    <3>3. ASSUME NEW u \in DOMAIN cursors' PROVE u \in 1..tokens' /\ cursors'[u] \in Cursor
      <4>1. CASE u = tokens'
        BY <2>4, <2>8, <3>2, <4>1
      <4>2. CASE u # tokens'
        BY <2>3, <2>6, <2>10, <2>11, <3>1, <4>2
      <4> QED BY <4>1, <4>2
    <3> QED BY <3>3
  <2>14. /\ given' \in [1..tokens' -> [search : Nat, page : Nat]]
         /\ given'[tokens'].search = given[t].search
         /\ given'[tokens'] \in [search : Nat, page : Nat]
         /\ given'[tokens'].page = given[t].page + 1
         /\ \A u \in DOMAIN cursors : given'[u] = given[u]
    <3>1. given[t] \in [search : Nat, page : Nat]
      BY <1>0 DEF TypeOK
    <3>2. /\ [given[t] EXCEPT !.page = @ + 1] \in [search : Nat, page : Nat]
          /\ [given[t] EXCEPT !.page = @ + 1].search = given[t].search
          /\ [given[t] EXCEPT !.page = @ + 1].page = given[t].page + 1
      BY <3>1
    <3>3. /\ tokens' \in 1..tokens'
          /\ \A u \in 1..tokens' : u # tokens' => u \in 1..tokens
          /\ \A u \in DOMAIN cursors : u \in 1..tokens' /\ u # tokens'
      BY <1>2, <2>1
    <3>4. given'[tokens'] = [given[t] EXCEPT !.page = @ + 1]
      BY <2>1, <3>3
    <3>5. \A u \in 1..tokens' : given'[u] \in [search : Nat, page : Nat]
      BY <1>0, <2>1, <3>2, <3>3 DEF TypeOK
    <3> QED BY <2>1, <3>2, <3>3, <3>4, <3>5
  <2>15. Faithful'
    <3>1. ASSUME NEW u \in DOMAIN cursors'
          PROVE  /\ cursors'[u].id \in Stored'
                 /\ given'[u] = [search |-> snapshots'[cursors'[u].id].search,
                                page |-> cursors'[u].page]
      <4>1. CASE u = tokens'
        <5>1. given[t] = [search |-> snapshots[i].search, page |-> cursors[t].page]
          BY <1>0, <1>1 DEF Faithful
        <5>2. snapshots'[i].search = snapshots[i].search
          BY <1>1
        <5> QED BY <1>1, <2>5, <2>8, <2>14, <4>1, <5>1, <5>2
      <4>2. CASE u # tokens'
        BY <1>0, <2>6, <2>12, <2>14, <4>2 DEF Faithful
      <4> QED BY <4>1, <4>2
    <3> QED BY <3>1 DEF Faithful
  <2>16. \A u \in DOMAIN cursors : ~(cursors[u].id = i /\ cursors[u].page = cursors[t].page + 1)
    <3> SUFFICES ASSUME NEW u \in DOMAIN cursors,
                        cursors[u].id = i, cursors[u].page = cursors[t].page + 1
                 PROVE  FALSE
      OBVIOUS
    <3>1. cursors[t].page >= 2 /\ cursors[t].page \in Nat
      BY <1>0, <1>1, Typed DEF Chain, Linked
    <3>2. PICK v \in DOMAIN cursors : /\ cursors[v].id = cursors[u].id
                                      /\ cursors[v].page + 1 = cursors[u].page
                                      /\ cursors[v].next = u
      BY <1>0, <3>1 DEF Chain, Linked
    <3>3. cursors[v].page = cursors[t].page
      BY <1>0, <3>1, <3>2, Typed
    <3>4. v = t
      BY <1>0, <1>1, <3>2, <3>3 DEF Chain, OnePerPage
    <3>5. u # 0
      BY <1>2
    <3> QED BY <2>2, <3>2, <3>4, <3>5
  <2>17. Chain'
    <3>1. ASSUME NEW u \in DOMAIN cursors' PROVE Linked(u)'
      <4>1. CASE u = tokens'
        <5>1. cursors[t].page >= 2 /\ cursors[t].page \in Nat
          BY <1>0, <1>1, Typed DEF Chain, Linked
        <5>2. cursors'[t].next = u /\ cursors'[t].id = i /\ cursors'[t].page = cursors[t].page
          BY <2>3, <2>10, <4>1
        <5> QED BY <2>5, <2>8, <2>9, <4>1, <5>1, <5>2 DEF Linked
      <4>2. CASE u # tokens'
        <5>1. u \in DOMAIN cursors /\ cursors[u].id \in Live /\ Linked(u)
          BY <1>0, <2>6, <4>2 DEF Chain
        <5>2. cursors'[u].id = cursors[u].id /\ cursors'[u].page = cursors[u].page
          BY <2>12, <4>2
        <5>3. ASSUME cursors[u].page > 2
              PROVE  \E v \in DOMAIN cursors' :
                        /\ cursors'[v].id = cursors'[u].id
                        /\ cursors'[v].page + 1 = cursors'[u].page
                        /\ cursors'[v].next = u
          <6>1. PICK v \in DOMAIN cursors : /\ cursors[v].id = cursors[u].id
                                            /\ cursors[v].page + 1 = cursors[u].page
                                            /\ cursors[v].next = u
            BY <5>1, <5>3 DEF Linked
          <6>2. v # t
            BY <1>2, <2>2, <5>1, <6>1
          <6>3. v \in DOMAIN cursors' /\ v # tokens'
            BY <2>7, <5>1, <6>1
          <6> QED BY <2>12, <5>2, <6>1, <6>2, <6>3
        <5> QED BY <5>1, <5>2, <5>3 DEF Linked
      <4> QED BY <4>1, <4>2
    <3>2. ASSUME NEW u \in DOMAIN cursors', NEW v \in DOMAIN cursors' PROVE OnePerPage(u, v)'
      <4>1. \A w \in DOMAIN cursors' : w # tokens' =>
                ~(cursors'[w].id = i /\ cursors'[w].page = cursors[t].page + 1)
        BY <2>6, <2>12, <2>16
      <4>2. CASE u # tokens' /\ v # tokens'
        BY <1>0, <2>6, <2>12, <4>2 DEF Chain, OnePerPage
      <4>3. CASE u = tokens' \/ v = tokens'
        BY <2>5, <2>8, <4>1, <4>3 DEF OnePerPage
      <4> QED BY <4>2, <4>3
    <3> QED BY <3>1, <3>2 DEF Chain
  <2> QED
    BY <1>3, <1>4, <1>5, <1>6, <2>2, <2>13, <2>14, <2>15, <2>17
    DEF IInv, StoreInv, CallsTyped, TypeOK
<1> QED
  BY <1>8, <1>9

LEMMA ReadKeeps ==
    ASSUME IInv, NEW t \in 1..tokens, Read(t) \/ ReadOversized(t)
    PROVE  IInv'
<1>0. TypeOK /\ Aged
  BY DEF IInv
<1>1. Turn(t)
  BY DEF Read, ReadOversized
<1>2. Live \in SUBSET Stored /\ \A j \in Live : snapshots[j] \in Snapshot
  BY <1>0, Typed DEF TypeOK
<1>3. CASE Read(t)
  <2>1. snapshots' = [j \in Live |-> IF j = cursors[t].id THEN Touched(j) ELSE snapshots[j]]
    BY <1>3 DEF Read, Touch
  <2>2. \A j \in Live : /\ Touched(j) \in Snapshot
                        /\ Touched(j).result = snapshots[j].result
                        /\ Touched(j).search = snapshots[j].search
                        /\ Touched(j).age = Touched(j).idle
    <3>1. 0 \in 0..TTL
      BY SnapshotAssumption
    <3> QED BY <1>2, <3>1 DEF Touched, Snapshot
  <2>3. Stored' = Live
    BY <2>1 DEF Stored
  <2> QED BY <1>0, <1>1, <1>2, <2>1, <2>2, <2>3, TurnKeeps DEF Aged
<1>4. CASE ReadOversized(t)
  <2>1. Stored' = Live /\ \A j \in Live : snapshots'[j] = snapshots[j]
    BY <1>4 DEF ReadOversized, Restrict, Stored
  <2> QED BY <1>0, <1>1, <1>2, <2>1, TurnKeeps DEF Aged
<1> QED
  BY <1>3, <1>4

-----------------------------------------------------------------------------
(* Shutdown and time.                                                      *)

LEMMA CloseKeeps == ASSUME IInv, Close PROVE IInv'
<1>0. TypeOK /\ Budget
  BY DEF IInv
<1>1. /\ snapshots' = <<>> /\ cursors' = <<>> /\ reserved' = {} /\ bytes' = 0
      /\ closed' = TRUE /\ UNCHANGED <<call, tokens, searches, given>>
  BY DEF Close
<1>2. Stored' = {} /\ DOMAIN cursors' = {}
  BY <1>1 DEF Stored
<1>3. Account'
  <2>1. Total(Stored)' = 0
    <3>1. Total(Stored)' = SumFunctionOnSet(Weight', Stored')
      BY DEF Total
    <3> QED BY <1>2, <3>1, SumEmpty
  <2> QED BY <1>1, <1>2, <2>1, FS_EmptySet, SnapshotAssumption DEF Account
<1>4. Faithful' /\ Chain' /\ Aged'
  BY <1>2 DEF Faithful, Chain, Aged
<1>5. TypeOK'
  BY <1>0, <1>1, <1>2 DEF TypeOK
<1>6. Busy' = Busy
  BY <1>1 DEF Busy
<1>7. Budget' /\ Identities'
  BY <1>0, <1>1, <1>6 DEF Budget, Identities
<1> QED
  BY <1>3, <1>4, <1>5, <1>7 DEF IInv

LEMMA Older == \A n \in 0..TTL : Min({n + 1, TTL}) \in 0..TTL
<1> TAKE n \in 0..TTL
<1>1. n + 1 \in Nat /\ TTL \in Nat
  BY SnapshotAssumption
<1>2. \E x \in {n + 1, TTL} : \A y \in {n + 1, TTL} : x <= y
  BY <1>1
<1>3. /\ Min({n + 1, TTL}) \in {n + 1, TTL}
      /\ \A y \in {n + 1, TTL} : Min({n + 1, TTL}) <= y
  BY <1>2 DEF Min
<1> QED
  BY <1>1, <1>3

LEMMA TickKeeps == ASSUME IInv, Tick PROVE IInv'
<1>0. TypeOK /\ Account /\ Budget /\ Identities /\ Faithful /\ Chain /\ Aged
  BY DEF IInv
<1>1. UNCHANGED <<cursors, reserved, bytes, call, tokens, closed, searches, given>>
  BY DEF Tick
<1>2. snapshots' = [i \in Stored |->
          [snapshots[i] EXCEPT !.age = Min({@ + 1, TTL}), !.idle = Min({@ + 1, TTL})]]
  BY DEF Tick
<1>3. Stored' = Stored
  BY <1>2 DEF Stored
<1>4. \A i \in Stored : /\ snapshots'[i] \in Snapshot
                        /\ snapshots'[i].result = snapshots[i].result
                        /\ snapshots'[i].search = snapshots[i].search
                        /\ snapshots'[i].age = snapshots'[i].idle
  <2> TAKE i \in Stored
  <2>1. snapshots[i] \in Snapshot /\ snapshots[i].age = snapshots[i].idle
    BY <1>0 DEF TypeOK, Aged
  <2>2. snapshots[i].age \in 0..TTL
    BY <2>1 DEF Snapshot
  <2> DEFINE n == Min({snapshots[i].age + 1, TTL})
  <2>3. n \in 0..TTL
    BY <2>2, Older
  <2>4. snapshots'[i] = [snapshots[i] EXCEPT !.age = n, !.idle = n]
    BY <1>2, <2>1
  <2> HIDE DEF n
  <2> QED BY <2>1, <2>3, <2>4 DEF Snapshot
<1>5. Account'
  <2>1. Total(Stored)' = Total(Stored)
    BY <1>0, <1>3, <1>4, Rebalanced
  <2> QED BY <1>0, <1>1, <1>3, <2>1 DEF Account
<1>6. Faithful' /\ Chain' /\ Aged'
  BY <1>0, <1>1, <1>3, <1>4, ZenonT(60) DEF Faithful, Chain, Linked, OnePerPage, Aged
<1>7. TypeOK'
  BY <1>0, <1>1, <1>3, <1>4 DEF TypeOK
<1>8. Budget' /\ Identities'
  BY <1>0, <1>1, <1>3 DEF Budget, Identities, Busy
<1> QED
  BY <1>5, <1>6, <1>7, <1>8 DEF IInv

-----------------------------------------------------------------------------
(* The theorems.                                                           *)

LEMMA InitInv == Init => IInv
<1> SUFFICES ASSUME Init PROVE IInv
  OBVIOUS
<1>1. Stored = {} /\ DOMAIN cursors = {} /\ Busy = {}
  BY DEF Init, Stored, Busy
<1>2. given \in [1..tokens -> [search : Nat, page : Nat]]
  <2>1. 1..tokens = {} /\ given = <<>>
    BY DEF Init
  <2>2. <<>> \in [{} -> [search : Nat, page : Nat]]
    OBVIOUS
  <2> QED BY <2>1, <2>2
<1>3. TypeOK
  <2>1. call \in [Calls -> Reserved \union {Idle}]
    BY DEF Init
  <2>2. reserved = {} /\ bytes = 0 /\ tokens = 0 /\ closed = FALSE /\ searches = 0
    BY DEF Init
  <2> QED BY <1>1, <1>2, <2>1, <2>2 DEF TypeOK
<1>4. Account
  BY <1>1, SumEmpty, FS_EmptySet, SnapshotAssumption DEF Init, Account, Total
<1>5. Budget
  BY <1>1, FS_EmptySet, SnapshotAssumption DEF Init, Budget
<1>6. Identities
  BY <1>1, FS_EmptySet DEF Init, Identities
<1>7. Faithful /\ Chain /\ Aged
  BY <1>1 DEF Faithful, Chain, Aged
<1> QED
  BY <1>3, <1>4, <1>5, <1>6, <1>7 DEF IInv

LEMMA NextInv == IInv /\ [Next]_vars => IInv'
<1> SUFFICES ASSUME IInv, [Next]_vars PROVE IInv'
  OBVIOUS
<1>1. ASSUME NEW c \in Calls, CallStep(c) PROVE IInv'
  BY <1>1, ReserveKeeps, EndsKeep, StoreKeeps DEF CallStep
<1>2. ASSUME NEW t \in 1..tokens, Read(t) \/ ReadOversized(t) \/ ReadRefused(t) PROVE IInv'
  BY <1>2, ReadKeeps, RefusedKeeps
<1>3. CASE Close
  BY <1>3, CloseKeeps
<1>4. CASE Tick
  BY <1>4, TickKeeps
<1>5. CASE UNCHANGED vars
  BY <1>5, SMTT(40) DEF vars, IInv, TypeOK, Account, Budget, Identities, Faithful, Chain, Aged,
     Stored, Total, Weight, Busy, Linked, OnePerPage
<1> QED
  BY <1>1, <1>2, <1>3, <1>4, <1>5 DEF Next

\* The invariant holds in every reachable state.
THEOREM Inductive == Spec => []IInv
BY InitInv, NextInv, PTL DEF Spec

\* The store's account of its bytes is exact and both bounds hold after every
\* expiry, eviction, refusal and shutdown (snapshot.go, storeSearchResult), for
\* results of any sizes.
THEOREM AlwaysWithinBounds == Spec => []WithinBounds
<1>1. IInv => WithinBounds
  BY DEF IInv, Account, WithinBounds
<1> QED
  BY <1>1, Inductive, PTL

\* A cursor serves the page and the result it was given out for, or nothing
\* (snapshot.go, readEvidencePage), however often identities are drawn again.
THEOREM AlwaysFaithful == Spec => []Faithful
<1>1. IInv => Faithful
  BY DEF IInv
<1> QED
  BY <1>1, Inductive, PTL

\* A snapshot has one cursor per page, and an identity belongs to one call or one
\* snapshot until shutdown (snapshot.go, newResultID and releaseResultID).
THEOREM AlwaysOneChain == Spec => []OneChain
<1>1. IInv => OneChain
  BY DEF IInv, Chain, OnePerPage, Identities, OneChain
<1> QED
  BY <1>1, Inductive, PTL

\* What goes to make room had been unused for as long as anything that stays.
LEMMA EvictedLast ==
    ASSUME IInv, NEW r \in Results, NEW K \in Evicted(r), NEW i \in Stored \ K
    PROVE  \/ snapshots[i].idle >= TTL
           \/ \A k \in K : snapshots[k].idle <= snapshots[i].idle
<1>1. K \in SUBSET Live /\ \A k \in K, e \in Live \ K : snapshots[k].age <= snapshots[e].age
  BY DEF Evicted
<1>2. \A k \in Stored : snapshots[k].age = snapshots[k].idle /\ snapshots[k].age \in 0..TTL
  BY Typed DEF IInv, Aged
<1>3. CASE i \in Live
  BY <1>1, <1>2, <1>3 DEF Live
<1>4. CASE i \notin Live
  BY <1>2, <1>4, SnapshotAssumption DEF Live
<1> QED
  BY <1>3, <1>4

\* Before shutdown, what a step takes away had expired or had been unused for as
\* long as anything that stays.
LEMMA OldestGo ==
    ASSUME IInv, [Next]_vars, ~closed', NEW i \in Lost
    PROVE  \/ snapshots[i].idle >= TTL
           \/ \A k \in Stored \ Lost : snapshots[k].idle <= snapshots[i].idle
<1>0. TypeOK /\ Account /\ Aged
  BY DEF IInv
<1>1. \A k \in Stored : k \notin Live => snapshots[k].idle >= TTL
  <2> TAKE k \in Stored
  <2>1. snapshots[k].age = snapshots[k].idle /\ snapshots[k].age \in 0..TTL
    BY <1>0, Typed DEF Aged
  <2> QED BY <2>1, SnapshotAssumption DEF Live
<1>2. i \in Stored /\ Live \in SUBSET Stored
  BY DEF Lost, Live
<1>3. ASSUME Live \subseteq DOMAIN snapshots', \A k \in Live : snapshots'[k].search = snapshots[k].search
      PROVE  snapshots[i].idle >= TTL
  BY <1>1, <1>2, <1>3 DEF Lost
<1>4. ASSUME UNCHANGED snapshots PROVE FALSE
  BY <1>2, <1>4 DEF Lost, Stored
<1>5. ASSUME NEW c \in Calls, CallStep(c)
      PROVE  \/ snapshots[i].idle >= TTL
             \/ \A k \in Stored \ Lost : snapshots[k].idle <= snapshots[i].idle
  <2>1. CASE (\E j \in Ids, r \in Results : Reserve(c, j, r)) \/ Refuse(c)
    BY <1>4, <2>1 DEF Reserve, Refuse
  <2>2. CASE TooLarge(c)
    <3>1. Stored' = Live /\ \A k \in Live : snapshots'[k] = snapshots[k]
      BY <1>2, <2>2, KeptSame DEF TooLarge
    <3> QED BY <1>3, <3>1 DEF Stored
  <2>3. CASE StoreBriefly(c) \/ Store(c)
    <3> DEFINE r == call[c].result
    <3>1. c \in Busy /\ r \in Results /\ call[c].id \notin Stored
      BY <1>0, <2>3, Typed DEF StoreBriefly, Store, LetGo, Busy
    <3>2. PICK K \in Evicted(r) : Keep(K) \/ snapshots' = Added(K, call[c].id, r)
      BY <2>3 DEF StoreBriefly, Store
    <3>3. K \in SUBSET Stored
      BY <1>2, <3>2 DEF Evicted
    <3>4. \A k \in K : k \in DOMAIN snapshots' /\ snapshots'[k] = snapshots[k]
      <4>1. CASE Keep(K)
        BY <3>3, <4>1, KeptSame DEF Stored
      <4>2. CASE snapshots' = Added(K, call[c].id, r)
        BY <3>1, <3>3, <4>2 DEF Added
      <4> QED BY <3>2, <4>1, <4>2
    <3>5. i \notin K
      BY <3>4 DEF Lost
    <3>6. \A k \in Stored \ Lost : k \in K
      <4>1. CASE Keep(K)
        BY <3>3, <4>1, KeptSame DEF Stored, Lost
      <4>2. CASE snapshots' = Added(K, call[c].id, r)
        BY <3>1, <3>3, <4>2 DEF Added, Lost
      <4> QED BY <3>2, <4>1, <4>2
    <3> QED BY <1>2, <3>1, <3>2, <3>5, <3>6, EvictedLast
  <2> QED BY <1>5, <2>1, <2>2, <2>3 DEF CallStep
<1>6. ASSUME NEW t \in 1..tokens, Read(t) \/ ReadOversized(t) \/ ReadRefused(t)
      PROVE  snapshots[i].idle >= TTL
  <2>1. CASE Read(t)
    <3>1. snapshots' = [j \in Live |-> IF j = cursors[t].id THEN Touched(j) ELSE snapshots[j]]
      BY <2>1 DEF Read, Touch
    <3>2. \A j \in Live : Touched(j).search = snapshots[j].search
      <4>1. \A j \in Live : snapshots[j] \in Snapshot
        BY <1>0, <1>2 DEF TypeOK
      <4> QED BY <4>1 DEF Touched, Snapshot
    <3> QED BY <1>3, <3>1, <3>2
  <2>2. CASE ReadOversized(t)
    BY <1>3, <2>2 DEF ReadOversized, Restrict
  <2>3. CASE ReadRefused(t)
    <3>1. Stored' = Live /\ \A k \in Live : snapshots'[k] = snapshots[k]
      BY <1>2, <2>3, KeptSame DEF ReadRefused
    <3> QED BY <1>3, <3>1 DEF Stored
  <2> QED BY <1>6, <2>1, <2>2, <2>3
<1>7. CASE Close
  BY <1>7 DEF Close
<1>8. CASE Tick
  <2>1. ASSUME NEW k \in Stored
        PROVE  k \in DOMAIN snapshots' /\ snapshots'[k].search = snapshots[k].search
    <3>1. snapshots[k] \in Snapshot
      BY <1>0 DEF TypeOK
    <3>2. \A m, n : [snapshots[k] EXCEPT !.age = m, !.idle = n].search = snapshots[k].search
      BY <3>1 DEF Snapshot
    <3>3. k \in DOMAIN snapshots' /\ \E m, n : snapshots'[k] = [snapshots[k] EXCEPT !.age = m, !.idle = n]
      BY <1>8 DEF Tick
    <3> QED BY <3>2, <3>3
  <2> QED BY <1>2, <1>3, <2>1
<1>9. CASE UNCHANGED vars
  BY <1>4, <1>9 DEF vars
<1> QED
  BY <1>5, <1>6, <1>7, <1>8, <1>9 DEF Next

\* A snapshot that goes before shutdown had expired or had been unused for as long
\* as anything that stays (snapshot.go, evictOldestLocked): reading protects.
THEOREM AlwaysLeastRecentlyUsed == Spec => LeastRecentlyUsed
<1>1. IInv /\ [Next]_vars =>
        [~closed' => \A i \in Lost : \/ snapshots[i].idle >= TTL
                                    \/ \A k \in Stored \ Lost :
                                          snapshots[k].idle <= snapshots[i].idle]_vars
  BY OldestGo
<1> QED
  BY <1>1, Inductive, PTL DEF Spec, LeastRecentlyUsed

-----------------------------------------------------------------------------
(* The pages of the mailbox.                                               *)

-----------------------------------------------------------------------------
(* The order.                                                              *)

Keys == [sentAt : Nat, doc : Docs]
Orders == {"newest_first", "oldest_first"}

\* The page predicate, the order of the query and the order the answer is
\* checked against are one and the same, dated or not (keyset.go: the predicate
\* and ORDER BY must agree).
THEOREM OneOrder ==
    ASSUME NEW o \in Orders, NEW a \in Keys, NEW b \in Keys
    PROVE  /\ AfterBoundary(o, a, b) <=> Sorted(o, a, b)
           /\ Before(o, a, b) <=> Sorted(o, a, b)
BY MailboxAssumption DEF MailboxAssumption, Orders, Keys, AfterBoundary, Sorted, Before, NewestFirstBefore, Undated

LEMMA StrictOrder ==
    ASSUME NEW o \in Orders
    PROVE  /\ \A a \in Keys : ~Sorted(o, a, a)
           /\ \A a, b \in Keys : a.doc # b.doc => Sorted(o, a, b) \/ Sorted(o, b, a)
           /\ \A a, b, c \in Keys : Sorted(o, a, b) /\ Sorted(o, b, c) => Sorted(o, a, c)
<1>1. \A a \in Keys : a.sentAt \in Nat /\ a.doc \in Nat
  BY MailboxAssumption DEF MailboxAssumption, Keys
<1>2. ASSUME NEW a \in Keys PROVE ~Sorted(o, a, a)
  BY <1>1 DEF Sorted
<1>3. ASSUME NEW a \in Keys, NEW b \in Keys, a.doc # b.doc
      PROVE  Sorted(o, a, b) \/ Sorted(o, b, a)
  BY <1>1, <1>3 DEF Sorted
<1>4. ASSUME NEW a \in Keys, NEW b \in Keys, NEW c \in Keys, Sorted(o, a, b), Sorted(o, b, c)
      PROVE  Sorted(o, a, c)
  BY <1>1, <1>4 DEF Sorted
<1> QED
  BY <1>2, <1>3, <1>4

-----------------------------------------------------------------------------
(* The inductive invariant.                                                *)

Contents == UNION {Parsed[d] : d \in Docs}
SavingTyped ==
    saving \in [Docs -> {NoSave} \union [at : {"begun"}, began : 1..clock, content : Contents]]
MailTyped ==
    /\ clock \in 1..MaxClock
    /\ DOMAIN mail \subseteq Docs /\ IsFiniteSet(DOMAIN mail)
    /\ \A d \in DOMAIN mail : mail[d].sentAt \in Nat /\ mail[d].ingested \in 1..clock

Seen == {shown[i] : i \in DOMAIN shown}
Series == [at : {"paging", "finished"}, request : Requests, snapshot : Nat,
           after : {NoListing} \union Keys]
ListingTyped ==
    /\ listing \in {NoListing} \union Series
    /\ shown \in Seq(Docs)
    /\ Seen \union matched \subseteq DOMAIN mail \union changed
    /\ listing = NoListing => shown = <<>> /\ changed = {} /\ matched = {}

\* What was returned stands in order, up to the boundary of the next page.
PagedInOrder ==
    listing # NoListing =>
        /\ \A i, j \in DOMAIN shown : i < j /\ shown[i] \in Kept /\ shown[j] \in Kept =>
              Sorted(listing.request.order, Key(shown[i]), Key(shown[j]))
        /\ \A d \in Kept \intersect Seen : Matches(mail[d], listing.request)
        /\ listing.at = "paging" /\ listing.after = NoListing => shown = <<>>
        /\ listing.at = "paging" /\ listing.after # NoListing => \A d \in Kept \intersect Seen :
              Key(d) = listing.after \/ Sorted(listing.request.order, Key(d), listing.after)

\* What matched and was not returned comes after it.
Awaited ==
    listing # NoListing => \A d \in Kept \intersect matched :
        /\ Matches(mail[d], listing.request) /\ mail[d].ingested <= listing.snapshot
        /\ \/ d \in Seen
           \/ listing.at = "paging" /\
              (listing.after # NoListing => AfterBoundary(listing.request.order, listing.after, Key(d)))

MailInv == MailTyped /\ SavingTyped /\ ListingTyped /\ PagedInOrder /\ Awaited

LEMMA KeyTyped ==
    ASSUME MailTyped
    PROVE  \A d \in DOMAIN mail : Key(d) \in Keys /\ Key(d).doc = d /\ Key(d) # NoListing
BY DEF MailTyped, Key, Keys, NoListing

LEMMA SeriesIs ==
    /\ \A s \in Series : s # NoListing /\ s.at \in {"paging", "finished"} /\ s.request.order \in Orders
    /\ NoListing.at = "none"
BY MailboxAssumption DEF MailboxAssumption, Series, NoListing, Orders

LEMMA MailStarts == MailboxInit => MailInv
<1> SUFFICES ASSUME MailboxInit PROVE MailInv
  OBVIOUS
<1>1. MailTyped
  BY MailboxAssumption, FS_EmptySet DEF MailboxInit, MailTyped, MailboxAssumption
<1> QED
  BY <1>1 DEF MailboxInit, MailInv, SavingTyped, ListingTyped, PagedInOrder, Awaited, Seen

-----------------------------------------------------------------------------
(* One page.                                                               *)

\* The rows of a page: all that are found, each once, in order.
LEMMA RowsSorted ==
    ASSUME MailTyped, NEW q, q.order \in Orders
    PROVE  /\ Rows(q) \in Seq(Found(q)) /\ Found(q) \subseteq DOMAIN mail
           /\ \A i, j \in DOMAIN Rows(q) :
                 i < j => Sorted(q.order, Key(Rows(q)[i]), Key(Rows(q)[j]))
           /\ \A d \in Found(q) : \E i \in DOMAIN Rows(q) : Rows(q)[i] = d
<1> DEFINE S == Found(q)
           n == Cardinality(S)
           R == {p \in S \X S : Sorted(q.order, Key(p[1]), Key(p[2]))}
           Good(rows) == \A i, j \in DOMAIN rows : i < j => Sorted(q.order, Key(rows[i]), Key(rows[j]))
<1>1. S \in SUBSET DOMAIN mail
  BY DEF Found
<1>2. IsFiniteSet(S) /\ n \in Nat
  BY <1>1, FS_Subset, FS_CardinalityType DEF MailTyped
<1>3. \A d, e \in S : <<d, e>> \in R <=> Sorted(q.order, Key(d), Key(e))
  OBVIOUS
<1>4. \A d \in S : Key(d) \in Keys /\ Key(d).doc = d
  BY <1>1, KeyTyped
<1> HIDE DEF R, S
<1>5. StrictOn(R, S)
  BY <1>3, <1>4, StrictOrder DEF StrictOn
<1>6. PICK f \in [1..n -> S] :
           /\ \A i, j \in 1..n : i < j => <<f[i], f[j]>> \in R
           /\ \A x \in S : \E i \in 1..n : f[i] = x
  BY <1>2, <1>5, Arranged
<1>7. \A i, j \in 1..n : i # j => f[i] # f[j]
  <2> SUFFICES ASSUME NEW i \in 1..n, NEW j \in 1..n, i < j PROVE f[i] # f[j]
    BY <1>2
  <2> QED
    BY <1>5, <1>6 DEF StrictOn
<1>8. f \in SetToSeqs(S) /\ Good(f)
  BY <1>3, <1>6, <1>7 DEF SetToSeqs
<1>9. Rows(q) \in SetToSeqs(S) /\ Good(Rows(q))
  BY <1>8 DEF Rows, S
<1> HIDE DEF Good
<1>10. Rows(q) \in [1..n -> S] /\ \A i, j \in 1..n : i # j => Rows(q)[i] # Rows(q)[j]
  BY <1>9 DEF SetToSeqs
<1>11. Rows(q) \in Injection(1..n, S)
  BY <1>10 DEF Injection, IsInjective
<1>12. IsFiniteSet(1..n) /\ Cardinality(1..n) = n
  BY <1>2, FS_Interval
<1>13. Rows(q) \in Surjection(1..n, S)
  BY <1>2, <1>11, <1>12, FS_Injection
<1>14. \A d \in S : \E i \in 1..n : Rows(q)[i] = d
  BY <1>13 DEF Surjection
<1> QED
  BY <1>1, <1>2, <1>9, <1>10, <1>14 DEF S, Good

\* What is shown after a page: what was, then the first n rows.
Values(s) == {s[i] : i \in DOMAIN s}
Grown(t, s, r, n) ==
    /\ DOMAIN t = 1..(Len(s) + n)
    /\ \A i \in 1..Len(s) : t[i] = s[i]
    /\ \A i \in DOMAIN t : i \notin 1..Len(s) =>
          i > Len(s) /\ i - Len(s) \in 1..n /\ t[i] = r[i - Len(s)]
    /\ Values(t) = Values(s) \union {r[i] : i \in 1..n}

LEMMA Longer ==
    ASSUME NEW S, NEW s \in Seq(S), NEW r \in Seq(S), NEW n \in Nat, n <= Len(r)
    PROVE  Grown(s \o SubSeq(r, 1, n), s, r, n)
<1>1. SubSeq(r, 1, n) \in Seq(S) /\ Len(SubSeq(r, 1, n)) = n
      /\ \A i \in 1..n : SubSeq(r, 1, n)[i] = r[i]
  OBVIOUS
<1> DEFINE u == SubSeq(r, 1, n)
           t == s \o u
<1> HIDE DEF u
<1>2. /\ DOMAIN t = 1..(Len(s) + Len(u))
      /\ \A i \in 1..(Len(s) + Len(u)) :
            t[i] = IF i <= Len(s) THEN s[i] ELSE u[i - Len(s)]
  BY <1>1, Len(s) \in Nat, Len(u) \in Nat DEF u
<1> HIDE DEF t
<1>3. \A i \in 1..n : Len(s) + i \in DOMAIN t /\ t[Len(s) + i] = r[i]
  BY <1>1, <1>2, Len(s) \in Nat DEF u
<1>4. \A i \in 1..Len(s) : i \in DOMAIN t /\ t[i] = s[i]
  BY <1>1, <1>2, Len(s) \in Nat DEF u
<1>5. \A i \in DOMAIN t : i \notin 1..Len(s) =>
                 i > Len(s) /\ i - Len(s) \in 1..n /\ t[i] = r[i - Len(s)]
  BY <1>1, <1>2, Len(s) \in Nat DEF u
<1>6. DOMAIN s = 1..Len(s)
  OBVIOUS
<1>7. \A i \in DOMAIN t : t[i] \in Values(s) \union {r[k] : k \in 1..n}
  BY <1>4, <1>5, <1>6 DEF Values
<1>8. \A i \in DOMAIN s : i \in DOMAIN t /\ t[i] = s[i]
  BY <1>4, <1>6
<1>9. Values(t) = Values(s) \union {r[i] : i \in 1..n}
  <2>1. Values(t) \subseteq Values(s) \union {r[i] : i \in 1..n}
    BY <1>7 DEF Values
  <2>2. Values(s) \subseteq Values(t)
    BY <1>8 DEF Values
  <2>3. {r[i] : i \in 1..n} \subseteq Values(t)
    BY <1>3 DEF Values
  <2> QED
    BY <2>1, <2>2, <2>3
<1>10. DOMAIN t = 1..(Len(s) + n)
  BY <1>1, <1>2 DEF u
<1> QED
  BY <1>4, <1>5, <1>9, <1>10 DEF Grown, t, u

-----------------------------------------------------------------------------
(* Every step preserves the invariant.                                     *)

LEMMA PassStep == MailInv /\ Pass => MailInv'
<1> SUFFICES ASSUME MailInv, Pass PROVE MailInv'
  OBVIOUS
<1> USE DEF MailInv
<1>1. MailTyped'
  BY MailboxAssumption DEF Pass, MailTyped, MailboxAssumption
<1>2. SavingTyped'
  BY DEF Pass, MailTyped, SavingTyped
<1>3. ListingTyped'
  BY DEF Pass, ListingTyped, Seen
<1>4. PagedInOrder' /\ Awaited'
  BY DEF Pass, PagedInOrder, Awaited, Seen, Kept, Key
<1> QED
  BY <1>1, <1>2, <1>3, <1>4

LEMMA BeginStep ==
    ASSUME MailInv, NEW d \in Docs, NEW c \in Parsed[d], BeginSave(d, c) PROVE MailInv'
<1> USE DEF MailInv
<1>1. MailTyped'
  BY DEF BeginSave, MailTyped
<1>2. SavingTyped'
  BY DEF BeginSave, MailTyped, SavingTyped, Contents
<1>3. ListingTyped'
  BY DEF BeginSave, ListingTyped, Seen
<1>4. PagedInOrder' /\ Awaited'
  BY DEF BeginSave, PagedInOrder, Awaited, Seen, Kept, Key
<1> QED
  BY <1>1, <1>2, <1>3, <1>4

LEMMA RollBackStep ==
    ASSUME MailInv, NEW d \in Docs, RollBackSave(d) PROVE MailInv'
<1> USE DEF MailInv
<1>1. MailTyped'
  BY DEF RollBackSave, MailTyped
<1>2. SavingTyped'
  BY DEF RollBackSave, MailTyped, SavingTyped
<1>3. ListingTyped'
  BY DEF RollBackSave, ListingTyped, Seen
<1>4. PagedInOrder' /\ Awaited'
  BY DEF RollBackSave, PagedInOrder, Awaited, Seen, Kept, Key
<1> QED
  BY <1>1, <1>2, <1>3, <1>4

\* Where a row of mail changes and the others stay, so does what is kept: nothing
\* is kept that was returned or awaited but what is as it was.
LEMMA KeptStays ==
    ASSUME ListingTyped, PagedInOrder, Awaited, ListingTyped',
           UNCHANGED <<listing, shown, matched>>,
           \A e \in Kept' \intersect (Seen \union matched) : e \in Kept /\ mail'[e] = mail[e]
    PROVE  PagedInOrder' /\ Awaited'
<1>1. Seen' = Seen
  BY DEF Seen
<1>2. \A i \in DOMAIN shown : shown[i] \in Seen
  BY DEF Seen
<1>3. \A e \in Kept' \intersect (Seen \union matched) : Key(e)' = Key(e)
  BY DEF Key
<1>4. PagedInOrder'
  BY <1>1, <1>2, <1>3 DEF PagedInOrder
<1>5. Awaited'
  BY <1>1, <1>3 DEF Awaited
<1> QED
  BY <1>4, <1>5

LEMMA CommitStep ==
    ASSUME MailInv, NEW d \in Docs, CommitSave(d) PROVE MailInv'
<1> USE DEF MailInv
<1>1. saving[d] \in [at : {"begun"}, began : 1..clock, content : Contents]
  BY DEF CommitSave, SavingTyped
<1>2. saving[d].content.sentAt \in Nat
  BY <1>1, MailboxAssumption DEF Contents, MailboxAssumption
<1>3. IngestedAt(d) \in 1..clock
  BY <1>1 DEF IngestedAt, MailTyped
<1>4. Saved(d).sentAt \in Nat /\ Saved(d).ingested \in 1..clock
  BY <1>2, <1>3 DEF Saved
<1>5. /\ DOMAIN mail' = DOMAIN mail \union {d}
      /\ \A e \in DOMAIN mail' : mail'[e] = IF e = d THEN Saved(d) ELSE mail[e]
  BY DEF CommitSave
<1>6. clock' = clock
  BY DEF CommitSave
<1>7. MailTyped'
  <2>1. IsFiniteSet(DOMAIN mail')
    BY <1>5, FS_AddElement DEF MailTyped
  <2> QED
    BY <1>4, <1>5, <1>6, <2>1 DEF MailTyped
<1>8. SavingTyped'
  BY DEF CommitSave, SavingTyped
<1>9. changed' = changed \/ changed' = changed \union {d}
  BY DEF CommitSave
<1>10. Seen' = Seen /\ UNCHANGED <<listing, shown, matched>>
  BY DEF CommitSave, Seen
<1>11. listing = NoListing => changed' = changed
  BY DEF CommitSave
<1>12. ListingTyped'
  BY <1>5, <1>9, <1>10, <1>11 DEF ListingTyped
<1>13. ASSUME NEW e \in Kept' \intersect (Seen \union matched)
       PROVE  e \in Kept /\ mail'[e] = mail[e]
  <2>1. e \in DOMAIN mail
    BY <1>9 DEF Kept, ListingTyped
  <2>2. e # d
    <3> SUFFICES ASSUME e = d PROVE FALSE
      OBVIOUS
    <3>1. listing # NoListing
      BY DEF ListingTyped, Seen
    <3> QED
      BY <2>1, <3>1 DEF CommitSave, Kept
  <2> QED
    BY <1>5, <1>9, <2>1, <2>2 DEF Kept
<1>14. PagedInOrder' /\ Awaited'
  BY <1>10, <1>12, <1>13, KeptStays
<1> QED
  BY <1>7, <1>8, <1>12, <1>14

LEMMA DeleteStep ==
    ASSUME MailInv, NEW d \in Docs, DeleteMail(d) PROVE MailInv'
<1> USE DEF MailInv
<1>1. /\ DOMAIN mail' = DOMAIN mail \ {d}
      /\ \A e \in DOMAIN mail' : mail'[e] = mail[e]
  BY DEF DeleteMail
<1>2. clock' = clock /\ saving' = saving
  BY DEF DeleteMail
<1>3. MailTyped'
  <2>1. IsFiniteSet(DOMAIN mail')
    BY <1>1, FS_RemoveElement DEF MailTyped
  <2> QED
    BY <1>1, <1>2, <2>1 DEF MailTyped
<1>4. SavingTyped'
  BY <1>2 DEF SavingTyped
<1>5. changed \subseteq changed' /\ Seen' = Seen /\ UNCHANGED <<listing, shown, matched>>
  BY DEF DeleteMail, Seen
<1>6. listing = NoListing => changed' = changed
  BY DEF DeleteMail
<1>7. listing # NoListing => d \in changed'
  BY DEF DeleteMail
<1>8. listing = NoListing => Seen = {}
  BY DEF ListingTyped, Seen
<1>9. ListingTyped'
  BY <1>1, <1>5, <1>6, <1>7, <1>8 DEF ListingTyped
<1>10. \A e \in Kept' \intersect (Seen \union matched) : e \in Kept /\ mail'[e] = mail[e]
  BY <1>1, <1>5 DEF Kept
<1>11. PagedInOrder' /\ Awaited'
  BY <1>5, <1>9, <1>10, KeptStays
<1> QED
  BY <1>3, <1>4, <1>9, <1>11

LEMMA OpenStep ==
    ASSUME MailInv, NEW q \in Requests, OpenSeries(q) PROVE MailInv'
<1> USE DEF MailInv
<1>1. listing' \in Series /\ listing'.request = q /\ listing'.snapshot = clock
      /\ listing'.at = "paging" /\ listing'.after = NoListing
  BY DEF OpenSeries, Series, Watermark, MailTyped
<1>2. listing' # NoListing
  BY <1>1, SeriesIs
<1>3. shown' = <<>> /\ changed' = {} /\ Seen' = {}
  BY DEF OpenSeries, ListingTyped, Seen
<1>4. mail' = mail /\ Kept' = DOMAIN mail /\ matched' = {d \in DOMAIN mail : Matches(mail[d], q)}
  BY <1>3 DEF OpenSeries, Kept
<1>5. MailTyped'
  BY DEF OpenSeries, MailTyped
<1>6. SavingTyped'
  BY DEF OpenSeries, SavingTyped
<1>7. ListingTyped'
  BY <1>1, <1>2, <1>3, <1>4 DEF ListingTyped
<1>8. PagedInOrder'
  BY <1>3, <1>4 DEF PagedInOrder
<1>9. Awaited'
  BY <1>1, <1>4 DEF Awaited, MailTyped
<1> QED
  BY <1>5, <1>6, <1>7, <1>8, <1>9

\* The rows of a page come after those of the pages before it.
LEMMA ListStep ==
    ASSUME MailInv, NEW q \in Requests, NEW limit \in Limits, NEW n \in 0..MaxLimit, ListMessages(q, limit, n)
    PROVE  MailInv'
<1> USE DEF MailInv
<1> DEFINE r == Rows(q)
           more == Len(r) > PageSize(limit) \/ n < Len(r)
           next == IF more THEN [listing EXCEPT !.after = Boundary(r, n, PageSize(limit))]
                           ELSE [listing EXCEPT !.at = "finished"]
           o == listing.request.order
<1>1. listing.at = "paging" /\ q = listing.request
  BY DEF ListMessages, SameSeries
<1>2. listing \in Series /\ listing # NoListing /\ o \in Orders
  BY <1>1, SeriesIs DEF ListingTyped
<1>3. /\ r \in Seq(Found(q)) /\ Found(q) \subseteq DOMAIN mail
      /\ \A i, j \in DOMAIN r : i < j => Sorted(o, Key(r[i]), Key(r[j]))
      /\ \A d \in Found(q) : \E i \in DOMAIN r : r[i] = d
  BY <1>1, <1>2, RowsSorted
<1>4. /\ shown' = shown \o SubSeq(r, 1, n) /\ listing' = next
      /\ n \in (IF r = <<>> THEN {0} ELSE 1..Len(r))
      /\ UNCHANGED <<clock, saving, mail, matched, changed>>
  BY DEF ListMessages, Turnover
<1> HIDE DEF r
<1>20. Len(r) \in Nat /\ Len(shown) \in Nat /\ n \in Nat
  BY <1>3 DEF ListingTyped
<1>21. DOMAIN r = 1..Len(r) /\ DOMAIN shown = 1..Len(shown)
  BY <1>3 DEF ListingTyped
<1>23. r \in Seq(Docs) /\ shown \in Seq(Docs)
  BY <1>3 DEF ListingTyped, MailTyped
<1>22. n <= Len(r) /\ (Len(r) > 0 => n > 0)
  BY <1>3, <1>4, <1>20
<1>5. (more => n > 0) /\ (~more => n = Len(r))
  <2> DEFINE k == Len(r)
             size == PageSize(limit)
  <2>0. size \in Nat
    BY MailboxAssumption DEF PageSize, MailboxAssumption
  <2>1. k \in Nat /\ n \in Nat /\ n <= k /\ (k > 0 => n > 0)
    BY <1>20, <1>22
  <2>2. more <=> k > size \/ n < k
    OBVIOUS
  <2> HIDE DEF k, more, size
  <2>5. ~more => n = k
    BY <2>1, <2>2
  <2>6. more => n > 0
    BY <2>0, <2>1, <2>2
  <2> QED
    BY <2>1, <2>5, <2>6 DEF k
<1> HIDE DEF more
<1>24. shown' = shown \o SubSeq(r, 1, n)
  BY <1>4
<1> DEFINE New == {r[i] : i \in 1..n}
<1>6. /\ DOMAIN shown' = 1..(Len(shown) + n)
      /\ \A i \in 1..Len(shown) : shown'[i] = shown[i]
      /\ \A i \in DOMAIN shown' : i \notin 1..Len(shown) =>
            i > Len(shown) /\ i - Len(shown) \in 1..n /\ shown'[i] = r[i - Len(shown)]
      /\ Values(shown') = Values(shown) \union New
  <2>1. Grown(shown \o SubSeq(r, 1, n), shown, r, n)
    BY <1>20, <1>22, <1>23, Longer
  <2> QED
    BY <1>24, <2>1 DEF Grown
<1>7. Seen' = Seen \union New
  BY <1>6 DEF Seen, Values
<1>8. \A i \in 1..Len(r) : r[i] \in Found(q) /\ r[i] \in DOMAIN mail /\ Matches(mail[r[i]], q)
  BY <1>3 DEF Found
<1>9. \A d \in DOMAIN mail : Key(d) \in Keys /\ Key(d) # NoListing
  BY KeyTyped
<1>10. /\ Kept' = Kept /\ \A d : Key(d)' = Key(d)
       /\ listing'.request = listing.request /\ listing'.snapshot = listing.snapshot
       /\ more => listing'.at = "paging" /\ listing'.after = Key(r[n])
       /\ ~more => listing'.at = "finished"
  BY <1>1, <1>2, <1>4 DEF Kept, Key, Boundary, Series
<1>11. listing' \in Series /\ listing' # NoListing
  <2>1. more => Key(r[n]) \in Keys
    BY <1>5, <1>8, <1>9, <1>20, <1>22
  <2>2. listing' \in Series
    BY <1>2, <1>4, <2>1 DEF Boundary, Series
  <2> QED
    BY <2>2, SeriesIs, <1>10
<1>12. MailTyped' /\ SavingTyped'
  BY <1>4 DEF MailTyped, SavingTyped
<1>13. ListingTyped'
  <2>1. shown' \in Seq(Docs)
    BY <1>3, <1>4, <1>5, <1>20, <1>22 DEF ListingTyped, MailTyped
  <2>2. New \subseteq DOMAIN mail
    BY <1>5, <1>20, <1>22, <1>8
  <2> QED
    BY <1>4, <1>7, <1>11, <2>1, <2>2 DEF ListingTyped
<1>14. ASSUME NEW d \in Kept \intersect Seen, NEW i \in 1..Len(r)
       PROVE  Sorted(o, Key(d), Key(r[i]))
  <2>1. d \in DOMAIN mail /\ Key(d) \in Keys /\ Key(r[i]) \in Keys
    BY <1>8, <1>9 DEF Kept
  <2>2. listing.after # NoListing /\ listing.after \in Keys
    BY <1>1, <1>2 DEF PagedInOrder, Seen, Series
  <2>3. Key(d) = listing.after \/ Sorted(o, Key(d), listing.after)
    BY <1>1, <1>2, <2>2 DEF PagedInOrder
  <2>4. AfterBoundary(o, listing.after, Key(r[i]))
    BY <1>1, <1>8, <2>2 DEF Found
  <2>5. Sorted(o, listing.after, Key(r[i]))
    BY <1>2, <2>1, <2>2, <2>4, OneOrder
  <2> QED
    BY <1>2, <2>1, <2>2, <2>3, <2>5, StrictOrder
<1>15. PagedInOrder'
  <2>1. ASSUME NEW i \in DOMAIN shown', NEW j \in DOMAIN shown', i < j,
               shown'[i] \in Kept, shown'[j] \in Kept
        PROVE  Sorted(o, Key(shown'[i]), Key(shown'[j]))
    <3>1. /\ Len(shown) \in Nat /\ DOMAIN shown = 1..Len(shown)
          /\ Len(r) \in Nat /\ DOMAIN r = 1..Len(r) /\ \A k \in 1..n : k \in 1..Len(r)
      <4>1. \A k \in 1..n : k \in 1..Len(r)
        BY <1>20, <1>22
      <4> QED BY <1>20, <1>21, <4>1
    <3>2. CASE j \in 1..Len(shown)
      <4>1. i \in 1..Len(shown)
        BY <1>6, <2>1, <3>1, <3>2
      <4> QED
        BY <1>2, <1>6, <2>1, <3>1, <3>2, <4>1 DEF PagedInOrder
    <3>3. CASE j \notin 1..Len(shown)
      <4>1. j - Len(shown) \in 1..Len(r) /\ shown'[j] = r[j - Len(shown)]
        BY <1>6, <2>1, <3>1, <3>3
      <4>2. CASE i \in 1..Len(shown)
        <5>1. shown'[i] \in Kept \intersect Seen
          BY <1>6, <2>1, <3>1, <4>2 DEF Seen
        <5> QED
          BY <1>14, <4>1, <5>1
      <4>3. CASE i \notin 1..Len(shown)
        <5>1. i - Len(shown) \in 1..Len(r) /\ shown'[i] = r[i - Len(shown)]
          BY <1>6, <2>1, <3>1, <4>3
        <5>2. i - Len(shown) < j - Len(shown)
          BY <1>6, <2>1, <3>1
        <5> QED
          BY <1>3, <3>1, <4>1, <5>1, <5>2
      <4> QED
        BY <4>2, <4>3
    <3> QED
      BY <3>2, <3>3
  <2>2. \A d \in Kept \intersect Seen' : Matches(mail[d], q)
    BY <1>1, <1>2, <1>5, <1>20, <1>22, <1>7, <1>8 DEF PagedInOrder
  <2>3. more => Key(r[n]) # NoListing
    BY <1>5, <1>20, <1>22, <1>8, <1>9
  <2>4. ASSUME more, NEW d \in Kept \intersect Seen'
        PROVE  Key(d) = Key(r[n]) \/ Sorted(o, Key(d), Key(r[n]))
    <3>1. CASE d \in Seen
      BY <1>5, <1>20, <1>22, <1>14, <2>4, <3>1
    <3>2. CASE d \notin Seen
      <4>1. PICK i \in 1..n : d = r[i]
        BY <1>7, <3>2
      <4>2. i = n \/ i < n
        BY <1>5, <1>20, <1>22
      <4> QED
        BY <1>3, <1>5, <1>20, <1>22, <2>4, <4>1, <4>2
    <3> QED
      BY <3>1, <3>2
  <2> QED
    BY <1>1, <1>4, <1>10, <1>11, <2>1, <2>2, <2>3, <2>4, SeriesIs DEF PagedInOrder
<1>16. Awaited'
  <2> SUFFICES ASSUME NEW d \in Kept \intersect matched
               PROVE  /\ Matches(mail[d], listing.request) /\ mail[d].ingested <= listing.snapshot
                      /\ d \in Seen' \/ (more /\ AfterBoundary(o, Key(r[n]), Key(d)))
    BY <1>4, <1>10 DEF Awaited
  <2>1. Matches(mail[d], listing.request) /\ mail[d].ingested <= listing.snapshot
    BY <1>2 DEF Awaited
  <2>2. ASSUME d \notin Seen'
        PROVE  more /\ AfterBoundary(o, Key(r[n]), Key(d))
    <3>1. d \in DOMAIN mail /\ d \notin Seen
      BY <1>7, <2>2 DEF Kept
    <3>2. d \in Found(q)
      BY <1>1, <1>2, <2>1, <3>1 DEF Awaited, Found
    <3>3. PICK i \in DOMAIN r : r[i] = d
      BY <1>3, <3>2
    <3>4. Len(r) \in Nat /\ DOMAIN r = 1..Len(r) /\ i \notin 1..n
      BY <1>3, <1>7, <2>2, <3>3
    <3>5. more /\ n > 0 /\ n < i
      <4>1. i \in Nat /\ i > 0 /\ i <= Len(r)
        BY <1>20, <3>3, <3>4
      <4>2. n < i
        BY <1>20, <3>4, <4>1
      <4> QED
        BY <1>5, <1>20, <4>1, <4>2
    <3>6. Sorted(o, Key(r[n]), Key(d))
      BY <1>3, <1>20, <1>21, <1>22, <3>3, <3>4, <3>5
    <3>7. Key(r[n]) \in Keys /\ Key(d) \in Keys
      BY <1>8, <1>9, <1>20, <1>22, <3>1, <3>5
    <3> QED
      BY <1>2, <3>5, <3>6, <3>7, OneOrder
  <2> QED
    BY <2>1, <2>2
<1> QED
  BY <1>12, <1>13, <1>15, <1>16

LEMMA MailNext ==
    ASSUME MailInv, [MailboxNext]_mailboxVars PROVE MailInv'
<1>1. CASE UNCHANGED mailboxVars
  <2>1. Kept' = Kept /\ Seen' = Seen /\ \A d : Key(d)' = Key(d)
    BY <1>1 DEF mailboxVars, Kept, Seen, Key
  <2> QED
    BY <1>1, <2>1 DEF mailboxVars, MailInv, MailTyped, SavingTyped, ListingTyped, PagedInOrder, Awaited
<1>2. CASE MailboxNext
  <2>1. CASE Pass
    BY <2>1, PassStep
  <2>2. CASE \E d \in Docs : \/ \E c \in Parsed[d] : BeginSave(d, c)
                            \/ CommitSave(d) \/ RollBackSave(d) \/ DeleteMail(d)
    BY <2>2, BeginStep, CommitStep, RollBackStep, DeleteStep
  <2>3. CASE \E q \in Requests : OpenSeries(q)
    BY <2>3, OpenStep
  <2>4. CASE \E q \in Requests, limit \in Limits, n \in 0..MaxLimit : ListMessages(q, limit, n)
    BY <2>4, ListStep
  <2> QED
    BY <1>2, <2>1, <2>2, <2>3, <2>4 DEF MailboxNext
<1> QED
  BY <1>1, <1>2

\* The invariant is inductive: rows typed, what was returned in order up to the
\* boundary of the next page, and what matched and is still to come behind it.
THEOREM MailboxInductive == MailboxSpec => []MailInv
<1>1. MailInv /\ [MailboxNext]_mailboxVars => MailInv'
  BY MailNext
<1> QED
  BY MailStarts, <1>1, PTL DEF MailboxSpec

LEMMA OnceEach == MailInv => EachOnce
<1> SUFFICES ASSUME MailInv PROVE EachOnce
  OBVIOUS
<1> USE DEF MailInv
<1> DEFINE o == listing.request.order
<1>1. listing = NoListing => shown = <<>> /\ listing.at = "none"
  BY SeriesIs DEF ListingTyped
<1>2. listing # NoListing => listing.at \in {"paging", "finished"} /\ o \in Orders
  BY SeriesIs DEF ListingTyped
<1>3. \A i \in DOMAIN shown : i \in Nat /\ shown[i] \in Docs /\ shown[i] \in Seen
  BY DEF ListingTyped, Seen
<1>4. MailboxTypeOK
  BY <1>1, <1>2, <1>3 DEF MailboxTypeOK, MailTyped
<1>5. ASSUME NEW i \in DOMAIN shown, NEW j \in DOMAIN shown, i < j, shown[i] \in Kept, shown[j] \in Kept
      PROVE  /\ Before(o, Key(shown[i]), Key(shown[j])) /\ Sorted(o, Key(shown[i]), Key(shown[j]))
             /\ shown[i] # shown[j]
  <2>1. listing # NoListing
    BY <1>1
  <2>2. Sorted(o, Key(shown[i]), Key(shown[j]))
    BY <1>5, <2>1 DEF PagedInOrder
  <2>3. Key(shown[i]) \in Keys /\ Key(shown[j]) \in Keys
    BY <1>5, KeyTyped DEF Kept
  <2> QED
    BY <1>2, <2>1, <2>2, <2>3, OneOrder, StrictOrder
<1>6. ASSUME NEW d \in Kept, NEW i \in Times(d), NEW j \in Times(d) PROVE i = j
  <2>1. i \in DOMAIN shown /\ j \in DOMAIN shown /\ shown[i] = d /\ shown[j] = d
    BY DEF Times
  <2>2. ~(i < j) /\ ~(j < i)
    BY <1>5, <2>1
  <2>3. i \in Nat /\ j \in Nat
    BY <1>3, <2>1
  <2> QED
    BY <2>2, <2>3
<1>7. ASSUME listing.at = "finished", NEW d \in Kept \intersect matched PROVE Times(d) # {}
  <2>1. listing # NoListing
    BY <1>7, SeriesIs
  <2>2. d \in Seen
    BY <1>7, <2>1 DEF Awaited
  <2> QED
    BY <2>2 DEF Seen, Times
<1>8. ASSUME NEW d \in Kept, NEW e \in Kept, NEW i \in Times(d), NEW j \in Times(e), i < j
      PROVE  Before(o, Key(d), Key(e))
  BY <1>5, <1>8 DEF Times
<1>9. ASSUME NEW d \in Kept, Times(d) # {} PROVE Matches(mail[d], listing.request)
  <2>1. d \in Seen /\ shown # <<>>
    BY <1>9 DEF Times, Seen
  <2> QED
    BY <1>1, <2>1 DEF PagedInOrder
<1> QED
  BY <1>4, <1>6, <1>7, <1>8, <1>9 DEF EachOnce

\* For every set of messages, every clock and page size, however saves, deletes
\* and pages interleave: a message that stays as it was is returned once if it
\* matched when the watermark was taken, never twice, and in the order asked for
\* (query.go, ListMessages: "exactly once").
THEOREM AlwaysOnce == MailboxSpec => []EachOnce
BY MailboxInductive, OnceEach, PTL

\* The check of an answer before it is sent never refuses one that the query
\* returned: the rows follow the boundary and each other in the order it is
\* checked against (query.go, verifyPage).
PagesVerify == listing.at = "paging" => VerifiedPage(Rows(listing.request), listing.request.order)

LEMMA PageVerifies == MailInv => PagesVerify
<1> SUFFICES ASSUME MailInv, listing.at = "paging" 
             PROVE  VerifiedPage(Rows(listing.request), listing.request.order)
  BY DEF PagesVerify
<1> USE DEF MailInv
<1> DEFINE q == listing.request
           o == q.order
           r == Rows(q)
<1>1. listing \in Series /\ listing # NoListing /\ o \in Orders
  BY SeriesIs DEF ListingTyped
<1>2. /\ r \in Seq(Found(q)) /\ Found(q) \subseteq DOMAIN mail
      /\ \A i, j \in DOMAIN r : i < j => Sorted(o, Key(r[i]), Key(r[j]))
  BY <1>1, RowsSorted
<1> HIDE DEF r
<1>3. /\ DOMAIN r = 1..Len(r) /\ Len(r) \in Nat
      /\ \A i \in DOMAIN r : r[i] \in Found(q) /\ Key(r[i]) \in Keys
  BY <1>2, KeyTyped
<1>4. ASSUME listing.after # NoListing, NEW i \in DOMAIN r
      PROVE  Before(o, listing.after, Key(r[i]))
  <2>1. AfterBoundary(o, listing.after, Key(r[i])) /\ listing.after \in Keys
    BY <1>1, <1>3, <1>4 DEF Found, Series
  <2> QED
    BY <1>1, <1>3, <2>1, OneOrder
<1>5. ASSUME NEW i \in DOMAIN r \ {1} PROVE Before(o, Key(r[i - 1]), Key(r[i]))
  <2>1. i - 1 \in DOMAIN r /\ i \in DOMAIN r /\ i - 1 < i
    BY <1>3
  <2> QED
    BY <1>1, <1>2, <1>3, <2>1, OneOrder
<1> QED
  BY <1>4, <1>5 DEF VerifiedPage, r

\* No page of a series is refused by the check before it is sent (query.go, verifyPage).
THEOREM AlwaysVerified == MailboxSpec => []PagesVerify
BY MailboxInductive, PageVerifies, PTL

-----------------------------------------------------------------------------
(* Where texts are cut.                                                    *)

Bytes3 == {"s", "c", "n"}

\* Offsets of a text at which a character starts, or none is left.
LEMMA TextIs ==
    ASSUME NEW text \in Texts
    PROVE  /\ text \in Seq(Bytes3) /\ Len(text) \in Nat
           /\ RuneStart(text, 0) /\ RuneStart(text, Len(text))
           /\ \A b \in 1..Len(text) : text[b] = "n" => RuneStart(text, b)
<1>1. text \in Seq(Bytes3) /\ Len(text) \in Nat
  BY DEF Texts, Bytes3
<1>2. \A k \in 1..Len(text) : text[k] = "c" => k > 1 /\ text[k - 1] # "n"
  BY DEF Texts
<1>3. RuneStart(text, 0)
  <2>1. CASE Len(text) = 0
    BY <2>1 DEF RuneStart
  <2>2. CASE Len(text) # 0
    <3>1. 1 \in 1..Len(text)
      BY <1>1, <2>2
    <3> QED
      BY <1>2, <3>1 DEF RuneStart
  <2> QED
    BY <2>1, <2>2
<1>4. ASSUME NEW b \in 1..Len(text), text[b] = "n" PROVE RuneStart(text, b)
  <2>1. CASE b = Len(text)
    BY <2>1 DEF RuneStart
  <2>2. CASE b # Len(text)
    <3>1. b + 1 \in 1..Len(text) /\ (b + 1) - 1 = b
      BY <1>1, <2>2
    <3> QED
      BY <1>2, <1>4, <3>1 DEF RuneStart
  <2> QED
    BY <2>1, <2>2
<1> QED
  BY <1>1, <1>3, <1>4 DEF RuneStart

LEMMA BoundaryIs ==
    ASSUME NEW text \in Texts, NEW end \in 0..Len(text)
    PROVE  LET b == BoundaryAtOrBefore(text, end) IN
           /\ b \in 0..end /\ RuneStart(text, b)
           /\ \A x \in (b + 1)..end : ~RuneStart(text, x)
<1>1. Len(text) \in Nat /\ RuneStart(text, 0) /\ RuneStart(text, Len(text))
  BY TextIs
<1> DEFINE S == {b \in 0..end : b = 0 \/ RuneStart(text, b)}
<1>2. S \in SUBSET Nat /\ S # {} /\ end \in Nat /\ \A i \in S : i <= end
  BY <1>1
<1> HIDE DEF S
<1>3. PICK m \in S : \A i \in S : i <= m
  BY <1>2, Greatest
<1> USE DEF S
<1>4. m \in 0..end /\ (m = 0 \/ RuneStart(text, m)) /\ \A x \in (m + 1)..end : ~RuneStart(text, x)
  BY <1>1, <1>3
<1> DEFINE b == BoundaryAtOrBefore(text, end)
<1>5. b \in 0..end /\ (b = 0 \/ RuneStart(text, b)) /\ \A x \in (b + 1)..end : ~RuneStart(text, x)
  BY <1>4 DEF BoundaryAtOrBefore
<1> QED
  BY <1>1, <1>5

LEMMA NextIs ==
    ASSUME NEW text \in Texts, NEW start \in 0..(Len(text) - 1)
    PROVE  LET b == NextBoundary(text, start) IN
           /\ b \in (start + 1)..Len(text) /\ RuneStart(text, b)
           /\ \A x \in (start + 1)..(b - 1) : ~RuneStart(text, x)
<1>1. Len(text) \in Nat /\ RuneStart(text, Len(text))
  BY TextIs
<1> DEFINE S == {b \in (start + 1)..Len(text) : RuneStart(text, b)}
<1>2. S \in SUBSET Nat /\ S # {}
  BY <1>1
<1>3. PICK m \in S : \A i \in S : m <= i
  BY <1>2, LeastElement
<1>4. m \in (start + 1)..Len(text) /\ RuneStart(text, m) /\ \A x \in (start + 1)..(m - 1) : ~RuneStart(text, x)
  BY <1>1, <1>3
<1> QED
  BY <1>4 DEF NextBoundary

LEMMA CutIs ==
    ASSUME NEW text \in Texts, NEW start \in Nat, NEW end \in 1..Len(text), start < end,
           RuneStart(text, end)
    PROVE  LET cut == PreferredEnd(text, start, end) IN
           cut \in (start + 1)..end /\ RuneStart(text, cut)
<1> DEFINE ends == ParagraphEnds(text, start, end)
<1>1. Len(text) \in Nat
  BY TextIs
<1>2. ends \in SUBSET ((start + 2)..end) /\ \A b \in ends : text[b] = "n"
  BY DEF ParagraphEnds
<1>3. CASE ends = {}
  BY <1>1, <1>3 DEF PreferredEnd
<1>4. CASE ends # {}
  <2>1. ends \in SUBSET Nat /\ end \in Nat /\ \A i \in ends : i <= end
    BY <1>1, <1>2
  <2> HIDE DEF ends
  <2>2. PICK m \in ends : \A i \in ends : i <= m
    BY <1>4, <2>1, Greatest
  <2>3. Max(ends) \in ends
    BY <2>1, <2>2 DEF Max
  <2>4. PreferredEnd(text, start, end) = Max(ends)
    BY <1>4 DEF PreferredEnd, ends
  <2> DEFINE cut == Max(ends)
  <2>5. cut \in (start + 2)..end /\ text[cut] = "n"
    BY <1>2, <2>3
  <2> HIDE DEF cut
  <2>7. cut \in 1..Len(text) /\ cut \in (start + 1)..end
    BY <1>1, <2>5
  <2>6. RuneStart(text, cut)
    BY <2>5, <2>7, TextIs
  <2> QED
    BY <2>4, <2>6, <2>7 DEF cut
<1> QED
  BY <1>3, <1>4

\* One probe keeps what the search knows.
Sought(low, high, fitting, bounds) ==
    /\ bounds[1] \in low..(high + 1) /\ bounds[2] \in (low - 1)..high
    /\ bounds[1] <= bounds[2] + 1
    /\ bounds[1] > low => bounds[1] - 1 \in fitting
    /\ bounds[2] < high => bounds[2] + 1 \notin fitting
    /\ bounds[1] > high /\ high > low => high - 1 \in fitting

LEMMA ProbeKeeps ==
    ASSUME NEW low \in Nat, NEW high \in Nat, low <= high, NEW fitting,
           NEW bounds, Sought(low, high, fitting, bounds)
    PROVE  LET narrowed == Narrowed(bounds, fitting) IN
           /\ Sought(low, high, fitting, narrowed)
           /\ bounds[1] <= bounds[2] =>
                  narrowed[2] - narrowed[1] < bounds[2] - bounds[1]
           /\ bounds[1] > bounds[2] => narrowed = bounds
<1> DEFINE l == bounds[1]
           h == bounds[2]
           middle == l + (h - l) \div 2
<1>1. l \in low..(high + 1) /\ h \in (low - 1)..high
  BY DEF Sought
<1>2. CASE l > h
  <2>1. Narrowed(bounds, fitting) = bounds
    BY <1>2 DEF Narrowed
  <2> QED
    BY <1>1, <1>2, <2>1
<1>3. CASE l <= h
  <2>1. middle \in l..h /\ (middle = h => l = h)
    <3>1. h - l \in Nat /\ (h - l) \div 2 \in 0..(h - l) /\ ((h - l) \div 2 = h - l => h - l = 0)
      BY <1>1, <1>3
    <3> QED
      BY <1>1, <3>1
  <2> HIDE DEF middle
  <2>2. CASE middle \in fitting
    <3>1. Narrowed(bounds, fitting) = <<middle + 1, h>>
      BY <1>1, <1>3, <2>2 DEF Narrowed, middle
    <3>2. middle + 1 > high /\ high > low => high - 1 \in fitting
      <4> SUFFICES ASSUME middle + 1 > high, high > low PROVE high - 1 \in fitting
        OBVIOUS
      <4>1. middle = high /\ l = high
        BY <1>1, <2>1
      <4> QED
        BY <4>1 DEF Sought
    <3>3. Sought(low, high, fitting, <<middle + 1, h>>)
      BY <1>1, <2>1, <2>2, <3>2 DEF Sought
    <3> QED
      BY <1>1, <1>3, <2>1, <3>1, <3>3
  <2>3. CASE middle \notin fitting
    <3>1. Narrowed(bounds, fitting) = <<l, middle - 1>>
      BY <1>1, <1>3, <2>3 DEF Narrowed, middle
    <3>2. Sought(low, high, fitting, <<l, middle - 1>>)
      BY <1>1, <2>1, <2>3 DEF Sought
    <3> QED
      BY <1>1, <1>3, <2>1, <3>1, <3>2
  <2> QED
    BY <2>2, <2>3
<1> QED
  BY <1>1, <1>2, <1>3

\* The probes of a search exist.
Probes(low, high, fitting, n) ==
    {p \in [0..n -> Int \X Int] :
        \A k \in 0..n : p[k] = IF k = 0 THEN <<low, high>> ELSE Narrowed(p[k - 1], fitting)}
LEMMA ProbesExist ==
    ASSUME NEW low \in Int, NEW high \in Int, NEW fitting, NEW n \in Nat
    PROVE  Probes(low, high, fitting, n) # {}
<1> DEFINE Missing == {m \in Nat : Probes(low, high, fitting, m) = {}}
<1> SUFFICES ASSUME n \in Missing PROVE FALSE
  OBVIOUS
<1>1. PICK m \in Missing : \A i \in Missing : m <= i
  BY LeastElement
<1>2. m # 0
  <2> DEFINE p == [k \in 0..0 |-> <<low, high>>]
  <2>1. p \in Probes(low, high, fitting, 0)
    BY DEF Probes
  <2> QED
    BY <2>1
<1>3. m - 1 \in Nat /\ m \in Nat
  BY <1>2
<1>4. PICK p : p \in Probes(low, high, fitting, m - 1)
  BY <1>1, <1>3
<1>5. p \in [0..(m - 1) -> Int \X Int]
  BY <1>4 DEF Probes
<1> DEFINE q == [k \in 0..m |-> IF k = m THEN Narrowed(p[m - 1], fitting) ELSE p[k]]
<1>6. \A bounds \in Int \X Int : Narrowed(bounds, fitting) \in Int \X Int
  BY DEF Narrowed
<1>7. q \in [0..m -> Int \X Int]
  BY <1>3, <1>5, <1>6
<1>8. ASSUME NEW k \in 0..m
      PROVE  q[k] = IF k = 0 THEN <<low, high>> ELSE Narrowed(q[k - 1], fitting)
  <2>1. CASE k = m
    <3>1. q[m] = Narrowed(p[m - 1], fitting) /\ q[m - 1] = p[m - 1]
      BY <1>3
    <3> QED
      BY <1>2, <2>1, <3>1
  <2>2. CASE k # m
    <3>1. k \in 0..(m - 1) /\ q[k] = p[k] /\ (k # 0 => q[k - 1] = p[k - 1])
      BY <1>3, <2>2
    <3> QED
      BY <1>4, <3>1 DEF Probes
  <2> QED
    BY <2>1, <2>2
<1> HIDE DEF q
<1>9. q \in Probes(low, high, fitting, m)
  BY <1>7, <1>8 DEF Probes
<1> QED
  BY <1>9

\* What a search answers: nothing only if the least does not fit, and the
\* greatest only after the one before it.
LEMMA SearchIs ==
    ASSUME NEW low \in Nat, NEW high \in Nat, low <= high, NEW fitting
    PROVE  LET found == LargestFitting(low, high, fitting) IN
           /\ found \in (low - 1)..high
           /\ found >= low => found \in fitting
           /\ found < low => low \notin fitting
           /\ found = high /\ high > low => high - 1 \in fitting
<1> DEFINE width == high + 1 - low
           Eq(p) == p = [k \in 0..width |->
                          IF k = 0 THEN <<low, high>> ELSE Narrowed(p[k - 1], fitting)]
           probe == CHOOSE p : Eq(p)
<1>1. width \in Nat
  OBVIOUS
<1>2. Eq(probe)
  <2>1. PICK p : p \in Probes(low, high, fitting, width)
    BY <1>1, ProbesExist
  <2>2. Eq(p)
    BY <2>1 DEF Probes
  <2> HIDE DEF Eq
  <2> QED
    BY <2>2
<1>3. LargestFitting(low, high, fitting) = probe[width][1] - 1
  BY DEF LargestFitting
<1> HIDE DEF probe
<1>4. \A k \in 0..width : probe[k] = IF k = 0 THEN <<low, high>> ELSE Narrowed(probe[k - 1], fitting)
  BY <1>2
<1> HIDE DEF Eq
<1> DEFINE Good(k) == /\ Sought(low, high, fitting, probe[k])
                      /\ probe[k][2] + 1 - probe[k][1] <= width - k \/ probe[k][1] > probe[k][2]
           Bad == {k \in 0..width : ~Good(k)}
<1>5. \A k \in 0..width : Good(k)
  <2> SUFFICES ASSUME Bad # {} PROVE FALSE
    OBVIOUS
  <2>0. Bad \in SUBSET Nat
    OBVIOUS
  <2> HIDE DEF Bad
  <2>1. PICK k \in Bad : \A i \in Bad : k <= i
    BY <2>0, LeastElement
  <2> USE DEF Bad
  <2>2. CASE k = 0
    <3>1. probe[0] = <<low, high>>
      BY <1>1, <1>4
    <3>2. Sought(low, high, fitting, <<low, high>>)
      BY DEF Sought
    <3>3. Good(0)
      BY <3>1, <3>2
    <3> QED
      BY <2>1, <2>2, <3>3
  <2>3. CASE k # 0
    <3>1. k \in 0..width /\ k - 1 \in 0..width /\ Good(k - 1)
      BY <1>1, <2>1, <2>3
    <3>2. probe[k] = Narrowed(probe[k - 1], fitting)
      BY <1>4, <2>3, <3>1
    <3>3. Sought(low, high, fitting, probe[k - 1])
      BY <3>1
    <3> DEFINE a == probe[k - 1]
               c == probe[k]
    <3>4. /\ Sought(low, high, fitting, c)
          /\ a[1] <= a[2] => c[2] - c[1] < a[2] - a[1]
          /\ a[1] > a[2] => c = a
      BY <3>2, <3>3, ProbeKeeps
    <3>5. a[1] \in Int /\ a[2] \in Int /\ c[1] \in Int /\ c[2] \in Int
      BY <3>3, <3>4 DEF Sought
    <3>6. a[2] + 1 - a[1] <= width - (k - 1) \/ a[1] > a[2]
      BY <3>1
    <3> HIDE DEF a, c
    <3>7. c[2] + 1 - c[1] <= width - k \/ c[1] > c[2]
      BY <1>1, <3>1, <3>4, <3>5, <3>6
    <3>8. Good(k)
      BY <3>4, <3>7 DEF c
    <3> QED
      BY <2>1, <3>8
  <2> QED
    BY <2>2, <2>3
<1> DEFINE last == probe[width]
<1>6. Sought(low, high, fitting, last) /\ (last[2] + 1 - last[1] <= 0 \/ last[1] > last[2])
  BY <1>1, <1>5
<1> HIDE DEF last
<1>7. /\ last[1] \in low..(high + 1) /\ last[2] \in (low - 1)..high
      /\ last[1] = last[2] + 1
  BY <1>6 DEF Sought
<1>8. /\ last[1] - 1 \in (low - 1)..high
      /\ last[1] - 1 >= low => last[1] - 1 \in fitting
      /\ last[1] - 1 < low => low \notin fitting
      /\ last[1] - 1 = high /\ high > low => high - 1 \in fitting
  BY <1>6, <1>7 DEF Sought
<1> QED
  BY <1>3, <1>8 DEF last

-----------------------------------------------------------------------------
(* The pages of one evidence result.                                       *)

LEMMA Joined ==
    ASSUME NEW S, NEW s \in Seq(S), NEW a \in 0..Len(s), NEW b \in a..Len(s)
    PROVE  SubSeq(s, 1, a) \o SubSeq(s, a + 1, b) = SubSeq(s, 1, b)
<1>1. Len(s) \in Nat
  OBVIOUS
<1> DEFINE x == SubSeq(s, 1, a)
           y == SubSeq(s, a + 1, b)
           z == SubSeq(s, 1, b)
<1>2. /\ x \in Seq(S) /\ Len(x) = a /\ \A i \in 1..a : x[i] = s[i]
      /\ y \in Seq(S) /\ Len(y) = b - a /\ \A i \in 1..(b - a) : y[i] = s[a + i]
      /\ z \in Seq(S) /\ Len(z) = b /\ \A i \in 1..b : z[i] = s[i]
  <2>1. x \in Seq(S) /\ Len(x) = a /\ \A i \in 1..a : x[i] = s[i]
    BY <1>1
  <2>2. y \in Seq(S) /\ Len(y) = b - a /\ \A i \in 1..(b - a) : y[i] = s[a + i]
    BY <1>1
  <2>3. z \in Seq(S) /\ Len(z) = b /\ \A i \in 1..b : z[i] = s[i]
    BY <1>1
  <2> QED
    BY <2>1, <2>2, <2>3
<1> HIDE DEF x, y, z
<1> DEFINE w == x \o y
<1>3. w \in Seq(S) /\ Len(w) = b
      /\ \A i \in 1..b : w[i] = IF i <= a THEN x[i] ELSE y[i - a]
  <2>1. /\ x \in Seq(S) /\ Len(x) = a /\ y \in Seq(S) /\ Len(y) = b - a
        /\ a \in Nat /\ b \in Nat
    BY <1>1, <1>2
  <2>2. w \in Seq(S) /\ Len(w) = Len(x) + Len(y)
    BY <2>1
  <2>3. \A i \in 1..(Len(x) + Len(y)) : w[i] = IF i <= Len(x) THEN x[i] ELSE y[i - Len(x)]
    BY <2>1
  <2>4. Len(x) + Len(y) = b
    BY <2>1
  <2> QED
    BY <2>1, <2>2, <2>3, <2>4
<1>4. \A i \in 1..b : w[i] = z[i]
  <2> SUFFICES ASSUME NEW i \in 1..b PROVE w[i] = z[i]
    OBVIOUS
  <2>0. i \in Int /\ a \in Int /\ b \in Int /\ z[i] = s[i]
    BY <1>1, <1>2
  <2>1. CASE i <= a
    BY <1>1, <1>2, <1>3, <2>1
  <2>2. CASE ~(i <= a)
    <3>1. i - a \in 1..(b - a) /\ a + (i - a) = i
      BY <1>1, <2>0, <2>2
    <3>2. w[i] = y[i - a]
      BY <1>3, <2>2
    <3>3. y[i - a] = s[a + (i - a)]
      BY <1>2, <3>1
    <3> QED
      BY <2>0, <3>1, <3>2, <3>3
  <2> QED
    BY <2>1, <2>2
<1> HIDE DEF w
<1>5. w = z
  <2>1. w \in [1..b -> S] /\ z \in [1..b -> S]
    BY <1>2, <1>3
  <2> QED
    BY <1>4, <2>1
<1> QED
  BY <1>5 DEF w, x, y, z

LEMMA SizeOfOne == ASSUME NEW n \in Nat PROVE SizeOf(<<n>>) = n
<1> DEFINE some == <<n>>
           Eq(u) == u = [k \in 0..Len(some) |-> IF k = 0 THEN 0 ELSE u[k - 1] + some[k]]
           upTo == CHOOSE u : Eq(u)
           two == [k \in 0..1 |-> IF k = 0 THEN 0 ELSE n]
<1>1. Len(some) = 1 /\ some[1] = n
  OBVIOUS
<1>2. Eq(two)
  <2>1. \A k \in 0..1 : two[k] = IF k = 0 THEN 0 ELSE two[k - 1] + some[k]
    BY <1>1
  <2>2. two = [k \in 0..1 |-> two[k]]
    OBVIOUS
  <2> HIDE DEF two, some
  <2>3. two = [k \in 0..1 |-> IF k = 0 THEN 0 ELSE two[k - 1] + some[k]]
    BY <2>1, <2>2
  <2> QED
    BY <1>1, <2>3
<1> HIDE DEF two
<1>3. Eq(upTo)
  BY <1>2
<1>4. SizeOf(some) = upTo[Len(some)]
  BY DEF SizeOf
<1> HIDE DEF upTo, some
<1>5. upTo[0] = 0 /\ upTo[1] = upTo[0] + some[1]
  BY <1>1, <1>3
<1> QED
  BY <1>1, <1>4, <1>5 DEF some

ResultOK(r) ==
    /\ r.index \in Seq(Nat) /\ r.items \in Seq(Texts)
    /\ \A i \in DOMAIN r.items : r.items[i] \in Texts /\ r.items[i] # <<>>

LEMMA ResultIs == ASSUME result \in EvidenceResults PROVE ResultOK(result)
<1>1. result \in [index : Seq(Nat), items : Seq(Texts \ {<<>>})]
  BY EvidenceAssumption
<1> QED
  BY <1>1 DEF ResultOK

LEMMA FittingIs ==
    ASSUME NEW size \in Nat, NEW next
    PROVE  /\ Fitting(size, next) \in BOOLEAN
           /\ ~Fitting(size, next) => size + CursorSize > PageRoom
           /\ Fitting(size, next) /\ next.phase # "complete" => size + CursorSize <= PageRoom
           /\ size + CursorSize <= PageRoom => Fitting(size, next)
BY PagingAssumption, EvidenceAssumption DEF Fitting

LEMMA IndexEndIs ==
    ASSUME ResultOK(result), NEW start \in 0..Len(result.index)
    PROVE  LET n == IndexEnd(start) IN
           /\ n \in start..Len(result.index)
           /\ n = start /\ n < Len(result.index) => NoPageHolds
<1> DEFINE index == result.index
           fits(n) == Fitting(SizeOf(SubSeq(index, start + 1, n)), AfterIndex(n))
           S == {n \in start..Len(index) : n = Len(index) \/ ~fits(n + 1)}
           n == IndexEnd(start)
<1>1. index \in Seq(Nat) /\ Len(index) \in Nat
  BY DEF ResultOK
<1> HIDE DEF fits
<1>2. S \in SUBSET Nat /\ S # {}
  BY <1>1
<1>3. PICK k \in S : \A i \in S : k <= i
  BY <1>2, LeastElement
<1>4. /\ k \in start..Len(index) /\ (k = Len(index) \/ ~fits(k + 1))
      /\ \A m \in (start + 1)..k : fits(m)
  <2>1. ASSUME NEW m \in (start + 1)..k, ~fits(m) PROVE FALSE
    <3>1. m - 1 \in start..Len(index) /\ (m - 1) + 1 = m /\ m - 1 < k
      BY <1>1, <1>3
    <3>2. m - 1 \in S
      BY <2>1, <3>1
    <3>3. k <= m - 1
      BY <1>3, <3>2
    <3>4. k \in Nat /\ m - 1 \in Nat
      BY <1>2, <1>3, <3>2
    <3> QED
      BY <3>1, <3>3, <3>4
  <2> QED
    BY <1>3, <2>1
<1>5. n \in start..Len(index) /\ (n = Len(index) \/ ~fits(n + 1))
  <2>1. n = CHOOSE c \in start..Len(index) : /\ \A m \in (start + 1)..c : fits(m)
                                             /\ c = Len(index) \/ ~fits(c + 1)
    BY DEF IndexEnd, fits
  <2> HIDE DEF n, index
  <2> QED
    BY <1>4, <2>1
<1>6. ASSUME n = start, n < Len(index) PROVE NoPageHolds
  <2> DEFINE k1 == start + 1
  <2>1. k1 \in 1..Len(index) /\ k1 \in Nat
    BY <1>1, <1>6
  <2>2. index[k1] \in Nat
    BY <1>1, <2>1
  <2>3. SubSeq(index, k1, k1) = <<index[k1]>>
    <3> HIDE DEF index, k1
    <3> DEFINE one == SubSeq(index, k1, k1)
    <3>1. one \in Seq(Nat) /\ Len(one) = 1 /\ one[1] = index[k1]
      BY <1>1, <2>1
    <3> HIDE DEF one
    <3> DEFINE x == index[k1]
    <3>2. x \in Nat /\ one[1] = x
      BY <2>2, <3>1
    <3> HIDE DEF x
    <3>3. <<x>> \in Seq(Nat) /\ Len(<<x>>) = 1 /\ <<x>>[1] = x
      BY <3>2
    <3>4. one = <<x>>
      BY <3>1, <3>2, <3>3
    <3> QED
      BY <3>4 DEF x, one
  <2>4. ~fits(k1)
    BY <1>1, <1>5, <1>6
  <2>5. ~Fitting(index[k1], AfterIndex(k1))
    <3>1. SizeOf(SubSeq(index, k1, k1)) = index[k1]
      BY <2>2, <2>3, SizeOfOne
    <3> QED
      BY <2>4, <3>1 DEF fits
  <2>6. index[k1] + CursorSize > PageRoom
    BY <2>2, <2>5, FittingIs
  <2>7. k1 \in DOMAIN result.index
    BY <1>1, <2>1
  <2> QED
    BY <2>6, <2>7 DEF NoPageHolds
<1> QED
  BY <1>5, <1>6

LEMMA NearIs ==
    ASSUME NEW text \in Texts, NEW o \in 0..(Len(text) - 1), RuneStart(text, o),
           NEW x \in 1..(Len(text) - o)
    PROVE  LET e == EndNear(text, o, x) IN
           /\ e \in (o + 1)..Len(text) /\ RuneStart(text, e)
           /\ x = 1 => e = NextBoundary(text, o)
           /\ \A c \in (o + 1)..(o + x) : RuneStart(text, c) => c <= e /\ e <= o + x
           /\ e > o + x => e = NextBoundary(text, o)
<1> DEFINE b == BoundaryAtOrBefore(text, o + x)
           n == NextBoundary(text, o)
           e == EndNear(text, o, x)
<1>1. Len(text) \in Nat /\ o + x \in 0..Len(text) /\ o \in Nat /\ x \in Nat
  BY TextIs
<1>2. b \in 0..(o + x) /\ RuneStart(text, b) /\ \A y \in (b + 1)..(o + x) : ~RuneStart(text, y)
  BY <1>1, BoundaryIs
<1>3. n \in (o + 1)..Len(text) /\ RuneStart(text, n) /\ \A y \in (o + 1)..(n - 1) : ~RuneStart(text, y)
  BY NextIs
<1>4. e = IF b <= o THEN n ELSE b
  BY DEF EndNear
<1> HIDE DEF b, n, e
<1>5. e \in (o + 1)..Len(text) /\ RuneStart(text, e)
  BY <1>1, <1>2, <1>3, <1>4
<1>6. x = 1 => e = n
  <2> SUFFICES ASSUME x = 1, b > o PROVE b = n
    BY <1>1, <1>2, <1>4
  <2>1. b = o + 1
    BY <1>1, <1>2
  <2>2. n = o + 1
    <3> SUFFICES ASSUME n # o + 1 PROVE FALSE
      OBVIOUS
    <3>1. o + 1 \in (o + 1)..(n - 1)
      BY <1>1, <1>3
    <3> QED
      BY <1>2, <1>3, <2>1, <3>1
  <2> QED
    BY <2>1, <2>2
<1>7. ASSUME NEW c \in (o + 1)..(o + x), RuneStart(text, c) PROVE c <= e /\ e <= o + x
  <2>1. c <= b
    BY <1>1, <1>2, <1>7
  <2> QED
    BY <1>1, <1>2, <1>4, <2>1
<1>8. e > o + x => e = n
  BY <1>1, <1>2, <1>4
<1> QED
  BY <1>5, <1>6, <1>7, <1>8 DEF e, n

LEMMA TextEndIs ==
    ASSUME ResultOK(result), NEW i \in DOMAIN result.items,
           NEW o \in 0..(Len(result.items[i]) - 1), RuneStart(result.items[i], o)
    PROVE  LET end == TextEnd(i, o) IN
           \/ end = o /\ NoPageHolds
           \/ /\ end \in (o + 1)..Len(result.items[i]) /\ RuneStart(result.items[i], end)
              /\ Fitting(end - o, AfterText(i, end))
<1> DEFINE text == result.items[i]
           rest == Len(text) - o
           near(x) == EndNear(text, o, x)
           fitting == {x \in 1..rest : Fitting(near(x) - o, AfterText(i, near(x)))}
           best == LargestFitting(1, rest, fitting)
           cut == PreferredEnd(text, o, near(best))
<1>0. text \in Texts
  BY DEF ResultOK
<1>1. Len(text) \in Nat /\ o \in Nat /\ rest \in Nat /\ 1 <= rest
  BY <1>0, TextIs
<1>2. TextEnd(i, o) = IF best = 0 THEN o ELSE cut
  BY DEF TextEnd
<1>3. \A e \in Nat : e < Len(text) => AfterText(i, e).phase # "complete"
  BY DEF AfterText, TextAt
<1> HIDE DEF text
<1>4. \A x \in 1..rest :
        /\ near(x) \in (o + 1)..Len(text) /\ RuneStart(text, near(x))
        /\ x = 1 => near(x) = NextBoundary(text, o)
        /\ \A c \in (o + 1)..(o + x) : RuneStart(text, c) => c <= near(x) /\ near(x) <= o + x
        /\ near(x) > o + x => near(x) = NextBoundary(text, o)
  BY <1>0, NearIs DEF text
<1> HIDE DEF near, fitting, rest
<1>5. /\ best \in 0..rest /\ (best >= 1 => best \in fitting) /\ (best < 1 => 1 \notin fitting)
      /\ best = rest /\ rest > 1 => rest - 1 \in fitting
  BY <1>1, SearchIs
<1> USE DEF fitting, rest
<1> HIDE DEF best
<1>6. CASE best = 0
  <2>1. 1 \notin fitting /\ 1 \in 1..rest
    BY <1>1, <1>5, <1>6
  <2> DEFINE e == near(1)
  <2>2. ~Fitting(e - o, AfterText(i, e)) /\ e = NextBoundary(text, o)
        /\ e \in (o + 1)..Len(text)
    BY <1>4, <2>1
  <2> HIDE DEF e
  <2>3. e - o \in Nat
    BY <1>1, <2>2
  <2>4. (e - o) + CursorSize > PageRoom
    BY <2>2, <2>3, FittingIs
  <2>5. NoPageHolds
    <3>1. o \in 0..(Len(result.items[i]) - 1) /\ RuneStart(result.items[i], o)
          /\ NextBoundary(result.items[i], o) - o + CursorSize > PageRoom
      BY <2>2, <2>4 DEF text
    <3> QED
      BY <3>1 DEF NoPageHolds
  <2> QED
    BY <1>2, <1>6, <2>5
<1>7. CASE best # 0
  <2> DEFINE e == near(best)
  <2>1. best \in 1..rest /\ best \in fitting
    BY <1>1, <1>5, <1>7
  <2>2. /\ e \in (o + 1)..Len(text) /\ RuneStart(text, e)
        /\ Fitting(e - o, AfterText(i, e))
    BY <1>4, <2>1
  <2>3. e > o + best => e = NextBoundary(text, o)
    BY <1>4, <2>1
  <2>4. cut \in (o + 1)..e /\ RuneStart(text, cut)
    <3>1. cut = PreferredEnd(text, o, e)
      OBVIOUS
    <3> HIDE DEF e, cut
    <3>2. e \in 1..Len(text) /\ o < e
      BY <1>1, <2>2
    <3> QED
      BY <1>0, <1>1, <2>2, <3>1, <3>2, CutIs
  <2> HIDE DEF cut, e
  <2>5. Fitting(cut - o, AfterText(i, cut))
    <3>1. CASE cut = e
      BY <2>2, <3>1
    <3>2. CASE cut # e
      <4>1. cut < e /\ cut - o \in Nat /\ e - o \in Nat /\ cut - o < e - o /\ e <= Len(text)
            /\ CursorSize \in Nat /\ PageRoom \in Nat
        BY <1>1, <2>2, <2>4, <3>2, PagingAssumption, EvidenceAssumption
      <4>2. CASE e < Len(text)
        <5>1. e - o + CursorSize <= PageRoom
          BY <1>1, <1>3, <2>2, <4>1, <4>2, FittingIs
        <5>2. cut - o + CursorSize <= PageRoom
          BY <1>1, <2>2, <2>4, <4>1, <5>1
        <5> QED
          BY <4>1, <5>2, FittingIs
      <4>3. CASE e = Len(text)
        <5>1. best = rest
          <6> SUFFICES ASSUME best # rest PROVE FALSE
            OBVIOUS
          <6>1. e > o + best
            BY <1>1, <2>1, <4>3
          <6>2. e = NextBoundary(text, o) /\ cut \in (o + 1)..(e - 1)
            BY <1>1, <2>2, <2>3, <2>4, <3>2, <6>1
          <6> QED
            BY <1>0, <2>4, <6>2, NextIs DEF text
        <5>2. rest > 1 /\ rest - 1 \in 1..rest
          BY <1>1, <2>4, <4>1, <4>3
        <5> DEFINE f == near(rest - 1)
        <5>3. rest - 1 \in fitting
          BY <1>5, <5>1, <5>2
        <5>4. cut \in (o + 1)..(o + (rest - 1))
          BY <1>1, <2>4, <4>1, <4>3
        <5>5. cut <= f /\ f <= o + (rest - 1) /\ f \in (o + 1)..Len(text)
              /\ Fitting(f - o, AfterText(i, f))
          BY <1>4, <2>4, <5>2, <5>3, <5>4
        <5> HIDE DEF f
        <5>6. f < Len(text) /\ f \in Nat /\ f - o \in Nat
          BY <1>1, <5>5
        <5>7. f - o + CursorSize <= PageRoom
          BY <1>3, <5>5, <5>6, FittingIs
        <5>8. cut - o + CursorSize <= PageRoom
          BY <1>1, <2>4, <4>1, <5>5, <5>6, <5>7
        <5> QED
          BY <4>1, <5>8, FittingIs
      <4> QED
        BY <1>1, <2>2, <4>1, <4>2, <4>3
    <3> QED
      BY <3>1, <3>2
  <2>6. TextEnd(i, o) = cut /\ cut \in (o + 1)..Len(text)
    BY <1>1, <1>2, <1>7, <2>2, <2>4
  <2> QED
    BY <2>4, <2>5, <2>6 DEF text
<1> QED
  BY <1>6, <1>7

LEMMA Cuts ==
    ASSUME NEW S, NEW s \in Seq(S), NEW n \in 0..Len(s)
    PROVE  /\ SubSeq(s, 1, n) \in Seq(S) /\ Len(SubSeq(s, 1, n)) = n
           /\ IsPrefix(SubSeq(s, 1, n), s)
           /\ n = 0 => SubSeq(s, 1, n) = <<>>
           /\ n = Len(s) => SubSeq(s, 1, n) = s
<1> DEFINE t == SubSeq(s, 1, n)
<1>1. t \in Seq(S) /\ Len(t) = n /\ \A i \in 1..n : t[i] = s[i]
  OBVIOUS
<1>2. SubSeq(t, 1, n) = t
  <2> HIDE DEF t
  <2> DEFINE u == SubSeq(t, 1, n)
  <2>1. u \in Seq(S) /\ Len(u) = n /\ \A i \in 1..n : u[i] = t[i]
    BY <1>1
  <2> HIDE DEF u
  <2>2. u \in [1..n -> S] /\ t \in [1..n -> S]
    BY <1>1, <2>1
  <2>3. u = t
    BY <2>1, <2>2
  <2> QED
    BY <2>3 DEF u
<1>3. IsPrefix(t, s)
  BY <1>1, <1>2 DEF IsPrefix
<1>4. n = Len(s) => t = s
  <2> HIDE DEF t
  <2> SUFFICES ASSUME n = Len(s) PROVE t = s
    OBVIOUS
  <2>1. t \in [1..n -> S] /\ s \in [1..n -> S]
    BY <1>1
  <2> QED
    BY <1>1, <2>1
<1>5. n = 0 => t = <<>>
  BY <1>1
<1> QED
  BY <1>1, <1>3, <1>4, <1>5

\* How far the reader is: n packets, or all packets and o bytes of the i-th text
\* after the whole of those before.
InIndex(n) ==
    /\ packets = SubSeq(result.index, 1, n)
    /\ \A i \in DOMAIN result.items : texts[i] = <<>>
InText(i, o) ==
    /\ packets = result.index
    /\ \A j \in DOMAIN result.items :
          texts[j] = IF j < i THEN result.items[j]
                     ELSE IF j = i THEN SubSeq(result.items[i], 1, o) ELSE <<>>
ReadingIndex ==
    \E n \in 0..Len(result.index) : reading \in {IndexAt(n), Oversized} /\ InIndex(n)
ReadingText ==
    \E i \in DOMAIN result.items : \E o \in 0..(Len(result.items[i]) - 1) :
       /\ reading \in {TextAt(i, o), Oversized}
       /\ RuneStart(result.items[i], o) /\ InText(i, o)
ReadAll == reading = Complete /\ packets = result.index /\ texts = result.items
EvidenceInv ==
    /\ result \in EvidenceResults
    /\ texts \in [DOMAIN result.items -> Seq(Bytes3)]
    /\ ReadingIndex \/ ReadingText \/ ReadAll
    /\ reading = Oversized => NoPageHolds

LEMMA PositionsDiffer ==
    ASSUME NEW n, NEW i, NEW o
    PROVE  /\ IndexAt(n).phase = "index" /\ IndexAt(n).index = n
           /\ TextAt(i, o).phase = "text" /\ TextAt(i, o).index = i /\ TextAt(i, o).offset = o
           /\ Complete.phase = "complete" /\ Oversized.phase = "oversized"
BY DEF IndexAt, TextAt, Complete, Oversized

LEMMA EvidenceStarts == EvidenceInit => EvidenceInv
<1> SUFFICES ASSUME EvidenceInit PROVE EvidenceInv
  OBVIOUS
<1>1. result \in EvidenceResults /\ reading = IndexAt(0) /\ packets = <<>>
      /\ texts = [i \in DOMAIN result.items |-> <<>>]
  BY DEF EvidenceInit
<1>2. ResultOK(result)
  BY <1>1, ResultIs
<1>3. 0 \in 0..Len(result.index) /\ SubSeq(result.index, 1, 0) = <<>>
  BY <1>2, Cuts DEF ResultOK
<1>4. ReadingIndex
  BY <1>1, <1>3 DEF ReadingIndex, InIndex
<1>5. texts \in [DOMAIN result.items -> Seq(Bytes3)]
  BY <1>1
<1>6. reading # Oversized
  BY <1>1, PositionsDiffer
<1> QED
  BY <1>1, <1>4, <1>5, <1>6 DEF EvidenceInv

LEMMA StillNoPage == ASSUME NoPageHolds, result' = result PROVE NoPageHolds'
BY DEF NoPageHolds

LEMMA ReadIndexKeeps == ASSUME EvidenceInv, ReadIndex PROVE EvidenceInv'
<1> DEFINE index == result.index
           items == result.items
<1>a. PICK start : start = reading.index
  OBVIOUS
<1>b. PICK n : n = IndexEnd(start)
  OBVIOUS
<1>1. result \in EvidenceResults /\ ResultOK(result) /\ texts \in [DOMAIN items -> Seq(Bytes3)]
      /\ index \in Seq(Nat) /\ Len(index) \in Nat
  BY ResultIs DEF EvidenceInv, ResultOK
<1>2. result' = result /\ texts' = texts /\ reading.phase = "index"
  BY DEF ReadIndex
<1>3. start \in 0..Len(index) /\ InIndex(start)
  <2>1. ReadingIndex
    BY <1>2, PositionsDiffer DEF EvidenceInv, ReadingText, ReadAll
  <2>2. PICK k \in 0..Len(index) : reading \in {IndexAt(k), Oversized} /\ InIndex(k)
    BY <2>1 DEF ReadingIndex
  <2>3. reading = IndexAt(k)
    BY <1>2, <2>2, PositionsDiffer
  <2>4. start = k
    BY <1>a, <2>3, PositionsDiffer
  <2> QED
    BY <2>2, <2>4
<1>4. /\ n \in start..Len(index)
      /\ n = start /\ n < Len(index) => NoPageHolds
  BY <1>1, <1>3, <1>b, IndexEndIs
<1>5. CASE n = start /\ n < Len(index)
  <2>1. reading' = Oversized /\ packets' = packets
    BY <1>5, <1>a, <1>b DEF ReadIndex
  <2>2. NoPageHolds'
    BY <1>2, <1>4, <1>5, StillNoPage
  <2>3. InIndex(start)'
    BY <1>2, <1>3, <2>1 DEF InIndex
  <2>4. ReadingIndex'
    BY <1>2, <1>3, <2>1, <2>3 DEF ReadingIndex
  <2> QED
    BY <1>1, <1>2, <2>2, <2>4 DEF EvidenceInv
<1>6. CASE ~(n = start /\ n < Len(index))
  <2>1. reading' = AfterIndex(n) /\ packets' = packets \o SubSeq(index, start + 1, n)
    BY <1>6, <1>a, <1>b DEF ReadIndex
  <2>2. packets' = SubSeq(index, 1, n)
    <3>1. packets = SubSeq(index, 1, start)
      BY <1>3 DEF InIndex
    <3> QED
      BY <1>1, <1>3, <1>4, <2>1, <3>1, Joined
  <2>3. \A i \in DOMAIN items : texts[i] = <<>>
    BY <1>3 DEF InIndex
  <2>4. CASE n < Len(index)
    <3>1. reading' = IndexAt(n) /\ n \in 0..Len(index)
      BY <1>1, <1>3, <1>4, <2>1, <2>4 DEF AfterIndex
    <3>2. InIndex(n)'
      BY <1>2, <2>2, <2>3 DEF InIndex
    <3>3. ReadingIndex'
      BY <1>2, <3>1, <3>2 DEF ReadingIndex
    <3>4. reading' # Oversized
      BY <3>1, PositionsDiffer
    <3> QED
      BY <1>1, <1>2, <3>3, <3>4 DEF EvidenceInv
  <2>5. CASE ~(n < Len(index))
    <3>1. n = Len(index)
      BY <1>1, <1>3, <1>4, <2>5
    <3>2. packets' = index
      <4>1. Len(index) \in 0..Len(index)
        BY <1>1
      <4> QED
        BY <1>1, <2>2, <3>1, <4>1, Cuts
    <3>3. items \in Seq(Texts)
      BY <1>1 DEF ResultOK
    <3>4. CASE items = <<>>
      <4>1. reading' = Complete
        BY <2>1, <2>5, <3>4 DEF AfterIndex
      <4>2. texts = items
        <5>1. DOMAIN items = {}
          BY <3>4
        <5> QED
          BY <1>1, <3>4, <5>1
      <4>3. ReadAll'
        BY <1>2, <3>2, <4>1, <4>2 DEF ReadAll
      <4>4. reading' # Oversized
        BY <4>1, PositionsDiffer
      <4> QED
        BY <1>1, <1>2, <4>3, <4>4 DEF EvidenceInv
    <3>5. CASE items # <<>>
      <4>1. reading' = TextAt(1, 0)
        BY <2>1, <2>5, <3>5 DEF AfterIndex
      <4>2. 1 \in DOMAIN items /\ DOMAIN items = 1..Len(items) /\ Len(items) \in Nat
        BY <3>3, <3>5
      <4>3. items[1] \in Texts /\ items[1] # <<>>
        BY <1>1, <4>2 DEF ResultOK
      <4>4. items[1] \in Seq(Bytes3) /\ Len(items[1]) \in Nat /\ RuneStart(items[1], 0)
        BY <4>3, TextIs
      <4>5. 0 \in 0..(Len(items[1]) - 1) /\ SubSeq(items[1], 1, 0) = <<>>
        BY <4>3, <4>4, Cuts
      <4>9. \A j \in DOMAIN items : ~(j < 1)
        BY <4>2
      <4>6. InText(1, 0)'
        BY <1>2, <2>3, <3>2, <4>5, <4>9 DEF InText
      <4>7. ReadingText'
        BY <1>2, <4>1, <4>2, <4>4, <4>5, <4>6 DEF ReadingText
      <4>8. reading' # Oversized
        BY <4>1, PositionsDiffer
      <4> QED
        BY <1>1, <1>2, <4>7, <4>8 DEF EvidenceInv
    <3> QED
      BY <3>4, <3>5
  <2> QED
    BY <2>4, <2>5
<1> QED
  BY <1>5, <1>6

LEMMA ReadTextKeeps == ASSUME EvidenceInv, ReadText PROVE EvidenceInv'
<1> DEFINE items == result.items
<1>a. PICK i : i = reading.index
  OBVIOUS
<1>b. PICK o : o = reading.offset
  OBVIOUS
<1>c. PICK end : end = TextEnd(i, o)
  OBVIOUS
<1> DEFINE next == AfterText(i, end)
<1>1. result \in EvidenceResults /\ ResultOK(result) /\ texts \in [DOMAIN items -> Seq(Bytes3)]
      /\ items \in Seq(Texts) /\ Len(items) \in Nat /\ DOMAIN items = 1..Len(items)
  BY ResultIs DEF EvidenceInv, ResultOK
<1>2. result' = result /\ packets' = packets /\ reading.phase = "text"
  BY DEF ReadText
<1>3. i \in DOMAIN items /\ o \in 0..(Len(items[i]) - 1) /\ RuneStart(items[i], o) /\ InText(i, o)
  <2>1. ReadingText
    BY <1>2, PositionsDiffer DEF EvidenceInv, ReadingIndex, ReadAll
  <2>2. PICK a \in DOMAIN items : \E b \in 0..(Len(items[a]) - 1) :
           reading \in {TextAt(a, b), Oversized} /\ RuneStart(items[a], b) /\ InText(a, b)
    BY <2>1 DEF ReadingText
  <2>3. PICK b \in 0..(Len(items[a]) - 1) :
           reading \in {TextAt(a, b), Oversized} /\ RuneStart(items[a], b) /\ InText(a, b)
    BY <2>2
  <2>4. reading = TextAt(a, b)
    BY <1>2, <2>3, PositionsDiffer
  <2>5. i = a /\ o = b
    BY <1>a, <1>b, <2>4, PositionsDiffer
  <2> QED
    BY <2>3, <2>5
<1>4. \/ end = o /\ NoPageHolds
      \/ /\ end \in (o + 1)..Len(items[i]) /\ RuneStart(items[i], end)
         /\ Fitting(end - o, next)
  BY <1>1, <1>3, <1>c, TextEndIs
<1>5. items[i] \in Texts /\ items[i] # <<>>
  BY <1>1, <1>3 DEF ResultOK
<1>6. items[i] \in Seq(Bytes3) /\ Len(items[i]) \in Nat
  BY <1>5, TextIs
<1>7. packets = result.index
      /\ \A j \in DOMAIN items : texts[j] = IF j < i THEN items[j]
                                 ELSE IF j = i THEN SubSeq(items[i], 1, o) ELSE <<>>
  BY <1>3 DEF InText
<1>8. CASE end <= o
  <2>1. reading' = Oversized /\ texts' = texts
    BY <1>8, <1>a, <1>b, <1>c DEF ReadText
  <2>2. NoPageHolds'
    BY <1>2, <1>3, <1>4, <1>6, <1>8, StillNoPage
  <2>3. InText(i, o)'
    BY <1>2, <1>7, <2>1 DEF InText
  <2>4. ReadingText'
    BY <1>2, <1>3, <2>1, <2>3 DEF ReadingText
  <2> QED
    BY <1>1, <1>2, <2>1, <2>2, <2>4 DEF EvidenceInv
<1>9. CASE ~(end <= o)
  <2>1. end \in (o + 1)..Len(items[i]) /\ RuneStart(items[i], end) /\ Fitting(end - o, next)
    BY <1>3, <1>4, <1>6, <1>9
  <2>2. reading' = next
        /\ texts' = [texts EXCEPT ![i] = @ \o SubSeq(items[i], o + 1, end)]
    BY <1>9, <1>a, <1>b, <1>c, <2>1 DEF ReadText
  <2>3. SubSeq(items[i], 1, o) \o SubSeq(items[i], o + 1, end) = SubSeq(items[i], 1, end)
    BY <1>3, <1>6, <2>1, Joined
  <2>4. SubSeq(items[i], 1, end) \in Seq(Bytes3)
    BY <1>3, <1>6, <2>1, Cuts
  <2>5. /\ texts' \in [DOMAIN items -> Seq(Bytes3)]
        /\ texts'[i] = SubSeq(items[i], 1, end)
        /\ \A j \in DOMAIN items : j # i => texts'[j] = texts[j]
    <3>1. texts[i] = SubSeq(items[i], 1, o)
      <4>1. ~(i < i)
        BY <1>1, <1>3
      <4> QED
        BY <1>3, <1>7, <4>1
    <3> HIDE DEF items
    <3>2. texts' = [texts EXCEPT ![i] = SubSeq(items[i], 1, end)]
      BY <2>2, <2>3, <3>1
    <3> QED
      BY <1>1, <1>3, <2>4, <3>2
  <2>6. end = Len(items[i]) => texts'[i] = items[i]
    BY <1>6, <2>1, <2>5, Cuts
  <2>7. CASE end < Len(items[i])
    <3>1. reading' = TextAt(i, end) /\ end \in 0..(Len(items[i]) - 1)
      BY <1>3, <1>6, <2>1, <2>2, <2>7 DEF AfterText
    <3>2. \A j \in DOMAIN items :
             texts'[j] = IF j < i THEN items[j]
                         ELSE IF j = i THEN SubSeq(items[i], 1, end) ELSE <<>>
      <4> SUFFICES ASSUME NEW j \in DOMAIN items
                   PROVE  texts'[j] = IF j < i THEN items[j]
                                      ELSE IF j = i THEN SubSeq(items[i], 1, end) ELSE <<>>
        OBVIOUS
      <4>1. CASE j = i
        <5>1. ~(j < i)
          BY <1>1, <1>3, <4>1
        <5> QED
          BY <2>5, <4>1, <5>1
      <4>2. CASE j # i
        BY <1>7, <2>5, <4>2
      <4> QED
        BY <4>1, <4>2
    <3>5. InText(i, end)'
      BY <1>2, <1>7, <3>2 DEF InText
    <3>3. ReadingText'
      BY <1>2, <1>3, <2>1, <3>1, <3>5 DEF ReadingText
    <3>4. reading' # Oversized
      BY <3>1, PositionsDiffer
    <3> QED
      BY <1>1, <1>2, <2>5, <3>3, <3>4 DEF EvidenceInv
  <2>8. CASE ~(end < Len(items[i]))
    <3>1. end = Len(items[i])
      BY <1>3, <1>6, <2>1, <2>8
    <3>2. CASE i < Len(items)
      <4>1. reading' = TextAt(i + 1, 0)
        BY <2>2, <2>8, <3>2 DEF AfterText
      <4> DEFINE k == i + 1
      <4>2. k \in DOMAIN items /\ i \in Nat
        BY <1>1, <1>3, <3>2
      <4>3. items[k] \in Texts /\ items[k] # <<>>
        BY <1>1, <4>2 DEF ResultOK
      <4>4. items[k] \in Seq(Bytes3) /\ Len(items[k]) \in Nat /\ RuneStart(items[k], 0)
        BY <4>3, TextIs
      <4>5. 0 \in 0..(Len(items[k]) - 1) /\ SubSeq(items[k], 1, 0) = <<>>
        BY <4>3, <4>4, Cuts
      <4>6. \A j \in DOMAIN items :
               texts'[j] = IF j < k THEN items[j]
                           ELSE IF j = k THEN SubSeq(items[k], 1, 0) ELSE <<>>
        <5> SUFFICES ASSUME NEW j \in DOMAIN items
                     PROVE  texts'[j] = IF j < k THEN items[j] ELSE <<>>
          BY <4>5
        <5>1. j \in Nat
          BY <1>1
        <5>2. CASE j = i
          BY <2>6, <3>1, <4>2, <5>2
        <5>3. CASE j # i
          <6>1. texts'[j] = IF j < i THEN items[j] ELSE <<>>
            BY <1>7, <2>5, <5>3
          <6>2. j < i <=> j < k
            BY <4>2, <5>1, <5>3
          <6> QED
            BY <6>1, <6>2
        <5> QED
          BY <5>2, <5>3
      <4>7. InText(k, 0)'
        BY <1>2, <1>7, <4>6 DEF InText
      <4>8. ReadingText'
        BY <1>2, <4>1, <4>2, <4>4, <4>5, <4>7 DEF ReadingText
      <4>9. reading' # Oversized
        BY <4>1, PositionsDiffer
      <4> QED
        BY <1>1, <1>2, <2>5, <4>8, <4>9 DEF EvidenceInv
    <3>3. CASE ~(i < Len(items))
      <4>1. reading' = Complete
        BY <2>2, <2>8, <3>3 DEF AfterText
      <4>2. i = Len(items)
        BY <1>1, <1>3, <3>3
      <4>3. \A j \in DOMAIN items : texts'[j] = items[j]
        <5> SUFFICES ASSUME NEW j \in DOMAIN items, j # i PROVE texts[j] = items[j]
          BY <2>5, <2>6, <3>1
        <5>1. j < i
          BY <1>1, <4>2
        <5> QED
          BY <1>7, <5>1
      <4>4. texts' = items
        <5>1. items = [j \in DOMAIN items |-> items[j]]
          <6>1. items \in [1..Len(items) -> Texts]
            BY <1>1
          <6> HIDE DEF items
          <6> QED
            BY <1>1, <6>1
        <5>2. texts' = [j \in DOMAIN items |-> texts'[j]]
          BY <2>5
        <5> QED
          BY <4>3, <5>1, <5>2
      <4>5. ReadAll'
        BY <1>2, <1>7, <4>1, <4>4 DEF ReadAll
      <4>6. reading' # Oversized
        BY <4>1, PositionsDiffer
      <4> QED
        BY <1>1, <1>2, <2>5, <4>5, <4>6 DEF EvidenceInv
    <3> QED
      BY <3>2, <3>3
  <2> QED
    BY <2>7, <2>8
<1> QED
  BY <1>8, <1>9

LEMMA EvidenceNextInv == EvidenceInv /\ [EvidenceNext]_evidenceVars => EvidenceInv'
<1> SUFFICES ASSUME EvidenceInv, [EvidenceNext]_evidenceVars PROVE EvidenceInv'
  OBVIOUS
<1>1. CASE UNCHANGED evidenceVars
  BY <1>1 DEF evidenceVars, EvidenceInv, ReadingIndex, ReadingText, ReadAll, InIndex, InText,
              NoPageHolds
<1> QED
  BY <1>1, ReadIndexKeeps, ReadTextKeeps DEF EvidenceNext

LEMMA WholeDelivery == EvidenceInv => DeliveredWhole
<1> SUFFICES ASSUME EvidenceInv PROVE DeliveredWhole
  OBVIOUS
<1> DEFINE index == result.index
           items == result.items
<1>1. ResultOK(result) /\ index \in Seq(Nat) /\ items \in Seq(Texts) /\ Len(index) \in Nat
      /\ DOMAIN items = 1..Len(items) /\ Len(items) \in Nat
  BY ResultIs DEF EvidenceInv, ResultOK
<1>2. \A i \in DOMAIN items :
         /\ items[i] \in Texts /\ items[i] \in Seq(Bytes3) /\ Len(items[i]) \in Nat
         /\ RuneStart(items[i], 0) /\ RuneStart(items[i], Len(items[i]))
         /\ SubSeq(items[i], 1, 0) = <<>> /\ SubSeq(items[i], 1, Len(items[i])) = items[i]
  <2> SUFFICES ASSUME NEW i \in DOMAIN items
               PROVE  /\ items[i] \in Texts /\ items[i] \in Seq(Bytes3) /\ Len(items[i]) \in Nat
                      /\ RuneStart(items[i], 0) /\ RuneStart(items[i], Len(items[i]))
                      /\ SubSeq(items[i], 1, 0) = <<>>
                      /\ SubSeq(items[i], 1, Len(items[i])) = items[i]
    OBVIOUS
  <2>1. items[i] \in Texts
    BY <1>1 DEF ResultOK
  <2> HIDE DEF items
  <2>2. items[i] \in Seq(Bytes3) /\ Len(items[i]) \in Nat
        /\ RuneStart(items[i], 0) /\ RuneStart(items[i], Len(items[i]))
    BY <2>1, TextIs
  <2>3. 0 \in 0..Len(items[i]) /\ Len(items[i]) \in 0..Len(items[i])
    BY <2>2
  <2> QED
    BY <2>1, <2>2, <2>3, Cuts
\* It is enough to say of each text how much of it there is.
<1>3. ASSUME IsPrefix(packets, index), NEW f \in [DOMAIN items -> Nat],
             \A i \in DOMAIN items : /\ f[i] \in 0..Len(items[i])
                                     /\ texts[i] = SubSeq(items[i], 1, f[i])
                                     /\ RuneStart(items[i], f[i])
                                     /\ f[i] # 0 => packets = index /\
                                           \A j \in 1..(i - 1) : texts[j] = items[j],
             reading.phase = "complete" => packets = index /\ texts = items
      PROVE  DeliveredWhole
  <2>1. ASSUME NEW i \in DOMAIN items
        PROVE  /\ IsPrefix(texts[i], items[i])
               /\ RuneStart(items[i], Len(texts[i]))
               /\ texts[i] # <<>> => packets = index /\ \A j \in 1..(i - 1) : texts[j] = items[j]
    <3>1. texts[i] = SubSeq(items[i], 1, f[i]) /\ f[i] \in 0..Len(items[i]) /\ RuneStart(items[i], f[i])
      BY <1>3
    <3>2. IsPrefix(texts[i], items[i]) /\ Len(texts[i]) = f[i] /\ (f[i] = 0 => texts[i] = <<>>)
      BY <1>2, <3>1, Cuts
    <3> QED
      BY <1>3, <3>1, <3>2
  <2>2. reading.phase = "oversized" => NoPageHolds
    BY PositionsDiffer DEF EvidenceInv, ReadingIndex, ReadingText, ReadAll
  <2> QED
    BY <1>3, <2>1, <2>2 DEF DeliveredWhole
<1>4. CASE ReadingIndex
  <2>1. PICK n \in 0..Len(index) : reading \in {IndexAt(n), Oversized} /\ InIndex(n)
    BY <1>4 DEF ReadingIndex
  <2>2. IsPrefix(packets, index)
    BY <1>1, <2>1, Cuts DEF InIndex
  <2>3. reading.phase # "complete"
    BY <2>1, PositionsDiffer
  <2> DEFINE f == [i \in DOMAIN items |-> 0]
  <2>4. \A i \in DOMAIN items : /\ f[i] \in 0..Len(items[i])
                                /\ texts[i] = SubSeq(items[i], 1, f[i])
                                /\ RuneStart(items[i], f[i])
                                /\ f[i] = 0
    <3> SUFFICES ASSUME NEW i \in DOMAIN items
                 PROVE  /\ 0 \in 0..Len(items[i]) /\ texts[i] = SubSeq(items[i], 1, 0)
                        /\ RuneStart(items[i], 0)
      OBVIOUS
    <3>1. texts[i] = <<>>
      BY <2>1 DEF InIndex
    <3> QED
      BY <1>2, <3>1
  <2>5. f \in [DOMAIN items -> Nat]
    OBVIOUS
  <2> HIDE DEF f
  <2> QED
    BY <1>3, <2>2, <2>3, <2>4, <2>5
<1>5. CASE ReadingText
  <2>1. PICK i \in DOMAIN items : \E o \in 0..(Len(items[i]) - 1) :
           reading \in {TextAt(i, o), Oversized} /\ RuneStart(items[i], o) /\ InText(i, o)
    BY <1>5 DEF ReadingText
  <2>2. PICK o \in 0..(Len(items[i]) - 1) :
           reading \in {TextAt(i, o), Oversized} /\ RuneStart(items[i], o) /\ InText(i, o)
    BY <2>1
  <2>3. packets = index /\ \A j \in DOMAIN items :
           texts[j] = IF j < i THEN items[j]
                      ELSE IF j = i THEN SubSeq(items[i], 1, o) ELSE <<>>
    BY <2>2 DEF InText
  <2>4. IsPrefix(packets, index)
    <3>1. Len(index) \in 0..Len(index)
      BY <1>1
    <3>2. SubSeq(index, 1, Len(index)) = index /\ IsPrefix(SubSeq(index, 1, Len(index)), index)
      BY <1>1, <3>1, Cuts
    <3> QED
      BY <2>3, <3>2
  <2>5. reading.phase # "complete"
    BY <2>2, PositionsDiffer
  <2> DEFINE f == [j \in DOMAIN items |-> IF j < i THEN Len(items[j]) ELSE IF j = i THEN o ELSE 0]
  <2>6. f \in [DOMAIN items -> Nat]
    BY <1>2, <2>2
  <2>7. ASSUME NEW j \in DOMAIN items
        PROVE  /\ f[j] \in 0..Len(items[j]) /\ texts[j] = SubSeq(items[j], 1, f[j])
               /\ RuneStart(items[j], f[j])
    <3>1. CASE j < i
      <4>1. f[j] = Len(items[j]) /\ texts[j] = items[j]
        BY <2>3, <3>1
      <4> HIDE DEF f
      <4> QED
        BY <1>2, <4>1
    <3>2. CASE ~(j < i) /\ j = i
      <4>1. f[j] = o /\ texts[j] = SubSeq(items[j], 1, o)
        BY <2>3, <3>2
      <4> HIDE DEF f
      <4>2. o \in 0..Len(items[j])
        BY <1>2, <2>2, <3>2
      <4> QED
        BY <2>2, <3>2, <4>1, <4>2
    <3>3. CASE ~(j < i) /\ j # i
      <4>1. f[j] = 0 /\ texts[j] = <<>>
        BY <2>3, <3>3
      <4> HIDE DEF f
      <4> QED
        BY <1>2, <4>1
    <3> QED
      BY <3>1, <3>2, <3>3
  <2>8. ASSUME NEW j \in DOMAIN items, f[j] # 0, NEW k \in 1..(j - 1) PROVE texts[k] = items[k]
    <3>1. k \in DOMAIN items /\ k < j /\ j \in Int /\ i \in Int /\ k \in Int
      BY <1>1, <2>1
    <3>2. j <= i
      BY <2>8, <3>1
    <3>3. k < i
      BY <3>1, <3>2
    <3> QED
      BY <2>3, <3>1, <3>3
  <2> HIDE DEF f
  <2> QED
    BY <1>3, <2>3, <2>4, <2>5, <2>6, <2>7, <2>8
<1>6. CASE ReadAll
  <2>1. reading = Complete /\ packets = index /\ texts = items
    BY <1>6 DEF ReadAll
  <2>2. IsPrefix(packets, index)
    <3>1. Len(index) \in 0..Len(index)
      BY <1>1
    <3>2. SubSeq(index, 1, Len(index)) = index /\ IsPrefix(SubSeq(index, 1, Len(index)), index)
      BY <1>1, <3>1, Cuts
    <3> QED
      BY <2>1, <3>2
  <2> DEFINE f == [j \in DOMAIN items |-> Len(items[j])]
  <2>3. f \in [DOMAIN items -> Nat]
    BY <1>2
  <2>4. \A j \in DOMAIN items :
           /\ f[j] \in 0..Len(items[j]) /\ texts[j] = SubSeq(items[j], 1, f[j])
           /\ RuneStart(items[j], f[j])
           /\ \A k \in 1..(j - 1) : texts[k] = items[k]
    BY <1>2, <2>1
  <2> HIDE DEF f
  <2> QED
    BY <1>3, <2>1, <2>2, <2>3, <2>4
<1> QED
  BY <1>4, <1>5, <1>6 DEF EvidenceInv

THEOREM EvidenceInductive == EvidenceSpec => []EvidenceInv
<1> QED
  BY EvidenceStarts, EvidenceNextInv, PTL DEF EvidenceSpec

THEOREM EvidenceArrivesWhole == EvidenceSpec => []DeliveredWhole
<1> QED
  BY EvidenceInductive, WholeDelivery, PTL

-----------------------------------------------------------------------------
(* Documents fetched.                                                      *)

Known == UNION {Revisions[d] : d \in Names}
Distinct(s) == \A i, j \in DOMAIN s : s[i].doc = s[j].doc => i = j
TextSoFar(text, pos) == IF pos.phase = "text" THEN SubSeq(text, 1, pos.offset) ELSE text
PartsSoFar(parts, pos) == SubSeq(parts, 1, IF pos.phase = "text" THEN 0 ELSE pos.offset)

\* A position in a document that is there.
PlaceIn(pos, m) ==
    /\ pos.phase \in {"text", "attachments"} /\ pos.offset \in Nat
    /\ pos.phase = "text" => pos.offset <= Len(m.text)
    /\ pos.phase = "attachments" => pos.offset <= Len(m.parts)
GotType ==
    /\ DOMAIN got \in SUBSET Names
    /\ got \in [DOMAIN got -> [text : Seq(Bytes3), parts : Seq(STRING)]]
PagingType ==
    /\ fetch.cursor.phase \in {"text", "attachments"} /\ fetch.cursor.offset \in Nat
BuildingType ==
    /\ fetch.matches \in Seq(Known) /\ Distinct(fetch.matches)
    /\ fetch.pos.index \in DOMAIN fetch.matches /\ PlaceIn(fetch.pos, Here)
    /\ fetch.used \in Nat
DocumentsType ==
    /\ matching \in Seq(Known) /\ Distinct(matching)
    /\ GotType
    /\ steady \in SUBSET Range(matching)
    /\ moved \in BOOLEAN
    /\ fetch.at = "paging" => PagingType
    /\ fetch.at = "building" => BuildingType

Whole(m) == m.doc \in DOMAIN got /\ got[m.doc] = [text |-> m.text, parts |-> m.parts]
OfOneRevision == \A d \in DOMAIN got : \E r \in Revisions[d] : IsPrefix(got[d].text, r.text)
\* Of the match that the cursor names, at p, and those around it.
Resumable(c, p) ==
    /\ matching[p] \in steady => /\ matching[p].text = c.text
                                 /\ Had(c.doc).parts = PartsSoFar(matching[p].parts, c)
    /\ \A q \in 1..(p - 1) : matching[q] \in steady => Whole(matching[q])
    /\ \A q \in (p + 1)..Len(matching) : matching[q].doc \notin DOMAIN got
AtCursor(c) ==
    /\ Had(c.doc).text = TextSoFar(c.text, c)
    /\ \A p \in DOMAIN matching : matching[p].doc = c.doc => Resumable(c, p)
\* The j-th of the lookup is now the q-th: what follows it is neither had nor
\* before it in the lookup, and of what precedes it all was in the lookup before
\* it, or came since.
InOrder(j, q) ==
    /\ \A r \in (q + 1)..Len(matching) :
          /\ matching[r].doc \notin DOMAIN got
          /\ \A k \in 1..j : matching[r].doc # fetch.matches[k].doc
    /\ \A r \in 1..(q - 1) :
          matching[r] \in steady => \E k \in 1..(j - 1) : matching[r] = fetch.matches[k]
Returned ==
    \A m \in steady :
       /\ (\E j \in DOMAIN fetch.matches : m = fetch.matches[j]) \/ fetch.more
       /\ \A j \in DOMAIN fetch.matches : m.doc = fetch.matches[j].doc => m = fetch.matches[j]
Around(p) ==
    /\ \A i \in 1..(p - 1) : fetch.matches[i] \in steady => Whole(fetch.matches[i])
    /\ \A i \in (p + 1)..Len(fetch.matches) : fetch.matches[i].doc \notin DOMAIN got
    /\ \A j \in p..Len(fetch.matches) : \A q \in DOMAIN matching :
          matching[q].doc = fetch.matches[j].doc => InOrder(j, q)
AtPlace ==
    /\ Had(Here.doc).text = TextSoFar(Here.text, fetch.pos)
    /\ Here \in steady => Had(Here.doc).parts = PartsSoFar(Here.parts, fetch.pos)
    /\ Around(fetch.pos.index)
    /\ Returned
Finished ==
    \A m \in steady : IF m \in fetch.returned THEN Whole(m) ELSE fetch.more
DocumentsInv ==
    /\ DocumentsType
    /\ ~moved => /\ OfOneRevision
                 /\ fetch.at = "complete" => Finished
                 /\ fetch.at = "paging" => AtCursor(fetch.cursor)
                 /\ fetch.at = "building" => AtPlace

LEMMA KnownIs ==
    ASSUME NEW m \in Known
    PROVE  /\ m.doc \in Names /\ m \in Revisions[m.doc]
           /\ m.text \in Texts /\ m.text \in Seq(Bytes3) /\ Len(m.text) \in Nat
           /\ m.parts \in Seq(STRING) /\ Len(m.parts) \in Nat
<1>1. PICK d \in Names : m \in Revisions[d]
  BY DEF Known
<1>2. m \in [doc : {d}, text : Texts, parts : Seq(STRING)]
  BY <1>1, DocumentsAssumption
<1>3. m.doc = d /\ m.text \in Texts /\ m.parts \in Seq(STRING)
  BY <1>2
<1>4. m.text \in Seq(Bytes3) /\ Len(m.text) \in Nat
  BY <1>3, TextIs
<1> QED
  BY <1>1, <1>3, <1>4

LEMMA SoFarIs ==
    ASSUME NEW m \in Known, NEW pos, PlaceIn(pos, m)
    PROVE  /\ IsPrefix(TextSoFar(m.text, pos), m.text)
           /\ pos.phase = "attachments" => TextSoFar(m.text, pos) = m.text
           /\ pos.phase = "attachments" /\ pos.offset = Len(m.parts)
                 => PartsSoFar(m.parts, pos) = m.parts
           /\ pos.offset = 0 => PartsSoFar(m.parts, pos) = <<>>
           /\ pos.phase = "text" => PartsSoFar(m.parts, pos) = <<>>
           /\ pos.phase = "text" /\ pos.offset = 0 => TextSoFar(m.text, pos) = <<>>
           /\ pos.phase = "text" /\ pos.offset = Len(m.text) => TextSoFar(m.text, pos) = m.text
<1>1. /\ m.text \in Seq(Bytes3) /\ Len(m.text) \in Nat
      /\ m.parts \in Seq(STRING) /\ Len(m.parts) \in Nat
  BY KnownIs
<1> DEFINE text == m.text
           parts == m.parts
<1> HIDE DEF text, parts
<1>2. /\ Len(text) \in 0..Len(text) /\ 0 \in 0..Len(text)
      /\ Len(parts) \in 0..Len(parts) /\ 0 \in 0..Len(parts)
  BY <1>1 DEF text, parts
<1>3. /\ SubSeq(text, 1, 0) = <<>> /\ SubSeq(text, 1, Len(text)) = text
      /\ IsPrefix(SubSeq(text, 1, Len(text)), text)
      /\ SubSeq(parts, 1, 0) = <<>> /\ SubSeq(parts, 1, Len(parts)) = parts
  BY <1>1, <1>2, Cuts DEF text, parts
<1>4. pos.phase = "text" => pos.offset \in 0..Len(text)
  BY <1>1 DEF PlaceIn, text
<1>5. IsPrefix(TextSoFar(text, pos), text)
  BY <1>1, <1>3, <1>4, Cuts DEF TextSoFar, text
<1> QED
  BY <1>3, <1>5 DEF TextSoFar, PartsSoFar, text, parts

LEMMA DocumentsStart == DocumentsInit => DocumentsInv
<1> SUFFICES ASSUME DocumentsInit PROVE DocumentsInv
  OBVIOUS
<1>1. /\ matching = <<>> /\ fetch = [at |-> "idle"] /\ got = <<>> /\ steady = {}
      /\ moved = FALSE
  BY DEF DocumentsInit
<1>2. DOMAIN got = {} /\ DOMAIN matching = {} /\ fetch.at = "idle"
  BY <1>1
<1>3. GotType
  BY <1>1, <1>2 DEF GotType
<1>4. matching \in Seq(Known) /\ Distinct(matching) /\ steady \in SUBSET Range(matching)
  BY <1>1, <1>2 DEF Distinct
<1>5. OfOneRevision
  BY <1>2 DEF OfOneRevision
<1> QED
  BY <1>1, <1>2, <1>3, <1>4, <1>5 DEF DocumentsInv, DocumentsType

\* What the reader was given of m brings it to pos, and leaves it what it has.
Served(m, pos) ==
    /\ GotType'
    /\ DOMAIN got' \in SUBSET (DOMAIN got \union {m.doc})
    /\ \A d \in DOMAIN got : d # m.doc => d \in DOMAIN got' /\ got'[d] = got[d]
    /\ ~moved => /\ Had(m.doc)'.text = TextSoFar(m.text, pos)
                 /\ m \in steady => Had(m.doc)'.parts = PartsSoFar(m.parts, pos)

LEMMA ServedOfOne ==
    ASSUME NEW m \in Known, NEW pos, PlaceIn(pos, m), Served(m, pos), ~moved, OfOneRevision
    PROVE  OfOneRevision'
<1>1. IsPrefix(TextSoFar(m.text, pos), m.text) /\ m \in Revisions[m.doc]
  BY KnownIs, SoFarIs
<1> SUFFICES ASSUME NEW d \in DOMAIN got'
             PROVE  \E r \in Revisions[d] : IsPrefix(got'[d].text, r.text)
  BY DEF OfOneRevision
<1>2. CASE d = m.doc
  <2>1. got'[d].text = TextSoFar(m.text, pos)
    BY <1>2 DEF Served, Had
  <2> QED
    BY <1>1, <1>2, <2>1
<1>3. CASE d # m.doc
  <2>1. d \in DOMAIN got /\ got'[d] = got[d]
    BY <1>3 DEF Served
  <2> QED
    BY <2>1 DEF OfOneRevision
<1> QED
  BY <1>2, <1>3

LEMMA Unmoved ==
    ASSUME DocumentsType, UNCHANGED <<matching, steady, moved, edits>>, GotType'
    PROVE  /\ matching' \in Seq(Known) /\ Distinct(matching')
           /\ steady' \in SUBSET Range(matching') /\ moved' \in BOOLEAN
           /\ matching' = matching /\ steady' = steady /\ moved' = moved
BY DEF DocumentsType, Distinct, Range

\* The page ends at a position in the match it was at.
LEMMA PauseKeeps ==
    ASSUME DocumentsInv, fetch.at = "building", NEW m, m = Here, NEW pos, PlaceIn(pos, m),
           fetch' = PausedAt(pos), Served(m, pos), UNCHANGED <<matching, steady, moved, edits>>
    PROVE  DocumentsInv'
<1> DEFINE c == [doc |-> m.doc, text |-> m.text, phase |-> pos.phase, offset |-> pos.offset]
<1>1. fetch' = [at |-> "paging", cursor |-> c]
  BY DEF PausedAt
<1>2. fetch'.at = "paging" /\ fetch'.cursor = c
  BY <1>1
<1>3. /\ c.doc = m.doc /\ c.text = m.text /\ c.phase = pos.phase /\ c.offset = pos.offset
  OBVIOUS
<1> HIDE DEF c
<1>4. /\ DocumentsType /\ BuildingType /\ matching \in Seq(Known) /\ Distinct(matching)
  BY DEF DocumentsInv, DocumentsType
<1>5. PICK p : p = fetch.pos.index
  OBVIOUS
<1>6. /\ fetch.matches \in Seq(Known) /\ p \in DOMAIN fetch.matches /\ m = fetch.matches[p]
      /\ p \in 1..Len(fetch.matches) /\ Len(fetch.matches) \in Nat /\ m \in Known
  BY <1>4, <1>5 DEF BuildingType, Here
<1>7. GotType'
  BY DEF Served
<1>8. DocumentsType'
  <2>1. PagingType'
    BY <1>2, <1>3 DEF PagingType, PlaceIn
  <2> QED
    BY <1>2, <1>4, <1>7, <2>1, Unmoved DEF DocumentsType
<1>9. ASSUME ~moved' PROVE OfOneRevision' /\ AtCursor(c)'
  <2>1. ~moved /\ OfOneRevision /\ AtPlace /\ Around(p)
    BY <1>5, <1>9 DEF DocumentsInv, AtPlace
  <2>2. OfOneRevision'
    BY <1>6, <2>1, ServedOfOne
  <2>3. Had(m.doc)'.text = TextSoFar(m.text, pos)
        /\ (m \in steady => Had(m.doc)'.parts = PartsSoFar(m.parts, pos))
    BY <2>1 DEF Served
  <2>4. ASSUME NEW q \in DOMAIN matching, matching[q].doc = m.doc
        PROVE  /\ matching[q] \in steady => /\ matching[q].text = m.text
                      /\ Had(m.doc)'.parts = PartsSoFar(matching[q].parts, pos)
               /\ \A r \in 1..(q - 1) : matching[r] \in steady => Whole(matching[r])'
               /\ \A r \in (q + 1)..Len(matching) : matching[r].doc \notin DOMAIN got'
    <3>1. InOrder(p, q)
      <4>1. p \in p..Len(fetch.matches)
        BY <1>6
      <4> QED
        BY <1>6, <2>1, <2>4, <4>1 DEF Around
    <3>2. matching[q] \in steady => matching[q] = m
      BY <1>6, <2>1, <2>4 DEF AtPlace, Returned
    <3>3. ASSUME NEW r \in 1..(q - 1), matching[r] \in steady PROVE Whole(matching[r])'
      <4>1. PICK k \in 1..(p - 1) : matching[r] = fetch.matches[k]
        BY <3>1, <3>3 DEF InOrder
      <4>2. k \in DOMAIN fetch.matches /\ k # p
        BY <1>6
      <4>3. fetch.matches[k].doc # m.doc
        BY <1>4, <1>6, <4>2 DEF BuildingType, Distinct
      <4>4. Whole(fetch.matches[k])
        BY <2>1, <3>3, <4>1 DEF Around
      <4>5. PICK x : x = matching[r]
        OBVIOUS
      <4>6. Whole(x)'
        BY <4>1, <4>3, <4>4, <4>5 DEF Served, Whole
      <4> QED
        BY <4>5, <4>6 DEF Whole
    <3>4. ASSUME NEW r \in (q + 1)..Len(matching) PROVE matching[r].doc \notin DOMAIN got'
      <4>1. matching[r].doc \notin DOMAIN got /\ \A k \in 1..p : matching[r].doc # fetch.matches[k].doc
        BY <3>1 DEF InOrder
      <4>2. p \in 1..p
        BY <1>6
      <4>3. matching[r].doc # m.doc
        BY <1>6, <4>1, <4>2
      <4> QED
        BY <4>1, <4>3 DEF Served
    <3> QED
      BY <2>3, <3>2, <3>3, <3>4
  <2>5. TextSoFar(m.text, c) = TextSoFar(m.text, pos)
        /\ \A parts : PartsSoFar(parts, c) = PartsSoFar(parts, pos)
    BY <1>3 DEF TextSoFar, PartsSoFar
  <2>6. AtCursor(c)'
    BY <1>3, <2>3, <2>4, <2>5 DEF AtCursor, Resumable
  <2> QED
    BY <2>2, <2>6
<1> QED
  BY <1>2, <1>8, <1>9 DEF DocumentsInv

LEMMA MatchesAre ==
    ASSUME DocumentsType
    PROVE  /\ Matches1 \in Seq(Known) /\ Distinct(Matches1)
           /\ Len(Matches1) \in Nat /\ Len(Matches1) <= Len(matching)
           /\ DOMAIN Matches1 = 1..Len(Matches1)
           /\ \A k \in 1..Len(Matches1) : Matches1[k] = matching[k]
           /\ ~MoreMatches => Len(Matches1) = Len(matching)
<1> DEFINE n == IF MoreMatches THEN MaxMatches ELSE Len(matching)
<1>1. matching \in Seq(Known) /\ Distinct(matching)
  BY DEF DocumentsType
<1>2. Len(matching) \in Nat /\ n \in 0..Len(matching)
  BY <1>1, DocumentsAssumption DEF MoreMatches
<1>3. Matches1 = SubSeq(matching, 1, n)
  BY DEF Matches1
<1>4. ~MoreMatches => n = Len(matching)
  OBVIOUS
<1> HIDE DEF n
<1>5. /\ Matches1 \in Seq(Known) /\ Len(Matches1) = n
      /\ \A k \in 1..n : Matches1[k] = matching[k]
  BY <1>1, <1>2, <1>3
<1>6. DOMAIN Matches1 = 1..n /\ DOMAIN matching = 1..Len(matching)
  BY <1>1, <1>5
<1>7. Distinct(Matches1)
  BY <1>1, <1>2, <1>5, <1>6 DEF Distinct
<1>8. Len(Matches1) \in Nat /\ Len(Matches1) <= Len(matching)
  BY <1>2, <1>5
<1>9. ~MoreMatches => Len(Matches1) = Len(matching)
  BY <1>4, <1>5
<1> QED
  BY <1>5, <1>6, <1>7, <1>8, <1>9

\* What the reader has when a page begins at a position in the i-th match.
Begun(list, i, pos) ==
    /\ OfOneRevision
    /\ Had(list[i].doc).text = TextSoFar(list[i].text, pos)
    /\ list[i] \in steady => Had(list[i].doc).parts = PartsSoFar(list[i].parts, pos)
    /\ \A q \in 1..(i - 1) : list[q] \in steady => Whole(list[q])
    /\ \A q \in (i + 1)..Len(list) : list[q].doc \notin DOMAIN got

LEMMA PageBegins ==
    ASSUME DocumentsType, matching' = matching, NEW s, s = Matches1, NEW list, list = matching,
           NEW i \in 1..Len(s), NEW pos, pos.index = i, PlaceIn(pos, s[i]),
           fetch' = Going(Matches1, MoreMatches, pos, 0),
           GotType', steady' \in SUBSET Range(list), moved' \in BOOLEAN,
           moved' \/ Begun(list, i, pos)'
    PROVE  DocumentsInv'
<1>1. PICK more : more = MoreMatches
  OBVIOUS
<1>2. /\ s \in Seq(Known) /\ Distinct(s) /\ Len(s) \in Nat /\ Len(s) <= Len(list)
      /\ DOMAIN s = 1..Len(s) /\ \A k \in 1..Len(s) : s[k] = list[k]
      /\ ~more => Len(s) = Len(list)
  BY <1>1, MatchesAre
<1>3. /\ list \in Seq(Known) /\ Distinct(list) /\ matching' = list
      /\ Len(list) \in Nat /\ DOMAIN list = 1..Len(list)
  BY DEF DocumentsType
<1>10. /\ Len(s) \in Nat /\ Len(list) \in Nat /\ Len(s) <= Len(list)
       /\ ~more => Len(s) = Len(list)
  BY <1>1, <1>3, MatchesAre, Zenon
<1>11. \A k \in 1..Len(s) : s[k] = list[k]
  BY <1>2, Zenon
<1>4. ~(i > Len(s)) /\ s[i] = list[i] /\ i \in Nat /\ i \in DOMAIN s
  BY <1>2
<1>9. \A k \in 1..Len(s) : k \in 1..Len(list) /\ k \in Nat /\ s[k] = list[k]
  <2>1. \A k \in 1..Len(s) : k \in 1..Len(list) /\ k \in Nat
    BY <1>10
  <2> QED
    BY <1>11, <2>1
<1>5. fetch' = [at |-> "building", matches |-> s, more |-> more, pos |-> pos, used |-> 0]
  BY <1>1, <1>4 DEF Going
<1>6. /\ fetch'.at = "building" /\ fetch'.matches = s /\ fetch'.pos = pos
      /\ fetch'.more = more /\ fetch'.used = 0 /\ Here' = s[i]
  BY <1>5 DEF Here
<1>7. DocumentsType'
  <2>1. BuildingType'
    BY <1>2, <1>4, <1>6 DEF BuildingType
  <2> QED
    BY <1>3, <1>6, <2>1 DEF DocumentsType
<1>8. ASSUME ~moved' PROVE OfOneRevision' /\ AtPlace'
  <2>1. Begun(list, i, pos)'
    BY <1>8
  <2>2. Around(i)'
    <3>1. \A k \in 1..(i - 1) : s[k] \in steady' => Whole(s[k])'
      <4> TAKE k \in 1..(i - 1)
      <4>1. k \in 1..Len(s)
        BY <1>2, <1>4
      <4>2. s[k] = list[k]
        BY <1>2, <4>1
      <4> QED
        BY <2>1, <4>2 DEF Begun, Whole
    <3>2. \A q \in (i + 1)..Len(list) : list[q].doc \notin DOMAIN got'
      BY <2>1 DEF Begun
    <3>3. \A k \in (i + 1)..Len(s) : s[k].doc \notin DOMAIN got'
      <4> TAKE k \in (i + 1)..Len(s)
      <4>1. k \in 1..Len(s)
        BY <1>4
      <4>2. k \in (i + 1)..Len(list) /\ s[k] = list[k]
        BY <1>4, <1>9, <4>1
      <4> QED
        BY <3>2, <4>2
    <3>4. ASSUME NEW j \in i..Len(s), NEW q \in DOMAIN list, list[q].doc = s[j].doc
          PROVE  InOrder(j, q)'
      <4>1. j \in 1..Len(s) /\ j \in 1..Len(list) /\ s[j] = list[j]
        <5>1. j \in 1..Len(s)
          BY <1>4
        <5> QED
          BY <1>9, <5>1
      <4>2. q = j
        BY <1>3, <3>4, <4>1 DEF Distinct
      <4>3. ASSUME NEW r \in (q + 1)..Len(list)
            PROVE  list[r].doc \notin DOMAIN got' /\ \A k \in 1..j : list[r].doc # s[k].doc
        <5>1. r \in (i + 1)..Len(list) /\ r \in 1..Len(list)
          BY <1>3, <1>4, <4>1, <4>2
        <5>2. ASSUME NEW k \in 1..j PROVE list[r].doc # s[k].doc
          <6>1. k \in 1..Len(s) /\ k \in 1..Len(list) /\ k # r
            <7>1. k \in 1..Len(s) /\ k # r
              BY <4>1, <4>2, <4>3
            <7> QED
              BY <1>9, <7>1
          <6>2. s[k] = list[k]
            BY <1>2, <6>1
          <6> QED
            BY <1>3, <5>1, <6>1, <6>2 DEF Distinct
        <5> QED
          BY <3>2, <5>1, <5>2
      <4>4. ASSUME NEW r \in 1..(q - 1) PROVE \E k \in 1..(j - 1) : list[r] = s[k]
        <5>1. r \in 1..(j - 1) /\ r \in 1..Len(s)
          BY <1>2, <4>1, <4>2
        <5> QED
          BY <1>2, <5>1
      <4> QED
        BY <1>3, <1>6, <4>3, <4>4 DEF InOrder
    <3> QED
      BY <1>3, <1>6, <3>1, <3>3, <3>4 DEF Around
  <2>3. Returned'
    <3> SUFFICES ASSUME NEW m \in steady'
                 PROVE  /\ (\E j \in DOMAIN s : m = s[j]) \/ more
                        /\ \A j \in DOMAIN s : m.doc = s[j].doc => m = s[j]
      BY <1>6 DEF Returned
    <3>1. PICK x \in 1..Len(list) : m = list[x]
      BY <1>3 DEF Range
    <3>2. x \in 1..Len(s) \/ more
      BY <1>10
    <3>3. ASSUME NEW j \in 1..Len(s), m.doc = s[j].doc PROVE m = s[j]
      <4>1. j \in 1..Len(list) /\ s[j] = list[j]
        BY <1>9
      <4> QED
        BY <1>3, <3>1, <3>3, <4>1 DEF Distinct
    <3> QED
      BY <1>2, <3>1, <3>2, <3>3
  <2>4. PICK m : m = s[i]
    OBVIOUS
  <2>5. /\ Had(m.doc)'.text = TextSoFar(m.text, pos)
        /\ m \in steady' => Had(m.doc)'.parts = PartsSoFar(m.parts, pos)
    BY <1>4, <2>1, <2>4 DEF Begun, Had
  <2>6. Had(Here.doc)' = Had(m.doc)'
    BY <1>6, <2>4 DEF Had
  <2>7. fetch'.pos.index = i /\ Here' = m
    BY <1>6, <2>4
  <2>8. Around(fetch.pos.index)'
    BY <2>2, <2>7 DEF Around
  <2>9. OfOneRevision'
    BY <2>1 DEF Begun
  <2> QED
    BY <1>6, <2>3, <2>5, <2>6, <2>7, <2>8, <2>9 DEF AtPlace
<1> QED
  BY <1>6, <1>7, <1>8 DEF DocumentsInv

LEMMA FetchKeeps == DocumentsInv /\ Fetch => DocumentsInv'
<1> SUFFICES ASSUME DocumentsInv, Fetch PROVE DocumentsInv'
  OBVIOUS
<1>1. DocumentsType
  BY DEF DocumentsInv
<1>2. /\ fetch' = Going(Matches1, MoreMatches, At(1, "text", 0), 0)
      /\ got' = <<>> /\ steady' = Range(Matches1) /\ moved' = FALSE /\ matching' = matching
  BY DEF Fetch
<1>3. DOMAIN got' = {} /\ GotType' /\ OfOneRevision'
  BY <1>2 DEF GotType, OfOneRevision
<1>4. /\ Matches1 \in Seq(Known) /\ Len(Matches1) \in Nat
      /\ \A k \in 1..Len(Matches1) : Matches1[k] = matching[k]
      /\ DOMAIN Matches1 = 1..Len(Matches1) /\ Len(Matches1) <= Len(matching)
      /\ DOMAIN matching = 1..Len(matching) /\ Len(matching) \in Nat /\ matching \in Seq(Known)
  BY <1>1, MatchesAre DEF DocumentsType
<1>5. steady' \in SUBSET Range(matching)
  BY <1>2, <1>4 DEF Range
<1>6. CASE Len(Matches1) = 0
  <2>1. fetch' = [at |-> "complete", returned |-> Range(Matches1), more |-> MoreMatches]
    BY <1>2, <1>6 DEF Going, At
  <2>2. fetch'.at = "complete" /\ steady' = {}
    BY <1>2, <1>4, <1>6, <2>1 DEF Range
  <2>3. DocumentsType'
    BY <1>1, <1>2, <1>3, <1>5, <2>2 DEF DocumentsType, Range, Distinct
  <2> QED
    BY <1>3, <2>2, <2>3 DEF DocumentsInv, Finished
<1>7. CASE Len(Matches1) # 0
  <2> DEFINE pos == At(1, "text", 0)
  <2>1. pos.index = 1 /\ pos.phase = "text" /\ pos.offset = 0
    BY DEF At
  <2> HIDE DEF pos
  <2>2. PICK m : m = Matches1[1]
    OBVIOUS
  <2>3. 1 \in 1..Len(Matches1) /\ matching[1] = m /\ m \in Known
    BY <1>4, <1>7, <2>2
  <2>4. PlaceIn(pos, m)
    BY <2>1, <2>3, KnownIs DEF PlaceIn
  <2>5. TextSoFar(m.text, pos) = <<>> /\ PartsSoFar(m.parts, pos) = <<>>
    BY <2>1, <2>3, <2>4, SoFarIs
  <2>6. Had(m.doc)' = [text |-> <<>>, parts |-> <<>>]
    BY <1>3 DEF Had
  <2>7. PICK s : s = Matches1
    OBVIOUS
  <2>8. PICK list : list = matching
    OBVIOUS
  <2>9. Begun(list, 1, pos)'
    BY <1>3, <2>3, <2>5, <2>6, <2>8 DEF Begun, Had
  <2> QED
    BY <1>1, <1>2, <1>3, <1>5, <2>1, <2>2, <2>3, <2>4, <2>7, <2>8, <2>9, PageBegins DEF pos
<1> QED
  BY <1>6, <1>7

LEMMA ContinueKeeps == DocumentsInv /\ Continue => DocumentsInv'
<1> SUFFICES ASSUME DocumentsInv, Continue PROVE DocumentsInv'
  OBVIOUS
<1>1. DocumentsType /\ fetch.at = "paging" /\ PagingType /\ matching \in Seq(Known)
  BY DEF DocumentsInv, DocumentsType, Continue
<1>2. PICK c : c = fetch.cursor
  OBVIOUS
<1>3. PICK i \in 1..Len(Matches1) :
          /\ Resumes(c, Matches1[i])
          /\ fetch' = Going(Matches1, MoreMatches, At(i, c.phase, c.offset), 0)
  BY <1>1, <1>2, MatchesAre DEF Continue
<1>4. /\ matching' = matching /\ got' = got /\ steady' = steady /\ moved' = moved
  BY DEF Continue
<1>5. PICK m : m = Matches1[i]
  OBVIOUS
<1>6. /\ m \in Known /\ i \in DOMAIN matching /\ m = matching[i]
      /\ DOMAIN matching = 1..Len(matching) /\ Len(matching) \in Nat
  BY <1>1, <1>5, MatchesAre
<1> DEFINE pos == At(i, c.phase, c.offset)
<1>7. pos.index = i /\ pos.phase = c.phase /\ pos.offset = c.offset
  BY DEF At
<1> HIDE DEF pos
<1>8. m.doc = c.doc /\ m.text = c.text
  BY <1>3, <1>5 DEF Resumes
<1>9. PlaceIn(pos, m)
  <2>1. /\ c.phase \in {"text", "attachments"} /\ c.offset \in Nat
    BY <1>1, <1>2 DEF PagingType
  <2>2. /\ c.phase = "text" => c.offset < Len(m.text)
        /\ c.phase = "attachments" => c.offset <= Len(m.parts)
    BY <1>3, <1>5 DEF Resumes
  <2> QED
    BY <1>6, <1>7, <2>1, <2>2, KnownIs DEF PlaceIn
<1>10. /\ GotType' /\ steady' \in SUBSET Range(matching) /\ moved' \in BOOLEAN
  BY <1>1, <1>4 DEF DocumentsType, GotType
<1>11. \A x, y : /\ TextSoFar(x, pos) = TextSoFar(x, c)
                 /\ PartsSoFar(x, pos) = PartsSoFar(x, c)
  BY <1>7 DEF TextSoFar, PartsSoFar
<1>12. PICK s : s = Matches1
  OBVIOUS
<1>13. PICK list : list = matching
  OBVIOUS
<1>14. ASSUME ~moved' PROVE Begun(list, i, pos)'
  <2>1. OfOneRevision /\ AtCursor(c)
    BY <1>1, <1>2, <1>4, <1>14 DEF DocumentsInv
  <2>2. Resumable(c, i) /\ Had(c.doc).text = TextSoFar(c.text, c)
    BY <1>6, <1>8, <2>1 DEF AtCursor
  <2>3. list[i] = m /\ m.doc = c.doc /\ m.text = c.text
    BY <1>6, <1>8, <1>13
  <2>4. Had(m.doc)' = Had(c.doc) /\ Had(list[i].doc)' = Had(m.doc)'
    BY <1>4, <2>3 DEF Had
  <2>5. \A q \in 1..(i - 1) : list[q] \in steady' => Whole(list[q])'
    BY <1>4, <1>13, <2>2 DEF Resumable, Whole
  <2>6. \A q \in (i + 1)..Len(list) : list[q].doc \notin DOMAIN got'
    BY <1>4, <1>13, <2>2 DEF Resumable
  <2>7. m \in steady' => Had(m.doc)'.parts = PartsSoFar(m.parts, pos)
    BY <1>4, <1>6, <1>11, <2>2, <2>4 DEF Resumable
  <2>8. Had(m.doc)'.text = TextSoFar(m.text, pos)
    BY <1>11, <2>2, <2>3, <2>4
  <2> QED
    BY <1>4, <2>1, <2>3, <2>4, <2>5, <2>6, <2>7, <2>8 DEF Begun, OfOneRevision
<1> QED
  BY <1>1, <1>3, <1>4, <1>5, <1>6, <1>7, <1>9, <1>10, <1>12, <1>13, <1>14, PageBegins DEF pos

\* What an edit does to the matches: those that were there keep their order, a new
\* one comes first.
Arrives(list, after, i) == \A a \in DOMAIN list : list[a].doc # after[i].doc
EditedTo(list, after) ==
    /\ after \in Seq(Known) /\ Distinct(after)
    /\ \A i \in DOMAIN after, j \in DOMAIN after :
          i < j /\ ~Arrives(list, after, i) =>
              /\ ~Arrives(list, after, j)
              /\ \A a \in DOMAIN list, b \in DOMAIN list :
                    list[a].doc = after[i].doc /\ list[b].doc = after[j].doc => a < b

LEMMA EditKeeps ==
    ASSUME DocumentsInv, UNCHANGED <<fetch, got>>,
           NEW list, list = matching, NEW after, after = matching',
           EditedTo(list, after), steady' = steady \intersect Range(after), moved' \in BOOLEAN,
           moved' \/ (~moved /\ \A i \in DOMAIN after :
                          Arrives(list, after, i) => after[i].doc \notin Ahead)
    PROVE  DocumentsInv'
<1>1. /\ DocumentsType /\ list \in Seq(Known) /\ Distinct(list) /\ Len(list) \in Nat
      /\ DOMAIN list = 1..Len(list) /\ steady \in SUBSET Range(list)
  BY DEF DocumentsInv, DocumentsType
<1>2. /\ after \in Seq(Known) /\ Distinct(after) /\ Len(after) \in Nat
      /\ DOMAIN after = 1..Len(after)
  BY DEF EditedTo
<1>3. fetch' = fetch /\ got' = got /\ matching' = after /\ matching = list
  OBVIOUS
<1>4. DocumentsType'
  <2>1. GotType'
    BY <1>1, <1>3 DEF DocumentsType, GotType
  <2>2. fetch'.at = "paging" => PagingType'
    BY <1>1, <1>3 DEF DocumentsType, PagingType
  <2>3. fetch'.at = "building" => BuildingType'
    BY <1>1, <1>3 DEF DocumentsType, BuildingType, Here
  <2> QED
    BY <1>2, <1>3, <2>1, <2>2, <2>3 DEF DocumentsType
<1>5. \A m \in steady' : m \in steady /\ \E a \in DOMAIN list : m = list[a]
  BY <1>1 DEF Range
<1>6. ASSUME NEW i \in DOMAIN after, ~Arrives(list, after, i)
      PROVE  \E a \in DOMAIN list :
                /\ list[a].doc = after[i].doc
                /\ after[i] \in steady' => after[i] = list[a] /\ list[a] \in steady
                /\ \A j \in (i + 1)..Len(after) : \E b \in (a + 1)..Len(list) :
                      list[b].doc = after[j].doc
                /\ \A j \in 1..(i - 1) : after[j] \in steady' =>
                      \E b \in 1..(a - 1) : list[b] = after[j] /\ list[b] \in steady
  <2>1. PICK a \in DOMAIN list : list[a].doc = after[i].doc
    BY <1>6 DEF Arrives
  <2>2. after[i] \in steady' => after[i] = list[a] /\ list[a] \in steady
    BY <1>1, <1>5, <2>1 DEF Distinct
  <2>3. ASSUME NEW j \in (i + 1)..Len(after)
        PROVE  \E b \in (a + 1)..Len(list) : list[b].doc = after[j].doc
    <3>1. j \in DOMAIN after /\ i < j
      BY <1>2
    <3>2. /\ ~Arrives(list, after, j)
          /\ \A x \in DOMAIN list, y \in DOMAIN list :
                list[x].doc = after[i].doc /\ list[y].doc = after[j].doc => x < y
      BY <1>6, <3>1 DEF EditedTo
    <3>3. PICK b \in DOMAIN list : list[b].doc = after[j].doc
      BY <3>2 DEF Arrives
    <3>4. a < b
      BY <2>1, <3>2, <3>3
    <3>5. b \in (a + 1)..Len(list)
      BY <1>1, <3>4
    <3> QED
      BY <3>3, <3>5
  <2>4. ASSUME NEW j \in 1..(i - 1), after[j] \in steady'
        PROVE  \E b \in 1..(a - 1) : list[b] = after[j] /\ list[b] \in steady
    <3>1. j \in DOMAIN after /\ j < i
      BY <1>2
    <3>2. PICK b \in DOMAIN list : after[j] = list[b] /\ list[b] \in steady
      BY <1>5, <2>4
    <3>3. ~Arrives(list, after, j)
      BY <3>2 DEF Arrives
    <3>4. b < a
      BY <2>1, <3>1, <3>2, <3>3 DEF EditedTo
    <3>5. b \in 1..(a - 1)
      BY <1>1, <3>4
    <3> QED
      BY <3>2, <3>5
  <2> QED
    BY <2>1, <2>2, <2>3, <2>4
<1>7. ASSUME ~moved'
      PROVE  /\ OfOneRevision'
             /\ fetch.at = "complete" => Finished'
             /\ fetch.at = "paging" => AtCursor(fetch.cursor)'
             /\ fetch.at = "building" => AtPlace'
  <2>1. /\ ~moved /\ OfOneRevision
        /\ \A i \in DOMAIN after : Arrives(list, after, i) => after[i].doc \notin Ahead
    BY <1>7 DEF DocumentsInv
  <2>2. OfOneRevision'
    BY <1>3, <2>1 DEF OfOneRevision
  <2>3. ASSUME fetch.at = "complete" PROVE Finished'
    <3>1. Finished
      BY <2>1, <2>3 DEF DocumentsInv
    <3> QED
      BY <1>3, <1>5, <3>1 DEF Finished, Whole
  <2>4. ASSUME fetch.at = "paging" PROVE AtCursor(fetch.cursor)'
    <3>1. PICK c : c = fetch.cursor
      OBVIOUS
    <3>2. AtCursor(c)
      BY <2>1, <2>4, <3>1 DEF DocumentsInv
    <3>3. Had(c.doc)' = Had(c.doc)
      BY <1>3 DEF Had
    <3>4. Ahead = {c.doc}
      BY <2>4, <3>1 DEF Ahead
    <3>5. ASSUME NEW p \in DOMAIN after, after[p].doc = c.doc PROVE Resumable(c, p)'
      <4>1. ~Arrives(list, after, p)
        BY <2>1, <3>4, <3>5
      <4>2. PICK a \in DOMAIN list :
                /\ list[a].doc = after[p].doc
                /\ after[p] \in steady' => after[p] = list[a] /\ list[a] \in steady
                /\ \A j \in (p + 1)..Len(after) : \E b \in (a + 1)..Len(list) :
                      list[b].doc = after[j].doc
                /\ \A j \in 1..(p - 1) : after[j] \in steady' =>
                      \E b \in 1..(a - 1) : list[b] = after[j] /\ list[b] \in steady
        BY <1>6, <4>1
      <4>3. /\ list[a] \in steady => /\ list[a].text = c.text
                                     /\ Had(c.doc).parts = PartsSoFar(list[a].parts, c)
            /\ \A q \in 1..(a - 1) : list[q] \in steady => Whole(list[q])
            /\ \A q \in (a + 1)..Len(list) : list[q].doc \notin DOMAIN got
        BY <1>3, <3>2, <3>5, <4>2 DEF AtCursor, Resumable
      <4>4. \A q \in 1..(p - 1) : after[q] \in steady' => Whole(after[q])'
        BY <1>3, <4>2, <4>3 DEF Whole
      <4>5. \A q \in (p + 1)..Len(after) : after[q].doc \notin DOMAIN got'
        BY <1>3, <4>2, <4>3
      <4>6. after[p] \in steady' => /\ after[p].text = c.text
                                    /\ Had(c.doc)'.parts = PartsSoFar(after[p].parts, c)
        BY <3>3, <4>2, <4>3
      <4> QED
        BY <1>3, <4>4, <4>5, <4>6 DEF Resumable, Whole, Had
    <3>6. AtCursor(c)'
      BY <1>3, <3>2, <3>3, <3>5 DEF AtCursor
    <3>7. fetch'.cursor = c
      BY <1>3, <3>1
    <3> QED
      BY <3>6, <3>7 DEF AtCursor, Resumable, Whole, Had
  <2>5. ASSUME fetch.at = "building" PROVE AtPlace'
    <3>1. PICK p : p = fetch.pos.index
      OBVIOUS
    <3>2. /\ AtPlace /\ Around(p)
      BY <2>1, <2>5, <3>1 DEF DocumentsInv, AtPlace
    <3>3. Here' = Here /\ fetch'.pos = fetch.pos /\ fetch'.pos.index = p
      BY <1>3, <3>1 DEF Here
    <3>4. PICK m : m = Here
      OBVIOUS
    <3>5. Had(m.doc)' = Had(m.doc) /\ Had(Here.doc)' = Had(m.doc) /\ Had(Here.doc) = Had(m.doc)
      BY <1>3, <3>3, <3>4 DEF Had
    <3>6. Returned'
      BY <1>3, <1>5, <3>2 DEF AtPlace, Returned
    <3>7. \A i \in 1..(p - 1) : fetch.matches[i] \in steady' => Whole(fetch.matches[i])'
      BY <1>3, <1>5, <3>2 DEF Around, Whole
    <3>8. \A i \in (p + 1)..Len(fetch.matches) : fetch.matches[i].doc \notin DOMAIN got'
      BY <1>3, <3>2 DEF Around
    <3>9. ASSUME NEW j \in p..Len(fetch.matches), NEW q \in DOMAIN after,
                 after[q].doc = fetch.matches[j].doc
          PROVE  InOrder(j, q)'
      <4>1. after[q].doc \in Ahead
        BY <2>5, <3>1, <3>9 DEF Ahead
      <4>2. ~Arrives(list, after, q)
        BY <2>1, <4>1
      <4>3. PICK a \in DOMAIN list :
                /\ list[a].doc = after[q].doc
                /\ \A x \in (q + 1)..Len(after) : \E b \in (a + 1)..Len(list) :
                      list[b].doc = after[x].doc
                /\ \A x \in 1..(q - 1) : after[x] \in steady' =>
                      \E b \in 1..(a - 1) : list[b] = after[x] /\ list[b] \in steady
        BY <1>6, <4>2
      <4>4. InOrder(j, a)
        BY <1>3, <3>2, <3>9, <4>3 DEF Around
      <4>5. \A r \in (q + 1)..Len(after) :
              /\ after[r].doc \notin DOMAIN got'
              /\ \A k \in 1..j : after[r].doc # fetch.matches[k].doc
        BY <1>3, <4>3, <4>4 DEF InOrder
      <4>6. \A r \in 1..(q - 1) : after[r] \in steady' =>
              \E k \in 1..(j - 1) : after[r] = fetch.matches[k]
        BY <1>3, <4>3, <4>4 DEF InOrder
      <4> QED
        BY <1>3, <4>5, <4>6 DEF InOrder
    <3>10. Around(p)'
      BY <1>3, <3>7, <3>8, <3>9 DEF Around, Whole
    <3>11. Around(fetch.pos.index)'
      BY <3>3, <3>10 DEF Around, InOrder, Whole
    <3>12. /\ Had(m.doc).text = TextSoFar(m.text, fetch.pos)
           /\ m \in steady' => Had(m.doc).parts = PartsSoFar(m.parts, fetch.pos)
      BY <1>5, <3>2, <3>4, <3>5 DEF AtPlace
    <3> QED
      BY <3>3, <3>4, <3>5, <3>6, <3>11, <3>12 DEF AtPlace
  <2> QED
    BY <2>2, <2>3, <2>4, <2>5
<1> QED
  BY <1>3, <1>4, <1>7 DEF DocumentsInv

LEMMA AdmitKeeps == ASSUME DocumentsInv, NEW d \in Names, Admit(d) PROVE DocumentsInv'
<1>1. /\ matching \in Seq(Known) /\ Distinct(matching) /\ moved \in BOOLEAN
  BY DEF DocumentsInv, DocumentsType
<1>2. PICK r \in Revisions[d] : matching' = <<r>> \o matching
  BY DEF Admit
<1>3. /\ \A i \in DOMAIN matching : matching[i].doc # d
      /\ moved' = (moved \/ d \in Ahead) /\ UNCHANGED <<fetch, got>>
      /\ steady' = steady \intersect Range(matching')
  BY DEF Admit, Edited
<1>4. r \in Known /\ r.doc = d
  <2>1. r \in [doc : {d}, text : Texts, parts : Seq(STRING)]
    BY DocumentsAssumption
  <2> QED
    BY <2>1 DEF Known
<1>5. PICK list : list = matching
  OBVIOUS
<1>6. PICK after : after = matching'
  OBVIOUS
<1>7. /\ after \in Seq(Known) /\ Len(after) = Len(list) + 1 /\ after[1] = r
      /\ \A i \in 1..Len(list) : after[i + 1] = list[i]
      /\ list \in Seq(Known) /\ Len(list) \in Nat
  BY <1>1, <1>2, <1>4, <1>5, <1>6
<1>8. /\ DOMAIN after = 1..(Len(list) + 1) /\ DOMAIN list = 1..Len(list)
      /\ Distinct(list) /\ \A i \in DOMAIN list : list[i].doc # d
  BY <1>1, <1>3, <1>5, <1>7
<1>9. \A i \in DOMAIN after : \/ i = 1 /\ after[i] = r
                              \/ i - 1 \in DOMAIN list /\ after[i] = list[i - 1]
  <2> TAKE i \in DOMAIN after
  <2>1. CASE i = 1
    BY <1>7, <2>1
  <2>2. CASE i # 1
    <3>1. i - 1 \in 1..Len(list) /\ (i - 1) + 1 = i
      BY <1>7, <1>8, <2>2
    <3> QED
      BY <1>7, <1>8, <3>1
  <2> QED
    BY <2>1, <2>2
<1>10. \A i \in DOMAIN after : Arrives(list, after, i) <=> i = 1
  BY <1>4, <1>7, <1>8, <1>9 DEF Arrives
<1>11. Distinct(after)
  <2> SUFFICES ASSUME NEW i \in DOMAIN after, NEW j \in DOMAIN after,
                      after[i].doc = after[j].doc
               PROVE  i = j
    BY DEF Distinct
  <2>1. CASE i = 1 \/ j = 1
    BY <1>4, <1>7, <1>8, <1>9, <2>1
  <2>2. CASE i # 1 /\ j # 1
    <3>1. i - 1 = j - 1
      BY <1>8, <1>9, <2>2 DEF Distinct
    <3> QED
      BY <1>7, <1>8, <3>1
  <2> QED
    BY <2>1, <2>2
<1>12. ASSUME NEW i \in DOMAIN after, NEW j \in DOMAIN after, i < j, ~Arrives(list, after, i)
       PROVE  /\ ~Arrives(list, after, j)
              /\ \A a \in DOMAIN list, b \in DOMAIN list :
                    list[a].doc = after[i].doc /\ list[b].doc = after[j].doc => a < b
  <2>1. /\ i # 1 /\ j # 1 /\ i \in Int /\ j \in Int
    BY <1>7, <1>8, <1>10, <1>12
  <2>2. /\ i - 1 \in DOMAIN list /\ after[i] = list[i - 1]
        /\ j - 1 \in DOMAIN list /\ after[j] = list[j - 1]
    BY <1>9, <2>1
  <2>3. ASSUME NEW a \in DOMAIN list, NEW b \in DOMAIN list,
               list[a].doc = after[i].doc, list[b].doc = after[j].doc
        PROVE  a < b
    <3>1. a = i - 1 /\ b = j - 1
      BY <1>8, <2>2, <2>3 DEF Distinct
    <3> QED
      BY <1>12, <2>1, <3>1
  <2> QED
    BY <1>10, <2>1, <2>3
<1>13. EditedTo(list, after)
  BY <1>7, <1>11, <1>12 DEF EditedTo
<1>14. moved' \/ (~moved /\ \A i \in DOMAIN after :
                          Arrives(list, after, i) => after[i].doc \notin Ahead)
  BY <1>1, <1>3, <1>4, <1>7, <1>10
<1>15. moved' \in BOOLEAN
  BY <1>3, <1>1 DEF Ahead
<1> QED
  BY <1>3, <1>5, <1>6, <1>13, <1>14, <1>15, EditKeeps

LEMMA ReprocessKeeps ==
    ASSUME DocumentsInv, NEW n \in DOMAIN matching, Reprocess(n) PROVE DocumentsInv'
<1>1. /\ matching \in Seq(Known) /\ Distinct(matching) /\ moved \in BOOLEAN
  BY DEF DocumentsInv, DocumentsType
<1>2. PICK r \in Revisions[matching[n].doc] : matching' = [matching EXCEPT ![n] = r]
  BY DEF Reprocess
<1>3. /\ moved' = moved /\ UNCHANGED <<fetch, got>>
      /\ steady' = steady \intersect Range(matching')
  BY DEF Reprocess, Edited
<1>4. r \in Known /\ r.doc = matching[n].doc
  <2>1. matching[n] \in Known
    BY <1>1
  <2>2. matching[n].doc \in Names
    BY <2>1, KnownIs
  <2>3. r \in [doc : {matching[n].doc}, text : Texts, parts : Seq(STRING)]
    BY <2>2, DocumentsAssumption
  <2> QED
    BY <2>2, <2>3 DEF Known
<1>5. PICK list : list = matching
  OBVIOUS
<1>6. PICK after : after = matching'
  OBVIOUS
<1>7. /\ after \in Seq(Known) /\ list \in Seq(Known) /\ Distinct(list)
      /\ DOMAIN after = DOMAIN list /\ Len(list) \in Nat /\ DOMAIN list = 1..Len(list)
      /\ \A i \in DOMAIN list : after[i].doc = list[i].doc
  BY <1>1, <1>2, <1>4, <1>5, <1>6
<1>8. \A i \in DOMAIN after : ~Arrives(list, after, i)
  BY <1>7 DEF Arrives
<1>9. Distinct(after)
  BY <1>7 DEF Distinct
<1>10. \A i \in DOMAIN list, a \in DOMAIN list : list[a].doc = after[i].doc => a = i
  BY <1>7 DEF Distinct
<1>11. EditedTo(list, after)
  BY <1>7, <1>8, <1>9, <1>10 DEF EditedTo
<1> QED
  BY <1>1, <1>3, <1>5, <1>6, <1>8, <1>11, EditKeeps

LEMMA RemovedIs ==
    ASSUME NEW S, NEW s \in Seq(S), NEW n \in DOMAIN s
    PROVE  /\ RemoveAt(s, n) \in Seq(S) /\ Len(RemoveAt(s, n)) = Len(s) - 1
           /\ \A i \in 1..(Len(s) - 1) :
                 RemoveAt(s, n)[i] = s[IF i < n THEN i ELSE i + 1]
<1> DEFINE x == SubSeq(s, 1, n - 1)
           y == SubSeq(s, n + 1, Len(s))
<1>1. Len(s) \in Nat /\ n \in 1..Len(s)
  OBVIOUS
<1>2. /\ x \in Seq(S) /\ Len(x) = n - 1 /\ \A i \in 1..(n - 1) : x[i] = s[i]
  BY <1>1
<1>3. /\ y \in Seq(S) /\ Len(y) = Len(s) - n /\ \A i \in 1..(Len(s) - n) : y[i] = s[n + i]
  BY <1>1
<1>4. RemoveAt(s, n) = x \o y
  BY DEF RemoveAt
<1> HIDE DEF x, y
<1>5. x \o y \in Seq(S) /\ Len(x \o y) = Len(s) - 1
  BY <1>1, <1>2, <1>3
<1>6. ASSUME NEW i \in 1..(Len(s) - 1) PROVE (x \o y)[i] = s[IF i < n THEN i ELSE i + 1]
  <2>1. (x \o y)[i] = IF i <= Len(x) THEN x[i] ELSE y[i - Len(x)]
    <3>1. x \in Seq(S) /\ y \in Seq(S) /\ Len(x) = n - 1 /\ Len(y) = Len(s) - n
      BY <1>2, <1>3
    <3>2. i \in 1..(Len(x) + Len(y))
      <4>1. Len(x) + Len(y) = Len(s) - 1
        BY <1>1, <3>1
      <4> QED
        BY <4>1
    <3>3. x \in Seq(S) /\ y \in Seq(S)
      BY <3>1
    <3> QED
      BY <3>2, <3>3
  <2>2. CASE i < n
    BY <1>1, <1>2, <2>1, <2>2
  <2>3. CASE ~(i < n)
    <3>1. i - Len(x) \in 1..(Len(s) - n) /\ n + (i - Len(x)) = i + 1 /\ ~(i <= Len(x))
      BY <1>1, <1>2, <2>3
    <3> QED
      BY <1>3, <2>1, <2>3, <3>1
  <2> QED
    BY <2>2, <2>3
<1> QED
  BY <1>4, <1>5, <1>6

LEMMA ForgetMatchKeeps ==
    ASSUME DocumentsInv, NEW n \in DOMAIN matching, ForgetMatch(n) PROVE DocumentsInv'
<1>1. /\ matching \in Seq(Known) /\ Distinct(matching) /\ moved \in BOOLEAN
  BY DEF DocumentsInv, DocumentsType
<1>2. /\ moved' = moved /\ UNCHANGED <<fetch, got>> /\ matching' = RemoveAt(matching, n)
      /\ steady' = steady \intersect Range(matching')
  BY DEF ForgetMatch, Edited
<1>3. PICK list : list = matching
  OBVIOUS
<1>4. PICK after : after = matching'
  OBVIOUS
<1> DEFINE from(i) == IF i < n THEN i ELSE i + 1
<1>5. /\ list \in Seq(Known) /\ Distinct(list) /\ Len(list) \in Nat
      /\ DOMAIN list = 1..Len(list) /\ n \in 1..Len(list)
  <2>1. list \in Seq(Known) /\ Distinct(list) /\ n \in DOMAIN list
    BY <1>1, <1>3
  <2>2. Len(list) \in Nat /\ DOMAIN list = 1..Len(list)
    BY <2>1
  <2> QED
    BY <2>1, <2>2
<1>6. /\ after \in Seq(Known) /\ Len(after) = Len(list) - 1
      /\ \A i \in 1..(Len(list) - 1) : after[i] = list[from(i)]
  <2>1. after = RemoveAt(list, n) /\ list \in Seq(Known) /\ n \in DOMAIN list
    BY <1>2, <1>3, <1>4, <1>5
  <2>2. /\ RemoveAt(list, n) \in Seq(Known) /\ Len(RemoveAt(list, n)) = Len(list) - 1
        /\ \A i \in 1..(Len(list) - 1) :
              RemoveAt(list, n)[i] = list[IF i < n THEN i ELSE i + 1]
    BY <2>1, RemovedIs
  <2> QED
    BY <2>1, <2>2
<1>7. DOMAIN after = 1..(Len(list) - 1)
  BY <1>6
<1>8. \A i \in DOMAIN after : from(i) \in DOMAIN list /\ i \in Int
  BY <1>5, <1>7
<1>9. \A i \in DOMAIN after, j \in DOMAIN after : i < j <=> from(i) < from(j)
  BY <1>5, <1>7
<1>10. \A i \in DOMAIN after, j \in DOMAIN after : from(i) = from(j) => i = j
  BY <1>5, <1>7
<1> HIDE DEF from
<1>11. \A i \in DOMAIN after : after[i] = list[from(i)] /\ ~Arrives(list, after, i)
  BY <1>6, <1>7, <1>8 DEF Arrives
<1>12. Distinct(after)
  BY <1>5, <1>8, <1>10, <1>11 DEF Distinct
<1>13. \A i \in DOMAIN after, a \in DOMAIN list : list[a].doc = after[i].doc => a = from(i)
  BY <1>5, <1>8, <1>11 DEF Distinct
<1>14. EditedTo(list, after)
  BY <1>6, <1>9, <1>11, <1>12, <1>13 DEF EditedTo
<1> QED
  BY <1>1, <1>2, <1>3, <1>4, <1>11, <1>14, EditKeeps

LEMMA FetchedEndIs ==
    ASSUME NEW text \in Texts, NEW o \in 0..(Len(text) - 1), NEW room
    PROVE  LET end == FetchedEnd(text, o, room) IN
           end \in 0..Len(text) /\ RuneStart(text, end)
<1> DEFINE fitting == {x \in (o + 1)..Len(text) :
                          LET b == BoundaryAtOrBefore(text, x)
                          IN b > o /\ b - o <= room}
           found == LargestFitting(o + 1, Len(text), fitting)
<1>1. FetchedEnd(text, o, room) = BoundaryAtOrBefore(text, found)
  BY DEF FetchedEnd
<1> HIDE DEF fitting
<1>2. Len(text) \in Nat /\ o + 1 \in Nat /\ o + 1 <= Len(text)
  BY TextIs
<1>3. found \in o..Len(text)
  BY <1>2, SearchIs
<1> HIDE DEF found
<1>4. found \in 0..Len(text)
  BY <1>2, <1>3
<1>5. /\ BoundaryAtOrBefore(text, found) \in 0..found
      /\ RuneStart(text, BoundaryAtOrBefore(text, found))
  BY <1>4, BoundaryIs
<1> QED
  BY <1>1, <1>2, <1>4, <1>5

\* Where a page under construction is.
LEMMA BuildingIs ==
    ASSUME DocumentsInv, fetch.at = "building", NEW m, m = Here, NEW pos, pos = fetch.pos
    PROVE  /\ m \in Known /\ PlaceIn(pos, m) /\ fetch.used \in Nat
           /\ pos.index \in DOMAIN fetch.matches /\ m = fetch.matches[pos.index]
           /\ fetch.matches \in Seq(Known) /\ Distinct(fetch.matches)
           /\ ~moved => /\ Had(m.doc).text = TextSoFar(m.text, pos)
                        /\ m \in steady => Had(m.doc).parts = PartsSoFar(m.parts, pos)
<1>1. BuildingType
  BY DEF DocumentsInv, DocumentsType
<1>2. /\ fetch.matches \in Seq(Known) /\ Distinct(fetch.matches)
      /\ pos.index \in DOMAIN fetch.matches /\ PlaceIn(pos, m) /\ fetch.used \in Nat
      /\ m = fetch.matches[pos.index]
  BY <1>1 DEF BuildingType, Here
<1>3. m \in Known
  BY <1>2
<1>4. ASSUME ~moved
      PROVE  /\ Had(m.doc).text = TextSoFar(m.text, pos)
             /\ m \in steady => Had(m.doc).parts = PartsSoFar(m.parts, pos)
  BY <1>4 DEF DocumentsInv, AtPlace
<1> QED
  BY <1>2, <1>3, <1>4

LEMMA DeliverIs ==
    ASSUME DocumentsType, NEW m \in Known, m = Here,
           NEW text \in Seq(Bytes3), NEW parts \in Seq(STRING), Deliver(text, parts)
    PROVE  /\ GotType' /\ DOMAIN got' = DOMAIN got \union {m.doc}
           /\ \A d \in DOMAIN got : d # m.doc => got'[d] = got[d]
           /\ Had(m.doc)'.text = Had(m.doc).text \o text
           /\ Had(m.doc)'.parts = Had(m.doc).parts \o parts
<1>1. /\ DOMAIN got \in SUBSET Names
      /\ got \in [DOMAIN got -> [text : Seq(Bytes3), parts : Seq(STRING)]]
  BY DEF DocumentsType, GotType
<1>2. Had(m.doc).text \in Seq(Bytes3) /\ Had(m.doc).parts \in Seq(STRING)
  <2>1. CASE m.doc \in DOMAIN got
    BY <1>1, <2>1 DEF Had
  <2>2. CASE m.doc \notin DOMAIN got
    BY <2>2 DEF Had
  <2> QED
    BY <2>1, <2>2
<1> DEFINE more == [text |-> Had(m.doc).text \o text, parts |-> Had(m.doc).parts \o parts]
<1>3. got' = [d \in DOMAIN got \union {m.doc} |-> IF d = m.doc THEN more ELSE got[d]]
  BY DEF Deliver
<1>4. more \in [text : Seq(Bytes3), parts : Seq(STRING)]
  BY <1>2
<1>5. more.text = Had(m.doc).text \o text /\ more.parts = Had(m.doc).parts \o parts
  OBVIOUS
<1> HIDE DEF more
<1>6. m.doc \in Names
  BY KnownIs
<1>7. DOMAIN got' = DOMAIN got \union {m.doc} /\ got'[m.doc] = more
      /\ \A d \in DOMAIN got : d # m.doc => got'[d] = got[d]
  BY <1>3
<1>8. GotType'
  BY <1>1, <1>3, <1>4, <1>6 DEF GotType
<1>9. Had(m.doc)' = more
  BY <1>7 DEF Had
<1> QED
  BY <1>5, <1>7, <1>8, <1>9

\* The whole of a match is on the page, and the next one begins.
LEMMA GoOnKeeps ==
    ASSUME DocumentsInv, fetch.at = "building", NEW m, m = Here, NEW p, p = fetch.pos.index,
           NEW used \in Nat, fetch' = Going(fetch.matches, fetch.more, At(p + 1, "text", 0), used),
           m.doc \in DOMAIN got', Served(m, At(p, "attachments", Len(m.parts))),
           UNCHANGED <<matching, steady, moved, edits>>
    PROVE  DocumentsInv'
<1> DEFINE pos == At(p, "attachments", Len(m.parts))
           start == At(p + 1, "text", 0)
<1>1. pos.phase = "attachments" /\ pos.offset = Len(m.parts)
      /\ start.index = p + 1 /\ start.phase = "text" /\ start.offset = 0
  BY DEF At
<1>2. fetch' = Going(fetch.matches, fetch.more, start, used) /\ Served(m, pos)
  OBVIOUS
<1> HIDE DEF pos, start
<1>3. PICK s : s = fetch.matches
  OBVIOUS
<1>4. PICK more : more = fetch.more
  OBVIOUS
<1>5. PICK at : at = fetch.pos
  OBVIOUS
<1>6. /\ s \in Seq(Known) /\ Distinct(s) /\ Len(s) \in Nat /\ DOMAIN s = 1..Len(s)
      /\ p \in 1..Len(s) /\ m = s[p] /\ m \in Known
  BY <1>3, <1>5, BuildingIs
<1>7. /\ DocumentsType /\ matching \in Seq(Known) /\ Distinct(matching)
  BY DEF DocumentsInv, DocumentsType
<1>8. GotType' /\ matching' = matching /\ steady' = steady /\ moved' = moved
  BY <1>2 DEF Served
<1>9. PlaceIn(pos, m)
  BY <1>1, <1>6, KnownIs DEF PlaceIn
<1>10. ASSUME ~moved
       PROVE  /\ OfOneRevision' /\ OfOneRevision /\ Around(p) /\ Returned
              /\ m \in steady => Whole(m)'
              /\ \A k \in 1..(p - 1) : s[k] \in steady => Whole(s[k])'
  <2>1. OfOneRevision /\ Around(p) /\ Returned
    BY <1>10 DEF DocumentsInv, AtPlace
  <2>2. OfOneRevision'
    BY <1>2, <1>6, <1>9, <1>10, <2>1, ServedOfOne
  <2>3. /\ Had(m.doc)'.text = TextSoFar(m.text, pos)
        /\ m \in steady => Had(m.doc)'.parts = PartsSoFar(m.parts, pos)
    BY <1>2, <1>10 DEF Served
  <2>4. TextSoFar(m.text, pos) = m.text /\ PartsSoFar(m.parts, pos) = m.parts
    BY <1>1, <1>6, <1>9, SoFarIs
  <2>5. Had(m.doc)' = got'[m.doc]
    BY DEF Had
  <2>6. got'[m.doc] \in [text : Seq(Bytes3), parts : Seq(STRING)]
    BY <1>8 DEF GotType
  <2>7. m \in steady => Whole(m)'
    BY <2>3, <2>4, <2>5, <2>6 DEF Whole
  <2>8. ASSUME NEW k \in 1..(p - 1), s[k] \in steady PROVE Whole(s[k])'
    <3>1. k \in DOMAIN s /\ k # p /\ p \in DOMAIN s
      BY <1>6
    <3>2. s[k].doc # m.doc
      BY <1>6, <3>1 DEF Distinct
    <3>3. Whole(s[k])
      BY <1>3, <2>1, <2>8 DEF Around
    <3> QED
      BY <1>2, <3>2, <3>3 DEF Whole, Served
  <2> QED
    BY <2>1, <2>2, <2>7, <2>8
<1>11. CASE p + 1 > Len(s)
  <2>1. fetch' = [at |-> "complete", returned |-> Range(s), more |-> more]
    BY <1>1, <1>2, <1>3, <1>4, <1>11 DEF Going
  <2>2. fetch'.at = "complete" /\ fetch'.returned = Range(s) /\ fetch'.more = more
    BY <2>1
  <2>3. DocumentsType'
    BY <1>7, <1>8, <2>2, Unmoved DEF DocumentsType
  <2>4. ASSUME ~moved' PROVE Finished'
    <3> SUFFICES ASSUME NEW x \in steady
                 PROVE  IF x \in Range(s) THEN Whole(x)' ELSE more
      BY <1>8, <2>2 DEF Finished, Whole
    <3>1. Returned
      BY <1>8, <1>10, <2>4
    <3>2. CASE x \in Range(s)
      <4>1. PICK k \in 1..Len(s) : x = s[k]
        BY <1>6, <3>2 DEF Range
      <4>2. k = p \/ k \in 1..(p - 1)
        BY <1>6, <1>11
      <4>3. CASE k = p
        <5>1. x = m
          BY <1>6, <4>1, <4>3
        <5> QED
          BY <1>8, <1>10, <2>4, <3>2, <5>1
      <4>4. CASE k \in 1..(p - 1)
        <5>1. Whole(s[k])'
          BY <1>8, <1>10, <2>4, <4>1, <4>4
        <5> QED
          BY <3>2, <4>1, <5>1 DEF Whole
      <4> QED
        BY <4>2, <4>3, <4>4
    <3>3. CASE x \notin Range(s)
      <4>1. \A k \in DOMAIN s : x # s[k]
        BY <3>3 DEF Range
      <4>2. more
        BY <1>3, <1>4, <3>1, <4>1 DEF Returned
      <4> QED
        BY <3>3, <4>2
    <3> QED
      BY <3>2, <3>3
  <2> QED
    BY <1>8, <1>10, <2>2, <2>3, <2>4 DEF DocumentsInv
<1>12. CASE ~(p + 1 > Len(s))
  <2>1. fetch' = [at |-> "building", matches |-> s, more |-> more, pos |-> start, used |-> used]
    BY <1>1, <1>2, <1>3, <1>4, <1>12 DEF Going
  <2>2. PICK n : n = s[p + 1]
    OBVIOUS
  <2>3. /\ fetch'.at = "building" /\ fetch'.matches = s /\ fetch'.pos = start
        /\ fetch'.more = more /\ fetch'.used = used /\ Here' = n
        /\ fetch'.pos.index = p + 1
    BY <1>1, <2>1, <2>2 DEF Here
  <2>4. p + 1 \in 1..Len(s) /\ p + 1 \in DOMAIN s /\ n \in Known /\ p \in DOMAIN s
    BY <1>6, <1>12, <2>2
  <2>5. PlaceIn(start, n)
    BY <1>1, <2>4, KnownIs DEF PlaceIn
  <2>6. DocumentsType'
    <3>1. BuildingType'
      BY <1>6, <2>3, <2>4, <2>5 DEF BuildingType
    <3> QED
      BY <1>7, <1>8, <2>3, <3>1, Unmoved DEF DocumentsType
  <2>7. ASSUME ~moved' PROVE AtPlace'
    <3>1. ~moved /\ Around(p) /\ Returned
      BY <1>8, <1>10, <2>7
    <3>2. n.doc # m.doc
      BY <1>6, <2>2, <2>4 DEF Distinct
    <3>3. n.doc \notin DOMAIN got'
      <4>1. p + 1 \in (p + 1)..Len(s)
        BY <1>6, <2>4
      <4>2. n.doc \notin DOMAIN got
        BY <1>3, <2>2, <3>1, <4>1 DEF Around
      <4> QED
        BY <1>2, <3>2, <4>2 DEF Served
    <3>4. Had(n.doc)' = [text |-> <<>>, parts |-> <<>>]
      BY <3>3 DEF Had
    <3>5. Had(Here.doc)' = Had(n.doc)'
      BY <2>3 DEF Had
    <3>6. TextSoFar(n.text, start) = <<>> /\ PartsSoFar(n.parts, start) = <<>>
      BY <1>1, <2>4, <2>5, SoFarIs
    <3>7. Returned'
      BY <1>3, <1>4, <1>8, <2>3, <3>1 DEF Returned
    <3>8. ASSUME NEW k \in 1..p, s[k] \in steady PROVE Whole(s[k])'
      <4>1. CASE k = p
        <5>1. s[k] = m
          BY <1>6, <4>1
        <5> QED
          BY <1>10, <3>1, <3>8, <5>1 DEF Whole
      <4>2. CASE k # p
        <5>1. k \in 1..(p - 1)
          BY <1>6, <4>2
        <5> QED
          BY <1>10, <3>1, <3>8, <5>1
      <4> QED
        BY <4>1, <4>2
    <3>9. ASSUME NEW k \in (p + 2)..Len(s) PROVE s[k].doc \notin DOMAIN got'
      <4>1. k \in (p + 1)..Len(s) /\ k \in DOMAIN s /\ k # p /\ p \in DOMAIN s
        BY <1>6
      <4>2. s[k].doc \notin DOMAIN got
        BY <1>3, <3>1, <4>1 DEF Around
      <4>3. s[k].doc # m.doc
        BY <1>6, <4>1 DEF Distinct
      <4> QED
        BY <1>2, <4>2, <4>3 DEF Served
    <3>10. ASSUME NEW j \in (p + 1)..Len(s), NEW q \in DOMAIN matching,
                  matching[q].doc = s[j].doc
           PROVE  InOrder(j, q)'
      <4>1. j \in p..Len(s) /\ p \in 1..j
        BY <1>6
      <4>2. InOrder(j, q)
        BY <1>3, <3>1, <3>10, <4>1 DEF Around
      <4>3. \A r \in (q + 1)..Len(matching) : matching[r].doc \notin DOMAIN got'
        <5> TAKE r \in (q + 1)..Len(matching)
        <5>1. /\ matching[r].doc \notin DOMAIN got
              /\ \A k \in 1..j : matching[r].doc # fetch.matches[k].doc
          BY <4>2 DEF InOrder
        <5>2. matching[r].doc # m.doc
          BY <1>3, <1>6, <4>1, <5>1
        <5> QED
          BY <1>2, <5>1, <5>2 DEF Served
      <4>4. \A r \in (q + 1)..Len(matching) : \A k \in 1..j : matching[r].doc # s[k].doc
        BY <1>3, <4>2 DEF InOrder
      <4>5. \A r \in 1..(q - 1) :
                matching[r] \in steady => \E k \in 1..(j - 1) : matching[r] = s[k]
        <5> TAKE r \in 1..(q - 1)
        <5>1. matching[r] \in steady =>
                  \E k \in 1..(j - 1) : matching[r] = fetch.matches[k]
          BY <4>2, Zenon DEF InOrder
        <5> QED
          BY <1>3, <5>1
      <4> QED
        BY <1>8, <2>3, <4>3, <4>4, <4>5 DEF InOrder
    <3>11. Around(p + 1)'
      <4>1. \A k \in 1..((p + 1) - 1) : s[k] \in steady => Whole(s[k])'
        BY <1>6, <3>8
      <4>2. \A k \in ((p + 1) + 1)..Len(s) : s[k].doc \notin DOMAIN got'
        BY <1>6, <3>9
      <4> QED
        BY <1>8, <2>3, <3>10, <4>1, <4>2 DEF Around, Whole
    <3>12. Around(fetch.pos.index)'
      <4>1. PICK z : z = p + 1
        OBVIOUS
      <4>2. Around(z)'
        BY <3>11, <4>1 DEF Around
      <4> QED
        BY <2>3, <4>1, <4>2 DEF Around
    <3> QED
      BY <2>3, <3>4, <3>5, <3>6, <3>7, <3>12 DEF AtPlace
  <2> QED
    BY <1>8, <1>10, <2>3, <2>6, <2>7 DEF DocumentsInv
<1> QED
  BY <1>11, <1>12

\* Nothing more fits the page.
LEMMA YieldKeeps ==
    ASSUME DocumentsInv, fetch.at = "building", NEW m, m = Here, NEW pos, PlaceIn(pos, m),
           ~moved => /\ Had(m.doc).text = TextSoFar(m.text, pos)
                     /\ m \in steady => Had(m.doc).parts = PartsSoFar(m.parts, pos),
           Yield(pos), UNCHANGED <<matching, steady, moved, edits>>
    PROVE  DocumentsInv'
<1>1. DocumentsType /\ GotType
  BY DEF DocumentsInv, DocumentsType
<1>2. got' = got /\ Had(m.doc)' = Had(m.doc)
  BY DEF Yield, Had
<1>3. GotType'
  BY <1>1, <1>2 DEF GotType
<1>4. CASE fetch.used > 0
  <2>1. fetch' = PausedAt(pos)
    BY <1>4 DEF Yield
  <2>2. Served(m, pos)
    BY <1>2, <1>3 DEF Served
  <2> QED
    BY <2>1, <2>2, PauseKeeps
<1>5. CASE ~(fetch.used > 0)
  <2>1. fetch'.at = "failed"
    BY <1>5 DEF Yield
  <2>2. DocumentsType'
    BY <1>1, <1>3, <2>1, Unmoved DEF DocumentsType
  <2>3. ~moved' => OfOneRevision'
    BY <1>2 DEF DocumentsInv, OfOneRevision
  <2> QED
    BY <2>1, <2>2, <2>3 DEF DocumentsInv
<1> QED
  BY <1>4, <1>5

LEMMA TakeNothingKeeps ==
    ASSUME DocumentsInv, fetch.at = "building", TakeNothing,
           UNCHANGED <<matching, steady, moved, edits>>
    PROVE  DocumentsInv'
<1>1. PICK m : m = Here
  OBVIOUS
<1>2. PICK pos : pos = fetch.pos
  OBVIOUS
<1>3. Yield(pos)
  BY <1>2 DEF TakeNothing
<1> QED
  BY <1>1, <1>2, <1>3, BuildingIs, YieldKeeps

LEMMA TakeSomeTextKeeps ==
    ASSUME DocumentsInv, fetch.at = "building", TakeSomeText,
           UNCHANGED <<matching, steady, moved, edits>>
    PROVE  DocumentsInv'
<1>1. PICK m : m = Here
  OBVIOUS
<1>2. PICK pos : pos = fetch.pos
  OBVIOUS
<1>3. PICK end : end = EndHere
  OBVIOUS
<1>4. PICK text : text = m.text
  OBVIOUS
<1>5. PICK o : o = pos.offset
  OBVIOUS
<1>6. /\ m \in Known /\ PlaceIn(pos, m) /\ text \in Texts /\ text \in Seq(Bytes3)
      /\ Len(text) \in Nat
  BY <1>1, <1>2, <1>4, BuildingIs, KnownIs
<1>7. pos.phase = "text" /\ o < Len(text) /\ end > o /\ end < Len(text)
  BY <1>1, <1>2, <1>3, <1>4, <1>5 DEF TakeSomeText, TextDue
<1>8. o \in Nat /\ o \in 0..(Len(text) - 1)
  BY <1>5, <1>6, <1>7 DEF PlaceIn
<1>9. end \in 0..Len(text) /\ RuneStart(text, end)
  <2>1. end = FetchedEnd(text, o, RoomLeft)
    BY <1>1, <1>2, <1>3, <1>4, <1>5 DEF EndHere
  <2> QED
    BY <1>6, <1>8, <2>1, FetchedEndIs
<1>10. end \in 1..Len(text)
  BY <1>6, <1>7, <1>8, <1>9
<1> DEFINE cut == PreferredEnd(text, o, end)
           next == At(pos.index, "text", cut)
<1>11. cut \in (o + 1)..end
  BY <1>6, <1>7, <1>8, <1>9, <1>10, CutIs
<1>12. Deliver(SubSeq(text, o + 1, cut), <<>>) /\ fetch' = PausedAt(next)
  BY <1>1, <1>2, <1>3, <1>4, <1>5 DEF TakeSomeText, RestOfText
<1>13. next.phase = "text" /\ next.offset = cut
  BY DEF At
<1> HIDE DEF cut, next
<1>14. cut \in o..Len(text) /\ o \in 0..Len(text) /\ cut \in Nat /\ cut <= Len(text)
  BY <1>6, <1>8, <1>10, <1>11
<1>15. PlaceIn(next, m)
  BY <1>4, <1>13, <1>14 DEF PlaceIn
<1>16. SubSeq(text, 1, o) \o SubSeq(text, o + 1, cut) = SubSeq(text, 1, cut)
  BY <1>6, <1>14, Joined
<1>17. SubSeq(text, o + 1, cut) \in Seq(Bytes3)
  BY <1>6, <1>14
<1>18. DocumentsType
  BY DEF DocumentsInv
<1>22. PICK slice : slice = SubSeq(text, o + 1, cut)
  OBVIOUS
<1>23. slice \in Seq(Bytes3) /\ <<>> \in Seq(STRING) /\ Deliver(slice, <<>>)
  BY <1>12, <1>17, <1>22
<1>19. /\ GotType' /\ DOMAIN got' = DOMAIN got \union {m.doc}
       /\ \A d \in DOMAIN got : d # m.doc => got'[d] = got[d]
       /\ Had(m.doc)'.text = Had(m.doc).text \o slice
       /\ Had(m.doc)'.parts = Had(m.doc).parts \o <<>>
  BY <1>1, <1>6, <1>18, <1>23, DeliverIs
<1>20. ASSUME ~moved
       PROVE  /\ Had(m.doc)'.text = TextSoFar(m.text, next)
              /\ m \in steady => Had(m.doc)'.parts = PartsSoFar(m.parts, next)
  <2>1. /\ Had(m.doc).text = TextSoFar(m.text, pos)
        /\ m \in steady => Had(m.doc).parts = PartsSoFar(m.parts, pos)
    BY <1>1, <1>2, <1>20, BuildingIs
  <2>2. Had(m.doc)'.text = TextSoFar(m.text, next)
    BY <1>4, <1>5, <1>7, <1>13, <1>16, <1>19, <1>22, <2>1 DEF TextSoFar
  <2>3. PartsSoFar(m.parts, pos) = <<>> /\ PartsSoFar(m.parts, next) = <<>>
    BY <1>6, <1>7, <1>13, <1>15, SoFarIs
  <2>4. m \in steady => Had(m.doc)'.parts = PartsSoFar(m.parts, next)
    BY <1>19, <2>1, <2>3
  <2> QED
    BY <2>2, <2>4
<1>21. Served(m, next)
  BY <1>19, <1>20 DEF Served
<1> QED
  BY <1>1, <1>12, <1>15, <1>21, PauseKeeps

LEMMA TakePartsKeeps ==
    ASSUME DocumentsInv, fetch.at = "building", TakeParts,
           UNCHANGED <<matching, steady, moved, edits>>
    PROVE  DocumentsInv'
<1>1. PICK m : m = Here
  OBVIOUS
<1>2. PICK pos : pos = fetch.pos
  OBVIOUS
<1>3. PICK i : i = pos.index
  OBVIOUS
<1>6. /\ m \in Known /\ PlaceIn(pos, m) /\ fetch.used \in Nat /\ DocumentsType
      /\ m.text \in Seq(Bytes3) /\ Len(m.text) \in Nat
      /\ m.parts \in Seq(STRING) /\ Len(m.parts) \in Nat
  BY <1>1, <1>2, BuildingIs, KnownIs DEF DocumentsInv
<1>7. /\ pos.phase \in {"text", "attachments"} /\ pos.offset \in Nat
      /\ pos.phase = "text" => pos.offset <= Len(m.text)
      /\ pos.phase = "attachments" => pos.offset <= Len(m.parts)
  BY <1>6 DEF PlaceIn
<1> DEFINE due == pos.phase = "text" /\ pos.offset < Len(m.text)
<1>5. \E text, first, taken :
          /\ text = IF due THEN SubSeq(m.text, pos.offset + 1, Len(m.text)) ELSE <<>>
          /\ first = IF pos.phase = "attachments" THEN pos.offset ELSE 0
          /\ taken \in 0..(Len(m.parts) - first)
          /\ \/ /\ text = <<>> /\ taken = 0
                /\ Yield(At(i, "attachments", first))
             \/ /\ Deliver(text, SubSeq(m.parts, first + 1, first + taken))
                /\ fetch' = IF taken = Len(m.parts) - first
                            THEN Going(fetch.matches, fetch.more, At(i + 1, "text", 0),
                                       fetch.used + 1 + Len(text) + taken)
                            ELSE PausedAt(At(i, "attachments", first + taken))
  <2> DEFINE text == IF TextDue THEN SubSeq(Here.text, fetch.pos.offset + 1, EndHere) ELSE <<>>
             first == IF fetch.pos.phase = "attachments" THEN fetch.pos.offset ELSE 0
             remaining == Len(Here.parts) - first
             fitting == {n \in 0..remaining : n <= RoomLeft - Len(text)}
             count == LargestFitting(0, remaining, fitting)
             taken == IF count < 0 THEN 0 ELSE count
  <2>1. /\ TextDue => EndHere = Len(Here.text)
        /\ IF text = <<>> /\ count # remaining /\ taken = 0
           THEN Yield(At(fetch.pos.index, "attachments", first))
           ELSE /\ Deliver(text, SubSeq(Here.parts, first + 1, first + taken))
                /\ fetch' = IF taken = remaining
                            THEN Going(fetch.matches, fetch.more, At(fetch.pos.index + 1, "text", 0),
                                       fetch.used + 1 + Len(text) + taken)
                            ELSE PausedAt(At(fetch.pos.index, "attachments", first + taken))
    BY DEF TakeParts
  <2> HIDE DEF fitting
  <2>2. TextDue <=> due
    BY <1>1, <1>2 DEF TextDue
  <2>3. text = IF due THEN SubSeq(m.text, pos.offset + 1, Len(m.text)) ELSE <<>>
    BY <1>1, <1>2, <2>1, <2>2
  <2>4. first = IF pos.phase = "attachments" THEN pos.offset ELSE 0
    BY <1>2
  <2> HIDE DEF text, first
  <2>5. remaining \in Nat
    BY <1>1, <1>6, <1>7, <2>4
  <2>6. remaining = Len(m.parts) - first
    BY <1>1
  <2> HIDE DEF remaining
  <2>7. LargestFitting(0, remaining, fitting) \in (0 - 1)..remaining
    BY <2>5, SearchIs
  <2>8. count \in (0 - 1)..remaining
    BY <2>7
  <2> HIDE DEF count
  <2>9. taken \in 0..remaining
    BY <2>5, <2>8
  <2> HIDE DEF taken
  <2>10. \/ /\ text = <<>> /\ taken = 0
            /\ Yield(At(i, "attachments", first))
         \/ /\ Deliver(text, SubSeq(m.parts, first + 1, first + taken))
            /\ fetch' = IF taken = Len(m.parts) - first
                        THEN Going(fetch.matches, fetch.more, At(i + 1, "text", 0),
                                   fetch.used + 1 + Len(text) + taken)
                        ELSE PausedAt(At(i, "attachments", first + taken))
    <3>1. CASE text = <<>> /\ count # remaining /\ taken = 0
      BY <1>2, <1>3, <2>1, <3>1
    <3>2. CASE ~(text = <<>> /\ count # remaining /\ taken = 0)
      BY <1>1, <1>2, <1>3, <2>1, <2>6, <3>2
    <3> QED
      BY <3>1, <3>2
  <2> QED
    BY <2>3, <2>4, <2>6, <2>9, <2>10
<1>4. PICK text, first, taken :
          /\ text = IF due THEN SubSeq(m.text, pos.offset + 1, Len(m.text)) ELSE <<>>
          /\ first = IF pos.phase = "attachments" THEN pos.offset ELSE 0
          /\ taken \in 0..(Len(m.parts) - first)
          /\ \/ /\ text = <<>> /\ taken = 0
                /\ Yield(At(i, "attachments", first))
             \/ /\ Deliver(text, SubSeq(m.parts, first + 1, first + taken))
                /\ fetch' = IF taken = Len(m.parts) - first
                            THEN Going(fetch.matches, fetch.more, At(i + 1, "text", 0),
                                       fetch.used + 1 + Len(text) + taken)
                            ELSE PausedAt(At(i, "attachments", first + taken))
  BY <1>5
<1> DEFINE remaining == Len(m.parts) - first
           last == At(i, "attachments", first + taken)
           here == At(i, "attachments", first)
           cut == SubSeq(m.parts, first + 1, first + taken)
<1>8. first \in Nat /\ first \in 0..Len(m.parts) /\ remaining \in Nat
  BY <1>4, <1>6, <1>7
<1>9. taken \in 0..remaining
  BY <1>4
<1>10. text \in Seq(Bytes3) /\ Len(text) \in Nat
  <2>1. CASE due
    <3> DEFINE t == m.text
               o == pos.offset
    <3>1. text = SubSeq(t, o + 1, Len(t))
      BY <1>4, <2>1
    <3>2. o + 1 \in 1..Len(t) /\ t \in Seq(Bytes3) /\ Len(t) \in Nat
      BY <1>6, <1>7, <2>1
    <3> HIDE DEF t, o
    <3>3. SubSeq(t, o + 1, Len(t)) \in Seq(Bytes3)
      BY <3>2
    <3> QED
      BY <3>1, <3>3
  <2>2. CASE ~due
    <3>1. text = <<>>
      BY <1>4, <2>2
    <3> QED
      BY <3>1
  <2> QED
    BY <2>1, <2>2
<1>11. /\ last.phase = "attachments" /\ last.offset = first + taken
       /\ here.phase = "attachments" /\ here.offset = first
  BY DEF At
<1>12. /\ first + taken \in Nat /\ first + taken \in first..Len(m.parts)
       /\ taken = remaining => first + taken = Len(m.parts)
       /\ first + taken <= Len(m.parts) /\ taken \in Nat
  BY <1>6, <1>8, <1>9
<1>13. ~moved => /\ Had(m.doc).text = TextSoFar(m.text, pos)
                 /\ m \in steady => Had(m.doc).parts = PartsSoFar(m.parts, pos)
  BY <1>1, <1>2, BuildingIs
<1>14. PartsSoFar(m.parts, pos) = SubSeq(m.parts, 1, first)
  BY <1>4, <1>7 DEF PartsSoFar
<1>15. TextSoFar(m.text, pos) \o text = m.text
  <2>1. CASE due
    <3> DEFINE t == m.text
               o == pos.offset
    <3>1. TextSoFar(t, pos) = SubSeq(t, 1, o) /\ text = SubSeq(t, o + 1, Len(t))
      BY <1>4, <2>1 DEF TextSoFar
    <3>2. o \in 0..Len(t) /\ Len(t) \in o..Len(t) /\ t \in Seq(Bytes3)
      BY <1>6, <1>7, <2>1
    <3> HIDE DEF t, o
    <3>3. SubSeq(t, 1, o) \o SubSeq(t, o + 1, Len(t)) = SubSeq(t, 1, Len(t))
      BY <3>2, Joined
    <3>4. SubSeq(t, 1, Len(t)) = t
      BY <3>2
    <3>5. t = m.text
      BY DEF t
    <3> QED
      BY <3>1, <3>3, <3>4, <3>5
  <2>2. CASE ~due
    <3>1. text = <<>> /\ (pos.phase = "attachments" \/ pos.offset = Len(m.text))
      BY <1>4, <1>6, <1>7, <2>2
    <3>2. TextSoFar(m.text, pos) = m.text
      BY <1>6, <1>7, <3>1, SoFarIs
    <3> QED
      BY <1>6, <3>1, <3>2
  <2> QED
    BY <2>1, <2>2
<1>16. cut \in Seq(STRING)
       /\ SubSeq(m.parts, 1, first) \o cut = SubSeq(m.parts, 1, first + taken)
  <2> DEFINE parts == m.parts
             b == first + taken
  <2>1. parts \in Seq(STRING) /\ first \in 0..Len(parts) /\ b \in first..Len(parts) /\ b \in Nat
    BY <1>6, <1>8, <1>12
  <2> HIDE DEF parts, b
  <2>2. SubSeq(parts, first + 1, b) \in Seq(STRING)
    BY <2>1
  <2>3. SubSeq(parts, 1, first) \o SubSeq(parts, first + 1, b) = SubSeq(parts, 1, b)
    BY <2>1, Joined
  <2> QED
    BY <2>2, <2>3 DEF parts, b
<1>17. PlaceIn(last, m) /\ PlaceIn(here, m)
  <2>1. /\ first + taken \in Nat /\ first + taken <= Len(m.parts)
        /\ first \in Nat /\ first <= Len(m.parts)
    BY <1>6, <1>8, <1>12
  <2> HIDE DEF last, here
  <2> QED
    BY <1>11, <2>1 DEF PlaceIn
<1>18. /\ TextSoFar(m.text, last) = m.text /\ TextSoFar(m.text, here) = m.text
       /\ PartsSoFar(m.parts, last) = SubSeq(m.parts, 1, first + taken)
       /\ PartsSoFar(m.parts, here) = SubSeq(m.parts, 1, first)
  BY <1>11 DEF TextSoFar, PartsSoFar
<1>19. taken = remaining => last = At(i, "attachments", Len(m.parts))
  BY <1>12
<1> HIDE DEF last, here, cut, remaining, due
<1>20. CASE text = <<>> /\ Yield(here)
  <2>2. ~moved => /\ Had(m.doc).text = TextSoFar(m.text, here)
                  /\ m \in steady => Had(m.doc).parts = PartsSoFar(m.parts, here)
    <3>1. TextSoFar(m.text, pos) = m.text
      <4>1. IsPrefix(TextSoFar(m.text, pos), m.text)
        BY <1>6, SoFarIs
      <4>2. TextSoFar(m.text, pos) \in Seq(Bytes3)
        BY <1>6, <1>7 DEF TextSoFar
      <4> QED
        BY <1>15, <1>20, <4>2
    <3> QED
      BY <1>13, <1>14, <1>18, <3>1
  <2> QED
    BY <1>1, <1>17, <1>20, <2>2, YieldKeeps
<1>21. CASE /\ Deliver(text, cut)
            /\ fetch' = IF taken = remaining
                        THEN Going(fetch.matches, fetch.more, At(i + 1, "text", 0),
                                   fetch.used + 1 + Len(text) + taken)
                        ELSE PausedAt(last)
  <2>2. /\ GotType' /\ DOMAIN got' = DOMAIN got \union {m.doc}
        /\ \A d \in DOMAIN got : d # m.doc => got'[d] = got[d]
        /\ Had(m.doc)'.text = Had(m.doc).text \o text
        /\ Had(m.doc)'.parts = Had(m.doc).parts \o cut
    BY <1>1, <1>6, <1>10, <1>16, <1>21, DeliverIs
  <2>3. Served(m, last)
    BY <1>13, <1>14, <1>15, <1>16, <1>18, <2>2 DEF Served
  <2>4. CASE taken = remaining
    <3>1. PICK used : used = fetch.used + 1 + Len(text) + taken
      OBVIOUS
    <3>2. used \in Nat
      BY <1>6, <1>10, <1>12, <3>1
    <3>3. fetch' = Going(fetch.matches, fetch.more, At(i + 1, "text", 0), used)
      BY <1>21, <2>4, <3>1
    <3>4. Served(m, At(i, "attachments", Len(m.parts))) /\ m.doc \in DOMAIN got'
      BY <1>19, <2>2, <2>3, <2>4
    <3> QED
      BY <1>1, <1>2, <1>3, <3>2, <3>3, <3>4, GoOnKeeps
  <2>5. CASE taken # remaining
    <3>1. fetch' = PausedAt(last)
      BY <1>21, <2>5
    <3> QED
      BY <1>1, <1>17, <2>3, <3>1, PauseKeeps
  <2> QED
    BY <2>4, <2>5
<1> QED
  BY <1>4, <1>20, <1>21 DEF here, last, cut, remaining

\* The pages of a lookup stay in step with what the reader was given.
LEMMA DocumentsNextInv == DocumentsInv /\ [DocumentsNext]_documentsVars => DocumentsInv'
<1> SUFFICES ASSUME DocumentsInv, [DocumentsNext]_documentsVars PROVE DocumentsInv'
  OBVIOUS
<1>1. CASE Fetch
  BY <1>1, FetchKeeps
<1>2. CASE Continue
  BY <1>2, ContinueKeeps
<1>3. CASE GoStale
  <2>1. /\ fetch' = [at |-> "stale"] /\ got' = got
        /\ UNCHANGED <<matching, steady, moved, edits>>
    BY <1>3 DEF GoStale
  <2>2. fetch'.at = "stale" /\ DocumentsType
    BY <2>1 DEF DocumentsInv
  <2>3. GotType'
    BY <2>1, <2>2 DEF DocumentsType, GotType
  <2>4. DocumentsType'
    BY <2>1, <2>2, <2>3, Unmoved DEF DocumentsType
  <2>5. ~moved' => OfOneRevision'
    BY <2>1 DEF DocumentsInv, OfOneRevision
  <2> QED
    BY <2>2, <2>4, <2>5 DEF DocumentsInv
<1>4. CASE TakeMatch
  BY <1>4, TakeNothingKeeps, TakeSomeTextKeeps, TakePartsKeeps DEF TakeMatch
<1>5. ASSUME NEW d \in Names, Admit(d) PROVE DocumentsInv'
  BY <1>5, AdmitKeeps
<1>6. ASSUME NEW i \in DOMAIN matching, Reprocess(i) \/ ForgetMatch(i) PROVE DocumentsInv'
  BY <1>6, ReprocessKeeps, ForgetMatchKeeps
<1>7. CASE UNCHANGED documentsVars
  <2>1. fetch' = fetch /\ got' = got /\ matching' = matching /\ steady' = steady /\ moved' = moved
    BY <1>7 DEF documentsVars
  <2> QED
    BY <2>1 DEF DocumentsInv, DocumentsType, GotType, PagingType, BuildingType, Here,
                OfOneRevision, Finished, Whole, AtCursor, Resumable, Had, AtPlace, Around,
                InOrder, Returned
<1> QED
  BY <1>1, <1>2, <1>3, <1>4, <1>5, <1>6, <1>7 DEF DocumentsNext

LEMMA NothingMixed == DocumentsInv => NeverMixed
BY DEF DocumentsInv, NeverMixed, Finished, Whole, OfOneRevision

\* What a reader of documents has is what brought it to the position it is at, in
\* every revision that the lookup has seen.
THEOREM DocumentsInductive == DocumentsSpec => []DocumentsInv
BY DocumentsStart, DocumentsNextInv, PTL DEF DocumentsSpec

\* However documents are admitted, processed again and forgotten between two pages.
THEOREM DocumentsNeverMixed == DocumentsSpec => []NeverMixed
BY DocumentsInductive, NothingMixed, PTL

\* Both readers, whatever happens to documents meanwhile.
THEOREM ReadersArriveWhole == ReadingSpec => []ArrivesWhole
<1> DEFINE Inv == EvidenceInv /\ DocumentsInv
<1>1. ReadingInit => Inv
  BY EvidenceStarts, DocumentsStart DEF ReadingInit
<1>2. Inv /\ [ReadingNext]_<<evidenceVars, documentsVars>> => Inv'
  BY EvidenceNextInv, DocumentsNextInv DEF ReadingNext, DocumentsNext, EvidenceNext
<1>3. Inv => ArrivesWhole
  BY WholeDelivery, NothingMixed DEF ArrivesWhole
<1> QED
  BY <1>1, <1>2, <1>3, PTL DEF ReadingSpec
=============================================================================
