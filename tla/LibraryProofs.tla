---------------------------- MODULE LibraryProofs ----------------------------
(***************************************************************************)
(* Theorems about the library, for every number of contents, whatever      *)
(* they hold, of paths, versions, changes and commands.                    *)
(***************************************************************************)
EXTENDS Library, SetInduction, FiniteSetTheorems, TLAPS

-----------------------------------------------------------------------------
(* Closure.                                                                *)

\* What is reached from T in one step along R.
NextOf(T, R) == {r[2] : r \in {q \in R : q[1] \in T}}
Closed(T, R) == \A r \in R : r[1] \in T => r[2] \in T

Chosen(s) == CHOOSE n \in s : TRUE
Onward(f, S, R, s) ==
    IF s = {} THEN S ELSE f[s \ {Chosen(s)}] \union NextOf(f[s \ {Chosen(s)}], R)
Reaches(f, S, R, N) == f = [s \in SUBSET N |-> Onward(f, S, R, s)]

LEMMA ReachesExists ==
    ASSUME NEW N, IsFiniteSet(N), NEW S, NEW R
    PROVE  \E f : Reaches(f, S, R, N)
<1> DEFINE Small(n) == {s \in SUBSET N : Cardinality(s) <= n}
           Good(n) == \E f : f = [s \in Small(n) |-> Onward(f, S, R, s)]
           Bad == {n \in Nat : ~Good(n)}
<1>1. \A T \in SUBSET N : IsFiniteSet(T) /\ Cardinality(T) \in Nat
  BY FS_Subset, FS_CardinalityType
<1>2. \A T \in SUBSET N : T # {} =>
          /\ Chosen(T) \in T
          /\ T \ {Chosen(T)} \in SUBSET N
          /\ Cardinality(T \ {Chosen(T)}) = Cardinality(T) - 1
  BY <1>1, FS_RemoveElement DEF Chosen
<1>3. \A T \in SUBSET N : Cardinality(T) = 0 <=> T = {}
  BY <1>1, FS_EmptySet
<1>4. Good(0)
  <2> DEFINE f == [s \in Small(0) |-> S]
  <2>1. \A s \in Small(0) : s = {}
    BY <1>1, <1>3
  <2>2. f = [s \in Small(0) |-> Onward(f, S, R, s)]
    BY <2>1 DEF Onward
  <2> QED BY <2>2
<1>5. ASSUME NEW n \in Nat, Good(n) PROVE Good(n + 1)
  <2>1. PICK g : g = [s \in Small(n) |-> Onward(g, S, R, s)]
    BY <1>5
  <2> DEFINE f == [s \in Small(n + 1) |-> Onward(g, S, R, s)]
  <2>2. \A s \in Small(n) : s \in Small(n + 1) /\ f[s] = g[s]
    BY <1>1, <2>1
  <2>3. ASSUME NEW s \in Small(n + 1), s # {}
        PROVE  s \ {Chosen(s)} \in Small(n)
    <3>1. Cardinality(s) \in Nat /\ Cardinality(s) <= n + 1
      BY <1>1
    <3> QED BY <1>2, <2>3, <3>1
  <2>4. \A s \in Small(n + 1) : f[s] = Onward(f, S, R, s)
    <3> SUFFICES ASSUME NEW s \in Small(n + 1)
                 PROVE  Onward(g, S, R, s) = Onward(f, S, R, s)
      OBVIOUS
    <3> QED BY <2>2, <2>3 DEF Onward
  <2>5. f = [s \in Small(n + 1) |-> Onward(f, S, R, s)]
    BY <2>4
  <2> QED BY <2>5
<1>6. Good(Cardinality(N))
  <2>1. SUFFICES ASSUME Bad # {} PROVE FALSE
    BY <1>1
  <2> HIDE DEF Good
  <2>2. PICK m \in Bad : \A n \in Bad : m <= n
    BY <2>1, LeastElement
  <2>3. m # 0 /\ m - 1 \in Nat /\ m - 1 \notin Bad
    BY <1>4, <2>2
  <2> QED BY <1>5, <2>2, <2>3
<1>7. Small(Cardinality(N)) = SUBSET N
  BY <1>1, FS_Subset
<1> QED
  BY <1>6, <1>7 DEF Reaches

LEMMA ClosureReaches ==
    ASSUME NEW S, NEW R
    PROVE  \E f : /\ Reaches(f, S, R, 1..Cardinality(Contents))
                  /\ Closure(S, R) = f[1..Cardinality(Contents)]
<1> DEFINE N == 1..Cardinality(Contents)
           Fold ==
             LET iter[s \in SUBSET N] ==
                   IF s = {} THEN S
                   ELSE LET x == CHOOSE n \in s : TRUE
                        IN  UNION {U \union {r[2] : r \in {q \in R : q[1] \in U}} :
                                      U \in {iter[s \ {x}]}}
             IN  iter
<1>1. Closure(S, R) = Fold[N]
  BY Zenon DEF Closure, FoldSet, MapThenFoldSet
<1> DEFINE P(f) == f = [s \in SUBSET N |->
                IF s = {} THEN S
                ELSE UNION {U \union {r[2] : r \in {q \in R : q[1] \in U}} :
                               U \in {f[s \ {Chosen(s)}]}}]
<1>2. Fold = CHOOSE f : P(f)
  BY Zenon DEF Chosen
<1> HIDE DEF Fold
<1>3. ASSUME NEW f PROVE P(f) <=> Reaches(f, S, R, N)
  <2>1. \A U, V : V = U \union {r[2] : r \in {q \in R : q[1] \in U}}
                    => UNION {W \union {r[2] : r \in {q \in R : q[1] \in W}} : W \in {U}} = V
    BY Zenon
  <2>2. ASSUME NEW s
        PROVE  (IF s = {} THEN S
                ELSE UNION {U \union {r[2] : r \in {q \in R : q[1] \in U}} :
                               U \in {f[s \ {Chosen(s)}]}})
               = Onward(f, S, R, s)
    <3> DEFINE W == f[s \ {Chosen(s)}]
    <3>1. Onward(f, S, R, s) = IF s = {} THEN S ELSE W \union NextOf(W, R)
      BY DEF Onward
    <3> HIDE DEF W
    <3>2. UNION {U \union {r[2] : r \in {q \in R : q[1] \in U}} : U \in {W}}
              = W \union NextOf(W, R)
      BY <2>1, Zenon DEF NextOf
    <3> QED BY <3>1, <3>2, Zenon DEF W
  <2> QED BY <2>2, Zenon DEF Reaches
<1>4. IsFiniteSet(N)
  BY FS_CardinalityType, LibraryAssumption, FS_Interval
<1>5. \E f : P(f)
  BY <1>3, <1>4, ReachesExists
<1> HIDE DEF P
<1>6. Reaches(Fold, S, R, N)
  BY <1>2, <1>3, <1>5
<1> QED
  BY <1>1, <1>6

\* What Closure computes is the least set that has S and is closed under R.
LEMMA ClosureIs ==
    ASSUME NEW S \in SUBSET Contents, NEW R \in SUBSET (Contents \X Contents)
    PROVE  /\ S \subseteq Closure(S, R)
           /\ Closure(S, R) \subseteq Contents
           /\ Closed(Closure(S, R), R)
           /\ \A T : S \subseteq T /\ Closed(T, R) => Closure(S, R) \subseteq T
<1> DEFINE N == 1..Cardinality(Contents)
<1>0. IsFiniteSet(Contents) /\ Cardinality(Contents) \in Nat
  BY LibraryAssumption, FS_CardinalityType
<1>1. PICK f : Reaches(f, S, R, N) /\ Closure(S, R) = f[N]
  BY ClosureReaches
<1>2. IsFiniteSet(N) /\ Cardinality(N) = Cardinality(Contents)
  BY <1>0, FS_Interval
<1>3. \A r \in R : r[1] \in Contents /\ r[2] \in Contents
  OBVIOUS
<1> HIDE DEF N
<1>4. \A s \in SUBSET N : IsFiniteSet(s) /\ Cardinality(s) \in Nat
  BY <1>2, FS_Subset, FS_CardinalityType
<1>5. \A s \in SUBSET N : s # {} =>
          /\ Chosen(s) \in s /\ s \ {Chosen(s)} \in SUBSET N
          /\ f[s] = f[s \ {Chosen(s)}] \union NextOf(f[s \ {Chosen(s)}], R)
  BY <1>1 DEF Reaches, Onward, Chosen
<1>6. \A s \in SUBSET N : s # {} =>
          Cardinality(s) = Cardinality(s \ {Chosen(s)}) + 1
  <2>1. \A s \in SUBSET N : s # {} => Chosen(s) \in s
    BY DEF Chosen
  <2>2. \A s \in SUBSET N : s # {} =>
            /\ Cardinality(s \ {Chosen(s)}) = Cardinality(s) - 1
            /\ Cardinality(s) \in Nat
    BY <1>4, <2>1, FS_RemoveElement
  <2> QED BY <2>2
<1>7. f[{}] = S
  BY <1>1 DEF Reaches, Onward
<1> DEFINE Large(s) == Closed(f[s], R) \/ Cardinality(f[s]) >= Cardinality(s)
           F == {s \in SUBSET N : S \subseteq f[s] /\ f[s] \subseteq Contents /\ Large(s)}
<1>8. ASSUME NEW s \in SUBSET N, \A x \in s : s \ {x} \in F PROVE s \in F
  <2>1. CASE s = {}
    <3>1. Cardinality(f[s]) \in Nat /\ Cardinality(s) = 0
      BY <1>0, <1>7, <2>1, FS_Subset, FS_CardinalityType, FS_EmptySet
    <3> QED BY <1>7, <2>1, <3>1
  <2>2. CASE s # {}
    <3> DEFINE t == s \ {Chosen(s)}
               U == f[t]
    <3>1. t \in F /\ f[s] = U \union NextOf(U, R)
      BY <1>5, <1>8, <2>2
    <3>2. Cardinality(s) = Cardinality(t) + 1
      BY <1>4, <1>6, <2>2
    <3>3. S \subseteq U /\ U \subseteq Contents /\ Large(t)
      BY <3>1
    <3> HIDE DEF t, U
    <3>4. f[s] \subseteq Contents
      BY <1>3, <3>1, <3>3 DEF NextOf
    <3>5. CASE Closed(U, R)
      <4>1. f[s] = U
        BY <3>1, <3>5 DEF Closed, NextOf
      <4> QED BY <3>3, <3>5, <4>1
    <3>6. CASE ~Closed(U, R)
      <4>1. PICK r \in R : r[1] \in U /\ r[2] \notin U
        BY <3>6 DEF Closed
      <4>2. r[2] \in f[s] /\ U \subseteq f[s]
        BY <3>1, <4>1 DEF NextOf
      <4>3. IsFiniteSet(f[s]) /\ IsFiniteSet(U)
        BY <1>0, <3>3, <3>4, FS_Subset
      <4>4. U \union {r[2]} \subseteq f[s]
        BY <4>2
      <4>5. Cardinality(U \union {r[2]}) = Cardinality(U) + 1
        BY <4>1, <4>3, FS_AddElement
      <4>6. Cardinality(U \union {r[2]}) <= Cardinality(f[s])
        BY <4>3, <4>4, FS_Subset
      <4>7. Cardinality(U) \in Nat /\ Cardinality(f[s]) \in Nat /\ Cardinality(t) \in Nat
        BY <1>4, <4>3, FS_CardinalityType DEF t
      <4>8. Cardinality(U) >= Cardinality(t)
        BY <3>3, <3>6 DEF U
      <4>9. Cardinality(f[s]) >= Cardinality(s)
        BY <3>2, <4>5, <4>6, <4>7, <4>8
      <4> QED BY <3>3, <3>4, <4>2, <4>9
    <3> QED BY <3>5, <3>6
  <2> QED BY <2>1, <2>2
<1>9. N \in F
  <2>1. \A s \in SUBSET N : (\A x \in s : s \ {x} \in F) => s \in F
    BY <1>8
  <2> HIDE DEF F
  <2>2. \A s \in SUBSET N : s \in F
    BY <1>2, <2>1, Inductively
  <2> QED BY <2>2
<1>10. Closed(f[N], R)
  <2>1. SUFFICES ASSUME Cardinality(f[N]) >= Cardinality(Contents) PROVE Closed(f[N], R)
    BY <1>2, <1>9
  <2>2. f[N] = Contents
    BY <1>0, <1>9, <2>1, FS_Subset, FS_CardinalityType
  <2> QED BY <1>3, <2>2 DEF Closed
<1>11. ASSUME NEW T, S \subseteq T, Closed(T, R) PROVE f[N] \subseteq T
  <2>0. \A U : U \subseteq T => U \union NextOf(U, R) \subseteq T
    BY <1>11 DEF NextOf, Closed
  <2> DEFINE G == {s \in SUBSET N : f[s] \subseteq T}
  <2>1. ASSUME NEW s \in SUBSET N, \A x \in s : s \ {x} \in G PROVE s \in G
    <3>1. CASE s = {}
      BY <1>7, <1>11, <3>1
    <3>2. CASE s # {}
      <4>1. f[s \ {Chosen(s)}] \subseteq T
        BY <1>5, <2>1, <3>2
      <4>2. f[s] \subseteq T
        <5>1. f[s] = f[s \ {Chosen(s)}] \union NextOf(f[s \ {Chosen(s)}], R)
          BY <1>5, <3>2
        <5> QED BY <2>0, <4>1, <5>1, Zenon
      <4> QED BY <4>2
    <3> QED BY <3>1, <3>2
  <2>2. \A s \in SUBSET N : (\A x \in s : s \ {x} \in G) => s \in G
    BY <2>1
  <2> HIDE DEF G
  <2>3. \A s \in SUBSET N : s \in G
    BY <1>2, <2>2, Inductively
  <2> QED BY <2>3 DEF G
<1> QED
  BY <1>1, <1>9, <1>10, <1>11

LEMMA ClosureGrows ==
    ASSUME NEW S \in SUBSET Contents, NEW T \in SUBSET S,
           NEW R \in SUBSET (Contents \X Contents)
    PROVE  Closure(T, R) \subseteq Closure(S, R)
BY ClosureIs

-----------------------------------------------------------------------------
(* The inductive invariant.                                                *)

\* How far a command has come, by what it is.
Phases == [none |-> {"-"}, ingest |-> {"walk", "legacy", "drain", "again"},
           sweep |-> {"walk", "contain", "plan", "delete"},
           forget |-> {"walk", "contain", "plan", "delete"}]
Places == {"-", "walk", "legacy", "contain", "drain", "again", "plan", "delete"}
Runs == [op : {"none"} \union Ops, at : Places, listed : SUBSET Paths,
         clean : BOOLEAN, plan : SUBSET Contents]
RunOK ==
    /\ run \in Runs
    /\ run.at \in Phases[run.op]
    /\ run.op = "none" => Idle

\* Jobs are known documents', and run only in an ingestion.
JobsOK ==
    /\ \A c \in Contents : job[c] # "none" => c \in Known
    /\ Running # {} => run.op = "ingest"

\* Occurrences are of known documents.
Recorded(p) ==
    /\ occ[p].available => occ[p].doc # None
    /\ occ[p].doc # None => occ[p].doc \in Known

Tables == LibraryTypeOK /\ RunOK /\ JobsOK /\ \A p \in Paths : Recorded(p)

\* A steady file that has been visited is observed, unless it was deferred; one
\* of unknown content only by an ingestion.
Present == {p \in steady : disk[p] # None}
Observed(p) == occ[p].available /\ occ[p].doc = disk[p]
Visiting(p) ==
    \/ p \in run.listed
    \/ occ[p].seen /\ Observed(p)
    \/ run.op # "ingest" /\ disk[p] \notin Known
WalkInv == run.at = "walk" /\ run.clean => \A p \in Present : Visiting(p)

\* After a complete scan it stays so, and no wait for it is recorded again.
ScanInv ==
    run.op = "ingest" /\ run.at # "walk" /\ run.clean => \A p \in Present : Observed(p)
AgainInv ==
    run.at = "again" =>
        /\ run.clean
        /\ \A p \in Present : job[disk[p]] \notin {"missing", "waiting"}

\* Once a known file is bound, what it holds through known containers is
\* recorded.
Bound(p) == disk[p] \in Known => Replays(disk[p], FALSE) \subseteq holds
Shown(p) == disk[p] \in Known => doc[disk[p]].shown
BoundInv ==
    /\ run.op \in {"sweep", "forget"} /\ run.at = "walk" /\ run.clean =>
          \A p \in Present : p \in run.listed \/ Bound(p)
    /\ run.at \in {"contain", "plan"} =>
          run.clean /\ \A p \in Present : Bound(p) /\ Shown(p)

\* A plan spares what staged files hold.
Links == {r \in PartPairs : r[1] \in Known /\ r[2] \notin Ignored}
LinksWithout(c) ==
    {r \in PartPairs : r[1] \in Known \ {c} /\ r[2] \notin Ignored \union {c}}
Spares(c) == run.plan \intersect Closure(SteadyFiles \ {c}, LinksWithout(c)) = {}
PlanInv ==
    run.at = "delete" =>
        /\ run.op = "sweep" => run.plan \intersect Closure(SteadyFiles, Links) = {}
        /\ run.op = "forget" /\ run.plan # {} => \E c \in run.plan : Spares(c)

Phase == WalkInv /\ ScanInv /\ AgainInv /\ BoundInv /\ PlanInv
IInv == Tables /\ Phase

-----------------------------------------------------------------------------
(* What is typed.                                                          *)

LEMMA PartPairsAre ==
    PartPairs = {r \in Contents \X Contents : Reads(r[1]) \in Containers /\ r[2] \in Parts[r[1]]}
<1>1. ASSUME NEW r \in PartPairs
      PROVE  r \in Contents \X Contents /\ Reads(r[1]) \in Containers /\ r[2] \in Parts[r[1]]
  <2>1. PICK c \in Contents : Reads(c) \in Containers /\ r \in {c} \X Parts[c]
    BY DEF PartPairs
  <2>2. Parts[c] \subseteq Contents
    BY LibraryAssumption
  <2> QED BY <2>1, <2>2
<1>2. ASSUME NEW r \in Contents \X Contents, Reads(r[1]) \in Containers, r[2] \in Parts[r[1]]
      PROVE  r \in PartPairs
  <2>1. r \in {r[1]} \X Parts[r[1]] /\ r[1] \in Contents
    BY <1>2
  <2> QED BY <1>2, <2>1 DEF PartPairs
<1> DEFINE P == {r \in Contents \X Contents : Reads(r[1]) \in Containers /\ r[2] \in Parts[r[1]]}
<1>3. \A r : r \in PartPairs <=> r \in P
  BY <1>1, <1>2
<1> HIDE DEF P
<1>4. PartPairs = P
  BY <1>3
<1> QED BY <1>4 DEF P

LEMMA Typed ==
    ASSUME LibraryTypeOK
    PROVE  /\ Known \subseteq Contents /\ Running \subseteq Contents
           /\ \A c \in Contents :
                 /\ doc[c].status \in Statuses /\ doc[c].type \in Routes
                 /\ doc[c].shown \in BOOLEAN
                 /\ doc[c] = [status |-> doc[c].status, type |-> doc[c].type,
                              shown |-> doc[c].shown]
                 /\ job[c] \in JobStages /\ Reads(c) \in Routes
                 /\ Parts[c] \subseteq Contents
           /\ \A p \in Paths :
                 /\ disk[p] \in Contents \union {None}
                 /\ occ[p].doc \in Contents \union {None}
                 /\ occ[p].seen \in BOOLEAN /\ occ[p].available \in BOOLEAN
           /\ holds \in SUBSET (Contents \X Contents)
           /\ members \in SUBSET (Contents \X Contents)
           /\ PartPairs \in SUBSET (Contents \X Contents)
           /\ None \notin Contents
<1>1. Known \subseteq Contents /\ Running \subseteq Contents /\ None \notin Contents
  BY LibraryAssumption DEF Known, Running
<1>2. ASSUME NEW c \in Contents
      PROVE  /\ doc[c].status \in Statuses /\ doc[c].type \in Routes
             /\ doc[c].shown \in BOOLEAN
             /\ doc[c] = [status |-> doc[c].status, type |-> doc[c].type,
                          shown |-> doc[c].shown]
             /\ job[c] \in JobStages /\ Reads(c) \in Routes
             /\ Parts[c] \subseteq Contents
  <2>1. doc[c] \in Document /\ job[c] \in JobStages
    BY DEF LibraryTypeOK
  <2>2. Reads(c) \in Routes /\ Parts[c] \subseteq Contents
    BY LibraryAssumption DEF LibraryTypeOK, Reads
  <2> QED BY <2>1, <2>2 DEF Document
<1>3. ASSUME NEW p \in Paths
      PROVE  /\ disk[p] \in Contents \union {None}
             /\ occ[p].doc \in Contents \union {None}
             /\ occ[p].seen \in BOOLEAN /\ occ[p].available \in BOOLEAN
  <2>1. occ[p] \in Occurrence /\ disk[p] \in Contents \union {None}
    BY DEF LibraryTypeOK
  <2> QED BY <2>1 DEF Occurrence
<1>4. holds \in SUBSET (Contents \X Contents) /\ members \in SUBSET (Contents \X Contents)
  BY <1>1 DEF LibraryTypeOK
<1>5. PartPairs \in SUBSET (Contents \X Contents)
  BY <1>2, PartPairsAre
<1> QED BY <1>1, <1>2, <1>3, <1>4, <1>5

\* A document as it is routed now.
LEMMA Stubs ==
    ASSUME LibraryTypeOK, NEW c \in Contents, NEW b \in BOOLEAN
    PROVE  /\ Stub(c, b) \in Document
           /\ Stub(c, b).status # "none" /\ Stub(c, b).shown = b
           /\ FirstJob(c) \in {"none", "ready"}
<1>1. Reads(c) \in Routes
  BY Typed
<1> QED BY <1>1 DEF Stub, Document, Statuses, FirstJob

\* Settling changes routes and jobs of known documents that are not running, and
\* nothing else.
LEMMA SettledTables ==
    ASSUME LibraryTypeOK, NEW S \in SUBSET Contents,
           NEW R \in SUBSET (Known \X Known), Settled(S, R)
    PROVE  /\ doc' \in [Contents -> Document]
           /\ job' \in [Contents -> JobStages]
           /\ Known' = Known
           /\ \A c \in Contents : job'[c] # "none" => job[c] # "none" \/ c \in Known
           /\ Running' = Running
           /\ holds' \subseteq Known \X Known /\ members' \subseteq holds'
<1>1. \A c \in Contents : Settles(c) => c \in Known /\ c \notin Running
  BY DEF Settles, Rerouted, Refused
<1>2. \A c \in Contents : Stub(c, doc[c].shown) \in Document /\ FirstJob(c) \in {"none", "ready"}
                          /\ Stub(c, doc[c].shown).status # "none"
  BY Typed, Stubs
<1>3. /\ doc' = [c \in Contents |->
            IF c \notin S \/ ~Settles(c) THEN doc[c] ELSE Stub(c, doc[c].shown)]
      /\ job' = [c \in Contents |->
            IF c \notin S \/ ~Settles(c) THEN job[c] ELSE FirstJob(c)]
  BY DEF Settled
<1>4. \A c \in Contents : doc[c] \in Document /\ job[c] \in JobStages
  BY DEF LibraryTypeOK
<1>5. doc' \in [Contents -> Document] /\ job' \in [Contents -> JobStages]
  BY <1>2, <1>3, <1>4 DEF JobStages
<1>6. \A c \in Contents : doc'[c].status # "none" <=> c \in Known
  BY <1>1, <1>2, <1>3 DEF Known
<1>7. Known' = Known
  BY <1>6 DEF Known
<1>8. \A c \in Contents : job'[c] # "none" => job[c] # "none" \/ c \in Known
  BY <1>1, <1>3
<1>9. \A c \in Contents : job'[c] \in {"found", "missing"} <=> job[c] \in {"found", "missing"}
  BY <1>1, <1>2, <1>3 DEF Running
<1>10. Running' = Running
  BY <1>9 DEF Running
<1>11. holds' \subseteq holds \union R /\ members' \subseteq holds'
  BY DEF Settled, LibraryTypeOK
<1> QED BY <1>5, <1>7, <1>8, <1>10, <1>11 DEF LibraryTypeOK

\* Containment that is found again is of known documents.
LEMMA ReplaysKnown ==
    ASSUME LibraryTypeOK, NEW c \in Known, NEW b
    PROVE  Replays(c, b) \in SUBSET (Known \X Known)
<1> DEFINE R == {r \in PartPairs : r[2] \in Known /\ ~(b /\ Settles(r[2]))}
<1>1. {c} \in SUBSET Contents /\ R \in SUBSET (Contents \X Contents)
  BY Typed
<1>2. Closed(Known, R)
  BY DEF Closed
<1> HIDE DEF R
<1>3. Closure({c}, R) \subseteq Known
  BY <1>1, <1>2, ClosureIs
<1>4. Replayed(c, b) \subseteq Known
  BY <1>3 DEF Replayed, R
<1> QED BY <1>4 DEF Replays

-----------------------------------------------------------------------------
(* Steps that begin, end or leave alone a command.                         *)

LEMMA QuietPhase == ASSUME run' = Quiet PROVE Phase' /\ (RunOK' <=> TRUE)
<1>1. run'.op = "none" /\ run'.at = "-"
  BY DEF Quiet
<1>2. RunOK'
  <2>1. run' \in Runs
    BY DEF Quiet, Places, Runs
  <2>2. run'.at \in Phases[run'.op]
    BY <1>1 DEF Phases
  <2>3. Idle'
    BY DEF Idle, Quiet
  <2> QED BY <2>1, <2>2, <2>3 DEF RunOK
<1> QED
  BY <1>1, <1>2 DEF Phase, WalkInv, ScanInv, AgainInv, BoundInv, PlanInv

\* What a walk begins with: every file is still to be visited.
LEMMA WalkBegins ==
    ASSUME Tables, NEW op \in Ops, Walk(op)
    PROVE  /\ Phase' /\ RunOK' /\ \A p \in Paths : Recorded(p)'
           /\ occ' \in [Paths -> Occurrence] /\ steady' \subseteq Paths
           /\ run'.op = op
<1>1. run' = [op |-> op, at |-> "walk", listed |-> {p \in Paths : disk[p] # None},
              clean |-> TRUE, plan |-> {}]
  BY DEF Walk, Quiet
<1>2. RunOK'
  <2>1. run' \in Runs
    BY <1>1 DEF Places, Runs
  <2>2. run'.op = op /\ run'.at = "walk"
    BY <1>1
  <2>3. run'.op # "none" /\ run'.at \in Phases[run'.op]
    BY <2>2 DEF Phases, Ops
  <2> QED BY <2>1, <2>3 DEF RunOK
<1>3. run'.op = op /\ run'.at = "walk" /\ run'.listed = {p \in Paths : disk[p] # None}
  BY <1>1
<1>4. disk' = disk /\ doc' = doc /\ steady' = Paths
  BY DEF Walk
<1>5. WalkInv'
  BY <1>3, <1>4 DEF WalkInv, Present, Visiting
<1>6. BoundInv'
  BY <1>3, <1>4 DEF BoundInv, Present
<1>7. ScanInv' /\ AgainInv' /\ PlanInv'
  BY <1>3 DEF ScanInv, AgainInv, PlanInv
<1>8. \A p \in Paths : /\ occ'[p].doc = occ[p].doc /\ occ'[p].available = occ[p].available
                       /\ occ'[p] \in Occurrence
  <2>1. \A p \in Paths : occ[p] \in Occurrence /\ occ'[p] = [occ[p] EXCEPT !.seen = FALSE]
    BY DEF Tables, LibraryTypeOK, Walk
  <2> QED BY <2>1 DEF Occurrence
<1>9. occ' \in [Paths -> Occurrence]
  BY <1>8 DEF Walk
<1>10. \A p \in Paths : Recorded(p)'
  BY <1>4, <1>8 DEF Tables, Recorded, Known
<1> QED BY <1>2, <1>3, <1>4, <1>5, <1>6, <1>7, <1>9, <1>10 DEF Phase

LEMMA BeginKeeps ==
    ASSUME IInv, Ingest \/ Tick \/ \E op \in {"sweep", "forget"} : Command(op)
    PROVE  IInv'
<1>1. PICK op \in Ops : /\ Walk(op)
                        /\ Idle \/ (op = "ingest" /\ run.op = "ingest")
  <2>1. Tick => run.op = "ingest"
    BY DEF Tick, IInv, Tables, RunOK, Phases, Ops, Idle, Runs
  <2>2. CASE Ingest \/ Tick
    BY <2>1, <2>2 DEF Ingest, Tick, Ops
  <2>3. CASE \E op \in {"sweep", "forget"} : Command(op)
    BY <2>3 DEF Command, Ops
  <2> QED BY <2>2, <2>3
<1>2. /\ Phase' /\ RunOK' /\ \A p \in Paths : Recorded(p)'
      /\ occ' \in [Paths -> Occurrence] /\ steady' \subseteq Paths /\ run'.op = op
  BY <1>1, WalkBegins DEF IInv
<1>3. UNCHANGED <<disk, version, doc, job, holds, members, marker>>
  BY <1>1 DEF Walk
<1>4. LibraryTypeOK'
  BY <1>2, <1>3 DEF IInv, Tables, LibraryTypeOK, Known, Ops
<1>5. JobsOK'
  BY <1>1, <1>2, <1>3 DEF IInv, Tables, JobsOK, Known, Running, Idle, Quiet
<1> QED BY <1>2, <1>4, <1>5 DEF IInv, Tables

\* Nothing but the run is over, and no handler runs.
LEMMA EndKeeps ==
    ASSUME IInv, run' = Quiet, Running = {}, UNCHANGED <<disk, version, tables, steady>>
    PROVE  IInv'
<1>1. Phase' /\ RunOK'
  BY QuietPhase
<1>2. LibraryTypeOK'
  BY <1>1 DEF IInv, Tables, LibraryTypeOK, RunOK, Known, tables, Runs
<1>3. JobsOK' /\ \A p \in Paths : Recorded(p)'
  BY DEF IInv, Tables, JobsOK, Recorded, Known, Running, tables
<1> QED BY <1>1, <1>2, <1>3 DEF IInv, Tables

\* Outside ingestions nothing runs.
LEMMA Alone ==
    ASSUME IInv
    PROVE  /\ run.op # "ingest" => Running = {}
           /\ run.at \in {"legacy", "drain", "again"} => run.op = "ingest"
           /\ run.at \in {"contain", "plan", "delete"} => run.op \in {"sweep", "forget"}
           /\ run.at = "walk" => run.op \in Ops
           /\ Running # {} => run.op = "ingest" /\ run.at \in {"walk", "legacy", "drain", "again"}
BY DEF IInv, Tables, RunOK, Runs, JobsOK, Phases, Ops, Idle

LEMMA EndsKeep ==
    ASSUME IInv, FinishIncomplete \/ Finish \/ Plan \/ Decide \/ (\E p \in Paths : LoseFile(p)),
           run' = Quiet
    PROVE  IInv'
<1>1. UNCHANGED <<disk, version, tables, steady>>
  BY DEF FinishIncomplete, Finish, Plan, Decide, LoseFile
<1>2. Running = {}
  <2>1. CASE Finish
    BY <2>1 DEF Finish, Drained, QuietQueue, Running
  <2>2. CASE FinishIncomplete
    <3>1. run.op # "ingest"
      BY <2>2 DEF FinishIncomplete, Quiet, IInv, Tables, RunOK
    <3> QED BY <3>1, Alone
  <2>3. CASE Plan \/ Decide
    BY <2>3, Alone DEF Plan, Decide
  <2>4. CASE \E p \in Paths : LoseFile(p)
    <3>1. run.op # "ingest"
      BY <2>4 DEF LoseFile, Quiet, IInv, Tables, RunOK
    <3> QED BY <3>1, Alone
  <2> QED BY <2>1, <2>2, <2>3, <2>4
<1> QED BY <1>1, <1>2, EndKeeps

-----------------------------------------------------------------------------
(* Files change, and are deferred.                                         *)

LEMMA ChangeKeeps ==
    ASSUME IInv, NEW p \in Paths, Change(p)
    PROVE  IInv'
<1>1. /\ UNCHANGED <<version, doc, job, occ, holds, members, marker, run>>
      /\ steady' = steady \ {p}
      /\ disk' \in [Paths -> Contents \union {None}]
      /\ \A q \in Paths : q # p => disk'[q] = disk[q]
  BY DEF Change, tables, IInv, Tables, LibraryTypeOK
<1>2. Known' = Known /\ Running' = Running /\ PartPairs' = PartPairs
  BY <1>1 DEF Known, Running, PartPairs, Reads
<1>3. LibraryTypeOK' /\ RunOK' /\ JobsOK' /\ \A q \in Paths : Recorded(q)'
  BY <1>1, <1>2 DEF IInv, Tables, LibraryTypeOK, RunOK, JobsOK, Recorded, Idle
<1>4. steady \subseteq Paths
  BY DEF IInv, Tables, LibraryTypeOK
<1>5. \A q \in Present' : q \in Present /\ q \in Paths /\ disk'[q] = disk[q]
  BY <1>1, <1>4 DEF Present
<1>6. WalkInv' /\ ScanInv' /\ AgainInv'
  BY <1>1, <1>2, <1>5 DEF IInv, Phase, WalkInv, Visiting, Observed, ScanInv, AgainInv
<1>7. \A c : Replays(c, FALSE)' = Replays(c, FALSE)
  BY <1>1, <1>2 DEF Replays, Replayed, Reads
<1>8. \A q \in Present' : (Bound(q) => Bound(q)') /\ (Shown(q) => Shown(q)')
  BY <1>1, <1>2, <1>5, <1>7 DEF Bound, Shown
<1>9. BoundInv'
  BY <1>1, <1>5, <1>8 DEF IInv, Phase, BoundInv
<1>10. SteadyFiles' \subseteq SteadyFiles /\ SteadyFiles \in SUBSET Contents
  BY <1>1, <1>4 DEF SteadyFiles, IInv, Tables, LibraryTypeOK
<1>11. Links' = Links /\ \A c : LinksWithout(c)' = LinksWithout(c)
  BY <1>2 DEF Links, LinksWithout
<1>12. Links \in SUBSET (Contents \X Contents) /\ \A c : LinksWithout(c) \in SUBSET (Contents \X Contents)
  BY Typed DEF IInv, Tables, Links, LinksWithout
<1>13. Closure(SteadyFiles', Links) \subseteq Closure(SteadyFiles, Links)
  BY <1>10, <1>12, ClosureGrows
<1>14. ASSUME NEW c
       PROVE  Closure(SteadyFiles' \ {c}, LinksWithout(c)) \subseteq Closure(SteadyFiles \ {c}, LinksWithout(c))
  <2>1. /\ SteadyFiles \ {c} \in SUBSET Contents
        /\ SteadyFiles' \ {c} \in SUBSET (SteadyFiles \ {c})
    BY <1>10
  <2> QED BY <1>12, <2>1, ClosureGrows
<1>15. \A c : Spares(c) => Spares(c)'
  BY <1>1, <1>11, <1>14 DEF Spares
<1>16. PlanInv'
  BY <1>1, <1>11, <1>13, <1>15 DEF IInv, Phase, PlanInv
<1> QED BY <1>3, <1>6, <1>9, <1>16 DEF IInv, Tables, Phase

\* A scan that deferred a file, or was cut short, is incomplete.
LEMMA IncompleteKeeps ==
    ASSUME IInv, UNCHANGED <<disk, version, tables, steady>>,
           run'.op = run.op, run.op \in Ops, run'.at \in {"walk", "legacy", "drain"} \intersect Phases[run.op],
           ~run'.clean,
           run' \in Runs
    PROVE  IInv'
<1>1. RunOK'
  BY DEF RunOK, Ops
<1>2. LibraryTypeOK' /\ JobsOK' /\ \A p \in Paths : Recorded(p)'
  BY DEF IInv, Tables, LibraryTypeOK, JobsOK, Recorded, Known, Running, tables
<1>3. Phase'
  BY DEF Phase, WalkInv, ScanInv, AgainInv, BoundInv, PlanInv
<1> QED BY <1>1, <1>2, <1>3 DEF IInv, Tables

LEMMA DeferKeeps ==
    ASSUME IInv, NEW p \in Paths, DeferFile(p)
    PROVE  IInv'
<1>1. run' = [run EXCEPT !.listed = @ \ {p}, !.clean = FALSE] /\ run.at = "walk"
  BY DEF DeferFile, Visits
<1>2. run \in Runs
      /\ run.at \in Phases[run.op]
  BY DEF IInv, Tables, RunOK
<1>3. run.op \in Ops
  BY <1>1, Alone
<1>4. /\ run'.op = run.op /\ run'.at = run.at /\ ~run'.clean
      /\ run' \in Runs
  BY <1>1, <1>2 DEF Runs
<1>5. run'.at \in {"walk", "legacy", "drain"} \intersect Phases[run.op]
  BY <1>1, <1>2, <1>4
<1>6. UNCHANGED <<disk, version, tables, steady>>
  BY DEF DeferFile
<1> QED BY <1>3, <1>4, <1>5, <1>6, IncompleteKeeps

LEMMA LoseKeeps ==
    ASSUME IInv, NEW p \in Paths, LoseFile(p)
    PROVE  IInv'
<1>1. CASE run' = Quiet
  BY <1>1, EndsKeep
<1>2. CASE run' # Quiet
  <2>1. run' = [run EXCEPT !.at = "drain", !.listed = {}, !.clean = FALSE] /\ run.op = "ingest"
    BY <1>2 DEF LoseFile
  <2>2. run \in Runs
    BY DEF IInv, Tables, RunOK
  <2>3. /\ run'.op = run.op /\ run'.at = "drain" /\ ~run'.clean
        /\ run' \in Runs
    BY <2>1, <2>2 DEF Places, Runs
  <2>4. run'.at \in {"walk", "legacy", "drain"} \intersect Phases[run.op] /\ run.op \in Ops
    BY <2>1, <2>3 DEF Phases, Ops
  <2>5. UNCHANGED <<disk, version, tables, steady>>
    BY DEF LoseFile
  <2> QED BY <2>3, <2>4, <2>5, IncompleteKeeps
<1> QED BY <1>1, <1>2

-----------------------------------------------------------------------------
(* Handlers.                                                               *)

\* What an ingestion does to documents and jobs alone.
LEMMA WorkKeeps ==
    ASSUME IInv, run.op = "ingest", UNCHANGED <<disk, version, occ, marker, run, steady>>,
           doc' \in [Contents -> Document], job' \in [Contents -> JobStages],
           holds' \subseteq Known' \X Known', members' \subseteq holds',
           Known \subseteq Known', \A c \in Contents : job'[c] # "none" => c \in Known',
           AgainInv'
    PROVE  IInv'
<1>1. LibraryTypeOK'
  BY DEF IInv, Tables, LibraryTypeOK
<1>2. RunOK'
  BY DEF IInv, Tables, RunOK, Idle
<1>3. JobsOK' /\ \A p \in Paths : Recorded(p)'
  BY DEF IInv, Tables, JobsOK, Recorded
<1>4. run.at \notin {"contain", "plan", "delete"} /\ run.op \notin {"sweep", "forget"}
  BY Alone
<1>5. WalkInv' /\ ScanInv'
  BY DEF IInv, Phase, WalkInv, ScanInv, Present, Visiting, Observed
<1>6. BoundInv' /\ PlanInv'
  BY <1>4 DEF BoundInv, PlanInv
<1> QED BY <1>1, <1>2, <1>3, <1>5, <1>6 DEF IInv, Tables, Phase

\* A steady file can be read back once a complete scan has observed it.
LEMMA ReadBack ==
    ASSUME IInv, run.at = "again", NEW p \in Present
    PROVE  disk[p] \in Readable /\ p \in Paths
<1>1. run.op = "ingest" /\ run.clean
  BY Alone DEF IInv, Phase, AgainInv
<1>2. Observed(p) /\ p \in Paths
  BY <1>1 DEF IInv, Phase, ScanInv, Tables, LibraryTypeOK, Present
<1> DEFINE S == {c \in Contents : \E q \in Paths :
                    occ[q].available /\ occ[q].doc = c /\ disk[q] = c}
           R == {m \in members : m[2] \in Parts[m[1]]}
<1>3. disk[p] \in Contents
  BY <1>2, Typed DEF IInv, Tables, Present
<1>4. disk[p] \in S
  BY <1>2, <1>3 DEF Observed
<1>5. S \in SUBSET Contents /\ R \in SUBSET (Contents \X Contents)
  BY Typed DEF IInv, Tables
<1> HIDE DEF S, R
<1>6. S \subseteq Closure(S, R)
  BY <1>5, ClosureIs
<1> QED BY <1>2, <1>4, <1>6 DEF Readable, S, R

LEMMA ClaimKeeps ==
    ASSUME IInv, NEW c \in Contents, Claim(c)
    PROVE  IInv'
<1>1. /\ run.op = "ingest" /\ job[c] = "ready"
      /\ UNCHANGED <<disk, version, doc, occ, holds, members, marker, run, steady>>
      /\ job' = [job EXCEPT ![c] = IF doc[c].type = "text" \/ c \in Readable
                                   THEN "found" ELSE "missing"]
  BY DEF Claim
<1>2. Known' = Known
  BY <1>1 DEF Known
<1>3. job \in [Contents -> JobStages]
  BY DEF IInv, Tables, LibraryTypeOK
<1>4. /\ job' \in [Contents -> JobStages]
      /\ \A d \in Contents : d # c => job'[d] = job[d]
      /\ job'[c] \in {"found", "missing"}
      /\ c \in Readable => job'[c] = "found"
  BY <1>1, <1>3 DEF JobStages
<1>5. \A d \in Contents : job'[d] # "none" => d \in Known
  BY <1>1, <1>4 DEF IInv, Tables, JobsOK
<1>6. AgainInv'
  <2>1. SUFFICES ASSUME run.at = "again", NEW p \in Present
                 PROVE  job'[disk[p]] \notin {"missing", "waiting"}
    BY <1>1 DEF AgainInv, IInv, Phase, Present
  <2>2. disk[p] \in Readable /\ p \in Paths
    BY <2>1, ReadBack
  <2>3. disk[p] \in Contents
    BY <2>2, Typed DEF IInv, Tables, Present
  <2>4. job[disk[p]] \notin {"missing", "waiting"}
    BY <2>1 DEF IInv, Phase, AgainInv
  <2> QED BY <1>4, <2>2, <2>3, <2>4
<1> QED BY <1>1, <1>2, <1>4, <1>5, <1>6, WorkKeeps DEF IInv, Tables, LibraryTypeOK

\* Of what can hold of the files that a feedless ingestion ends with.
LEMMA AgainStays ==
    ASSUME IInv, UNCHANGED <<disk, run, steady>>,
           \A c \in Contents : \/ job'[c] = job[c]
                               \/ job'[c] \notin {"missing", "waiting"}
                               \/ job[c] = "missing"
    PROVE  AgainInv'
<1>1. SUFFICES ASSUME run.at = "again", NEW p \in Present
               PROVE  job'[disk[p]] \notin {"missing", "waiting"}
  BY DEF AgainInv, IInv, Phase, Present
<1>2. disk[p] \in Contents
  BY <1>1, Typed DEF IInv, Tables, Present, LibraryTypeOK
<1>3. job[disk[p]] \notin {"missing", "waiting"}
  BY <1>1 DEF IInv, Phase, AgainInv
<1> QED BY <1>2, <1>3

LEMMA HandlerKeeps ==
    ASSUME IInv, NEW c \in Contents, Work(c)
    PROVE  IInv'
<1>0. job[c] \in {"missing", "found"} /\ c \in Known /\ run.op = "ingest"
  BY Alone DEF Work, Park, Decline, Commit, IInv, Tables, JobsOK, Running
<1>1. UNCHANGED <<disk, version, occ, marker, run, steady>>
  BY DEF Work, Park, Decline, Commit
<1>2. doc \in [Contents -> Document] /\ job \in [Contents -> JobStages]
      /\ holds \subseteq Known \X Known /\ members \subseteq holds
      /\ \A d \in Contents : job[d] # "none" => d \in Known
  BY DEF IInv, Tables, LibraryTypeOK, JobsOK
<1>3. CASE Park(c)
  <2>1. doc' = doc /\ holds' = holds /\ members' = members /\ job[c] = "missing"
        /\ job' = [job EXCEPT ![c] = "waiting"]
    BY <1>3 DEF Park
  <2>2. Known' = Known
    BY <2>1 DEF Known
  <2>3. job' \in [Contents -> JobStages] /\ \A d \in Contents : d # c => job'[d] = job[d]
    BY <1>2, <2>1 DEF JobStages
  <2>4. AgainInv'
    BY <1>1, <2>1, <2>3, AgainStays
  <2>5. \A d \in Contents : job'[d] # "none" => d \in Known'
    BY <1>0, <1>2, <2>2, <2>3
  <2> QED BY <1>0, <1>1, <1>2, <2>1, <2>2, <2>3, <2>4, <2>5, WorkKeeps
<1>4. CASE Decline(c)
  <2>1. holds' = holds /\ members' = members /\ job' = [job EXCEPT ![c] = "completed"]
        /\ doc' = [doc EXCEPT ![c].status = "SKIPPED"]
    BY <1>4 DEF Decline
  <2>2. doc' \in [Contents -> Document]
    BY <1>2, <2>1 DEF Document, Statuses
  <2>3. \A d \in Contents : doc'[d].status # "none" <=> d \in Known
    BY <1>0, <1>2, <2>1 DEF Known, Document
  <2>4. Known' = Known
    BY <2>3 DEF Known
  <2>5. /\ job' \in [Contents -> JobStages] /\ job'[c] = "completed"
        /\ \A d \in Contents : d # c => job'[d] = job[d]
    BY <1>2, <2>1 DEF JobStages
  <2>6. AgainInv'
    <3>1. job'[c] \notin {"missing", "waiting"}
      BY <2>5
    <3>2. \A d \in Contents : \/ job'[d] = job[d]
                               \/ job'[d] \notin {"missing", "waiting"}
                               \/ job[d] = "missing"
      BY <2>5, <3>1, Zenon
    <3>3. UNCHANGED <<disk, run, steady>>
      BY <1>1
    <3> QED BY <3>2, <3>3, AgainStays, Zenon
  <2>7. \A d \in Contents : job'[d] # "none" => d \in Known'
    BY <1>0, <1>2, <2>4, <2>5
  <2> QED BY <1>0, <1>1, <1>2, <2>1, <2>2, <2>4, <2>5, <2>6, <2>7, WorkKeeps
<1>5. CASE Commit(c)
  <2> DEFINE kept == IF doc[c].type \in Containers THEN Held(c) ELSE {}
             new == kept \ Known
  <2>1. /\ doc' = [d \in Contents |->
                 IF d = c THEN [doc[c] EXCEPT !.status = "COMPLETED"]
                 ELSE IF d \in new THEN Stub(d, FALSE) ELSE doc[d]]
        /\ job' = [d \in Contents |->
                 IF d = c THEN "completed"
                 ELSE IF d \in new THEN FirstJob(d) ELSE job[d]]
        /\ holds' = holds \union ({c} \X kept)
        /\ members' = members \union ({c} \X kept)
    BY <1>5 DEF Commit
  <2>2. kept \subseteq Contents
    BY Typed DEF Held, IInv, Tables
  <2>3. \A d \in Contents : /\ Stub(d, FALSE) \in Document /\ Stub(d, FALSE).status # "none"
                            /\ FirstJob(d) \in {"none", "ready"}
    BY Stubs DEF IInv, Tables
  <2>4. /\ [doc[c] EXCEPT !.status = "COMPLETED"] \in Document
        /\ [doc[c] EXCEPT !.status = "COMPLETED"].status # "none"
    <3>1. doc[c] \in Document
      BY <1>2
    <3> QED BY <3>1 DEF Document, Statuses
  <2> HIDE DEF kept
  <2>5. doc' \in [Contents -> Document] /\ job' \in [Contents -> JobStages]
    BY <1>2, <2>1, <2>3, <2>4 DEF JobStages
  <2>6. doc'[c].status # "none"
    BY <2>1, <2>4
  <2>7. \A d \in Contents : d # c => (doc'[d].status # "none" <=> d \in Known \/ d \in kept)
    BY <2>1, <2>3 DEF Known
  <2>8. Known \subseteq Known' /\ kept \subseteq Known'
    BY <2>2, <2>6, <2>7 DEF Known
  <2>9. \A d \in Contents : job'[d] # "none" => d \in Known'
    BY <1>0, <1>2, <2>1, <2>8
  <2>10. holds' \subseteq Known' \X Known' /\ members' \subseteq holds'
    BY <1>0, <1>2, <2>1, <2>8
  <2>11. AgainInv'
    BY <1>1, <2>1, <2>3, AgainStays
  <2> QED BY <1>0, <1>1, <2>5, <2>8, <2>9, <2>10, <2>11, WorkKeeps
<1> QED BY <1>3, <1>4, <1>5 DEF Work

-----------------------------------------------------------------------------
(* The walk.                                                               *)

LEMMA Visit ==
    ASSUME IInv, NEW p \in Paths, Visits(p), Visited(p)
    PROVE  /\ RunOK' /\ run.at = "walk" /\ run.op \in Ops
           /\ run'.op = run.op /\ run'.at = "walk" /\ run'.clean = run.clean
           /\ run'.listed = run.listed \ {p}
<1>1. run' = [run EXCEPT !.listed = @ \ {p}] /\ run.at = "walk"
  BY DEF Visits, Visited
<1>2. run \in Runs
      /\ run.at \in Phases[run.op]
  BY DEF IInv, Tables, RunOK
<1>3. run.op \in Ops
  BY <1>1, Alone
<1>4. /\ run'.op = run.op /\ run'.at = "walk" /\ run'.clean = run.clean
      /\ run'.listed = run.listed \ {p}
      /\ run' \in Runs
  BY <1>1, <1>2 DEF Runs
<1>5. RunOK'
  BY <1>1, <1>2, <1>3, <1>4 DEF RunOK, Ops
<1> QED BY <1>1, <1>3, <1>4, <1>5

\* An occurrence of a document that is known by then.
LEMMA ObservedNow ==
    ASSUME IInv, NEW p \in Paths, Observe(p), disk[p] # None, disk[p] \in Known',
           Known \subseteq Known'
    PROVE  /\ occ' \in [Paths -> Occurrence]
           /\ \A q \in Paths : Recorded(q)'
           /\ occ'[p].seen /\ occ'[p].available /\ occ'[p].doc = disk[p]
           /\ \A q \in Paths : q # p => occ'[q] = occ[q]
<1>1. disk[p] \in Contents /\ occ \in [Paths -> Occurrence]
  BY DEF IInv, Tables, LibraryTypeOK
<1>2. occ' = [occ EXCEPT ![p] = [doc |-> disk[p], seen |-> TRUE, available |-> TRUE]]
  BY DEF Observe
<1>3. /\ occ'[p] = [doc |-> disk[p], seen |-> TRUE, available |-> TRUE]
      /\ \A q \in Paths : q # p => occ'[q] = occ[q]
  BY <1>1, <1>2
<1>4. occ'[p].seen /\ occ'[p].available /\ occ'[p].doc = disk[p] /\ occ'[p] \in Occurrence
  BY <1>1, <1>3 DEF Occurrence
<1>5. occ' \in [Paths -> Occurrence]
  BY <1>1, <1>2, <1>4
<1>6. \A q \in Paths : Recorded(q)'
  BY <1>3, <1>4 DEF IInv, Tables, Recorded
<1> QED BY <1>3, <1>4, <1>5, <1>6

LEMMA AdmitKeeps ==
    ASSUME IInv, NEW p \in Paths, AdmitFile(p)
    PROVE  IInv'
<1> DEFINE c == disk[p]
<1>1. /\ run.op = "ingest" /\ Visits(p) /\ Visited(p) /\ c # None /\ Observe(p)
      /\ UNCHANGED <<disk, version, marker, steady>>
  BY DEF AdmitFile
<1>2. /\ RunOK' /\ run.at = "walk" /\ run'.op = "ingest" /\ run'.at = "walk"
      /\ run'.clean = run.clean /\ run'.listed = run.listed \ {p}
  BY <1>1, Visit
<1>3. LibraryTypeOK /\ c \in Contents /\ \A d \in Contents : job[d] # "none" => d \in Known
  BY <1>1 DEF IInv, Tables, LibraryTypeOK, JobsOK
<1>4. /\ doc' \in [Contents -> Document] /\ job' \in [Contents -> JobStages]
      /\ Known \subseteq Known' /\ c \in Known'
      /\ \A d \in Contents : job'[d] # "none" => d \in Known'
      /\ holds' \subseteq Known' \X Known' /\ members' \subseteq holds'
  <2>1. CASE c \notin Known
    <3>1. /\ doc' = [doc EXCEPT ![c] = Stub(c, TRUE)] /\ job' = [job EXCEPT ![c] = FirstJob(c)]
          /\ holds' = holds /\ members' = members
      BY <2>1 DEF AdmitFile
    <3>2. Stub(c, TRUE) \in Document /\ Stub(c, TRUE).status # "none" /\ FirstJob(c) \in {"none", "ready"}
      BY <1>3, Stubs
    <3> HIDE DEF c
    <3>3. doc' \in [Contents -> Document] /\ job' \in [Contents -> JobStages]
      BY <1>3, <3>1, <3>2 DEF LibraryTypeOK, JobStages
    <3>4. /\ \A d \in Contents : doc'[d].status # "none" <=> d \in Known \/ d = c
          /\ \A d \in Contents : d # c => job'[d] = job[d]
      BY <1>3, <3>1, <3>2 DEF LibraryTypeOK, Known
    <3>5. Known' = Known \union {c}
      BY <1>3, <3>4 DEF Known
    <3> QED BY <1>3, <3>1, <3>3, <3>4, <3>5 DEF LibraryTypeOK
  <2>2. CASE c \in Known
    <3>1. \E S \in SUBSET Contents : \E R \in SUBSET (Known \X Known) : Settled(S, R)
      <4>1. CASE Settles(c) \/ doc[c].status = "PENDING"
        <5>1. Settled({c}, {})
          BY <2>2, <4>1 DEF AdmitFile
        <5> HIDE DEF c
        <5> QED BY <1>3, <5>1
      <4>2. CASE ~(Settles(c) \/ doc[c].status = "PENDING")
        <5> DEFINE R == Replays(c, TRUE)
                   S == {r[2] : r \in R}
        <5>1. Settled(S, R)
          BY <2>2, <4>2 DEF AdmitFile
        <5>2. R \in SUBSET (Known \X Known)
          BY <1>3, <2>2, ReplaysKnown
        <5> HIDE DEF R
        <5>3. S \in SUBSET Contents
          BY <1>3, <5>2, Typed
        <5> QED BY <5>1, <5>2, <5>3
      <4> QED BY <4>1, <4>2
    <3>2. /\ doc' \in [Contents -> Document] /\ job' \in [Contents -> JobStages]
          /\ Known' = Known
          /\ \A d \in Contents : job'[d] # "none" => job[d] # "none" \/ d \in Known
          /\ holds' \subseteq Known \X Known /\ members' \subseteq holds'
      BY <1>3, <3>1, SettledTables
    <3> QED BY <1>3, <2>2, <3>2
  <2> QED BY <2>1, <2>2
<1>5. /\ occ' \in [Paths -> Occurrence] /\ \A q \in Paths : Recorded(q)'
      /\ occ'[p].seen /\ occ'[p].available /\ occ'[p].doc = disk[p]
      /\ \A q \in Paths : q # p => occ'[q] = occ[q]
  BY <1>1, <1>4, ObservedNow
<1>6. Tables'
  <2>1. LibraryTypeOK'
    BY <1>1, <1>2, <1>3, <1>4, <1>5 DEF LibraryTypeOK, Ops
  <2>2. JobsOK'
    BY <1>2, <1>4 DEF JobsOK
  <2> QED BY <1>2, <1>5, <2>1, <2>2 DEF Tables
<1>7. WalkInv'
  <2>1. SUFFICES ASSUME run.clean, NEW q \in Present PROVE Visiting(q)'
    BY <1>1, <1>2 DEF WalkInv, Present
  <2>2. q \in Paths /\ Visiting(q)
    BY <1>2, <1>3, <2>1 DEF IInv, Phase, WalkInv, Present, LibraryTypeOK
  <2>3. CASE q = p
    BY <1>1, <1>5, <2>3 DEF Visiting, Observed
  <2>4. CASE q # p
    BY <1>1, <1>2, <1>5, <2>2, <2>4 DEF Visiting, Observed
  <2> QED BY <2>3, <2>4
<1>8. ScanInv' /\ AgainInv' /\ BoundInv' /\ PlanInv'
  BY <1>2 DEF ScanInv, AgainInv, BoundInv, PlanInv
<1> QED BY <1>6, <1>7, <1>8 DEF IInv, Phase

LEMMA BindKeeps ==
    ASSUME IInv, NEW p \in Paths, BindFile(p)
    PROVE  IInv'
<1> DEFINE c == disk[p]
           R == IF c \in Known THEN Replays(c, FALSE) ELSE {}
<1>1. /\ run.op # "ingest" /\ Visits(p) /\ Visited(p) /\ c # None
      /\ UNCHANGED <<disk, version, marker, steady>>
  BY DEF BindFile
<1>2. /\ RunOK' /\ run.at = "walk" /\ run.op \in Ops /\ run'.op = run.op /\ run'.at = "walk"
      /\ run'.clean = run.clean /\ run'.listed = run.listed \ {p}
  BY <1>1, Visit
<1>3. LibraryTypeOK /\ c \in Contents
  BY <1>1 DEF IInv, Tables, LibraryTypeOK
<1>4. /\ doc' = doc /\ job' = job
      /\ holds' = holds \union R /\ members' = members \union R
  <2>1. CASE c \in Known
    <3>1. Settled({}, Replays(c, FALSE))
      BY <2>1 DEF BindFile
    <3>2. doc' = [d \in Contents |-> doc[d]] /\ job' = [d \in Contents |-> job[d]]
      BY <3>1 DEF Settled
    <3>3. holds' = holds \union Replays(c, FALSE) /\ members' = members \union Replays(c, FALSE)
      BY <3>1 DEF Settled
    <3> QED BY <1>3, <2>1, <3>2, <3>3 DEF LibraryTypeOK
  <2>2. CASE c \notin Known
    BY <2>2 DEF BindFile
  <2> QED BY <2>1, <2>2
<1>5. R \in SUBSET (Known \X Known)
  BY <1>3, ReplaysKnown
<1>6. Known' = Known /\ Running' = Running
  BY <1>4 DEF Known, Running
<1>7. /\ occ' \in [Paths -> Occurrence] /\ \A q \in Paths : Recorded(q)'
      /\ c \in Known => occ'[p].seen /\ occ'[p].available /\ occ'[p].doc = disk[p]
      /\ \A q \in Paths : q # p => occ'[q] = occ[q]
  <2>1. CASE c \in Known
    <3>1. Observe(p)
      BY <2>1 DEF BindFile
    <3> QED BY <1>1, <1>6, <2>1, <3>1, ObservedNow
  <2>2. CASE c \notin Known
    <3>1. occ' = occ
      BY <2>2 DEF BindFile
    <3> QED BY <1>3, <1>6, <2>2, <3>1 DEF LibraryTypeOK, IInv, Tables, Recorded
  <2> QED BY <2>1, <2>2
<1>8. Tables'
  <2> HIDE DEF R
  <2>1. LibraryTypeOK'
    BY <1>1, <1>2, <1>3, <1>4, <1>5, <1>6, <1>7 DEF LibraryTypeOK
  <2>2. JobsOK'
    BY <1>2, <1>4, <1>6 DEF IInv, Tables, JobsOK
  <2> QED BY <1>2, <1>7, <2>1, <2>2 DEF Tables
<1>9. \A d : Replays(d, FALSE)' = Replays(d, FALSE)
  BY <1>1, <1>6 DEF Replays, Replayed, PartPairs, Reads
<1>10. WalkInv'
  <2>1. SUFFICES ASSUME run.clean, NEW q \in Present PROVE Visiting(q)'
    BY <1>1, <1>2 DEF WalkInv, Present
  <2>2. q \in Paths /\ Visiting(q)
    BY <1>2, <1>3, <2>1 DEF IInv, Phase, WalkInv, Present, LibraryTypeOK
  <2>3. CASE q = p
    BY <1>1, <1>2, <1>6, <1>7, <2>3 DEF Visiting, Observed
  <2>4. CASE q # p
    BY <1>1, <1>2, <1>6, <1>7, <2>2, <2>4 DEF Visiting, Observed
  <2> QED BY <2>3, <2>4
<1>11. BoundInv'
  <2>1. SUFFICES ASSUME run.clean, NEW q \in Present, q \notin run'.listed PROVE Bound(q)'
    BY <1>1, <1>2 DEF BoundInv, Present
  <2>2. CASE q = p
    <3>1. disk[q] \in Known => Replays(disk[q], FALSE) \subseteq holds'
      BY <1>4, <2>2
    <3> QED BY <1>1, <1>6, <1>9, <3>1 DEF Bound
  <2>3. CASE q # p
    <3>1. Bound(q)
      BY <1>1, <1>2, <2>1, <2>3 DEF IInv, Phase, BoundInv, Ops
    <3> HIDE DEF R
    <3> QED BY <1>1, <1>4, <1>6, <1>9, <3>1 DEF Bound
  <2> QED BY <2>2, <2>3
<1>12. ScanInv' /\ AgainInv' /\ PlanInv'
  BY <1>2 DEF ScanInv, AgainInv, PlanInv
<1> QED BY <1>8, <1>10, <1>11, <1>12 DEF IInv, Phase

-----------------------------------------------------------------------------
(* The end of the walk, and the rest of an ingestion.                      *)

\* A command that goes on to its next stage.
LEMMA StageOK ==
    ASSUME RunOK, run.op \in Ops, NEW at \in Places, at \in Phases[run.op],
           run' = [run EXCEPT !.at = at]
    PROVE  /\ RunOK' /\ run'.op = run.op /\ run'.at = at /\ run'.clean = run.clean
           /\ run'.plan = run.plan
<1>1. run \in Runs
  BY DEF RunOK
<1>2. /\ run'.op = run.op /\ run'.at = at /\ run'.clean = run.clean /\ run'.plan = run.plan
      /\ run' \in Runs
  BY <1>1 DEF Runs
<1>3. run'.op # "none"
  BY <1>2 DEF Ops
<1> QED BY <1>2, <1>3 DEF RunOK

LEMMA FinishScanKeeps ==
    ASSUME IInv, FinishScan
    PROVE  IInv'
<1> DEFINE at == IF run.op = "ingest" THEN "legacy" ELSE "contain"
<1>1. /\ run.at = "walk" /\ run.listed = {} /\ run.clean
      /\ run' = [run EXCEPT !.at = at]
      /\ UNCHANGED <<disk, version, job, holds, members, marker, steady>>
  BY DEF FinishScan, Complete
<1>2. run.op \in Ops /\ (run.op # "ingest" => Running = {})
  BY <1>1, Alone
<1>3. RunOK' /\ run'.op = run.op /\ run'.at = at /\ run'.clean
  <2>1. at \in Places /\ at \in Phases[run.op]
    BY <1>2 DEF Places, Phases, Ops
  <2> QED BY <1>1, <1>2, <2>1, StageOK DEF IInv, Tables
<1>4. \A p \in Paths : /\ occ'[p] \in Occurrence
                       /\ occ'[p].doc = occ[p].doc /\ occ'[p].seen = occ[p].seen
                       /\ occ'[p].available = (occ[p].available /\ occ[p].seen)
  <2>1. \A p \in Paths : /\ occ[p] \in Occurrence
                         /\ occ'[p] = [occ[p] EXCEPT !.available = @ /\ occ[p].seen]
    BY DEF IInv, Tables, LibraryTypeOK, FinishScan
  <2> QED BY <2>1 DEF Occurrence
<1>5. PICK skipped \in SUBSET Running :
          doc' = [c \in Contents |->
              IF c \in skipped THEN doc[c]
              ELSE [doc[c] EXCEPT !.shown = Located(c, occ')]]
  BY DEF FinishScan
<1>6. \A c : Located(c, occ') \in BOOLEAN
  BY DEF Located
<1>7. \A c \in Contents : /\ doc'[c] \in Document /\ doc'[c].status = doc[c].status
                          /\ c \notin skipped => doc'[c].shown = Located(c, occ')
  <2>1. \A c \in Contents : doc[c] \in Document
    BY DEF IInv, Tables, LibraryTypeOK
  <2> QED BY <1>5, <1>6, <2>1 DEF Document
<1>8. Known' = Known /\ Running' = Running
  BY <1>1, <1>7 DEF Known, Running
<1>9. LibraryTypeOK'
  <2>1. doc' \in [Contents -> Document]
    BY <1>5, <1>7
  <2>2. occ' \in [Paths -> Occurrence]
    BY <1>4 DEF FinishScan
  <2> QED BY <1>1, <1>2, <1>3, <1>8, <2>1, <2>2 DEF IInv, Tables, LibraryTypeOK
<1>10. JobsOK' /\ \A p \in Paths : Recorded(p)'
  BY <1>1, <1>3, <1>4, <1>8 DEF IInv, Tables, JobsOK, Recorded
<1>11. \A p \in Present : /\ p \in Paths
                          /\ \/ occ[p].seen /\ Observed(p)
                             \/ run.op # "ingest" /\ disk[p] \notin Known
  <2>1. \A p \in Present : Visiting(p)
    BY <1>1 DEF IInv, Phase, WalkInv
  <2>2. \A p \in Present : p \in Paths
    BY DEF IInv, Tables, LibraryTypeOK, Present
  <2> QED BY <1>1, <2>1, <2>2 DEF Visiting
<1>12. WalkInv' /\ AgainInv' /\ PlanInv'
  BY <1>3 DEF WalkInv, AgainInv, PlanInv
<1>13. ScanInv'
  <2>1. SUFFICES ASSUME run.op = "ingest", NEW p \in Present PROVE Observed(p)'
    BY <1>1, <1>3 DEF ScanInv, Present
  <2> QED BY <1>1, <1>4, <1>11, <2>1 DEF Observed
<1>14. BoundInv'
  <2>1. SUFFICES ASSUME run.op # "ingest", NEW p \in Present PROVE Bound(p)' /\ Shown(p)'
    BY <1>1, <1>3 DEF BoundInv, Present
  <2>2. Bound(p)
    BY <1>1, <1>2, <2>1 DEF IInv, Phase, BoundInv, Ops
  <2>3. Replays(disk[p], FALSE)' = Replays(disk[p], FALSE)
    BY <1>1, <1>8 DEF Replays, Replayed, PartPairs, Reads
  <2>4. Bound(p)'
    BY <1>1, <1>8, <2>2, <2>3 DEF Bound
  <2>5. Shown(p)'
    <3>1. SUFFICES ASSUME disk[p] \in Known PROVE doc'[disk[p]].shown
      BY <1>1, <1>8 DEF Shown
    <3>2. Located(disk[p], occ') /\ disk[p] \in Contents
      BY <1>4, <1>11, <3>1 DEF Located, Observed, Known
    <3>3. disk[p] \notin skipped
      BY <1>2, <1>5, <2>1
    <3> QED BY <1>7, <3>2, <3>3
  <2> QED BY <2>4, <2>5
<1> QED BY <1>3, <1>9, <1>10, <1>12, <1>13, <1>14 DEF IInv, Tables, Phase

LEMMA FinishIncompleteKeeps ==
    ASSUME IInv, FinishIncomplete
    PROVE  IInv'
<1>1. CASE run' = Quiet
  BY <1>1, EndsKeep
<1>2. CASE run' # Quiet
  <2>1. /\ run' = [run EXCEPT !.at = "legacy"] /\ run.op = "ingest" /\ ~run.clean
        /\ UNCHANGED <<disk, version, tables, steady>>
    BY <1>2 DEF FinishIncomplete, Complete
  <2>2. run \in Runs
    BY DEF IInv, Tables, RunOK
  <2>3. /\ run'.op = run.op /\ run'.at = "legacy" /\ ~run'.clean
        /\ run' \in Runs
    BY <2>1, <2>2 DEF Places, Runs
  <2>4. run'.at \in {"walk", "legacy", "drain"} \intersect Phases[run.op] /\ run.op \in Ops
    BY <2>1, <2>3 DEF Phases, Ops
  <2> QED BY <2>1, <2>3, <2>4, IncompleteKeeps
<1> QED BY <1>1, <1>2

LEMMA ResumeLegacyKeeps ==
    ASSUME IInv, NEW c \in Contents, ResumeLegacy(c)
    PROVE  IInv'
<1>1. /\ run.at = "legacy" /\ run.op = "ingest" /\ c \in Known /\ job[c] = "none"
      /\ UNCHANGED <<disk, version, occ, holds, members, marker, steady>>
  BY Alone DEF ResumeLegacy, Jobless
<1>2. /\ doc \in [Contents -> Document] /\ job \in [Contents -> JobStages]
      /\ holds \subseteq Known \X Known /\ members \subseteq holds
      /\ \A d \in Contents : job[d] # "none" => d \in Known
  BY DEF IInv, Tables, LibraryTypeOK, JobsOK
<1> DEFINE d0 == IF Reads(c) = "declined" THEN [doc[c] EXCEPT !.status = "SKIPPED"]
                 ELSE Stub(c, doc[c].shown)
           j0 == IF doc[c].type = "text" THEN "ready" ELSE FirstJob(c)
<1>3. CASE run' = run
  <2>1. /\ job' = [job EXCEPT ![c] = j0]
        /\ doc' = doc \/ doc' = [doc EXCEPT ![c] = d0]
    <3>1. [run EXCEPT !.at = "drain", !.clean = FALSE] # run
      BY <1>1 DEF IInv, Tables, RunOK, Runs
    <3> QED BY <1>2, <1>3, <3>1 DEF ResumeLegacy
  <2>2. j0 \in {"none", "ready"}
    BY Stubs DEF FirstJob
  <2>3. d0 \in Document /\ d0.status # "none"
    <3>1. doc[c] \in Document /\ LibraryTypeOK
      BY <1>2 DEF IInv, Tables
    <3>2. doc[c].shown \in BOOLEAN
      BY <3>1 DEF Document
    <3>3. Stub(c, doc[c].shown) \in Document /\ Stub(c, doc[c].shown).status # "none"
      BY <3>1, <3>2, Stubs
    <3> QED BY <3>1, <3>3 DEF Document, Statuses
  <2> HIDE DEF d0, j0
  <2>4. /\ job' \in [Contents -> JobStages] /\ job'[c] \in {"none", "ready"}
        /\ \A d \in Contents : d # c => job'[d] = job[d]
    BY <1>2, <2>1, <2>2 DEF JobStages
  <2>5. /\ doc' \in [Contents -> Document]
        /\ \A d \in Contents : doc'[d].status # "none" <=> d \in Known
    BY <1>1, <1>2, <2>1, <2>3 DEF Known
  <2>6. Known' = Known
    BY <2>5 DEF Known
  <2>7. \A d \in Contents : job'[d] # "none" => d \in Known'
    BY <1>1, <1>2, <2>4, <2>6
  <2>8. AgainInv'
    BY <1>1, <1>3 DEF AgainInv
  <2> QED BY <1>1, <1>2, <1>3, <2>4, <2>5, <2>6, <2>7, <2>8, WorkKeeps
<1>4. CASE run' # run
  <2>1. /\ run' = [run EXCEPT !.at = "drain", !.clean = FALSE] /\ doc' = doc /\ job' = job
    BY <1>4 DEF ResumeLegacy
  <2>2. run \in Runs
    BY DEF IInv, Tables, RunOK
  <2>3. /\ run'.op = run.op /\ run'.at = "drain" /\ ~run'.clean
        /\ run' \in Runs
    BY <2>1, <2>2 DEF Places, Runs
  <2>4. run'.at \in {"walk", "legacy", "drain"} \intersect Phases[run.op] /\ run.op \in Ops
    BY <1>1, <2>3 DEF Phases, Ops
  <2>5. UNCHANGED <<disk, version, tables, steady>>
    BY <1>1, <2>1 DEF tables
  <2> QED BY <2>3, <2>4, <2>5, IncompleteKeeps
<1> QED BY <1>3, <1>4

\* Every wait is retried.
LEMMA ResumedKeeps ==
    ASSUME IInv, ResumeSources \/ Again
    PROVE  IInv'
<1> DEFINE at == IF Again THEN "again" ELSE "drain"
<1>1. /\ run.op = "ingest" /\ run.op \in Ops /\ run.at \in {"legacy", "drain"}
      /\ job' = Resumed
      /\ UNCHANGED <<disk, version, doc, occ, holds, members, marker, steady>>
  BY Alone DEF ResumeSources, Again, Ops
<1>2. /\ run' = [run EXCEPT !.at = at]
      /\ at = "again" => QuietQueue /\ run.clean
  BY DEF ResumeSources, Again
<1>3. at \in {"drain", "again"}
  OBVIOUS
<1> HIDE DEF at
<1>4. RunOK' /\ run'.op = "ingest" /\ run'.at = at /\ run'.clean = run.clean
  <2>1. at \in Places /\ at \in Phases[run.op]
    BY <1>1, <1>3 DEF Places, Phases
  <2> QED BY <1>1, <1>2, <2>1, StageOK DEF IInv, Tables
<1>5. /\ job' \in [Contents -> JobStages]
      /\ \A c \in Contents : /\ job'[c] # "none" => job[c] # "none"
                             /\ job'[c] # "waiting"
                             /\ job'[c] = "missing" => job[c] = "missing"
  <2>1. job \in [Contents -> JobStages]
    BY DEF IInv, Tables, LibraryTypeOK
  <2> QED BY <1>1, <2>1 DEF Resumed, JobStages
<1>6. Known' = Known
  BY <1>1 DEF Known
<1>7. LibraryTypeOK'
  BY <1>1, <1>4, <1>5, <1>6 DEF IInv, Tables, LibraryTypeOK
<1>8. JobsOK' /\ \A p \in Paths : Recorded(p)'
  BY <1>1, <1>4, <1>5, <1>6 DEF IInv, Tables, JobsOK, Recorded
<1>9. WalkInv' /\ BoundInv' /\ PlanInv'
  BY <1>3, <1>4 DEF WalkInv, BoundInv, PlanInv
<1>10. ScanInv'
  BY <1>1, <1>4 DEF IInv, Phase, ScanInv, Present, Observed
<1>11. AgainInv'
  <2>1. SUFFICES ASSUME at = "again", NEW p \in Present
                 PROVE  job'[disk[p]] \notin {"missing", "waiting"}
    BY <1>1, <1>2, <1>4 DEF AgainInv, Present
  <2>2. disk[p] \in Contents
    BY <2>1 DEF IInv, Tables, LibraryTypeOK, Present
  <2> QED BY <1>2, <1>5, <2>1, <2>2 DEF QuietQueue
<1> QED BY <1>4, <1>7, <1>8, <1>9, <1>10, <1>11 DEF IInv, Tables, Phase

\* A crash or a signal leaves nothing running.
LEMMA StopKeeps ==
    ASSUME IInv, Stop
    PROVE  IInv'
<1>1. /\ run' = Quiet
      /\ job' = [c \in Contents |-> IF c \in Running THEN "ready" ELSE job[c]]
      /\ UNCHANGED <<disk, version, doc, occ, holds, members, marker, steady>>
  BY DEF Stop
<1>2. Phase' /\ RunOK'
  BY <1>1, QuietPhase
<1>3. /\ job' \in [Contents -> JobStages]
      /\ \A c \in Contents : /\ job'[c] # "none" => job[c] # "none"
                             /\ job'[c] \notin {"found", "missing"}
  <2>1. job \in [Contents -> JobStages]
    BY DEF IInv, Tables, LibraryTypeOK
  <2> QED BY <1>1, <2>1 DEF Running, JobStages
<1>4. Known' = Known /\ Running' = {}
  BY <1>1, <1>3 DEF Known, Running
<1>5. LibraryTypeOK'
  BY <1>1, <1>2, <1>3, <1>4 DEF IInv, Tables, LibraryTypeOK, RunOK, Runs
<1>6. JobsOK' /\ \A p \in Paths : Recorded(p)'
  BY <1>1, <1>3, <1>4 DEF IInv, Tables, JobsOK, Recorded
<1> QED BY <1>2, <1>5, <1>6 DEF IInv, Tables

LEMMA UpgradeKeeps ==
    ASSUME IInv, Upgrade
    PROVE  IInv'
<1>1. /\ run = Quiet /\ run' = Quiet /\ version' \in DOMAIN Route
      /\ UNCHANGED <<disk, tables, steady>>
  BY DEF Upgrade, Idle
<1>2. Phase' /\ RunOK'
  BY <1>1, QuietPhase
<1>3. Known' = Known /\ Running' = Running
  BY <1>1 DEF Known, Running, tables
<1>4. LibraryTypeOK'
  BY <1>1, <1>3 DEF IInv, Tables, LibraryTypeOK, tables
<1>5. JobsOK' /\ \A p \in Paths : Recorded(p)'
  BY <1>1, <1>3 DEF IInv, Tables, JobsOK, Recorded, tables
<1> QED BY <1>2, <1>4, <1>5 DEF IInv, Tables

-----------------------------------------------------------------------------
(* Sweep, forget and wipe.                                                 *)

\* What replaying c records: containment along chains of known documents.
KnownLinks == {r \in PartPairs : r[2] \in Known}

LEMMA ReplaysAre ==
    ASSUME NEW c, NEW e \in Closure({c}, KnownLinks), NEW d \in Known,
           Reads(e) \in Containers, d \in Parts[e]
    PROVE  <<e, d>> \in Replays(c, FALSE)
<1>1. Closure({c}, KnownLinks)
         = Closure({c}, {r \in PartPairs : r[2] \in Known /\ ~(FALSE /\ Settles(r[2]))})
  <2>1. KnownLinks = {r \in PartPairs : r[2] \in Known /\ ~(FALSE /\ Settles(r[2]))}
    BY Zenon DEF KnownLinks
  <2> QED BY <2>1, Zenon
<1>2. e \in Replayed(c, FALSE)
  BY <1>1 DEF Replayed
<1> QED BY <1>2 DEF Replays

\* Once every steady file is bound, a set of known documents that has the files
\* and is closed under recorded containment has what they hold.
LEMMA Kept ==
    ASSUME IInv, \A p \in Present : Bound(p),
           NEW F \in SUBSET SteadyFiles, NEW E \in SUBSET PartPairs, NEW K,
           F \intersect Known \subseteq K,
           \A r \in E : r[1] \in Known,
           \A r \in E : r \in holds /\ r[1] \in K => r[2] \in K
    PROVE  Closure(F, E) \intersect Known \subseteq K
<1> DEFINE Below(p) == Closure({disk[p]}, KnownLinks)
           T == {x \in Contents : x \in Known =>
                    x \in K /\ \E p \in Present : disk[p] \in Known /\ x \in Below(p)}
<1>1. LibraryTypeOK /\ KnownLinks \in SUBSET (Contents \X Contents)
      /\ E \in SUBSET (Contents \X Contents)
  BY Typed DEF IInv, Tables, KnownLinks
<1>2. F \in SUBSET Contents /\ \A x \in F : \E p \in Present : x = disk[p]
  BY <1>1 DEF SteadyFiles, Present, LibraryTypeOK
<1>3. \A p \in Present : disk[p] \in Contents
  BY <1>1 DEF Present, LibraryTypeOK
<1>4. \A p \in Present : /\ disk[p] \in Below(p)
                         /\ Below(p) \subseteq Contents
                         /\ \A r \in KnownLinks : r[1] \in Below(p) => r[2] \in Below(p)
  <2>1. ASSUME NEW p \in Present
        PROVE  /\ {disk[p]} \subseteq Below(p)
               /\ Below(p) \subseteq Contents
               /\ Closed(Below(p), KnownLinks)
    <3>1. {disk[p]} \in SUBSET Contents
      BY <1>3
    <3> QED BY <1>1, <3>1, ClosureIs
  <2> QED BY <2>1 DEF Closed
<1>5. F \subseteq T
  BY <1>2, <1>4
<1>6. Closed(T, E)
  <2>1. SUFFICES ASSUME NEW r \in E, r[1] \in T PROVE r[2] \in T
    BY DEF Closed
  <2>2. /\ r[1] \in Contents /\ r[2] \in Contents /\ r[1] \in Known /\ r = <<r[1], r[2]>>
        /\ Reads(r[1]) \in Containers /\ r[2] \in Parts[r[1]] /\ r \in PartPairs
    BY <1>1, <2>1, PartPairsAre
  <2>3. PICK p \in Present : disk[p] \in Known /\ r[1] \in Below(p)
    BY <2>1, <2>2
  <2>4. SUFFICES ASSUME r[2] \in Known PROVE r[2] \in K /\ r[2] \in Below(p)
    BY <2>2, <2>3
  <2>5. r[2] \in Below(p)
    BY <1>4, <2>2, <2>3, <2>4 DEF KnownLinks
  <2> HIDE DEF T
  <2>6. <<r[1], r[2]>> \in Replays(disk[p], FALSE)
    BY <2>2, <2>3, <2>4, ReplaysAre
  <2>7. r \in holds
    BY <2>2, <2>3, <2>6 DEF Bound
  <2> QED BY <2>1, <2>2, <2>5, <2>7 DEF T
<1> HIDE DEF T
<1>7. Closure(F, E) \subseteq T
  BY <1>1, <1>2, <1>5, <1>6, ClosureIs
<1> QED BY <1>7 DEF T

\* What is read back out of a container that is known is recorded at once.
LEMMA ContainKeeps ==
    ASSUME IInv, Contain
    PROVE  IInv'
<1> DEFINE all == {c \in Known : doc[c].type \in Containers}
           R == {r \in (all \intersect Readable) \X Known : r[2] \in Parts[r[1]]}
           whole == marker \/ all \subseteq Readable
<1>1. /\ run.at = "contain" /\ marker' = whole
      /\ holds' = holds \/ holds' = holds \union R
      /\ run' = IF whole THEN [run EXCEPT !.at = "plan"] ELSE Quiet
      /\ UNCHANGED <<disk, version, doc, job, occ, members, steady>>
  BY DEF Contain
<1>2. run.op \in {"sweep", "forget"} /\ Running = {}
  BY <1>1, Alone
<1>3. whole \in BOOLEAN /\ R \in SUBSET (Known \X Known)
  BY DEF IInv, Tables, LibraryTypeOK
<1> HIDE DEF R, whole, all
<1>4. holds' \subseteq Known \X Known /\ holds \subseteq holds'
  BY <1>1, <1>3 DEF IInv, Tables, LibraryTypeOK
<1>5. Known' = Known /\ Running' = Running
  BY <1>1 DEF Known, Running
<1>6. LibraryTypeOK' \/ ~RunOK'
  BY <1>1, <1>3, <1>4, <1>5 DEF IInv, Tables, LibraryTypeOK, RunOK, Runs
<1>7. JobsOK' /\ \A p \in Paths : Recorded(p)'
  BY <1>1, <1>2, <1>5 DEF IInv, Tables, JobsOK, Recorded
<1>8. CASE run' = Quiet
  BY <1>6, <1>7, <1>8, QuietPhase DEF IInv, Tables
<1>9. CASE run' # Quiet
  <2>1. RunOK' /\ run'.op = run.op /\ run'.at = "plan" /\ run'.clean = run.clean
    <3>1. "plan" \in Places /\ "plan" \in Phases[run.op] /\ run.op \in Ops
      BY <1>2 DEF Places, Phases, Ops
    <3>2. run' = [run EXCEPT !.at = "plan"]
      BY <1>1, <1>9
    <3> QED BY <3>1, <3>2, StageOK DEF IInv, Tables
  <2>2. WalkInv' /\ ScanInv' /\ AgainInv' /\ PlanInv'
    BY <1>2, <2>1 DEF WalkInv, ScanInv, AgainInv, PlanInv
  <2>3. BoundInv'
    <3>1. run.clean /\ \A p \in Present : Bound(p) /\ Shown(p)
      BY <1>1 DEF IInv, Phase, BoundInv
    <3>2. \A c : Replays(c, FALSE)' = Replays(c, FALSE)
      BY <1>1, <1>5 DEF Replays, Replayed, PartPairs, Reads
    <3>3. \A p \in Present : Bound(p)' /\ Shown(p)'
      BY <1>1, <1>4, <1>5, <3>1, <3>2 DEF Bound, Shown
    <3>4. Present' = Present
      BY <1>1 DEF Present
    <3> QED BY <2>1, <3>1, <3>3, <3>4 DEF BoundInv
  <2> QED BY <1>6, <1>7, <2>1, <2>2, <2>3 DEF IInv, Tables, Phase
<1> QED BY <1>8, <1>9

\* A plan that was made.
LEMMA PlannedKeeps ==
    ASSUME IInv, run.at = "plan", NEW P \in SUBSET Contents,
           run' = [run EXCEPT !.at = "delete", !.plan = P],
           UNCHANGED <<disk, version, tables, steady>>, PlanInv'
    PROVE  IInv'
<1>1. run.op \in {"sweep", "forget"}
  BY Alone
<1>2. run \in Runs
  BY DEF IInv, Tables, RunOK
<1>3. /\ run' \in Runs
      /\ run'.op = run.op /\ run'.at = "delete"
  BY <1>2 DEF Places, Runs
<1>4. run'.op # "none" /\ run'.at \in Phases[run'.op]
  BY <1>1, <1>3 DEF Phases
<1>5. RunOK'
  BY <1>3, <1>4 DEF RunOK
<1>6. LibraryTypeOK'
  BY <1>1, <1>3 DEF IInv, Tables, LibraryTypeOK, Known, Ops, tables
<1>7. JobsOK' /\ \A p \in Paths : Recorded(p)'
  BY <1>3 DEF IInv, Tables, JobsOK, Recorded, Known, Running, tables
<1>8. WalkInv' /\ ScanInv' /\ AgainInv' /\ BoundInv'
  BY <1>1, <1>3 DEF WalkInv, ScanInv, AgainInv, BoundInv
<1> QED BY <1>5, <1>6, <1>7, <1>8 DEF IInv, Tables, Phase

LEMMA PlanKeeps ==
    ASSUME IInv, Plan
    PROVE  IInv'
<1>1. CASE run' = Quiet
  BY <1>1, EndsKeep
<1>2. CASE run' # Quiet
  <2>1. PICK opaque \in SUBSET Contents :
          LET files == {disk[p] : p \in Paths} \ {None}
              parts == {r \in PartPairs : r[1] \notin opaque}
              contents == Closure(files, {r \in parts : r[2] \notin Ignored})
              ignored == {r[2] : r \in {q \in parts :
                             q[1] \in contents /\ q[2] \in Ignored}} \ contents
              held == HeldBy(contents \intersect Known,
                             {r \in holds : r[2] \notin ignored})
          IN  run' = IF files = {} THEN Quiet
                     ELSE [run EXCEPT !.at = "delete", !.plan = Known \ held]
    BY DEF Plan
  <2> DEFINE files == {disk[p] : p \in Paths} \ {None}
             parts == {r \in PartPairs : r[1] \notin opaque}
             contents == Closure(files, {r \in parts : r[2] \notin Ignored})
             ignored == {r[2] : r \in {q \in parts :
                            q[1] \in contents /\ q[2] \in Ignored}} \ contents
             H == {r \in holds : r[2] \notin ignored}
             held == Closure(contents \intersect Known, H)
  <2>2. run' = [run EXCEPT !.at = "delete", !.plan = Known \ held]
    BY <1>2, <2>1 DEF HeldBy
  <2>3. /\ run.at = "plan" /\ run.op = "sweep"
        /\ UNCHANGED <<disk, version, tables, steady>>
    BY DEF Plan
  <2>4. /\ LibraryTypeOK /\ PartPairs \in SUBSET (Contents \X Contents)
        /\ holds \in SUBSET (Contents \X Contents)
    BY Typed DEF IInv, Tables
  <2>5. SteadyFiles \subseteq files /\ files \in SUBSET Contents
    BY <2>4 DEF SteadyFiles, LibraryTypeOK
  <2> HIDE DEF files
  <2>6. {r \in parts : r[2] \notin Ignored} \in SUBSET (Contents \X Contents)
    BY <2>4
  <2>7. files \subseteq contents
    BY <2>5, <2>6, ClosureIs
  <2>8. \A x \in ignored : x \in Ignored
    OBVIOUS
  <2> HIDE DEF parts, contents, ignored
  <2>9. H \in SUBSET (Contents \X Contents) /\ contents \intersect Known \in SUBSET Contents
    BY <2>4 DEF Known
  <2>10. contents \intersect Known \subseteq held /\ Closed(held, H)
    BY <2>9, ClosureIs
  <2> HIDE DEF held
  <2>11. SteadyFiles \intersect Known \subseteq held
    BY <2>5, <2>7, <2>10
  <2>12. \A r \in Links : r \in holds /\ r[1] \in held => r[2] \in held
    BY <2>8, <2>10 DEF Links, Closed
  <2>13. Links \in SUBSET PartPairs /\ \A r \in Links : r[1] \in Known
    BY DEF Links
  <2>14. \A p \in Present : Bound(p)
    BY <2>3 DEF IInv, Phase, BoundInv
  <2>15. Closure(SteadyFiles, Links) \intersect Known \subseteq held
    BY <2>11, <2>12, <2>13, <2>14, Kept
  <2>16. run'.plan = Known \ held /\ run'.op = "sweep" /\ Known \ held \in SUBSET Contents
    BY <2>2, <2>3 DEF IInv, Tables, RunOK, Known
  <2>17. SteadyFiles' = SteadyFiles /\ Links' = Links
    BY <2>3 DEF SteadyFiles, Links, PartPairs, Reads, Known, tables
  <2>18. (Known \ held) \intersect Closure(SteadyFiles, Links) = {}
    BY <2>15
  <2>19. PlanInv'
    BY <2>16, <2>17, <2>18 DEF PlanInv
  <2> QED BY <2>2, <2>3, <2>16, <2>19, PlannedKeeps, ZenonT(60)
<1> QED BY <1>1, <1>2

\* What is forgotten with a known document is not held by another.
LEMMA ExclusiveSpares ==
    ASSUME IInv, run.at = "plan", NEW c \in Known
    PROVE  /\ c \in Exclusive(c) /\ Exclusive(c) \subseteq Known
           /\ Exclusive(c) \intersect Closure(SteadyFiles \ {c}, LinksWithout(c)) = {}
<1> DEFINE below == Closure({c}, holds)
           others == {d \in Known \ {c} : d \notin below \/ doc[d].shown}
           H == {r \in holds : r[2] # c}
           kept == Closure(others, H)
<1>1. /\ LibraryTypeOK /\ PartPairs \in SUBSET (Contents \X Contents)
      /\ holds \in SUBSET (Contents \X Contents) /\ c \in Contents
  BY Typed DEF IInv, Tables, Known
<1>2. Exclusive(c) = (below \ kept) \intersect Known
  BY DEF Exclusive
<1>3. c \in below
  <2>1. {c} \in SUBSET Contents
    BY <1>1
  <2> QED BY <1>1, <2>1, ClosureIs
<1> HIDE DEF below
<1>4. others \in SUBSET Contents /\ H \in SUBSET (Contents \X Contents)
  BY <1>1 DEF Known
<1>5. /\ others \subseteq kept /\ Closed(kept, H)
      /\ \A T : others \subseteq T /\ Closed(T, H) => kept \subseteq T
  BY <1>4, ClosureIs
<1> HIDE DEF kept
<1>6. c \notin kept
  <2>1. others \subseteq Contents \ {c} /\ Closed(Contents \ {c}, H)
    BY <1>4 DEF Closed
  <2> QED BY <1>5, <2>1
<1>7. \A p \in Present : Bound(p) /\ Shown(p)
  BY DEF IInv, Phase, BoundInv
<1>8. (SteadyFiles \ {c}) \intersect Known \subseteq kept
  <2>1. ASSUME NEW x \in SteadyFiles, x # c, x \in Known PROVE x \in others
    <3>1. PICK p \in Present : x = disk[p]
      BY DEF SteadyFiles, Present
    <3> QED BY <1>7, <2>1, <3>1 DEF Shown
  <2> QED BY <1>5, <2>1
<1>9. \A r \in LinksWithout(c) : r \in holds /\ r[1] \in kept => r[2] \in kept
  BY <1>5 DEF LinksWithout, Closed
<1>10. LinksWithout(c) \in SUBSET PartPairs /\ \A r \in LinksWithout(c) : r[1] \in Known
  BY DEF LinksWithout
<1>11. SteadyFiles \ {c} \in SUBSET SteadyFiles
  OBVIOUS
<1>12. Closure(SteadyFiles \ {c}, LinksWithout(c)) \intersect Known \subseteq kept
  BY <1>7, <1>8, <1>9, <1>10, <1>11, Kept
<1> QED BY <1>2, <1>3, <1>6, <1>12

LEMMA ForgetKeeps ==
    ASSUME IInv, NEW c \in Contents, Forget(c)
    PROVE  IInv'
<1> DEFINE P == IF c \in Known THEN Exclusive(c) ELSE {}
<1>1. /\ run.at = "plan" /\ run.op = "forget"
      /\ run' = [run EXCEPT !.at = "delete", !.plan = P]
      /\ UNCHANGED <<disk, version, tables, steady>>
  BY DEF Forget
<1>2. /\ P \in SUBSET Contents
      /\ P # {} => c \in P /\ P \intersect Closure(SteadyFiles \ {c}, LinksWithout(c)) = {}
  BY <1>1, ExclusiveSpares DEF Known
<1> HIDE DEF P
<1>3. run'.plan = P /\ run'.op = "forget"
  BY <1>1 DEF IInv, Tables, RunOK
<1>4. SteadyFiles' = SteadyFiles /\ LinksWithout(c)' = LinksWithout(c)
  BY <1>1 DEF SteadyFiles, LinksWithout, PartPairs, Reads, Known, tables
<1>5. P # {} => Spares(c)'
  BY <1>2, <1>3, <1>4 DEF Spares
<1>6. PlanInv'
  BY <1>2, <1>3, <1>5 DEF PlanInv
<1> QED BY <1>1, <1>2, <1>6, PlannedKeeps

\* Deleted documents leave no row behind.
LEMMA WithoutKeeps ==
    ASSUME IInv, NEW S \in SUBSET Contents, Without(S), Running = {}, run' = Quiet,
           UNCHANGED <<disk, version, marker, steady>>
    PROVE  IInv'
<1>1. Phase' /\ RunOK'
  BY QuietPhase
<1>2. /\ doc \in [Contents -> Document] /\ job \in [Contents -> JobStages]
      /\ occ \in [Paths -> Occurrence]
      /\ holds \subseteq Known \X Known /\ members \subseteq holds
      /\ \A c \in Contents : job[c] # "none" => c \in Known
      /\ \A p \in Paths : Recorded(p)
  BY DEF IInv, Tables, LibraryTypeOK, JobsOK
<1>3. NoDocument \in Document /\ NoDocument.status = "none"
  BY DEF NoDocument, Document, Statuses, Routes
<1>4. /\ doc' \in [Contents -> Document] /\ job' \in [Contents -> JobStages]
      /\ \A c \in Contents : /\ doc'[c].status # "none" <=> c \in Known \ S
                             /\ job'[c] = IF c \in S THEN "none" ELSE job[c]
  BY <1>2, <1>3 DEF Without, Known, JobStages
<1>5. Known' = Known \ S /\ Running' = {}
  BY <1>4 DEF Known, Running
<1>6. \A p \in Paths : /\ occ'[p] \in Occurrence
                       /\ Recorded(p)'
  <2>1. SUFFICES ASSUME NEW p \in Paths PROVE occ'[p] \in Occurrence /\ Recorded(p)'
    OBVIOUS
  <2>2. CASE occ[p].doc \in S
    <3>1. occ'[p] = [doc |-> None, seen |-> FALSE, available |-> FALSE]
      BY <2>2 DEF Without
    <3> QED BY <3>1 DEF Occurrence, Recorded
  <2>3. CASE occ[p].doc \notin S
    <3>1. occ'[p] = occ[p]
      BY <2>3 DEF Without
    <3> QED BY <1>2, <1>5, <2>3, <3>1 DEF Recorded
  <2> QED BY <2>2, <2>3
<1>7. holds' \subseteq Known' \X Known' /\ members' \subseteq holds'
  <2>1. ASSUME NEW r \in holds, {r[1], r[2]} \intersect S = {} PROVE r \in Known' \X Known'
    BY <1>2, <1>5, <2>1
  <2> QED BY <1>2, <2>1 DEF Without
<1>8. occ' \in [Paths -> Occurrence]
  BY <1>6 DEF Without
<1>9. LibraryTypeOK'
  BY <1>1, <1>4, <1>7, <1>8 DEF IInv, Tables, LibraryTypeOK, RunOK, Runs
<1>10. JobsOK'
  BY <1>2, <1>4, <1>5 DEF JobsOK
<1> QED BY <1>1, <1>6, <1>9, <1>10 DEF IInv, Tables

LEMMA DeleteKeeps ==
    ASSUME IInv, Delete \/ Wipe
    PROVE  IInv'
<1>1. CASE Delete
  <2>1. run.plan \in SUBSET Contents /\ Running = {}
    BY <1>1, Alone DEF Delete, IInv, Tables, RunOK, Runs
  <2> QED BY <1>1, <2>1, WithoutKeeps DEF Delete
<1>2. CASE Wipe
  <2>1. run' = Quiet /\ run.op # "ingest"
    BY <1>2 DEF Wipe, Idle, Quiet
  <2>2. Running = {}
    BY <2>1, Alone
  <2>3. Contents \in SUBSET Contents
    OBVIOUS
  <2> QED BY <1>2, <2>1, <2>2, <2>3, WithoutKeeps DEF Wipe
<1> QED BY <1>1, <1>2

-----------------------------------------------------------------------------
(* The specification.                                                      *)

LEMMA InitInv == LibraryInit => IInv
<1> SUFFICES ASSUME LibraryInit PROVE IInv
  OBVIOUS
<1>1. /\ disk \in [Paths -> Contents \union {None}] /\ version = 1
      /\ job = [c \in Contents |-> "none"] /\ members = {} /\ marker = FALSE
      /\ occ = [p \in Paths |-> [doc |-> None, seen |-> FALSE, available |-> FALSE]]
      /\ run = Quiet /\ steady = {}
  BY DEF LibraryInit
<1>2. PICK old \in {{}, Legacy} :
          /\ \E status \in [Contents -> {"PENDING", "COMPLETED"}] :
                doc = [c \in Contents |->
                   IF c \notin old THEN NoDocument
                   ELSE IF Reads(c) = "declined" THEN Stub(c, FALSE)
                   ELSE [Stub(c, FALSE) EXCEPT !.status = status[c]]]
          /\ \E first \in [old -> old \union {None}] :
                /\ \A c \in old : first[c] # None => <<first[c], c>> \in PartPairs
                /\ holds = {<<first[c], c>> : c \in {d \in old : first[d] # None}}
  BY DEF LibraryInit
<1>3. version \in DOMAIN Route /\ old \subseteq Contents
  BY <1>1, <1>2, LibraryAssumption
<1>4. \A c \in Contents : Reads(c) \in Routes
  BY <1>3, LibraryAssumption DEF Reads
<1>5. \A c \in Contents : /\ Stub(c, FALSE) \in Document /\ Stub(c, FALSE).status # "none"
                          /\ Stub(c, FALSE) = [status |-> Stub(c, FALSE).status,
                                               type |-> Reads(c), shown |-> FALSE]
  BY <1>4 DEF Stub, Document, Statuses
<1>6. doc \in [Contents -> Document] /\ \A c \in Contents : doc[c].status # "none" <=> c \in old
  <2>1. PICK status \in [Contents -> {"PENDING", "COMPLETED"}] :
                doc = [c \in Contents |->
                   IF c \notin old THEN NoDocument
                   ELSE IF Reads(c) = "declined" THEN Stub(c, FALSE)
                   ELSE [Stub(c, FALSE) EXCEPT !.status = status[c]]]
    BY <1>2
  <2>2. NoDocument \in Document /\ NoDocument.status = "none"
    BY DEF NoDocument, Document, Statuses, Routes
  <2>3. \A c \in Contents :
            /\ [Stub(c, FALSE) EXCEPT !.status = status[c]] \in Document
            /\ [Stub(c, FALSE) EXCEPT !.status = status[c]].status # "none"
    BY <1>4, <1>5 DEF Document, Statuses
  <2> QED BY <1>5, <2>1, <2>2, <2>3
<1>7. Known = old
  BY <1>3, <1>6 DEF Known
<1>8. holds \subseteq Known \X Known
  <2>1. PICK first \in [old -> old \union {None}] :
            holds = {<<first[c], c>> : c \in {d \in old : first[d] # None}}
    BY <1>2
  <2> QED BY <1>7, <2>1
<1>9. RunOK /\ Phase
  <2>1. Idle /\ run.op = "none" /\ run.at = "-"
    BY <1>1 DEF Idle, Quiet
  <2>2. run \in Runs
    BY <1>1 DEF Quiet, Places, Runs
  <2>3. run.at \in Phases[run.op]
    BY <2>1 DEF Phases
  <2> QED BY <2>1, <2>2, <2>3 DEF RunOK, Phase, WalkInv, ScanInv, AgainInv, BoundInv, PlanInv
<1>10. LibraryTypeOK
  <2>1. job \in [Contents -> JobStages] /\ occ \in [Paths -> Occurrence]
    BY <1>1 DEF JobStages, Occurrence
  <2> QED BY <1>1, <1>3, <1>6, <1>8, <1>9, <2>1 DEF LibraryTypeOK, RunOK, Runs
<1>11. JobsOK /\ \A p \in Paths : Recorded(p)
  BY <1>1 DEF JobsOK, Recorded, Running
<1> QED BY <1>9, <1>10, <1>11 DEF IInv, Tables

LEMMA StutterKeeps == ASSUME IInv, UNCHANGED libraryVars PROVE IInv'
<1>1. UNCHANGED <<disk, version, doc, job, occ, holds, members, marker, run, steady>>
  BY DEF libraryVars, tables
<1>2. Known' = Known /\ Running' = Running /\ PartPairs' = PartPairs
  BY <1>1 DEF Known, Running, PartPairs, Reads
<1>3. Tables'
  BY <1>1, <1>2 DEF IInv, Tables, LibraryTypeOK, RunOK, JobsOK, Recorded, Idle
<1>4. WalkInv' /\ ScanInv' /\ AgainInv'
  BY <1>1, <1>2 DEF IInv, Phase, WalkInv, ScanInv, AgainInv, Present, Visiting, Observed
<1>5. BoundInv'
  <2>1. \A c : Replays(c, FALSE)' = Replays(c, FALSE)
    BY <1>1, <1>2 DEF Replays, Replayed, Reads
  <2>2. \A p : (Bound(p)' <=> Bound(p)) /\ (Shown(p)' <=> Shown(p))
    BY <1>1, <1>2, <2>1 DEF Bound, Shown
  <2> QED BY <1>1, <2>2 DEF IInv, Phase, BoundInv, Present
<1>6. PlanInv'
  <2>1. SteadyFiles' = SteadyFiles /\ Links' = Links /\ \A c : LinksWithout(c)' = LinksWithout(c)
    BY <1>1, <1>2 DEF SteadyFiles, Links, LinksWithout
  <2>2. \A c : Spares(c)' <=> Spares(c)
    BY <1>1, <2>1 DEF Spares
  <2> QED BY <1>1, <2>1, <2>2 DEF IInv, Phase, PlanInv
<1> QED BY <1>3, <1>4, <1>5, <1>6 DEF IInv, Phase

LEMMA NextInv == ASSUME IInv, [LibraryNext]_libraryVars PROVE IInv'
<1>1. CASE UNCHANGED libraryVars
  BY <1>1, StutterKeeps
<1>2. CASE \E p \in Paths : Change(p) \/ DeferFile(p)
  BY <1>2, ChangeKeeps, DeferKeeps
<1>3. CASE \E c \in Contents : Claim(c) \/ Work(c)
  BY <1>3, ClaimKeeps, HandlerKeeps
<1>4. CASE Ingest \/ Tick \/ \E op \in {"sweep", "forget"} : Command(op)
  BY <1>4, BeginKeeps
<1>5. CASE Scanning
  <2>1. CASE \E p \in Paths : AdmitFile(p) \/ BindFile(p) \/ LoseFile(p)
    BY <2>1, AdmitKeeps, BindKeeps, LoseKeeps
  <2>2. CASE FinishScan \/ FinishIncomplete
    BY <2>2, FinishScanKeeps, FinishIncompleteKeeps
  <2>3. CASE (\E c \in Contents : ResumeLegacy(c)) \/ ResumeSources
    BY <2>3, ResumeLegacyKeeps, ResumedKeeps
  <2> QED BY <1>5, <2>1, <2>2, <2>3 DEF Scanning
<1>6. CASE Again \/ Finish
  <2>1. Finish => run' = Quiet
    BY DEF Finish
  <2> QED BY <1>6, <2>1, ResumedKeeps, EndsKeep
<1>7. CASE Judging
  <2>1. Decide => run' = Quiet
    BY DEF Decide
  <2> QED BY <1>7, <2>1, ContainKeeps, PlanKeeps, DeleteKeeps, EndsKeep, ForgetKeeps DEF Judging
<1>8. CASE Wipe \/ Stop \/ Upgrade
  BY <1>8, DeleteKeeps, StopKeeps, UpgradeKeeps
<1> QED BY <1>1, <1>2, <1>3, <1>4, <1>5, <1>6, <1>7, <1>8 DEF LibraryNext, Closing

\* What the tables hold and how far the command that has the lock has come,
\* whatever happens to files in between (Service.Scan, FinishScan, drain,
\* BindExisting, Pruner.Plan, DeleteBySHA).
THEOREM Inductive == LibrarySpec => []IInv
<1>1. IInv /\ [LibraryNext]_libraryVars => IInv'
  BY NextInv
<1> QED BY <1>1, InitInv, PTL DEF LibrarySpec

\* Only known documents have jobs, occurrences and placements, and every member
\* recorded for replay is a placement.
THEOREM LibraryTyped == LibrarySpec => []LibraryTypeOK
<1>1. IInv => LibraryTypeOK
  BY DEF IInv, Tables
<1> QED BY <1>1, Inductive, PTL

-----------------------------------------------------------------------------
(* The properties.                                                         *)

\* A step that marks the original of a steady file missing.
LEMMA Proven ==
    ASSUME IInv, [LibraryNext]_libraryVars, NEW p \in steady,
           occ[p].available, occ[p].doc = disk[p], occ'[p].doc = occ[p].doc
    PROVE  occ'[p].available
<1>1. /\ p \in Paths /\ occ \in [Paths -> Occurrence]
      /\ occ[p].doc # None /\ occ[p].doc \in Known
  BY DEF IInv, Tables, LibraryTypeOK, Recorded
<1>2. CASE occ' = occ
  BY <1>2
<1>3. CASE \E q \in Paths : Observe(q)
  <2>1. PICK q \in Paths :
            occ' = [occ EXCEPT ![q] = [doc |-> disk[q], seen |-> TRUE, available |-> TRUE]]
    BY <1>3 DEF Observe
  <2> QED BY <1>1, <2>1
<1>4. CASE \E op \in Ops : Walk(op)
  <2>1. occ'[p] = [occ[p] EXCEPT !.seen = FALSE]
    BY <1>1, <1>4 DEF Walk
  <2> QED BY <1>1, <2>1 DEF Occurrence
<1>5. CASE FinishScan
  <2>1. run.at = "walk" /\ run.clean /\ run.listed = {}
    BY <1>5 DEF FinishScan, Complete
  <2>2. Visiting(p)
    BY <1>1, <2>1 DEF IInv, Phase, WalkInv, Present
  <2>3. occ[p].seen
    BY <1>1, <2>1, <2>2 DEF Visiting
  <2>4. occ'[p] = [occ[p] EXCEPT !.available = @ /\ occ[p].seen] /\ occ[p] \in Occurrence
    BY <1>1, <1>5 DEF FinishScan
  <2> QED BY <2>3, <2>4 DEF Occurrence
<1>6. CASE \E S : Without(S)
  <2>1. PICK S : occ' = [q \in Paths |->
          IF occ[q].doc \in S
          THEN [doc |-> None, seen |-> FALSE, available |-> FALSE] ELSE occ[q]]
    BY <1>6 DEF Without
  <2>2. occ'[p].doc # None
    BY <1>1
  <2>3. occ'[p] = IF occ[p].doc \in S
                  THEN [doc |-> None, seen |-> FALSE, available |-> FALSE] ELSE occ[p]
    BY <1>1, <2>1
  <2> QED BY <2>2, <2>3
<1>7. \/ occ' = occ \/ (\E q \in Paths : Observe(q)) \/ (\E op \in Ops : Walk(op))
      \/ FinishScan \/ \E S : Without(S)
  <2>1. CASE UNCHANGED libraryVars
    BY <2>1 DEF libraryVars, tables
  <2>2. CASE \E q \in Paths : Change(q) \/ DeferFile(q)
    BY <2>2 DEF Change, DeferFile, tables
  <2>3. CASE \E c \in Contents : Claim(c) \/ Work(c)
    BY <2>3 DEF Claim, Work, Park, Decline, Commit
  <2>4. CASE Ingest \/ Tick \/ \E op \in {"sweep", "forget"} : Command(op)
    BY <2>4 DEF Ingest, Tick, Command, Ops
  <2>5. CASE Scanning
    BY <2>5 DEF Scanning, AdmitFile, BindFile, LoseFile, FinishIncomplete, ResumeLegacy,
                ResumeSources, tables
  <2>6. CASE Again \/ Finish
    BY <2>6 DEF Again, Finish, tables
  <2>7. CASE Judging
    BY <2>7 DEF Judging, Contain, Plan, Delete, Decide, Forget, tables
  <2>8. CASE Wipe \/ Stop \/ Upgrade
    BY <2>8 DEF Wipe, Stop, Upgrade, tables
  <2> QED BY <2>1, <2>2, <2>3, <2>4, <2>5, <2>6, <2>7, <2>8 DEF LibraryNext, Closing
<1> QED BY <1>2, <1>3, <1>4, <1>5, <1>6, <1>7

\* Only a scan during which the file was not there all the time marks an original
\* missing (Service.Scan, FinishScan).
THEOREM MissingIsProven == LibrarySpec => AbsenceProven
<1>1. IInv /\ [LibraryNext]_libraryVars =>
          [\A p \in steady :
              occ[p].available /\ occ[p].doc = disk[p] /\ occ'[p].doc = occ[p].doc
                 => occ'[p].available]_libraryVars
  BY Proven
<1> QED BY <1>1, Inductive, PTL DEF LibrarySpec, AbsenceProven

\* No sweep and no forgetting deletes a document that staged files hold in spite
\* of it, and none leaves a row behind (retention/reconcile.go,
\* placement_repo.go, document_repo.go).
THEOREM HeldIsKept == LibrarySpec => KeepsHeld
<1>1. IInv => (run.op = "sweep" /\ Delete =>
          run.plan \intersect
          Closure(SteadyFiles, {r \in PartPairs : r[1] \in Known /\ r[2] \notin Ignored})
             = {})
  BY DEF IInv, Phase, PlanInv, Links, Delete
<1>2. IInv => (run.op = "forget" /\ Delete /\ run.plan # {} =>
          \E c \in run.plan :
             run.plan \intersect
             Closure(SteadyFiles \ {c},
                     {r \in PartPairs : r[1] \in Known \ {c} /\ r[2] \notin Ignored \union {c}})
                = {})
  BY DEF IInv, Phase, PlanInv, Spares, LinksWithout, Delete
<1>3. LibrarySpec => SweepKeepsHeld
  BY <1>1, Inductive, PTL DEF LibrarySpec, SweepKeepsHeld
<1>4. LibrarySpec => ForgetKeepsHeld
  BY <1>2, Inductive, PTL DEF LibrarySpec, ForgetKeepsHeld
<1> QED BY <1>3, <1>4, LibraryTyped, PTL DEF KeepsHeld

\* An ingestion whose scan was complete leaves no job waiting for a file that was
\* there all the while (drain).
THEOREM NoWaitMissed == LibrarySpec => NoMissedWait
<1>1. IInv => (run.op = "ingest" /\ run.clean /\ Finish =>
          \A c \in SteadyFiles : job[c] # "waiting")
  <2>1. SUFFICES ASSUME IInv, run.clean, Finish, NEW c \in SteadyFiles
                 PROVE  job[c] # "waiting"
    OBVIOUS
  <2>2. PICK p \in Present : c = disk[p]
    BY DEF SteadyFiles, Present
  <2>3. c \in Contents
    BY <2>1, <2>2 DEF IInv, Tables, LibraryTypeOK, Present
  <2>4. CASE run.at = "again"
    BY <2>1, <2>2, <2>4 DEF IInv, Phase, AgainInv
  <2>5. CASE ~Waits
    BY <2>3, <2>5 DEF Waits
  <2> QED BY <2>1, <2>4, <2>5 DEF Finish, Drained
<1> QED BY <1>1, Inductive, PTL DEF LibrarySpec, NoMissedWait
=============================================================================
