------------------------- MODULE OperationsProofs -------------------------
(***************************************************************************)
(* Proofs about what bounds the work of one process: the gate's slots      *)
(* (WorkerPools), the embedding client's breaker (Breaker), the slots of   *)
(* the readers of pages (Pages), and the chunks, batches and cache of the  *)
(* embed lanes (Embedding).                                                *)
(***************************************************************************)
EXTENDS WorkerPools, Breaker, Pages, Embedding, SetInduction, FiniteSetTheorems,
        SequenceTheorems, TLAPS

HoldingLanes == {l \in Lanes : lane[l] \in Holding}
Row(p) == {p} \X (1..loop[p].slots)
LoopRows == UNION {Row(p) : p \in Pools}

\* The slots add up.
SlotSum ==
    /\ IsFiniteSet(LoopRows)
    /\ free + Cardinality(HoldingLanes) + Cardinality(LoopRows) = Total

\* A loop has slots from its reservation to the last hand-over, and looked at
\* the bound before it claims.
LoopInv ==
    \A p \in Pools :
        /\ (loop[p].slots > 0) = (loop[p].at \in {"claim", "hand", "return"})
        /\ loop[p].at \in {"reserve", "claim"} => claims[p] < MaxClaims

\* The counter is exact, and a loop asks for, reserves and hands over no more
\* than there are lanes of its pool to take it.
IdleLane == {"receive", "counted"}
IdleOf(p) == {l \in LanesOf(p) : lane[l] \in IdleLane}
CountInv ==
    \A p \in Pools :
        /\ inFlight[p] = Cardinality(LanesOf(p)) - Cardinality(IdleOf(p))
        /\ loop[p].at = "reserve" => loop[p].want <= Cardinality(IdleOf(p))
        /\ loop[p].at \in {"claim", "hand"} => loop[p].slots <= Cardinality(IdleOf(p))

PoolInv == PoolTypeOK /\ SlotSum /\ LoopInv /\ CountInv

-----------------------------------------------------------------------------
(* Counting.                                                               *)

LEMMA FiniteParts ==
  ASSUME NEW S, S \subseteq Lanes
  PROVE  IsFiniteSet(S) /\ Cardinality(S) \in Nat /\ Cardinality(S) <= Cardinality(Lanes)
BY PoolAssumption, FS_Subset, FS_CardinalityType DEF PoolAssumption

LEMMA LaneSets ==
  ASSUME NEW p \in Pools
  PROVE  /\ IsFiniteSet(HoldingLanes) /\ Cardinality(HoldingLanes) \in Nat
         /\ IsFiniteSet(LanesOf(p)) /\ Cardinality(LanesOf(p)) \in Nat
         /\ IsFiniteSet(IdleOf(p)) /\ Cardinality(IdleOf(p)) \in Nat
         /\ Cardinality(IdleOf(p)) <= Cardinality(LanesOf(p))
         /\ Cardinality(LanesOf(p)) <= Cardinality(Lanes)
<1>1. /\ HoldingLanes \subseteq Lanes /\ LanesOf(p) \subseteq Lanes
      /\ IdleOf(p) \subseteq LanesOf(p) /\ IdleOf(p) \subseteq Lanes
  BY DEF HoldingLanes, LanesOf, IdleOf
<1>2. IsFiniteSet(LanesOf(p)) /\ Cardinality(IdleOf(p)) <= Cardinality(LanesOf(p))
  BY <1>1, FiniteParts, FS_Subset
<1> QED
  BY <1>1, <1>2, FiniteParts

LEMMA RowSize ==
  ASSUME NEW p, NEW n \in Nat
  PROVE  IsFiniteSet({p} \X (1..n)) /\ Cardinality({p} \X (1..n)) = n
<1>1. IsFiniteSet(1..n) /\ Cardinality(1..n) = n
  BY FS_Interval
<1>2. IsFiniteSet({p}) /\ Cardinality({p}) = 1
  BY FS_Singleton
<1> QED
  BY <1>1, <1>2, FS_Product

\* When a loop's slots become n, what is reserved changes by the difference.
LEMMA RowsAfter ==
  ASSUME PoolTypeOK, IsFiniteSet(LoopRows), NEW p \in Pools, NEW n \in Nat,
         NEW place, NEW want, LoopGo(p, place, want, n)
  PROVE  /\ IsFiniteSet(LoopRows')
         /\ Cardinality(LoopRows') = Cardinality(LoopRows) - loop[p].slots + n
         /\ Cardinality(LoopRows) >= loop[p].slots
<1> DEFINE others == UNION {Row(q) : q \in Pools \ {p}}
           new == {p} \X (1..n)
<1>1. loop[p].slots \in Nat
  BY DEF PoolTypeOK, Loop
<1>2. IsFiniteSet(Row(p)) /\ Cardinality(Row(p)) = loop[p].slots
  BY <1>1, RowSize DEF Row
<1>3. IsFiniteSet(new) /\ Cardinality(new) = n
  BY RowSize
<1>4. LoopRows = others \union Row(p) /\ others \intersect Row(p) = {}
  BY DEF LoopRows, Row
<1>5. LoopRows' = others \union new /\ others \intersect new = {}
  <2>1. loop' = [loop EXCEPT ![p] = [at |-> place, want |-> want, slots |-> n]]
    BY DEF LoopGo
  <2>2. \A q \in Pools \ {p} : loop'[q] = loop[q]
    BY <2>1 DEF PoolTypeOK
  <2>3. loop'[p].slots = n
    BY <2>1 DEF PoolTypeOK
  <2> QED
    BY <2>2, <2>3 DEF LoopRows, Row
<1>6. IsFiniteSet(others)
  BY <1>4, FS_Subset
<1> HIDE DEF others, new
<1>7. Cardinality(others) \in Nat
  BY <1>6, FS_CardinalityType
<1>8. Cardinality(others \union Row(p)) = Cardinality(others) + loop[p].slots
  <2>1. Cardinality(others \intersect Row(p)) = 0
    BY <1>4, FS_EmptySet, Zenon
  <2>2. Cardinality(others \union Row(p)) =
           Cardinality(others) + Cardinality(Row(p)) - Cardinality(others \intersect Row(p))
    BY <1>2, <1>6, FS_Union
  <2> QED
    BY <1>1, <1>2, <1>7, <2>1, <2>2
<1>9. /\ IsFiniteSet(others \union new)
      /\ Cardinality(others \union new) = Cardinality(others) + n
  <2>1. Cardinality(others \intersect new) = 0
    BY <1>5, FS_EmptySet, Zenon
  <2>2. /\ IsFiniteSet(others \union new)
        /\ Cardinality(others \union new) =
              Cardinality(others) + Cardinality(new) - Cardinality(others \intersect new)
    BY <1>3, <1>6, FS_Union
  <2> QED
    BY <1>3, <1>7, <2>1, <2>2
<1>10. Cardinality(LoopRows) = Cardinality(others) + loop[p].slots
  BY <1>4, <1>8, Zenon
<1>11. IsFiniteSet(LoopRows') /\ Cardinality(LoopRows') = Cardinality(others) + n
  BY <1>5, <1>9, Zenon
<1> QED
  BY <1>1, <1>7, <1>10, <1>11

-----------------------------------------------------------------------------
(* The gate.                                                               *)

\* Slots that somebody held come back in full: the clamp never cuts.
LEMMA ReleaseExact ==
  ASSUME PoolTypeOK, NEW n \in Nat, free + n <= Total, Release(n)
  PROVE  free' = free + n /\ fresh' \subseteq Lanes
<1>1. free \in Nat /\ Total \in Nat /\ fresh \subseteq Lanes
  BY PoolAssumption DEF PoolTypeOK, PoolAssumption
<1>2. CASE n < 1
  BY <1>1, <1>2 DEF Release
<1>3. CASE ~(n < 1)
  BY <1>1, <1>3 DEF Release, Least
<1> QED
  BY <1>2, <1>3

\* One element more, or one less.
LEMMA OneMore ==
  ASSUME NEW S, IsFiniteSet(S), NEW T, NEW x, x \notin S, T = S \union {x}
  PROVE  Cardinality(T) = Cardinality(S) + 1
BY FS_AddElement

LEMMA OneLess ==
  ASSUME NEW S, IsFiniteSet(S), NEW T, NEW x, x \in S, T = S \ {x}
  PROVE  Cardinality(T) = Cardinality(S) - 1
BY FS_RemoveElement

\* What a move of lane l changes in the number of lanes with a slot.
LEMMA HoldingMoves ==
  ASSUME PoolTypeOK, NEW l \in Lanes, NEW to \in Phases,
         lane' = [lane EXCEPT ![l] = to]
  PROVE  /\ lane[l] \in Holding /\ to \in Holding =>
               Cardinality(HoldingLanes') = Cardinality(HoldingLanes)
         /\ lane[l] \notin Holding /\ to \notin Holding =>
               Cardinality(HoldingLanes') = Cardinality(HoldingLanes)
         /\ lane[l] \notin Holding /\ to \in Holding =>
               Cardinality(HoldingLanes') = Cardinality(HoldingLanes) + 1
         /\ lane[l] \in Holding /\ to \notin Holding =>
               Cardinality(HoldingLanes') = Cardinality(HoldingLanes) - 1
<1>1. \A k \in Lanes : lane'[k] = IF k = l THEN to ELSE lane[k]
  BY DEF PoolTypeOK
<1>2. IsFiniteSet(HoldingLanes)
  BY FiniteParts DEF HoldingLanes
<1>3. ASSUME (lane[l] \in Holding) = (to \in Holding)
      PROVE  Cardinality(HoldingLanes') = Cardinality(HoldingLanes)
  <2>1. HoldingLanes' = HoldingLanes
    BY <1>1, <1>3 DEF HoldingLanes
  <2> QED
    BY <2>1, Zenon
<1>4. ASSUME lane[l] \notin Holding, to \in Holding
      PROVE  Cardinality(HoldingLanes') = Cardinality(HoldingLanes) + 1
  <2>1. HoldingLanes' = HoldingLanes \union {l} /\ l \notin HoldingLanes
    BY <1>1, <1>4 DEF HoldingLanes
  <2> QED
    BY <1>2, <2>1, OneMore, Zenon
<1>5. ASSUME lane[l] \in Holding, to \notin Holding
      PROVE  Cardinality(HoldingLanes') = Cardinality(HoldingLanes) - 1
  <2>1. HoldingLanes' = HoldingLanes \ {l} /\ l \in HoldingLanes
    BY <1>1, <1>5 DEF HoldingLanes
  <2> QED
    BY <1>2, <2>1, OneLess, Zenon
<1> QED
  BY <1>3, <1>4, <1>5

\* And in the number of idle lanes of pool p.
LEMMA IdleMoves ==
  ASSUME PoolTypeOK, NEW l \in Lanes, NEW to \in Phases,
         lane' = [lane EXCEPT ![l] = to], NEW p \in Pools
  PROVE  /\ PoolOf[l] # p => Cardinality(IdleOf(p)') = Cardinality(IdleOf(p))
         /\ lane[l] \in IdleLane /\ to \in IdleLane =>
               Cardinality(IdleOf(p)') = Cardinality(IdleOf(p))
         /\ lane[l] \notin IdleLane /\ to \notin IdleLane =>
               Cardinality(IdleOf(p)') = Cardinality(IdleOf(p))
         /\ PoolOf[l] = p /\ lane[l] \notin IdleLane /\ to \in IdleLane =>
               Cardinality(IdleOf(p)') = Cardinality(IdleOf(p)) + 1
         /\ PoolOf[l] = p /\ lane[l] \in IdleLane /\ to \notin IdleLane =>
               Cardinality(IdleOf(p)') = Cardinality(IdleOf(p)) - 1
<1>1. \A k \in Lanes : lane'[k] = IF k = l THEN to ELSE lane[k]
  BY DEF PoolTypeOK
<1>2. IsFiniteSet(IdleOf(p))
  BY FiniteParts DEF IdleOf, LanesOf
<1>3. ASSUME PoolOf[l] # p \/ (lane[l] \in IdleLane) = (to \in IdleLane)
      PROVE  Cardinality(IdleOf(p)') = Cardinality(IdleOf(p))
  <2>1. IdleOf(p)' = IdleOf(p)
    BY <1>1, <1>3 DEF IdleOf, LanesOf
  <2> QED
    BY <2>1, Zenon
<1>4. ASSUME PoolOf[l] = p, lane[l] \notin IdleLane, to \in IdleLane
      PROVE  Cardinality(IdleOf(p)') = Cardinality(IdleOf(p)) + 1
  <2>1. IdleOf(p)' = IdleOf(p) \union {l} /\ l \notin IdleOf(p)
    BY <1>1, <1>4 DEF IdleOf, LanesOf
  <2> QED
    BY <1>2, <2>1, OneMore, Zenon
<1>5. ASSUME PoolOf[l] = p, lane[l] \in IdleLane, to \notin IdleLane
      PROVE  Cardinality(IdleOf(p)') = Cardinality(IdleOf(p)) - 1
  <2>1. IdleOf(p)' = IdleOf(p) \ {l} /\ l \in IdleOf(p)
    BY <1>1, <1>5 DEF IdleOf, LanesOf
  <2> QED
    BY <1>2, <2>1, OneLess, Zenon
<1> QED
  BY <1>3, <1>4, <1>5

-----------------------------------------------------------------------------
(* Steps.                                                                  *)

LEMMA SetsAfter ==
  ASSUME NEW p \in Pools
  PROVE  /\ IsFiniteSet(IdleOf(p)') /\ Cardinality(IdleOf(p)') \in Nat
         /\ Cardinality(IdleOf(p)') <= Cardinality(LanesOf(p))
<1>1. IdleOf(p)' \subseteq LanesOf(p) /\ IdleOf(p)' \subseteq Lanes
  BY DEF IdleOf, LanesOf
<1> QED
  BY <1>1, LaneSets, FiniteParts, FS_Subset

\* A step of the claim loop of p that moves slots between it and the gate.
LEMMA LoopKeeps ==
  ASSUME PoolInv, NEW p \in Pools, NEW place \in LoopStates,
         NEW want \in 0..Cardinality(Lanes), NEW n \in Nat,
         LoopGo(p, place, want, n), UNCHANGED <<inFlight, lane, stopping>>,
         free' \in Nat, free' + n = free + loop[p].slots,
         fresh' \subseteq Lanes, claims' \in [Pools -> 0..MaxClaims],
         \A q \in Pools \ {p} : claims'[q] = claims[q],
         place \in {"reserve", "claim"} => claims'[p] < MaxClaims,
         (n > 0) = (place \in {"claim", "hand", "return"}),
         place = "reserve" => want <= Cardinality(IdleOf(p)),
         place \in {"claim", "hand"} => n <= Cardinality(IdleOf(p))
  PROVE  PoolInv'
<1>1. /\ PoolTypeOK /\ SlotSum /\ LoopInv /\ CountInv
      /\ Total \in Nat /\ loop[p].slots \in Nat /\ free \in Nat
  BY PoolAssumption DEF PoolInv, PoolTypeOK, Loop, PoolAssumption
<1>2. HoldingLanes' = HoldingLanes /\ \A q \in Pools : IdleOf(q)' = IdleOf(q)
  BY DEF HoldingLanes, IdleOf
<1>3. /\ IsFiniteSet(LoopRows')
      /\ Cardinality(LoopRows') = Cardinality(LoopRows) - loop[p].slots + n
      /\ Cardinality(LoopRows) >= loop[p].slots
  BY <1>1, RowsAfter DEF SlotSum
<1>4. /\ Cardinality(HoldingLanes) \in Nat
      /\ Cardinality(LoopRows) \in Nat /\ Cardinality(LoopRows') \in Nat
  BY <1>1, <1>3, LaneSets, FS_CardinalityType DEF SlotSum
<1>5. Cardinality(HoldingLanes') = Cardinality(HoldingLanes)
  BY <1>2, Zenon
<1>6. SlotSum'
  <2>1. free' + Cardinality(HoldingLanes') + Cardinality(LoopRows') = Total
    BY <1>1, <1>3, <1>4, <1>5, SMTT(60) DEF SlotSum
  <2> QED
    BY <1>2, <1>3, <2>1 DEF SlotSum
<1>7. free' <= Total /\ n <= Total
  BY <1>1, <1>3, <1>4, <1>5, <1>6 DEF SlotSum
<1>8. loop' = [loop EXCEPT ![p] = [at |-> place, want |-> want, slots |-> n]]
  BY DEF LoopGo
<1>9. PoolTypeOK'
  BY <1>1, <1>7, <1>8 DEF PoolTypeOK, Loop
<1>10. LoopInv'
  BY <1>1, <1>8 DEF LoopInv, PoolTypeOK
<1>11. CountInv'
  <2> SUFFICES ASSUME NEW q \in Pools
               PROVE  /\ inFlight'[q] = Cardinality(LanesOf(q)) - Cardinality(IdleOf(q)')
                      /\ loop'[q].at = "reserve" => loop'[q].want <= Cardinality(IdleOf(q)')
                      /\ loop'[q].at \in {"claim", "hand"} =>
                            loop'[q].slots <= Cardinality(IdleOf(q)')
    BY DEF CountInv, LanesOf
  <2>1. Cardinality(IdleOf(q)') = Cardinality(IdleOf(q))
    BY <1>2, Zenon
  <2>2. loop'[q] = IF q = p THEN [at |-> place, want |-> want, slots |-> n] ELSE loop[q]
    BY <1>1, <1>8 DEF PoolTypeOK
  <2> QED
    BY <1>1, <2>1, <2>2 DEF CountInv
<1> QED
  BY <1>6, <1>9, <1>10, <1>11 DEF PoolInv

\* A step of a lane that takes d slots from the gate, or gives them back, and
\* makes no lane busy.
LEMMA LaneKeeps ==
  ASSUME PoolInv, NEW l \in Lanes, NEW from, NEW to \in Phases, MoveLane(l, from, to),
         NEW d \in Int, free' = free - d, free' \in Nat, fresh' \subseteq Lanes,
         Cardinality(HoldingLanes') = Cardinality(HoldingLanes) + d,
         \A q \in Pools : /\ Cardinality(IdleOf(q)') >= Cardinality(IdleOf(q))
                          /\ inFlight'[q] = Cardinality(LanesOf(q)) - Cardinality(IdleOf(q)'),
         DOMAIN inFlight' = Pools, inFlight' = [q \in Pools |-> inFlight'[q]]
  PROVE  PoolInv'
<1>1. /\ PoolTypeOK /\ SlotSum /\ LoopInv /\ CountInv
      /\ Total \in Nat /\ free \in Nat
  BY PoolAssumption DEF PoolInv, PoolTypeOK, PoolAssumption
<1>2. lane' = [lane EXCEPT ![l] = to] /\ UNCHANGED <<loop, claims, stopping>>
  BY DEF MoveLane
<1>3. LoopRows' = LoopRows
  BY <1>2 DEF LoopRows, Row
<1>4. IsFiniteSet(LoopRows') /\ Cardinality(LoopRows') = Cardinality(LoopRows)
  BY <1>1, <1>3, Zenon DEF SlotSum
<1>5. /\ Cardinality(HoldingLanes) \in Nat /\ Cardinality(HoldingLanes') \in Nat
      /\ Cardinality(LoopRows) \in Nat
  <2>1. HoldingLanes \subseteq Lanes /\ HoldingLanes' \subseteq Lanes
    BY DEF HoldingLanes
  <2> QED
    BY <1>1, <2>1, FiniteParts, FS_CardinalityType DEF SlotSum
<1>6. free' + Cardinality(HoldingLanes') + Cardinality(LoopRows') = Total
  BY <1>1, <1>4, <1>5 DEF SlotSum
<1>7. SlotSum' /\ free' <= Total
  BY <1>1, <1>4, <1>5, <1>6 DEF SlotSum
<1>8. LoopInv'
  BY <1>1, <1>2 DEF LoopInv
<1>9. CountInv'
  <2> SUFFICES ASSUME NEW q \in Pools
               PROVE  /\ inFlight'[q] = Cardinality(LanesOf(q)) - Cardinality(IdleOf(q)')
                      /\ loop'[q].at = "reserve" => loop'[q].want <= Cardinality(IdleOf(q)')
                      /\ loop'[q].at \in {"claim", "hand"} =>
                            loop'[q].slots <= Cardinality(IdleOf(q)')
    BY DEF CountInv, LanesOf
  <2>1. /\ loop[q].want \in Nat /\ loop[q].slots \in Nat
        /\ Cardinality(IdleOf(q)) \in Nat /\ Cardinality(IdleOf(q)') \in Nat
    BY <1>1, LaneSets, SetsAfter DEF PoolTypeOK, Loop
  <2> QED
    BY <1>1, <1>2, <2>1 DEF CountInv
<1>10. \A q \in Pools : inFlight'[q] \in 0..Cardinality(Lanes)
  <2> TAKE q \in Pools
  <2> QED
    BY LaneSets, SetsAfter, FiniteParts
<1>11. inFlight' \in [Pools -> 0..Cardinality(Lanes)]
  BY <1>10
<1>12. PoolTypeOK'
  BY <1>1, <1>2, <1>7, <1>11 DEF PoolTypeOK
<1> QED
  BY <1>7, <1>8, <1>9, <1>12 DEF PoolInv

\* What a loop has reserved, and what a lane owns, is missing at the gate.
LEMMA LoopRoom ==
  ASSUME PoolInv, NEW p \in Pools
  PROVE  free + loop[p].slots <= Total
<1>1. Row(p) \subseteq LoopRows /\ loop[p].slots \in Nat /\ free \in Nat
  BY DEF LoopRows, PoolInv, PoolTypeOK, Loop
<1>2. Cardinality(Row(p)) = loop[p].slots
  BY <1>1, RowSize DEF Row
<1>3. Cardinality(Row(p)) <= Cardinality(LoopRows) /\ Cardinality(LoopRows) \in Nat
  BY <1>1, FS_Subset, FS_CardinalityType DEF PoolInv, SlotSum
<1>4. Cardinality(HoldingLanes) \in Nat /\ Total \in Nat
  BY LaneSets, PoolAssumption DEF PoolAssumption
<1> QED
  BY <1>1, <1>2, <1>3, <1>4 DEF PoolInv, SlotSum

LEMMA LaneRoom ==
  ASSUME PoolInv, NEW l \in Lanes, lane[l] \in Holding
  PROVE  free + 1 <= Total
<1>1. HoldingLanes \subseteq Lanes /\ l \in HoldingLanes
  BY DEF HoldingLanes
<1>2. IsFiniteSet(HoldingLanes) /\ Cardinality(HoldingLanes) \in Nat
  BY <1>1, FiniteParts
<1>3. Cardinality(HoldingLanes) # 0
  BY <1>1, <1>2, FS_EmptySet
<1>4. Cardinality(LoopRows) \in Nat /\ Total \in Nat /\ free \in Nat
  BY FS_CardinalityType, PoolAssumption DEF PoolInv, SlotSum, PoolTypeOK, PoolAssumption
<1>5. free + Cardinality(HoldingLanes) + Cardinality(LoopRows) = Total
  BY DEF PoolInv, SlotSum
<1> DEFINE mine == Cardinality(HoldingLanes)
           theirs == Cardinality(LoopRows)
<1>6. mine \in Nat /\ mine # 0 /\ theirs \in Nat /\ free + mine + theirs = Total
  BY <1>2, <1>3, <1>4, <1>5
<1> HIDE DEF mine, theirs
<1> QED
  BY <1>4, <1>6

\* Where loop p stands, in numbers.
LEMMA LoopNumbers ==
  ASSUME PoolInv, NEW p \in Pools
  PROVE  /\ loop[p].slots \in Nat /\ loop[p].want \in Nat /\ free \in Nat /\ Total \in Nat
         /\ loop[p].at \in {"look", "reserve", "over"} => loop[p].slots = 0
         /\ loop[p].at \in {"claim", "hand", "return"} => loop[p].slots >= 1
         /\ loop[p].at = "reserve" => loop[p].want <= Cardinality(IdleOf(p))
         /\ loop[p].at \in {"claim", "hand"} => loop[p].slots <= Cardinality(IdleOf(p))
         /\ Cardinality(IdleOf(p)) \in 0..Cardinality(Lanes) /\ Cardinality(Lanes) \in Nat
         /\ inFlight[p] = Cardinality(LanesOf(p)) - Cardinality(IdleOf(p))
         /\ fresh \subseteq Lanes /\ claims \in [Pools -> 0..MaxClaims]
         /\ loop[p].at \in {"reserve", "claim"} => claims[p] < MaxClaims
<1>1. loop[p].slots \in Nat /\ loop[p].want \in Nat /\ free \in Nat /\ Total \in Nat
  BY PoolAssumption DEF PoolInv, PoolTypeOK, Loop, PoolAssumption
<1>2. /\ (loop[p].slots > 0) = (loop[p].at \in {"claim", "hand", "return"})
      /\ loop[p].at \in {"reserve", "claim"} => claims[p] < MaxClaims
  BY DEF PoolInv, LoopInv
<1>3. Cardinality(IdleOf(p)) \in 0..Cardinality(Lanes) /\ Cardinality(Lanes) \in Nat
  BY LaneSets, FiniteParts
<1> QED
  BY <1>1, <1>2, <1>3 DEF PoolInv, CountInv, PoolTypeOK

LEMMA LookKeeps == ASSUME PoolInv, NEW p \in Pools, Look(p) PROVE PoolInv'
<1>1. /\ LoopGo(p, "reserve", IdleLanes(p), 0)
      /\ loop[p].at = "look" /\ claims[p] < MaxClaims
      /\ UNCHANGED <<free, fresh, inFlight, lane, claims, stopping>>
  BY DEF Look, LoopAt
<1>2. IdleLanes(p) = Cardinality(IdleOf(p))
  BY LoopNumbers, LaneSets DEF IdleLanes
<1>3. /\ IdleLanes(p) \in 0..Cardinality(Lanes) /\ free' \in Nat
      /\ free' + 0 = free + loop[p].slots /\ fresh' \subseteq Lanes
      /\ claims' \in [Pools -> 0..MaxClaims]
      /\ IdleLanes(p) <= Cardinality(IdleOf(p))
  BY <1>1, <1>2, LoopNumbers
<1> QED
  BY <1>1, <1>3, LoopKeeps DEF LoopStates

LEMMA ReserveKeeps == ASSUME PoolInv, NEW p \in Pools, Reserve(p) PROVE PoolInv'
<1> DEFINE n == Reservable(loop[p].want)
           place == IF n = 0 THEN "look" ELSE "claim"
<1>1. /\ LoopGo(p, place, 0, n) /\ free' = free - n
      /\ loop[p].at = "reserve"
      /\ UNCHANGED <<fresh, inFlight, lane, claims, stopping>>
  BY DEF Reserve, LoopAt
<1>2. n \in Nat /\ n <= free /\ n <= loop[p].want
  BY LoopNumbers DEF Reservable, Least
<1>3. /\ place \in LoopStates /\ place # "reserve" /\ place # "hand"
      /\ (n > 0) = (place \in {"claim", "hand", "return"})
  BY <1>2 DEF LoopStates
<1> HIDE DEF n, place
<1>4. /\ 0 \in 0..Cardinality(Lanes) /\ free' \in Nat
      /\ free' + n = free + loop[p].slots /\ fresh' \subseteq Lanes
      /\ claims' \in [Pools -> 0..MaxClaims]
      /\ n <= Cardinality(IdleOf(p))
      /\ claims' = claims /\ claims[p] < MaxClaims
  BY <1>1, <1>2, LoopNumbers
<1> QED
  BY <1>1, <1>2, <1>3, <1>4, LoopKeeps

LEMMA ClaimKeeps == ASSUME PoolInv, NEW p \in Pools, Claim(p) PROVE PoolInv'
<1>1. PICK n \in 0..loop[p].slots :
         /\ Release(loop[p].slots - n)
         /\ LoopGo(p, IF n = 0 THEN "look" ELSE "hand", 0, n)
  BY DEF Claim
<1>2. /\ loop[p].at = "claim" /\ claims' = [claims EXCEPT ![p] = @ + 1]
      /\ UNCHANGED <<inFlight, lane, stopping>>
  BY DEF Claim, LoopAt
<1>3. /\ loop[p].slots - n \in Nat /\ n \in Nat
      /\ free + (loop[p].slots - n) <= Total
  BY LoopNumbers, LoopRoom
<1>4. free' = free + (loop[p].slots - n) /\ fresh' \subseteq Lanes
  BY <1>1, <1>3, ReleaseExact DEF PoolInv
<1>5. /\ claims' \in [Pools -> 0..MaxClaims]
      /\ \A q \in Pools \ {p} : claims'[q] = claims[q]
  BY <1>2, LoopNumbers, PoolAssumption DEF PoolAssumption
<1>6. PICK place \in {"look", "hand"} :
         (n > 0) = (place = "hand") /\ LoopGo(p, place, 0, n)
  BY <1>1
<1>7. /\ 0 \in 0..Cardinality(Lanes) /\ free' \in Nat
      /\ free' + n = free + loop[p].slots
      /\ n <= Cardinality(IdleOf(p))
  BY <1>2, <1>3, <1>4, LoopNumbers
<1> QED
  BY <1>2, <1>3, <1>4, <1>5, <1>6, <1>7, LoopKeeps DEF LoopStates

LEMMA StopHandingKeeps == ASSUME PoolInv, NEW p \in Pools, StopHanding(p) PROVE PoolInv'
<1>1. /\ LoopGo(p, "return", 0, loop[p].slots) /\ loop[p].at = "hand"
      /\ UNCHANGED <<free, fresh, inFlight, lane, claims, stopping>>
  BY DEF StopHanding, LoopAt
<1>2. /\ 0 \in 0..Cardinality(Lanes) /\ free' \in Nat /\ fresh' \subseteq Lanes
      /\ free' + loop[p].slots = free + loop[p].slots
      /\ loop[p].slots \in Nat /\ loop[p].slots > 0
      /\ claims' \in [Pools -> 0..MaxClaims]
  BY <1>1, LoopNumbers
<1> QED
  BY <1>1, <1>2, LoopKeeps DEF LoopStates

LEMMA GiveBackKeeps == ASSUME PoolInv, NEW p \in Pools, GiveBack(p) PROVE PoolInv'
<1> DEFINE n == loop[p].slots - 1
<1>1. /\ Release(1) /\ loop[p].at = "return"
      /\ UNCHANGED <<inFlight, lane, claims, stopping>>
  BY DEF GiveBack, LoopAt
<1>2. n \in Nat /\ free + 1 <= Total
  BY <1>1, LoopNumbers, LoopRoom
<1>3. free' = free + 1 /\ fresh' \subseteq Lanes
  BY <1>1, <1>2, ReleaseExact DEF PoolInv
<1>4. PICK place \in {"over", "return"} :
         (n > 0) = (place = "return") /\ LoopGo(p, place, 0, n)
  <2>1. LoopGo(p, IF loop[p].slots = 1 THEN "over" ELSE "return", 0, n)
    BY DEF GiveBack
  <2>2. loop[p].slots \in Nat
    BY LoopNumbers
  <2>3. CASE loop[p].slots = 1
    <3>1. LoopGo(p, "over", 0, n) /\ n = 0
      BY <2>1, <2>3
    <3> QED
      BY <3>1
  <2>4. CASE loop[p].slots # 1
    <3>1. LoopGo(p, "return", 0, n) /\ n > 0
      BY <1>2, <2>1, <2>2, <2>4
    <3> QED
      BY <3>1
  <2> QED
    BY <2>3, <2>4
<1>5. /\ 0 \in 0..Cardinality(Lanes) /\ free' \in Nat
      /\ free' + n = free + loop[p].slots
      /\ claims' \in [Pools -> 0..MaxClaims]
  BY <1>1, <1>2, <1>3, LoopNumbers
<1> HIDE DEF n
<1> QED
  BY <1>1, <1>2, <1>3, <1>4, <1>5, LoopKeeps DEF LoopStates

LEMMA LoopEndsKeeps == ASSUME PoolInv, NEW p \in Pools, LoopEnds(p) PROVE PoolInv'
<1>1. /\ LoopGo(p, "over", 0, 0) /\ loop[p].at = "look"
      /\ UNCHANGED <<free, fresh, inFlight, lane, claims, stopping>>
  BY DEF LoopEnds, LoopAt
<1>2. /\ 0 \in 0..Cardinality(Lanes) /\ free' \in Nat /\ fresh' \subseteq Lanes
      /\ free' + 0 = free + loop[p].slots
      /\ claims' \in [Pools -> 0..MaxClaims]
  BY <1>1, LoopNumbers
<1> QED
  BY <1>1, <1>2, LoopKeeps DEF LoopStates

-----------------------------------------------------------------------------
(* Steps of a lane.                                                        *)

\* Where a move changes neither which lanes are idle nor the counter.
LEMMA BusyMove ==
  ASSUME PoolInv, NEW l \in Lanes, NEW from, NEW to \in Phases, MoveLane(l, from, to),
         (from \in IdleLane) = (to \in IdleLane), UNCHANGED inFlight,
         NEW d \in Int, free' = free - d, free' \in Nat, fresh' \subseteq Lanes,
         Cardinality(HoldingLanes') = Cardinality(HoldingLanes) + d
  PROVE  PoolInv'
<1>1. /\ lane[l] = from /\ lane' = [lane EXCEPT ![l] = to] /\ PoolTypeOK /\ CountInv
      /\ inFlight' = inFlight
  BY DEF MoveLane, PoolInv
<1>2. ASSUME NEW q \in Pools
      PROVE  /\ Cardinality(IdleOf(q)') >= Cardinality(IdleOf(q))
             /\ inFlight'[q] = Cardinality(LanesOf(q)) - Cardinality(IdleOf(q)')
  <2>1. Cardinality(IdleOf(q)') = Cardinality(IdleOf(q))
    BY <1>1, IdleMoves
  <2> QED
    BY <1>1, <2>1, LaneSets DEF CountInv
<1>3. DOMAIN inFlight' = Pools /\ inFlight' = [q \in Pools |-> inFlight'[q]]
  BY <1>1 DEF PoolTypeOK
<1> QED
  BY <1>2, <1>3, LaneKeeps

\* Prepared, TakeChannel, Woken, Open, Settle, FailJob: the lane keeps what it
\* has.
LEMMA QuietMove ==
  ASSUME PoolInv, NEW l \in Lanes, NEW from, NEW to \in Phases, MoveLane(l, from, to),
         (from \in IdleLane) = (to \in IdleLane), (from \in Holding) = (to \in Holding),
         UNCHANGED <<free, inFlight>>, fresh' \subseteq Lanes
  PROVE  PoolInv'
<1>1. lane[l] = from /\ lane' = [lane EXCEPT ![l] = to] /\ PoolTypeOK /\ free \in Nat
  BY DEF MoveLane, PoolInv, PoolTypeOK
<1>2. Cardinality(HoldingLanes') = Cardinality(HoldingLanes)
  BY <1>1, HoldingMoves
<1>3. Cardinality(HoldingLanes) \in Nat
  BY FiniteParts DEF HoldingLanes
<1>4. free' = free - 0 /\ Cardinality(HoldingLanes') = Cardinality(HoldingLanes) + 0
  BY <1>1, <1>2, <1>3
<1> QED
  BY <1>1, <1>4, BusyMove

\* Prepare and ReleaseSlot: the lane gives its slot back.
LEMMA GivingMove ==
  ASSUME PoolInv, NEW l \in Lanes, NEW from \in Holding, NEW to \in Phases \ Holding,
         MoveLane(l, from, to), (from \in IdleLane) = (to \in IdleLane),
         UNCHANGED inFlight, Release(1)
  PROVE  PoolInv'
<1>1. lane[l] = from /\ lane' = [lane EXCEPT ![l] = to] /\ PoolTypeOK /\ free \in Nat
  BY DEF MoveLane, PoolInv, PoolTypeOK
<1>2. free + 1 <= Total
  BY <1>1, LaneRoom
<1>3. free' = free + 1 /\ fresh' \subseteq Lanes
  BY <1>1, <1>2, ReleaseExact
<1>4. Cardinality(HoldingLanes') = Cardinality(HoldingLanes) - 1
  BY <1>1, HoldingMoves
<1>5. Cardinality(HoldingLanes) \in Nat
  BY FiniteParts DEF HoldingLanes
<1>6. /\ -1 \in Int /\ free' = free - (-1) /\ free' \in Nat
      /\ Cardinality(HoldingLanes') = Cardinality(HoldingLanes) + (-1)
  BY <1>1, <1>3, <1>4, <1>5
<1> QED
  BY <1>3, <1>6, BusyMove

LEMMA TryTakeKeeps == ASSUME PoolInv, NEW l \in Lanes, TryTake(l) PROVE PoolInv'
<1>1. /\ fresh' \subseteq Lanes /\ UNCHANGED inFlight
      /\ free \in Nat /\ Total \in Nat \ {0} /\ PoolTypeOK
  BY PoolAssumption DEF TryTake, PoolInv, PoolTypeOK, PoolAssumption
<1>2. CASE Reservable(1) = 1
  <2>1. MoveLane(l, "took", "ready") /\ free' = free - 1
    BY <1>2 DEF TryTake
  <2>2. free' \in Nat
    BY <1>1, <1>2, <2>1 DEF Reservable, Least
  <2>3. Cardinality(HoldingLanes') = Cardinality(HoldingLanes) + 1
    BY <1>1, <2>1, HoldingMoves DEF MoveLane, Holding, Phases
  <2> QED
    BY <1>1, <2>1, <2>2, <2>3, BusyMove DEF IdleLane, Phases
<1>3. CASE Reservable(1) # 1
  <2>1. MoveLane(l, "took", "blocked") /\ UNCHANGED <<free, inFlight>>
    BY <1>3 DEF TryTake
  <2> QED
    BY <1>1, <2>1, QuietMove DEF IdleLane, Holding, Phases
<1> QED
  BY <1>2, <1>3

LEMMA CountDownKeeps == ASSUME PoolInv, NEW l \in Lanes, CountDown(l) PROVE PoolInv'
<1>1. PICK from \in {"settling", "failing"} : MoveLane(l, from, "counted")
  BY DEF CountDown
<1>2. /\ inFlight' = [inFlight EXCEPT ![PoolOf[l]] = @ - 1]
      /\ UNCHANGED <<free, fresh>>
  BY DEF CountDown
<1>3. /\ lane[l] = from /\ lane' = [lane EXCEPT ![l] = "counted"]
      /\ PoolTypeOK /\ CountInv /\ free \in Nat /\ fresh \subseteq Lanes
      /\ "counted" \in Phases /\ PoolOf[l] \in Pools
      /\ from \in Holding /\ "counted" \in Holding
      /\ from \notin IdleLane /\ "counted" \in IdleLane
  <2>1. /\ lane[l] = from /\ lane' = [lane EXCEPT ![l] = "counted"]
        /\ from \in Holding /\ "counted" \in Holding /\ "counted" \in Phases
        /\ from \notin IdleLane /\ "counted" \in IdleLane
    BY <1>1 DEF MoveLane, Phases, Holding, IdleLane
  <2>2. PoolTypeOK /\ CountInv /\ free \in Nat /\ fresh \subseteq Lanes
    BY DEF PoolInv, PoolTypeOK
  <2>3. PoolOf[l] \in Pools
    BY PoolAssumption DEF PoolAssumption
  <2> QED
    BY <2>1, <2>2, <2>3
<1>4. Cardinality(HoldingLanes') = Cardinality(HoldingLanes)
  BY <1>3, HoldingMoves
<1>5. Cardinality(HoldingLanes) \in Nat
  BY FiniteParts DEF HoldingLanes
<1>6. ASSUME NEW q \in Pools
      PROVE  /\ Cardinality(IdleOf(q)') >= Cardinality(IdleOf(q))
             /\ inFlight'[q] = Cardinality(LanesOf(q)) - Cardinality(IdleOf(q)')
  <2>1. /\ inFlight[q] = Cardinality(LanesOf(q)) - Cardinality(IdleOf(q))
        /\ Cardinality(IdleOf(q)) \in Nat /\ Cardinality(LanesOf(q)) \in Nat
    BY <1>3, LaneSets DEF CountInv
  <2>2. CASE q = PoolOf[l]
    <3>1. Cardinality(IdleOf(q)') = Cardinality(IdleOf(q)) + 1
      BY <1>3, <2>2, IdleMoves
    <3>2. inFlight'[q] = inFlight[q] - 1
      BY <1>2, <1>3, <2>2 DEF PoolTypeOK
    <3> QED
      BY <2>1, <3>1, <3>2
  <2>3. CASE q # PoolOf[l]
    <3>1. Cardinality(IdleOf(q)') = Cardinality(IdleOf(q))
      BY <1>3, <2>3, IdleMoves
    <3>2. inFlight'[q] = inFlight[q]
      BY <1>2, <1>3, <2>3 DEF PoolTypeOK
    <3> QED
      BY <2>1, <3>1, <3>2
  <2> QED
    BY <2>2, <2>3
<1>7. DOMAIN inFlight' = Pools /\ inFlight' = [q \in Pools |-> inFlight'[q]]
  BY <1>2, <1>3 DEF PoolTypeOK
<1>8. /\ free' = free - 0 /\ free' \in Nat /\ fresh' \subseteq Lanes
      /\ Cardinality(HoldingLanes') = Cardinality(HoldingLanes) + 0
  BY <1>2, <1>3, <1>4, <1>5
<1> QED
  BY <1>1, <1>3, <1>6, <1>7, <1>8, LaneKeeps

LEMMA LaneStepKeeps == ASSUME PoolInv, NEW l \in Lanes, LaneStep(l) PROVE PoolInv'
<1>0. fresh \subseteq Lanes
  BY DEF PoolInv, PoolTypeOK
<1>1. CASE Prepare(l)
  BY <1>1, GivingMove DEF Prepare, Holding, IdleLane, Phases
<1>2. CASE Prepared(l)
  BY <1>0, <1>2, QuietMove DEF Prepared, Holding, IdleLane, Phases
<1>3. CASE TakeChannel(l)
  BY <1>0, <1>3, QuietMove DEF TakeChannel, Holding, IdleLane, Phases
<1>4. CASE TryTake(l)
  BY <1>4, TryTakeKeeps
<1>5. CASE Woken(l)
  BY <1>0, <1>5, QuietMove DEF Woken, Holding, IdleLane, Phases
<1>6. CASE Open(l)
  <2>1. PICK from \in {"ready", "held"} : MoveLane(l, from, "open")
    BY <1>6 DEF Open
  <2> QED
    BY <1>0, <1>6, <2>1, QuietMove DEF Open, Holding, IdleLane, Phases
<1>7. CASE Settle(l)
  <2>1. PICK from \in {"open", "ready"} : MoveLane(l, from, "settling")
    BY <1>7 DEF Settle
  <2> QED
    BY <1>0, <1>7, <2>1, QuietMove DEF Settle, Holding, IdleLane, Phases
<1>8. CASE FailJob(l)
  <2>1. PICK from \in {"settling", "held"} : MoveLane(l, from, "failing")
    BY <1>8 DEF FailJob
  <2> QED
    BY <1>0, <1>8, <2>1, QuietMove DEF FailJob, Holding, IdleLane, Phases
<1>9. CASE CountDown(l)
  BY <1>9, CountDownKeeps
<1>10. CASE ReleaseSlot(l)
  BY <1>10, GivingMove DEF ReleaseSlot, Holding, IdleLane, Phases
<1> QED
  BY <1>1, <1>2, <1>3, <1>4, <1>5, <1>6, <1>7, <1>8, <1>9, <1>10 DEF LaneStep

-----------------------------------------------------------------------------
(* A hand-over: the slot changes hands with the job.                       *)

LEMMA HandKeeps == ASSUME PoolInv, NEW p \in Pools, NEW l \in Lanes, Hand(p, l) PROVE PoolInv'
<1> DEFINE n == loop[p].slots - 1
           place == IF loop[p].slots = 1 THEN "look" ELSE "hand"
<1>1. /\ loop[p].at = "hand" /\ PoolOf[l] = p /\ lane[l] = "receive"
      /\ inFlight' = [inFlight EXCEPT ![p] = @ + 1]
      /\ lane' = [lane EXCEPT ![l] = "held"]
      /\ LoopGo(p, place, 0, n)
      /\ UNCHANGED <<free, fresh, claims, stopping>>
  BY DEF Hand, LoopAt, LanesOf
<1>2. /\ n \in Nat /\ loop[p].slots \in Nat
      /\ (n > 0) = (place = "hand") /\ place \in {"look", "hand"}
  BY <1>1, LoopNumbers
<1>3. /\ PoolTypeOK /\ SlotSum /\ LoopInv /\ CountInv
      /\ Total \in Nat /\ free \in Nat
  BY PoolAssumption DEF PoolInv, PoolTypeOK, PoolAssumption
<1>4. /\ IsFiniteSet(LoopRows')
      /\ Cardinality(LoopRows') = Cardinality(LoopRows) - loop[p].slots + n
      /\ Cardinality(LoopRows) >= loop[p].slots
  BY <1>1, <1>2, <1>3, RowsAfter DEF SlotSum
<1>5. Cardinality(HoldingLanes') = Cardinality(HoldingLanes) + 1
  BY <1>1, <1>3, HoldingMoves DEF Holding, Phases
<1>6. /\ Cardinality(HoldingLanes) \in Nat
      /\ Cardinality(LoopRows) \in Nat /\ Cardinality(LoopRows') \in Nat
  BY <1>3, <1>4, LaneSets, FS_CardinalityType DEF SlotSum
<1>7. free' + Cardinality(HoldingLanes') + Cardinality(LoopRows') = Total
  BY <1>1, <1>2, <1>3, <1>4, <1>5, <1>6 DEF SlotSum
<1>8. SlotSum' /\ n <= Total
  <2>1. n <= Cardinality(LoopRows')
    BY <1>2, <1>4, <1>6
  <2> QED
    BY <1>1, <1>2, <1>3, <1>4, <1>5, <1>6, <1>7, <2>1 DEF SlotSum
<1>9. \A q \in Pools : loop'[q] = IF q = p THEN [at |-> place, want |-> 0, slots |-> n]
                                  ELSE loop[q]
  BY <1>1, <1>3 DEF LoopGo, PoolTypeOK
<1>10. LoopInv'
  BY <1>1, <1>2, <1>3, <1>9 DEF LoopInv
<1> HIDE DEF n, place
<1>11. ASSUME NEW q \in Pools
       PROVE  /\ inFlight'[q] = Cardinality(LanesOf(q)) - Cardinality(IdleOf(q)')
              /\ loop'[q].at = "reserve" => loop'[q].want <= Cardinality(IdleOf(q)')
              /\ loop'[q].at \in {"claim", "hand"} =>
                    loop'[q].slots <= Cardinality(IdleOf(q)')
  <2>1. /\ inFlight[q] = Cardinality(LanesOf(q)) - Cardinality(IdleOf(q))
        /\ Cardinality(IdleOf(q)) \in Nat /\ Cardinality(LanesOf(q)) \in Nat
    BY <1>3, LaneSets DEF CountInv
  <2>2. CASE q = p
    <3>1. Cardinality(IdleOf(q)') = Cardinality(IdleOf(q)) - 1
      BY <1>1, <1>3, <2>2, IdleMoves, ZenonT(60) DEF IdleLane, Phases
    <3>2. inFlight'[q] = inFlight[q] + 1
      BY <1>1, <1>3, <2>2 DEF PoolTypeOK
    <3>3. loop'[q].at = place /\ loop'[q].slots = n
      BY <1>9, <2>2
    <3>4. loop[p].slots <= Cardinality(IdleOf(q))
      BY <1>1, <2>2, LoopNumbers
    <3>5. n <= Cardinality(IdleOf(q)')
      BY <1>2, <2>1, <3>1, <3>4 DEF n
    <3> QED
      BY <1>2, <2>1, <3>1, <3>2, <3>3, <3>5
  <2>3. CASE q # p
    <3>1. Cardinality(IdleOf(q)') = Cardinality(IdleOf(q))
      <4>1. "held" \in Phases /\ PoolOf[l] # q
        BY <1>1, <2>3 DEF Phases
      <4> QED
        BY <1>1, <1>3, <4>1, IdleMoves
    <3>2. inFlight'[q] = inFlight[q] /\ loop'[q] = loop[q]
      BY <1>1, <1>3, <1>9, <2>3 DEF PoolTypeOK
    <3> QED
      BY <1>3, <2>1, <3>1, <3>2 DEF CountInv
  <2> QED
    BY <2>2, <2>3
<1>12. CountInv'
  BY <1>11 DEF CountInv, LanesOf
<1>13. inFlight' \in [Pools -> 0..Cardinality(Lanes)]
  <2>1. \A q \in Pools : inFlight'[q] \in 0..Cardinality(Lanes)
    <3> TAKE q \in Pools
    <3> QED
      BY <1>11, LaneSets, SetsAfter, FiniteParts
  <2>2. DOMAIN inFlight' = Pools /\ inFlight' = [q \in Pools |-> inFlight'[q]]
    BY <1>1, <1>3 DEF PoolTypeOK
  <2> QED
    BY <2>1, <2>2
<1>14. loop' \in [Pools -> Loop]
  <2>1. [at |-> place, want |-> 0, slots |-> n] \in Loop
    BY <1>2, <1>3, <1>8, LoopNumbers DEF Loop, LoopStates
  <2> QED
    BY <1>1, <1>3, <2>1 DEF LoopGo, PoolTypeOK
<1>15. PoolTypeOK'
  BY <1>1, <1>3, <1>13, <1>14 DEF PoolTypeOK, Phases
<1> QED
  BY <1>8, <1>10, <1>12, <1>15 DEF PoolInv

-----------------------------------------------------------------------------
(* The theorem.                                                            *)

LEMMA PoolInitInv == PoolInit => PoolInv
<1> SUFFICES ASSUME PoolInit PROVE PoolInv
  OBVIOUS
<1>1. HoldingLanes = {} /\ LoopRows = {}
  BY DEF PoolInit, HoldingLanes, Holding, LoopRows, Row
<1>2. /\ Cardinality(HoldingLanes) = 0 /\ Cardinality(LoopRows) = 0
      /\ IsFiniteSet(LoopRows)
  BY <1>1, FS_EmptySet, Zenon
<1>3. SlotSum
  BY <1>2, PoolAssumption DEF SlotSum, PoolInit, PoolAssumption
<1>4. PoolTypeOK
  <2>1. Cardinality(Lanes) \in Nat /\ Total \in Nat /\ MaxClaims \in Nat
    BY FiniteParts, PoolAssumption DEF PoolAssumption
  <2>2. [at |-> "look", want |-> 0, slots |-> 0] \in Loop
    BY <2>1 DEF Loop, LoopStates
  <2>3. 0 \in 0..Cardinality(Lanes) /\ 0 \in 0..MaxClaims /\ Total \in 0..Total
    BY <2>1
  <2>4. loop \in [Pools -> Loop] /\ inFlight \in [Pools -> 0..Cardinality(Lanes)]
    BY <2>2, <2>3 DEF PoolInit
  <2>5. lane \in [Lanes -> Phases] /\ claims \in [Pools -> 0..MaxClaims]
    BY <2>3 DEF PoolInit, Phases
  <2> QED
    BY <2>3, <2>4, <2>5 DEF PoolInit, PoolTypeOK
<1>5. LoopInv
  BY DEF PoolInit, LoopInv
<1>6. CountInv
  <2> SUFFICES ASSUME NEW p \in Pools
               PROVE  inFlight[p] = Cardinality(LanesOf(p)) - Cardinality(IdleOf(p))
    BY DEF CountInv, PoolInit
  <2>1. IdleOf(p) = LanesOf(p)
    BY DEF PoolInit, IdleOf, LanesOf, IdleLane
  <2>2. Cardinality(IdleOf(p)) = Cardinality(LanesOf(p))
    BY <2>1, Zenon
  <2> QED
    BY <2>2, LaneSets DEF PoolInit
<1> QED
  BY <1>3, <1>4, <1>5, <1>6 DEF PoolInv

LEMMA SameInv == PoolInv /\ UNCHANGED <<free, fresh, loop, inFlight, lane, claims>>
                      /\ stopping' \in BOOLEAN => PoolInv'
<1> SUFFICES ASSUME PoolInv, UNCHANGED <<free, fresh, loop, inFlight, lane, claims>>,
                    stopping' \in BOOLEAN
             PROVE  PoolInv'
  OBVIOUS
<1>1. PoolTypeOK'
  BY DEF PoolInv, PoolTypeOK
<1>2. HoldingLanes' = HoldingLanes /\ LoopRows' = LoopRows
  BY DEF HoldingLanes, LoopRows, Row
<1>3. SlotSum'
  BY <1>2, Zenon DEF PoolInv, SlotSum
<1>4. \A p \in Pools : IdleOf(p)' = IdleOf(p)
  BY DEF IdleOf
<1>5. LoopInv'
  BY DEF PoolInv, LoopInv
<1>6. CountInv'
  <2> SUFFICES ASSUME NEW p \in Pools
               PROVE  /\ inFlight'[p] = Cardinality(LanesOf(p)) - Cardinality(IdleOf(p)')
                      /\ loop'[p].at = "reserve" => loop'[p].want <= Cardinality(IdleOf(p)')
                      /\ loop'[p].at \in {"claim", "hand"} =>
                            loop'[p].slots <= Cardinality(IdleOf(p)')
    BY DEF CountInv, LanesOf
  <2>1. Cardinality(IdleOf(p)') = Cardinality(IdleOf(p))
    BY <1>4, Zenon
  <2> QED
    BY <2>1 DEF PoolInv, CountInv
<1> QED
  BY <1>1, <1>3, <1>5, <1>6 DEF PoolInv

LEMMA PoolNextInv == PoolInv /\ [PoolNext]_poolVars => PoolInv'
<1> SUFFICES ASSUME PoolInv, [PoolNext]_poolVars PROVE PoolInv'
  OBVIOUS
<1>1. CASE \E p \in Pools : LoopStep(p)
  <2>1. PICK p \in Pools : LoopStep(p)
    BY <1>1
  <2> QED
    BY <2>1, LookKeeps, ReserveKeeps, ClaimKeeps, StopHandingKeeps, GiveBackKeeps,
       LoopEndsKeeps, HandKeeps DEF LoopStep
<1>2. CASE \E l \in Lanes : LaneStep(l)
  BY <1>2, LaneStepKeeps
<1>3. CASE Stop
  BY <1>3, SameInv DEF Stop
<1>4. CASE Returned \/ UNCHANGED poolVars
  BY <1>4, SameInv DEF Returned, poolVars, PoolInv, PoolTypeOK
<1> QED
  BY <1>1, <1>2, <1>3, <1>4 DEF PoolNext

LEMMA PoolInductive == PoolSpec => []PoolInv
BY PoolInitInv, PoolNextInv, PTL DEF PoolSpec

\* A lane that waits and was not woken waits with reason.  Whoever puts slots
\* back closes every channel, and a lane takes its channel before it looks.
NoneForgotten == \A l \in Lanes : lane[l] = "blocked" /\ l \in fresh => free = 0

LEMMA ReleaseWakes ==
  ASSUME NoneForgotten, NEW n, Release(n),
         \A l \in Lanes : lane'[l] = "blocked" => lane[l] = "blocked"
  PROVE  NoneForgotten'
<1>1. CASE n < 1
  BY <1>1 DEF Release, NoneForgotten
<1>2. CASE ~(n < 1)
  BY <1>2 DEF Release, NoneForgotten
<1> QED
  BY <1>1, <1>2

LEMMA NoneForgottenNext == PoolInv /\ NoneForgotten /\ [PoolNext]_poolVars => NoneForgotten'
<1> SUFFICES ASSUME PoolInv, NoneForgotten, [PoolNext]_poolVars PROVE NoneForgotten'
  OBVIOUS
<1> USE DEF NoneForgotten
<1>0. /\ PoolTypeOK /\ lane \in [Lanes -> Phases]
      /\ free \in Nat /\ Total \in Nat \ {0}
  BY PoolAssumption DEF PoolInv, PoolTypeOK, PoolAssumption
<1>1. ASSUME NEW p \in Pools, LoopStep(p)
      PROVE  NoneForgotten'
  <2>1. CASE Look(p) \/ StopHanding(p) \/ LoopEnds(p)
    BY <2>1 DEF Look, StopHanding, LoopEnds
  <2>2. CASE Reserve(p)
    BY <1>0, <2>2, LoopNumbers DEF Reserve, Reservable, Least
  <2>3. CASE Claim(p)
    BY <2>3, ReleaseWakes DEF Claim
  <2>4. CASE GiveBack(p)
    BY <2>4, ReleaseWakes DEF GiveBack
  <2>5. CASE \E l \in Lanes : Hand(p, l)
    BY <1>0, <2>5 DEF Hand
  <2> QED
    BY <1>1, <2>1, <2>2, <2>3, <2>4, <2>5 DEF LoopStep
<1>2. ASSUME NEW l \in Lanes, LaneStep(l)
      PROVE  NoneForgotten'
  <2>1. ASSUME NEW from, NEW to \in Phases \ {"blocked"}, MoveLane(l, from, to)
        PROVE  \A k \in Lanes : /\ lane'[k] = "blocked" => lane[k] = "blocked"
                                /\ k = l => lane'[k] # "blocked"
    BY <1>0, <2>1 DEF MoveLane
  <2>2. CASE Prepare(l) \/ ReleaseSlot(l)
    BY <2>1, <2>2, ReleaseWakes DEF Prepare, ReleaseSlot, Phases
  <2>3. CASE Prepared(l) \/ Woken(l) \/ Open(l) \/ Settle(l) \/ FailJob(l) \/ CountDown(l)
    BY <2>1, <2>3 DEF Prepared, Woken, Open, Settle, FailJob, CountDown, Phases
  <2>4. CASE TakeChannel(l)
    BY <2>1, <2>4 DEF TakeChannel, Phases
  <2>5. CASE TryTake(l)
    <3>1. CASE Reservable(1) = 1
      <4>1. free >= 1
        BY <1>0, <3>1 DEF Reservable, Least
      <4> QED
        BY <2>1, <2>5, <3>1, <4>1 DEF TryTake, Phases
    <3>2. CASE Reservable(1) # 1
      BY <1>0, <2>5, <3>2 DEF TryTake, MoveLane, Reservable, Least
    <3> QED
      BY <3>1, <3>2
  <2> QED
    BY <1>2, <2>2, <2>3, <2>4, <2>5 DEF LaneStep
<1>3. CASE Stop \/ Returned \/ UNCHANGED poolVars
  BY <1>3 DEF Stop, Returned, poolVars
<1> QED
  BY <1>1, <1>2, <1>3 DEF PoolNext

LEMMA NoneEverForgotten == PoolSpec => []NoneForgotten
<1>1. PoolInit => NoneForgotten
  BY DEF PoolInit, NoneForgotten
<1> QED
  BY <1>1, PoolInductive, NoneForgottenNext, PTL DEF PoolSpec

LEMMA Enough == PoolInv /\ NoneForgotten => SlotsExact
<1> SUFFICES ASSUME PoolInv, NoneForgotten PROVE SlotsExact
  OBVIOUS
<1> DEFINE inside == {l \in Lanes : lane[l] \in {"open", "failing"}}
<1>1. LaneSlots = Cardinality(HoldingLanes) /\ LoopSlots = Cardinality(LoopRows)
  BY DEF LaneSlots, LoopSlots, HoldingLanes, LoopRows, Row
<1>2. inside \subseteq HoldingLanes /\ HoldingLanes \subseteq Lanes
  BY DEF HoldingLanes, Holding
<1>3. Cardinality(inside) <= Cardinality(HoldingLanes)
  BY <1>2, FiniteParts, FS_Subset
<1>4. /\ Cardinality(HoldingLanes) \in Nat /\ Cardinality(inside) \in Nat
      /\ Cardinality(LoopRows) \in Nat /\ free \in Nat /\ Total \in Nat
  BY <1>2, FiniteParts, FS_CardinalityType, PoolAssumption
     DEF PoolInv, SlotSum, PoolTypeOK, PoolAssumption
<1>5. free + Cardinality(HoldingLanes) + Cardinality(LoopRows) = Total
  BY DEF PoolInv, SlotSum
<1>6. Cardinality(inside) <= Total
  BY <1>3, <1>4, <1>5
<1>7. \A p \in Pools : LoopAt(p, "hand") => loop[p].slots <= Cardinality(IdleOf(p))
  BY DEF PoolInv, CountInv, LoopAt
<1> QED
  BY <1>1, <1>5, <1>6, <1>7 DEF SlotsExact, NoneForgotten, PoolInv, IdleOf, IdleLane

\* The slots of a gate are exact whatever the numbers of pools, lanes and
\* slots: none is lost or released twice, no more transactions are open than the
\* gate has slots, no more jobs are claimed than idle lanes are there for them, and
\* no lane waits for a slot that is free (runtime.go, claimLoop and reacquire;
\* job_gate.go).
THEOREM AlwaysSlotsExact == PoolSpec => []SlotsExact
BY PoolInductive, NoneEverForgotten, Enough, PTL

LEMMA SomebodyMoves == PoolInv /\ NoneForgotten => PoolsMove
<1> SUFFICES ASSUME PoolInv, NoneForgotten,
                    \A p \in Pools : ~LoopMoves(p), \A l \in Lanes : ~LaneMoves(l)
             PROVE  Drained /\ free = Total
  BY DEF PoolsMove
<1>1. \A l \in Lanes : lane[l] = "receive" \/ (lane[l] = "blocked" /\ l \in fresh)
  BY DEF LaneMoves
<1>2. HoldingLanes = {}
  BY <1>1 DEF HoldingLanes, Holding
<1>3. \A p \in Pools : loop[p].at = "over" /\ loop[p].slots = 0
  BY LoopNumbers DEF LoopMoves, LoopAt
<1>4. LoopRows = {}
  BY <1>3 DEF LoopRows, Row
<1>5. Cardinality(HoldingLanes) = 0 /\ Cardinality(LoopRows) = 0
  BY <1>2, <1>4, FS_EmptySet, Zenon
<1>6. free = Total /\ Total # 0
  BY <1>5, PoolAssumption DEF PoolInv, SlotSum, PoolTypeOK, PoolAssumption
<1> QED
  BY <1>1, <1>3, <1>6 DEF NoneForgotten, Drained, LoopAt

\* A stopped runtime is never stuck, whatever the numbers of pools, lanes and slots:
\* until Consume returns with every slot free, a claim loop has a step or a lane is
\* at work or has been woken (runtime.go, Consume, handOver, giveBack, reacquire).
THEOREM PoolsAlwaysMove == PoolSpec => []PoolsMove
BY PoolInductive, NoneEverForgotten, SomebodyMoves, PTL

-----------------------------------------------------------------------------
(* The breaker, for every number of callers and every threshold,              *)
(* concurrency, cooldown and timeout.                                         *)

Allowed == {c \in Callers : caller[c] = "allowed"}

\* The semaphore is never overfull.
SlotsKept == Cardinality(Inside) <= Concurrency

\* Whoever has been let through during a cooldown still counts against it.
WasteInv == Cooling => wasted + Cardinality(Allowed) < Concurrency

BreakerInv == TypeOK /\ MarkIsHeld /\ SlotsKept /\ WasteInv

-----------------------------------------------------------------------------
LEMMA CallerSizes ==
  /\ IsFiniteSet(Inside) /\ Cardinality(Inside) \in Nat
  /\ IsFiniteSet(Allowed) /\ Cardinality(Allowed) \in Nat
<1>1. Inside \subseteq Callers /\ Allowed \subseteq Callers
  BY DEF Inside, Allowed
<1>2. IsFiniteSet(Inside) /\ IsFiniteSet(Allowed)
  BY <1>1, BreakerAssumption, FS_Subset DEF BreakerAssumption
<1> QED
  BY <1>2, FS_CardinalityType

\* A report by caller c leaves fewer let through than the semaphore holds.
LEMMA ReporterCounts ==
  ASSUME TypeOK, SlotsKept, NEW c \in Callers,
         caller[c] \in {"allowed", "sent", "stuck"}
  PROVE  Cardinality(Allowed \ {c}) < Concurrency
<1>1. c \in Inside
  BY DEF Inside
<1>2. /\ IsFiniteSet(Inside \ {c})
      /\ Cardinality(Inside \ {c}) = Cardinality(Inside) - 1
  BY <1>1, CallerSizes, FS_RemoveElement
<1>3. Allowed \ {c} \subseteq Inside \ {c}
  BY DEF Allowed, Inside
<1>4. /\ IsFiniteSet(Allowed \ {c})
      /\ Cardinality(Allowed \ {c}) <= Cardinality(Inside \ {c})
  BY <1>2, <1>3, FS_Subset
<1>5. Cardinality(Allowed \ {c}) \in Nat
  BY <1>4, FS_CardinalityType
<1> QED
  BY <1>2, <1>4, <1>5, CallerSizes, BreakerAssumption DEF SlotsKept, BreakerAssumption

LEMMA BreakerTypeInit == Init => TypeOK
<1> SUFFICES ASSUME Init PROVE TypeOK
  OBVIOUS
<1> USE BreakerAssumption DEF BreakerAssumption, Init
<1>1. failures \in 0..Threshold
  OBVIOUS
<1>2. since \in 0..Cooldown
  OBVIOUS
<1>3. caller \in [Callers -> Places]
  BY DEF Places
<1>4. age \in [Callers -> 0..Timeout]
  OBVIOUS
<1>5. wasted \in Nat
  OBVIOUS
<1>6. halfOpenOnly \in BOOLEAN /\ up \in BOOLEAN
  OBVIOUS
<1> QED
  BY <1>1, <1>2, <1>3, <1>4, <1>5, <1>6 DEF TypeOK

LEMMA TypeReport ==
  ASSUME TypeOK, NEW c \in Callers, NEW from, Over(c, from), Success \/ Fail
  PROVE  TypeOK'
<1> USE BreakerAssumption DEF BreakerAssumption
<1>1. failures' \in 0..Threshold /\ since' \in 0..Cooldown /\ wasted' \in Nat
  BY DEF TypeOK, Success, Fail, Shut
<1>2. caller' \in [Callers -> Places]
  BY DEF TypeOK, Over, Move, Places
<1>3. age' \in [Callers -> 0..Timeout]
  BY DEF TypeOK, Over
<1>4. halfOpenOnly' \in BOOLEAN
  BY DEF Success, Fail
<1>5. up' \in BOOLEAN
  BY Zenon DEF TypeOK, Over
<1> QED
  BY <1>1, <1>2, <1>3, <1>4, <1>5 DEF TypeOK

LEMMA BreakerTypeNext == TypeOK /\ [Next]_vars => TypeOK'
<1> SUFFICES ASSUME TypeOK, [Next]_vars PROVE TypeOK'
  OBVIOUS
<1> USE BreakerAssumption DEF BreakerAssumption, TypeOK
<1>1. ASSUME NEW c \in Callers, CallerStep(c) PROVE TypeOK'
  <2>1. CASE Ask(c)
    BY <2>1 DEF Ask, Move, Places
  <2>2. CASE Withdraw(c)
    BY <2>2 DEF Withdraw, Move, Places
  <2>3. CASE Enter(c)
    BY <2>3 DEF Enter, Move, Places
  <2>4. CASE Allow(c)
    BY <2>4 DEF Allow, Refuse, Move, Places
  <2>5. CASE Send(c)
    BY <2>5 DEF Send, Move, Places
  <2>6. CASE Answered(c)
    BY <2>6, TypeReport DEF Answered
  <2>7. CASE Failed(c)
    BY <2>7, TypeReport DEF Failed
  <2>8. CASE Cancelled(c)
    BY <2>8, TypeReport DEF Cancelled
  <2>9. CASE Leave(c)
    BY <2>9 DEF Leave, Move, Places
  <2> QED
    BY <1>1, <2>1, <2>2, <2>3, <2>4, <2>5, <2>6, <2>7, <2>8, <2>9
       DEF CallerStep
<1>2. CASE GoDown
  BY <1>2 DEF GoDown, Places
<1>3. CASE ComeUp
  BY <1>3 DEF ComeUp
<1>4. CASE Tick
  BY <1>4 DEF Tick, Flying
<1>5. CASE UNCHANGED vars
  BY <1>5 DEF vars
<1> QED
  BY <1>1, <1>2, <1>3, <1>4, <1>5 DEF Next

\* Whoever is let through stays in flight until its report takes the mark.
LEMMA MarkNext == TypeOK /\ MarkIsHeld /\ [Next]_vars => MarkIsHeld'
<1> SUFFICES ASSUME TypeOK, MarkIsHeld, [Next]_vars PROVE MarkIsHeld'
  OBVIOUS
<1> USE DEF TypeOK, MarkIsHeld, InFlight
<1>1. ASSUME NEW c \in Callers, CallerStep(c) PROVE MarkIsHeld'
  <2>1. CASE Ask(c)
    BY <2>1 DEF Ask, Move
  <2>2. CASE Withdraw(c)
    BY <2>2 DEF Withdraw, Move
  <2>3. CASE Enter(c)
    BY <2>3 DEF Enter, Move
  <2>4. CASE Allow(c)
    BY <2>4 DEF Allow, Refuse, Move
  <2>5. CASE Send(c)
    BY <2>5 DEF Send, Move
  <2>6. CASE Answered(c)
    BY <2>6 DEF Answered, Success
  <2>7. CASE Failed(c) \/ Cancelled(c)
    BY <2>7 DEF Failed, Cancelled, Fail
  <2>8. CASE Leave(c)
    BY <2>8 DEF Leave, Move
  <2> QED
    BY <1>1, <2>1, <2>2, <2>3, <2>4, <2>5, <2>6, <2>7, <2>8 DEF CallerStep
<1>2. CASE GoDown
  BY <1>2 DEF GoDown
<1>3. CASE ComeUp \/ Tick \/ UNCHANGED vars
  BY <1>3 DEF ComeUp, Tick, vars
<1> QED
  BY <1>1, <1>2, <1>3 DEF Next

-----------------------------------------------------------------------------
(* The semaphore.                                                          *)

LEMMA SlotsNext == TypeOK /\ SlotsKept /\ [Next]_vars => SlotsKept'
<1> SUFFICES ASSUME TypeOK, SlotsKept, [Next]_vars PROVE SlotsKept'
  OBVIOUS
<1> USE DEF TypeOK
<1>0. ASSUME Inside' \subseteq Inside PROVE SlotsKept'
  <2>1. Cardinality(Inside') <= Cardinality(Inside)
    BY <1>0, CallerSizes, FS_Subset
  <2>2. IsFiniteSet(Inside') /\ Cardinality(Inside') \in Nat
    BY <1>0, CallerSizes, FS_Subset, FS_CardinalityType
  <2> QED
    BY <2>1, <2>2, CallerSizes, BreakerAssumption DEF SlotsKept, BreakerAssumption
<1>1. ASSUME NEW c \in Callers, Enter(c) PROVE SlotsKept'
  <2>1. Inside' = Inside \union {c} /\ c \notin Inside
    BY <1>1 DEF Enter, Move, Inside
  <2>2. Cardinality(Inside') = Cardinality(Inside) + 1
    BY <2>1, CallerSizes, FS_AddElement
  <2> QED
    BY <1>1, <2>2, CallerSizes, BreakerAssumption
       DEF SlotsKept, Enter, BreakerAssumption
<1>2. ASSUME NEW c \in Callers, CallerStep(c), ~Enter(c)
      PROVE  Inside' \subseteq Inside
  BY <1>2 DEF CallerStep, Ask, Withdraw, Allow, Refuse, Send, Answered, Failed,
              Cancelled, Over, Leave, Move, Inside
<1>3. CASE GoDown \/ ComeUp \/ Tick \/ UNCHANGED vars
  <2>1. Inside' \subseteq Inside
    BY <1>3 DEF GoDown, ComeUp, Tick, vars, Inside
  <2> QED BY <2>1, <1>0
<1> QED
  BY <1>0, <1>1, <1>2, <1>3 DEF Next

-----------------------------------------------------------------------------
(* The endpoint is spared.                                                 *)

\* A report that begins a cooldown finds nothing wasted; another one finds the
\* circuit closed.
LEMMA WasteReport ==
  ASSUME TypeOK, SlotsKept, NEW c \in Callers, NEW from,
         from \in {"allowed", "sent", "stuck"},
         Over(c, from), Success \/ Fail
  PROVE  WasteInv'
<1>1. CASE Success
  BY <1>1, BreakerAssumption DEF Success, WasteInv, Cooling, Shut, BreakerAssumption
<1>2. CASE Fail /\ failures' >= Threshold
  <2>1. wasted' = 0
    BY <1>2 DEF Fail
  <2>2. Allowed' = Allowed \ {c}
    BY DEF TypeOK, Over, Move, Allowed
  <2>3. Cardinality(Allowed \ {c}) < Concurrency
    BY ReporterCounts DEF Over, Move
  <2>4. Cardinality(Allowed \ {c}) \in Nat
    BY CallerSizes, FS_Subset, FS_CardinalityType
  <2> QED
    BY <2>1, <2>2, <2>3, <2>4 DEF WasteInv
<1>3. CASE ~(failures' >= Threshold)
  BY <1>3 DEF WasteInv, Cooling, Shut
<1> QED
  BY <1>1, <1>2, <1>3

LEMMA WasteNext ==
  TypeOK /\ SlotsKept /\ WasteInv /\ [Next]_vars => WasteInv'
<1> SUFFICES ASSUME TypeOK, SlotsKept, WasteInv, [Next]_vars PROVE WasteInv'
  OBVIOUS
<1>0. ASSUME Cooling' => Cooling, wasted' = wasted, Allowed' \subseteq Allowed
      PROVE  WasteInv'
  <2>1. Cardinality(Allowed') <= Cardinality(Allowed)
    BY <1>0, CallerSizes, FS_Subset
  <2>2. IsFiniteSet(Allowed') /\ Cardinality(Allowed') \in Nat
    BY <1>0, CallerSizes, FS_Subset, FS_CardinalityType
  <2> QED
    BY <1>0, <2>1, <2>2, CallerSizes, BreakerAssumption
       DEF WasteInv, TypeOK, BreakerAssumption
<1>1. ASSUME NEW c \in Callers, CallerStep(c) PROVE WasteInv'
  <2>1. CASE Ask(c) \/ Withdraw(c) \/ Enter(c) \/ Leave(c)
    <3>1. Allowed' \subseteq Allowed
      BY <2>1 DEF TypeOK, Ask, Withdraw, Enter, Leave, Move, Allowed
    <3>2. wasted' = wasted /\ (Cooling' => Cooling)
      BY <2>1 DEF Ask, Withdraw, Enter, Leave, Cooling, Shut
    <3> QED BY <3>1, <3>2, <1>0
  <2>2. CASE Allow(c)
    <3>1. CASE Cooling
      <4>1. Allowed' \subseteq Allowed
        BY <2>2, <3>1, BreakerAssumption
           DEF TypeOK, Allow, Closed, Refuse, Move, Allowed, Cooling, Shut,
               BreakerAssumption
      <4>2. wasted' = wasted /\ (Cooling' => Cooling)
        BY <2>2, <3>1 DEF Allow
      <4> QED BY <4>1, <4>2, <1>0
    <3>2. CASE ~Cooling
      BY <2>2, <3>2 DEF Allow, WasteInv, Cooling, Shut
    <3> QED BY <3>1, <3>2
  <2>3. CASE Send(c)
    <3>1. CASE Cooling
      <4>1. Allowed' = Allowed \ {c} /\ c \in Allowed
        BY <2>3 DEF TypeOK, Send, Move, Allowed
      <4>2. Cardinality(Allowed') = Cardinality(Allowed) - 1
        BY <4>1, CallerSizes, FS_RemoveElement
      <4>3. wasted' = wasted + 1
        BY <2>3, <3>1 DEF Send
      <4> QED
        BY <3>1, <4>2, <4>3, CallerSizes DEF WasteInv, TypeOK
    <3>2. CASE ~Cooling
      BY <2>3, <3>2 DEF Send, WasteInv, Cooling, Shut
    <3> QED BY <3>1, <3>2
  <2>4. CASE Answered(c)
    BY <2>4, WasteReport DEF Answered
  <2>5. CASE Failed(c)
    BY <2>5, WasteReport DEF Failed
  <2>6. CASE Cancelled(c)
    BY <2>6, WasteReport DEF Cancelled
  <2> QED
    BY <1>1, <2>1, <2>2, <2>3, <2>4, <2>5, <2>6 DEF CallerStep
<1>2. CASE GoDown \/ ComeUp \/ Tick \/ UNCHANGED vars
  <2>1. Allowed' \subseteq Allowed
    BY <1>2 DEF TypeOK, GoDown, ComeUp, Tick, vars, Allowed
  <2>2. wasted' = wasted
    BY <1>2 DEF GoDown, ComeUp, Tick, vars
  <2>3. Cooling' => Cooling
    BY <1>2, BreakerAssumption
       DEF TypeOK, GoDown, ComeUp, Tick, vars, Cooling, Shut, BreakerAssumption
  <2> QED BY <2>1, <2>2, <2>3, <1>0
<1> QED
  BY <1>1, <1>2 DEF Next

-----------------------------------------------------------------------------
\* Everything holds together in every reachable state.
THEOREM BreakerInductive == Spec => []BreakerInv
<1>1. Init => BreakerInv
  <2> SUFFICES ASSUME Init PROVE BreakerInv
    OBVIOUS
  <2>1. Inside = {}
    BY DEF Init, Inside
  <2>2. SlotsKept
    BY <2>1, FS_EmptySet, BreakerAssumption DEF SlotsKept, BreakerAssumption
  <2>3. MarkIsHeld /\ WasteInv
    BY BreakerAssumption
       DEF Init, MarkIsHeld, WasteInv, Cooling, Shut, BreakerAssumption
  <2> QED
    BY BreakerTypeInit, <2>2, <2>3 DEF BreakerInv
<1>2. BreakerInv /\ [Next]_vars => BreakerInv'
  BY BreakerTypeNext, MarkNext, SlotsNext, WasteNext DEF BreakerInv
<1> QED
  BY <1>1, <1>2, PTL DEF Spec

\* Every state is well typed (circuit_breaker.go, Breaker; client.go, Client).
THEOREM BreakerTyped == Spec => []TypeOK
<1>1. BreakerInv => TypeOK
  BY DEF BreakerInv
<1> QED
  BY <1>1, BreakerInductive, PTL

\* The half-open mark is never left behind (circuit_breaker.go, Allow).
THEOREM MarkAlwaysHeld == Spec => []MarkIsHeld
<1>1. BreakerInv => MarkIsHeld
  BY DEF BreakerInv
<1> QED
  BY <1>1, BreakerInductive, PTL

\* A cooldown lets through fewer requests than the client's concurrency
\* (client.go, EmbedCounted).
THEOREM HammeringAlwaysBounded == Spec => []HammeringBounded
<1>1. BreakerInv => HammeringBounded
  BY CallerSizes, BreakerAssumption
     DEF BreakerInv, WasteInv, TypeOK, HammeringBounded, BreakerAssumption
<1> QED
  BY <1>1, BreakerInductive, PTL

-----------------------------------------------------------------------------
(* The readers of pages, for any documents and any numbers of slots.       *)

Stations == {"idle", "next", "slot", "raster", "render", "join", "wait", "laid",
           "unlaid", "bytes", "ended"}
Task == [at : {"none", "queue", "ocr", "clean", "release", "done"}, got : BOOLEAN]

\* Until this place no task has been started for the page at hand.
Ahead == {"idle", "next", "slot", "raster", "render"}
\* Here none is running.
Quiet == {"idle", "laid", "unlaid", "bytes", "ended"}
Ours(d) == reader[d].at \in {"raster", "render"}

\* A page: what its task and its handler hold for it, and no more; how far the
\* tasks are; and of a scan, the text that landed.
PageInv(d, p) ==
    /\ task[d][p] \in Task /\ texts[d][p] \in Nat
    /\ (<<d, p>> \in cpuSlots) = (task[d][p].at = "ocr")
    /\ (<<d, p>> \in pageSlots) =
          (task[d][p].at \in {"queue", "ocr", "clean", "release"} \/ (Ours(d) /\ reader[d].page = p))
    /\ (<<d, p>> \in bitmaps) = (task[d][p].at \in {"queue", "ocr", "clean"})
    /\ reader[d].at \in Ahead /\ reader[d].page <= p => task[d][p].at = "none"
    /\ reader[d].at = "join" /\ reader[d].page < p => task[d][p].at = "none"
    /\ reader[d].at = "join" /\ reader[d].page = p => task[d][p].at # "none"
    /\ reader[d].at \in Quiet => task[d][p].at \in {"none", "done"}
    /\ shape[d].kind = "digital" /\ ~(reader[d].at = "join" /\ reader[d].page = p) =>
          task[d][p].at \in {"none", "done"}
    /\ shape[d].kind = "scan" => texts[d][p] = IF task[d][p].got THEN p ELSE 0

\* A handler.
InOrder(d) == Gathered({p \in Of(d) : task[d][p].got}, [p \in Of(d) |-> p])
HandlerInv(d) ==
    /\ reader[d] \in [at : Stations, page : Nat \ {0}]
    /\ (<<d, 0>> \in cpuSlots) = (reader[d].at \in {"render", "bytes"})
    /\ reader[d].at \in {"slot", "raster", "render", "join"} => reader[d].page \in Of(d)
    /\ (d \in instances) = (reader[d].at \notin {"idle", "bytes", "ended"})
    /\ shape[d].kind = "image" => reader[d].at \in {"idle", "bytes", "ended"}
    /\ shape[d].kind = "scan" => reader[d].at \notin {"join", "laid", "unlaid", "bytes"}
    /\ shape[d].kind = "digital" => reader[d].at \notin {"wait", "bytes"}
    /\ shape[d].kind = "scan" /\ ~available =>
          reader[d].at \in {"idle", "next", "ended"} /\ reader[d].page = 1
    /\ reader[d].at # "ended" => outcome[d].text = <<>>
    /\ shape[d].kind = "scan" /\ outcome[d].text \notin {<<>>, Layer} =>
          outcome[d].text = InOrder(d)

DocInv(d) ==
    /\ DOMAIN task[d] = Of(d) /\ texts[d] \in [Of(d) -> Nat]
    /\ HandlerInv(d)
    /\ \A p \in Of(d) : PageInv(d, p)

\* The semaphores, and what the keys of their holders are.
Kept(slots) ==
    /\ IsFiniteSet(slots) /\ Cardinality(slots) <= CpuSlots
    /\ \A h \in slots : \E d \in Sheets : \E p \in {0} \union Of(d) : h = <<d, p>>
Keyed(slots) == \A h \in slots : \E d \in Sheets : \E p \in Of(d) : h = <<d, p>>

Tables ==
    /\ \A d \in Sheets : shape[d].kind \in {"scan", "digital", "image"} /\ shape[d].pages \in Nat
    /\ DOMAIN reader = Sheets /\ DOMAIN task = Sheets /\ DOMAIN texts = Sheets
    /\ DOMAIN outcome = Sheets

PagesInv ==
    /\ Tables
    /\ Kept(cpuSlots) /\ Kept(pageSlots) /\ Keyed(pageSlots) /\ Keyed(bitmaps)
    /\ \A d \in Sheets : DocInv(d)

-----------------------------------------------------------------------------
\* A document that a step leaves alone.
Same(e) ==
    /\ reader'[e] = reader[e] /\ task'[e] = task[e] /\ texts'[e] = texts[e]
    /\ outcome'[e] = outcome[e]
    /\ (e \in instances') = (e \in instances)
    /\ \A x : /\ (<<e, x>> \in cpuSlots') = (<<e, x>> \in cpuSlots)
              /\ (<<e, x>> \in pageSlots') = (<<e, x>> \in pageSlots)
              /\ (<<e, x>> \in bitmaps') = (<<e, x>> \in bitmaps)

LEMMA SameKeeps ==
  ASSUME PagesInv, NEW e \in Sheets, Same(e), UNCHANGED fixed
  PROVE  DocInv(e)'
<1>1. DocInv(e) /\ UNCHANGED <<shape, available>> /\ Of(e)' = Of(e)
  BY DEF PagesInv, fixed, Of
<1>2. InOrder(e)' = InOrder(e)
  BY <1>1 DEF Same, InOrder, Of
<1>3. HandlerInv(e)'
  BY <1>1, <1>2 DEF Same, DocInv, HandlerInv, Of
<1>4. ASSUME NEW p \in Of(e)
      PROVE  PageInv(e, p)'
  BY <1>1, <1>4 DEF Same, DocInv, PageInv, Ours
<1> QED
  BY <1>1, <1>3, <1>4 DEF Same, DocInv

LEMMA Elsewhere ==
  ASSUME PagesInv, NEW d \in Sheets, NEW e \in Sheets, e # d,
         PageStep(d) \/ CancelHandler(d)
  PROVE  Same(e) /\ UNCHANGED fixed
<1> USE DEF Same, Go, Turn, SetTask, End, Emit
<1>0. DOMAIN reader = Sheets /\ DOMAIN task = Sheets /\ DOMAIN texts = Sheets /\ DOMAIN outcome = Sheets
  BY DEF PagesInv, Tables
<1>1. CASE CancelHandler(d)
  BY <1>1 DEF CancelHandler
<1>2. CASE EndEarly(d)
  BY <1>0, <1>2 DEF EndEarly
<1>3. CASE OpenDocument(d)
  BY <1>0, <1>3 DEF OpenDocument
<1>4. CASE NextPage(d)
  BY <1>0, <1>4 DEF NextPage
<1>5. CASE GiveUp(d)
  BY <1>0, <1>5 DEF GiveUp
<1>6. CASE PageSlot(d)
  BY <1>0, <1>6 DEF PageSlot
<1>7. CASE AcquireRaster(d)
  BY <1>0, <1>7 DEF AcquireRaster
<1>8. CASE Render(d)
  BY <1>0, <1>8 DEF Render
<1>9. CASE RenderFails(d)
  BY <1>0, <1>9 DEF RenderFails
<1>10. CASE Join(d)
  BY <1>0, <1>10 DEF Join
<1>11. CASE Assemble(d)
  BY <1>0, <1>11 DEF Assemble
<1>12. CASE Deliver(d)
  BY <1>0, <1>12 DEF Deliver
<1>13. CASE AcquireImage(d)
  BY <1>0, <1>13 DEF AcquireImage
<1>14. CASE Bytes(d)
  BY <1>0, <1>14 DEF Bytes
<1>15. ASSUME NEW p \in Of(d), TaskStep(d, p)
       PROVE  Same(e) /\ UNCHANGED fixed
  BY <1>0, <1>15 DEF TaskStep, AcquireOcr, ImageWords, Land, Cleanup, ReturnSlot
<1> QED
  BY <1>1, <1>2, <1>3, <1>4, <1>5, <1>6, <1>7, <1>8, <1>9, <1>10, <1>11, <1>12, <1>13,
     <1>14, <1>15 DEF PageStep, HandlerStep
-----------------------------------------------------------------------------
LEMMA KeptMore ==
  ASSUME NEW slots, Kept(slots), Room(slots), NEW d \in Sheets, NEW p \in {0} \union Of(d)
  PROVE  Kept(slots \union {<<d, p>>})
<1>1. IsFiniteSet(slots) /\ Cardinality(slots) \in Nat /\ CpuSlots \in Nat
  BY FS_CardinalityType, PagesAssumption DEF Kept, PagesAssumption
<1>2. /\ IsFiniteSet(slots \union {<<d, p>>})
      /\ Cardinality(slots \union {<<d, p>>}) <= Cardinality(slots) + 1
  BY <1>1, FS_AddElement
<1>3. Cardinality(slots \union {<<d, p>>}) \in Nat
  BY <1>2, FS_CardinalityType
<1> DEFINE n == Cardinality(slots \union {<<d, p>>})
           m == Cardinality(slots)
<1>4. n <= m + 1 /\ m < CpuSlots /\ n \in Nat /\ m \in Nat
  BY <1>1, <1>2, <1>3 DEF Room
<1> HIDE DEF n, m
<1>5. n <= CpuSlots
  BY <1>1, <1>4
<1> QED
  BY <1>2, <1>5 DEF Kept, n

LEMMA KeptLess ==
  ASSUME NEW slots, Kept(slots), NEW h
  PROVE  Kept(slots \ {h})
<1>1. IsFiniteSet(slots) /\ Cardinality(slots) \in Nat /\ CpuSlots \in Nat
  BY FS_CardinalityType, PagesAssumption DEF Kept, PagesAssumption
<1>2. IsFiniteSet(slots \ {h}) /\ Cardinality(slots \ {h}) <= Cardinality(slots)
  BY <1>1, FS_Subset
<1>3. Cardinality(slots \ {h}) \in Nat
  BY <1>2, FS_CardinalityType
<1> DEFINE n == Cardinality(slots \ {h})
           m == Cardinality(slots)
<1>4. n <= m /\ m <= CpuSlots /\ n \in Nat /\ m \in Nat
  BY <1>1, <1>2, <1>3 DEF Kept
<1> HIDE DEF n, m
<1>5. n <= CpuSlots
  BY <1>1, <1>4
<1> QED
  BY <1>2, <1>5 DEF Kept, n

\* What the semaphores and the tables come to after a step.
LEMMA TablesKeep ==
  ASSUME PagesInv, NEW d \in Sheets, PageStep(d) \/ CancelHandler(d)
  PROVE  Tables'
<1> USE DEF Go, Turn, SetTask, End, Emit, Land
<1>0. Tables
  BY DEF PagesInv
<1>1. CASE \E p \in Of(d) : TaskStep(d, p)
  BY <1>0, <1>1 DEF Tables, fixed, TaskStep, AcquireOcr, ImageWords, Cleanup, ReturnSlot
<1>2. CASE CancelHandler(d)
  BY <1>0, <1>2 DEF Tables, fixed, CancelHandler
<1>3. CASE HandlerStep(d)
  BY <1>0, <1>3 DEF Tables, fixed, HandlerStep, EndEarly, OpenDocument, NextPage, GiveUp,
     PageSlot, AcquireRaster, Render, RenderFails, Join, Assemble, Deliver, AcquireImage, Bytes
<1> QED
  BY <1>1, <1>2, <1>3 DEF PageStep

LEMMA SlotsKeep ==
  ASSUME PagesInv, NEW d \in Sheets, PageStep(d) \/ CancelHandler(d)
  PROVE  Kept(cpuSlots)' /\ Kept(pageSlots)' /\ Keyed(pageSlots)' /\ Keyed(bitmaps)'
<1>0. /\ Kept(cpuSlots) /\ Kept(pageSlots) /\ Keyed(pageSlots) /\ Keyed(bitmaps)
      /\ HandlerInv(d)
  BY DEF PagesInv, DocInv
<1>1. shape' = shape /\ \A e \in Sheets : Of(e)' = Of(e)
  <2>1. shape' = shape
    BY DEF fixed, PageStep, HandlerStep, EndEarly, OpenDocument, NextPage, GiveUp,
       PageSlot, AcquireRaster, Render, RenderFails, Join, Assemble, Deliver, AcquireImage,
       Bytes, TaskStep, AcquireOcr, ImageWords, Cleanup, ReturnSlot, CancelHandler
  <2> QED
    BY <2>1 DEF Of
<1>2. ASSUME NEW slots, NEW after,
             \/ after = slots
             \/ \E p \in {0} \union Of(d) : \/ Room(slots) /\ after = slots \union {<<d, p>>}
                                            \/ after = slots \ {<<d, p>>},
             Kept(slots)
      PROVE  Kept(after)
  <2>1. CASE after = slots
    BY <1>2, <2>1
  <2>2. ASSUME NEW p \in {0} \union Of(d), Room(slots), after = slots \union {<<d, p>>}
        PROVE  Kept(after)
    <3>1. Kept(slots \union {<<d, p>>})
      BY <1>2, <2>2, KeptMore
    <3> QED
      BY <2>2, <3>1
  <2>3. ASSUME NEW p \in {0} \union Of(d), after = slots \ {<<d, p>>}
        PROVE  Kept(after)
    <3>1. Kept(slots \ {<<d, p>>})
      BY <1>2, KeptLess
    <3> QED
      BY <2>3, <3>1
  <2> QED
    BY <1>2, <2>1, <2>2, <2>3, Zenon
<1>3. ASSUME NEW slots, NEW after,
             \/ after = slots
             \/ \E p \in Of(d) : after = slots \union {<<d, p>>} \/ after = slots \ {<<d, p>>},
             Keyed(slots)
      PROVE  Keyed(after)
  BY <1>3 DEF Keyed
<1>4. \/ cpuSlots' = cpuSlots
      \/ \E p \in {0} \union Of(d) : \/ Room(cpuSlots) /\ cpuSlots' = cpuSlots \union {<<d, p>>}
                                     \/ cpuSlots' = cpuSlots \ {<<d, p>>}
  BY DEF PageStep, HandlerStep, EndEarly, OpenDocument, NextPage, GiveUp,
     PageSlot, AcquireRaster, Render, RenderFails, Join, Assemble, Deliver, AcquireImage,
     Bytes, TaskStep, AcquireOcr, ImageWords, Cleanup, ReturnSlot, CancelHandler
<1>5. At(d, "slot") \/ At(d, "raster") \/ At(d, "render") => reader[d].page \in Of(d)
  BY <1>0 DEF HandlerInv, At
<1>6. \/ pageSlots' = pageSlots
      \/ \E p \in Of(d) : \/ Room(pageSlots) /\ pageSlots' = pageSlots \union {<<d, p>>}
                          \/ pageSlots' = pageSlots \ {<<d, p>>}
  BY <1>5 DEF PageStep, HandlerStep, EndEarly, OpenDocument, NextPage, GiveUp,
     PageSlot, AcquireRaster, Render, RenderFails, Join, Assemble, Deliver, AcquireImage,
     Bytes, TaskStep, AcquireOcr, ImageWords, Cleanup, ReturnSlot, CancelHandler
<1>7. \/ bitmaps' = bitmaps
      \/ \E p \in Of(d) : bitmaps' = bitmaps \union {<<d, p>>} \/ bitmaps' = bitmaps \ {<<d, p>>}
  BY <1>5 DEF PageStep, HandlerStep, EndEarly, OpenDocument, NextPage, GiveUp,
     PageSlot, AcquireRaster, Render, RenderFails, Join, Assemble, Deliver, AcquireImage,
     Bytes, TaskStep, AcquireOcr, ImageWords, Cleanup, ReturnSlot, CancelHandler
<1>8. Kept(cpuSlots') /\ Kept(pageSlots') /\ Keyed(pageSlots') /\ Keyed(bitmaps')
  BY <1>0, <1>2, <1>3, <1>4, <1>6, <1>7
<1> QED
  BY <1>1, <1>8 DEF Kept, Keyed
-----------------------------------------------------------------------------
(* A handler's steps.                                                      *)

\* Go and Turn.
LEMMA Moved ==
  ASSUME PagesInv, NEW d \in Sheets, NEW place \in Stations, Go(d, place) \/ Turn(d, place)
  PROVE  /\ reader'[d] \in [at : Stations, page : Nat \ {0}] /\ reader'[d].at = place
         /\ Go(d, place) => reader'[d].page = reader[d].page
         /\ Turn(d, place) => reader'[d].page = reader[d].page + 1
<1>1. DOMAIN reader = Sheets /\ reader[d] \in [at : Stations, page : Nat \ {0}]
  BY DEF PagesInv, Tables, DocInv, HandlerInv
<1>2. ASSUME Go(d, place)
      PROVE  reader'[d] = [at |-> place, page |-> reader[d].page]
  BY <1>1, <1>2 DEF Go
<1>3. ASSUME Turn(d, place)
      PROVE  reader'[d] = [at |-> place, page |-> reader[d].page + 1]
  BY <1>1, <1>3 DEF Turn
<1> QED
  BY <1>1, <1>2, <1>3

LEMMA TaskSet ==
  ASSUME PagesInv, NEW d \in Sheets, NEW p \in Of(d), NEW place, SetTask(d, p, place)
  PROVE  /\ DOMAIN task'[d] = Of(d)
         /\ \A q \in Of(d) : task'[d][q] = IF q = p THEN [at |-> place, got |-> task[d][p].got]
                                           ELSE task[d][q]
<1>1. DOMAIN task = Sheets /\ DOMAIN task[d] = Of(d) /\ task[d][p] \in Task
  BY DEF PagesInv, Tables, DocInv, PageInv
<1> QED
  BY <1>1 DEF SetTask, Task

\* The handler returns, all its tasks having ended, without the CPU slot it may have
\* had, and with no text, or the layer's, or that of the pages read.
LEMMA EndKeeps ==
  ASSUME PagesInv, NEW d \in Sheets, NEW verdict, NEW text, End(d, verdict, text),
         ~Ours(d), \A p \in Of(d) : task[d][p].at \in {"none", "done"},
         UNCHANGED <<fixed, task, texts, pageSlots, bitmaps>>,
         cpuSlots' = cpuSlots \/ cpuSlots' = cpuSlots \ {<<d, 0>>},
         <<d, 0>> \notin cpuSlots',
         shape[d].kind = "scan" => text \in {<<>>, Layer, InOrder(d)}
  PROVE  DocInv(d)'
<1>1. /\ Tables /\ DocInv(d) /\ HandlerInv(d) /\ \A p \in Of(d) : PageInv(d, p)
      /\ UNCHANGED <<shape, available, task, texts>>
      /\ Of(d)' = Of(d)
  BY DEF PagesInv, DocInv, fixed, Of
<1>2. /\ reader'[d] = [at |-> "ended", page |-> 1] /\ outcome'[d].text = text
      /\ instances' = instances \ {d}
  BY <1>1 DEF End, Tables
<1>3. InOrder(d)' = InOrder(d)
  BY <1>1 DEF InOrder, Of
<1>4. HandlerInv(d)'
  BY <1>1, <1>2, <1>3 DEF HandlerInv, Stations
<1>5. ASSUME NEW p \in Of(d)
      PROVE  PageInv(d, p)'
  <2>1. PageInv(d, p) /\ <<d, p>> # <<d, 0>>
    BY <1>1, <1>5 DEF Tables, Of
  <2> QED
    BY <1>1, <1>2, <1>5, <2>1 DEF PageInv, Ours, Ahead
<1> QED
  BY <1>1, <1>4, <1>5 DEF DocInv

LEMMA EndEarlyKeeps == ASSUME PagesInv, NEW d \in Sheets, EndEarly(d) PROVE DocInv(d)'
<1>1. /\ HandlerInv(d) /\ reader[d].at = "idle" /\ \A p \in Of(d) : PageInv(d, p)
  BY DEF PagesInv, DocInv, EndEarly, At
<1>2. \A p \in Of(d) : task[d][p].at \in {"none", "done"}
  BY <1>1 DEF PageInv, Quiet
<1>3. ~Ours(d) /\ <<d, 0>> \notin cpuSlots
  <2>1. ~Ours(d)
    BY <1>1 DEF Ours
  <2>2. (<<d, 0>> \in cpuSlots) = (reader[d].at \in {"render", "bytes"})
    BY <1>1 DEF HandlerInv
  <2> QED
    BY <1>1, <2>1, <2>2
<1> QED
  BY <1>2, <1>3, EndKeeps DEF EndEarly

LEMMA OpenKeeps == ASSUME PagesInv, NEW d \in Sheets, OpenDocument(d) PROVE DocInv(d)'
<1>1. /\ Tables /\ DocInv(d) /\ HandlerInv(d) /\ \A p \in Of(d) : PageInv(d, p)
      /\ reader[d].at = "idle" /\ shape[d].kind # "image" /\ Go(d, "next")
      /\ UNCHANGED <<shape, available, task, texts, cpuSlots, pageSlots, bitmaps, outcome>>
      /\ Of(d)' = Of(d) /\ instances' = instances \union {d}
  BY DEF PagesInv, DocInv, OpenDocument, At, fixed, Of
<1>2. /\ reader'[d] \in [at : Stations, page : Nat \ {0}] /\ reader'[d].at = "next"
      /\ reader'[d].page = reader[d].page
  BY <1>1, Moved DEF Stations
<1>3. HandlerInv(d)'
  BY <1>1, <1>2 DEF HandlerInv
<1>4. ASSUME NEW p \in Of(d)
      PROVE  PageInv(d, p)'
  BY <1>1, <1>2, <1>4 DEF PageInv, Ours, Ahead, Quiet
<1> QED
  BY <1>1, <1>3, <1>4 DEF DocInv

LEMMA PageSlotKeeps == ASSUME PagesInv, NEW d \in Sheets, PageSlot(d) PROVE DocInv(d)'
<1>1. /\ Tables /\ DocInv(d) /\ HandlerInv(d) /\ \A p \in Of(d) : PageInv(d, p)
      /\ reader[d].at = "slot" /\ Go(d, "raster")
      /\ UNCHANGED <<shape, available, task, texts, cpuSlots, bitmaps, outcome, instances>>
      /\ Of(d)' = Of(d) /\ pageSlots' = pageSlots \union {<<d, reader[d].page>>}
  BY DEF PagesInv, DocInv, PageSlot, At, fixed, Of
<1>2. /\ reader'[d] \in [at : Stations, page : Nat \ {0}] /\ reader'[d].at = "raster"
      /\ reader'[d].page = reader[d].page
  BY <1>1, Moved DEF Stations
<1>3. HandlerInv(d)'
  BY <1>1, <1>2 DEF HandlerInv
<1>4. ASSUME NEW p \in Of(d)
      PROVE  PageInv(d, p)'
  BY <1>1, <1>2, <1>4 DEF PageInv, Ours, Ahead, Quiet
<1> QED
  BY <1>1, <1>3, <1>4 DEF DocInv

LEMMA RasterKeeps == ASSUME PagesInv, NEW d \in Sheets, AcquireRaster(d) PROVE DocInv(d)'
<1>1. /\ Tables /\ DocInv(d) /\ HandlerInv(d) /\ \A p \in Of(d) : PageInv(d, p)
      /\ reader[d].at = "raster" /\ Go(d, "render")
      /\ UNCHANGED <<shape, available, task, texts, pageSlots, bitmaps, outcome, instances>>
      /\ Of(d)' = Of(d) /\ cpuSlots' = cpuSlots \union {<<d, 0>>}
  BY DEF PagesInv, DocInv, AcquireRaster, At, fixed, Of
<1>2. /\ reader'[d] \in [at : Stations, page : Nat \ {0}] /\ reader'[d].at = "render"
      /\ reader'[d].page = reader[d].page
  BY <1>1, Moved DEF Stations
<1>3. HandlerInv(d)'
  BY <1>1, <1>2 DEF HandlerInv
<1>4. ASSUME NEW p \in Of(d)
      PROVE  PageInv(d, p)'
  <2>1. p # 0
    BY <1>1, <1>4 DEF Tables, Of
  <2> QED
    BY <1>1, <1>2, <1>4, <2>1 DEF PageInv, Ours, Ahead, Quiet
<1> QED
  BY <1>1, <1>3, <1>4 DEF DocInv

LEMMA RenderKeeps == ASSUME PagesInv, NEW d \in Sheets, Render(d) PROVE DocInv(d)'
<1> DEFINE now == reader[d].page
<1>1. /\ Tables /\ DocInv(d) /\ HandlerInv(d) /\ \A p \in Of(d) : PageInv(d, p)
      /\ reader[d].at = "render" /\ now \in Of(d) /\ now \in Nat
      /\ UNCHANGED <<shape, available, pageSlots, outcome, instances>>
      /\ Of(d)' = Of(d) /\ cpuSlots' = cpuSlots \ {<<d, 0>>}
      /\ bitmaps' = bitmaps \union {<<d, now>>}
  BY DEF PagesInv, DocInv, Render, At, fixed, Of, HandlerInv
<1>2. PICK place \in {"queue", "clean"} :
         /\ SetTask(d, now, place)
         /\ place = "clean" \/ shape[d].kind # "scan" => Go(d, "join")
         /\ place = "queue" /\ shape[d].kind = "scan" => Turn(d, "next") /\ texts' = texts
         /\ place = "clean" => shape[d].kind = "digital"
         /\ texts' = texts \/ texts' = [texts EXCEPT ![d][now] = now]
  BY DEF Render
<1>3. /\ DOMAIN task'[d] = Of(d)
      /\ \A q \in Of(d) : task'[d][q] = IF q = now THEN [at |-> place, got |-> task[d][now].got]
                                        ELSE task[d][q]
  BY <1>1, <1>2, TaskSet
<1>4. /\ texts'[d] \in [Of(d) -> Nat]
      /\ shape[d].kind = "scan" => texts' = texts
  BY <1>1, <1>2 DEF Tables, DocInv, PageInv
<1>5. /\ reader'[d] \in [at : Stations, page : Nat \ {0}]
      /\ \/ shape[d].kind = "scan" /\ reader'[d].at = "next" /\ reader'[d].page = now + 1
         \/ shape[d].kind = "digital" /\ reader'[d].at = "join" /\ reader'[d].page = now
  BY <1>1, <1>2, Moved DEF Stations, HandlerInv, Tables
<1>6. HandlerInv(d)'
  BY <1>1, <1>5 DEF HandlerInv
<1>7. ASSUME NEW p \in Of(d)
      PROVE  PageInv(d, p)'
  <2>1. p # 0 /\ p \in Nat
    BY <1>1, <1>7 DEF Tables, Of
  <2>2. PageInv(d, p) /\ Ours(d)
    BY <1>1, <1>7 DEF Ours
  <2>3. task'[d][p] \in Task /\ texts'[d][p] \in Nat
    BY <1>2, <1>3, <1>4, <1>7, <2>2, SMTT(30) DEF PageInv, Task
  <2>4. CASE p = now
    BY <1>1, <1>2, <1>3, <1>4, <1>5, <1>7, <2>1, <2>2, <2>3, <2>4 DEF PageInv, Ours, Ahead, Quiet, Task
  <2>5. CASE p # now
    BY <1>1, <1>2, <1>3, <1>4, <1>5, <1>7, <2>1, <2>2, <2>3, <2>5 DEF PageInv, Ours, Ahead, Quiet, Task
  <2> QED
    BY <2>4, <2>5
<1> QED
  BY <1>1, <1>3, <1>4, <1>6, <1>7 DEF DocInv

LEMMA RenderFailsKeeps == ASSUME PagesInv, NEW d \in Sheets, RenderFails(d) PROVE DocInv(d)'
<1> DEFINE now == reader[d].page
<1>1. /\ Tables /\ DocInv(d) /\ HandlerInv(d) /\ \A p \in Of(d) : PageInv(d, p)
      /\ Ours(d) /\ now \in Of(d) /\ now \in Nat
      /\ UNCHANGED <<shape, available, task, texts, bitmaps, outcome, instances>>
      /\ Of(d)' = Of(d) /\ cpuSlots' = cpuSlots \ {<<d, 0>>}
      /\ pageSlots' = pageSlots \ {<<d, now>>}
  BY DEF PagesInv, DocInv, RenderFails, At, Ours, fixed, Of, HandlerInv
<1>2. \/ shape[d].kind = "digital" /\ Go(d, "unlaid")
      \/ shape[d].kind = "scan" /\ (Go(d, "wait") \/ Turn(d, "next"))
  <2>1. shape[d].kind = "digital" \/ shape[d].kind = "scan"
    BY <1>1 DEF HandlerInv, Ours, Tables
  <2> QED
    BY <2>1 DEF RenderFails
<1>3. /\ reader'[d] \in [at : Stations, page : Nat \ {0}]
      /\ \/ shape[d].kind = "digital" /\ reader'[d].at = "unlaid"
         \/ shape[d].kind = "scan" /\ reader'[d].at = "wait"
         \/ shape[d].kind = "scan" /\ reader'[d].at = "next" /\ reader'[d].page = now + 1
  BY <1>1, <1>2, Moved DEF Stations
<1>4. HandlerInv(d)'
  BY <1>1, <1>3 DEF HandlerInv, Ours
<1>5. ASSUME NEW p \in Of(d)
      PROVE  PageInv(d, p)'
  <2>1. p # 0 /\ p \in Nat
    BY <1>1, <1>5 DEF Tables, Of
  <2>2. PageInv(d, p) /\ <<d, p>> # <<d, 0>>
    BY <1>1, <1>5, <2>1, SMTT(30)
  <2>3. CASE p = now
    BY <1>1, <1>3, <1>5, <2>1, <2>2, <2>3 DEF PageInv, Ours, Ahead, Quiet, Task
  <2>4. CASE p # now
    BY <1>1, <1>3, <1>5, <2>1, <2>2, <2>4 DEF PageInv, Ours, Ahead, Quiet, Task
  <2> QED
    BY <2>3, <2>4
<1> QED
  BY <1>1, <1>4, <1>5 DEF DocInv
LEMMA NextKeeps == ASSUME PagesInv, NEW d \in Sheets, NextPage(d) PROVE DocInv(d)'
<1> DEFINE now == reader[d].page
<1>1. /\ Tables /\ DocInv(d) /\ HandlerInv(d) /\ \A p \in Of(d) : PageInv(d, p)
      /\ reader[d].at = "next" /\ now \in Nat \ {0} /\ shape[d].pages \in Nat
      /\ UNCHANGED <<shape, available, task, cpuSlots, pageSlots, bitmaps>>
      /\ Of(d)' = Of(d)
  BY DEF PagesInv, DocInv, NextPage, At, fixed, Of, HandlerInv, Tables
<1>2. ASSUME shape[d].kind = "scan", ~available, End(d, "declined", <<>>), UNCHANGED texts
      PROVE  DocInv(d)'
  <2>1. \A p \in Of(d) : task[d][p].at \in {"none", "done"}
    <3> SUFFICES ASSUME NEW p \in Of(d) PROVE task[d][p].at = "none"
      OBVIOUS
    <3>1. now = 1 /\ p \in Nat /\ 1 <= p
      BY <1>1, <1>2 DEF HandlerInv, Of
    <3> QED
      BY <1>1, <3>1 DEF PageInv, Ahead
  <2>2. ~Ours(d) /\ (<<d, 0>> \in cpuSlots) = (reader[d].at \in {"render", "bytes"})
    BY <1>1 DEF HandlerInv, Ours
  <2>3. <<d, 0>> \notin cpuSlots
    BY <1>1, <2>2
  <2> QED
    BY <1>1, <1>2, <2>1, <2>2, <2>3, EndKeeps DEF fixed
<1>3. ASSUME NEW place \in {"wait", "slot", "next", "laid", "unlaid"},
             UNCHANGED <<instances, outcome>>,
             \/ Go(d, place) /\ UNCHANGED texts
             \/ /\ Turn(d, place) /\ place = "next" /\ now \in Of(d) /\ shape[d].kind = "digital"
                /\ texts' = [texts EXCEPT ![d][now] = now],
             place = "wait" => shape[d].kind = "scan",
             place = "slot" => now \in Of(d),
             place \in {"laid", "unlaid"} => shape[d].kind = "digital",
             shape[d].kind = "scan" => available
      PROVE  DocInv(d)'
  <2>1. /\ reader'[d] \in [at : Stations, page : Nat \ {0}] /\ reader'[d].at = place
        /\ \/ reader'[d].page = now
           \/ reader'[d].page = now + 1 /\ place = "next"
    BY <1>3, Moved DEF Stations
  <2>2. /\ texts'[d] \in [Of(d) -> Nat]
        /\ shape[d].kind = "scan" => texts' = texts
    <3>1. DOMAIN texts = Sheets /\ texts[d] \in [Of(d) -> Nat]
      BY <1>1 DEF Tables, DocInv
    <3>2. CASE texts' = texts
      BY <1>1, <3>1, <3>2
    <3>3. CASE texts' = [texts EXCEPT ![d][now] = now] /\ shape[d].kind = "digital"
      BY <1>1, <3>1, <3>3
    <3> QED
      BY <1>3, <3>2, <3>3
  <2>3. shape[d].kind # "image"
    BY <1>1 DEF HandlerInv
  <2>4. HandlerInv(d)'
    BY <1>1, <1>3, <2>1, <2>3 DEF HandlerInv
  <2>5. ASSUME NEW p \in Of(d)
        PROVE  PageInv(d, p)'
    <3>1. PageInv(d, p) /\ p \in Nat
      BY <1>1, <2>5 DEF Of
    <3> QED
      BY <1>1, <1>3, <2>1, <2>2, <2>5, <3>1 DEF PageInv, Ours, Ahead, Quiet
  <2> QED
    BY <1>1, <2>2, <2>4, <2>5 DEF DocInv
<1>4. now <= shape[d].pages => now \in Of(d)
  BY <1>1 DEF Of
<1> DEFINE last == now > shape[d].pages
<1>5. CASE shape[d].kind = "scan" /\ ~available /\ End(d, "declined", <<>>) /\ UNCHANGED texts
  BY <1>2, <1>5
<1>6. CASE /\ shape[d].kind = "scan" /\ available
           /\ Go(d, IF last \/ cancelled[d] THEN "wait" ELSE "slot")
           /\ UNCHANGED <<texts, instances, outcome>>
  <2>1. CASE last \/ cancelled[d]
    BY <1>3, <1>6, <2>1
  <2>2. CASE ~(last \/ cancelled[d])
    BY <1>1, <1>3, <1>4, <1>6, <2>2
  <2> QED
    BY <2>1, <2>2
<1>7. CASE /\ shape[d].kind = "digital" /\ ~last /\ ~cancelled[d] /\ ~available
           /\ Turn(d, "next")
           /\ texts' = [texts EXCEPT ![d][now] = now]
           /\ UNCHANGED <<instances, outcome>>
  BY <1>1, <1>3, <1>4, <1>7
<1>8. CASE /\ shape[d].kind = "digital"
           /\ Go(d, IF last THEN "laid" ELSE IF cancelled[d] THEN "unlaid" ELSE "slot")
           /\ UNCHANGED <<texts, instances, outcome>>
  <2>1. CASE last
    BY <1>3, <1>8, <2>1
  <2>2. CASE ~last /\ cancelled[d]
    BY <1>3, <1>8, <2>2
  <2>3. CASE ~last /\ ~cancelled[d]
    BY <1>1, <1>3, <1>4, <1>8, <2>3
  <2> QED
    BY <2>1, <2>2, <2>3
<1> QED
  BY <1>5, <1>6, <1>7, <1>8 DEF NextPage

\* GiveUp, Join.
LEMMA GoesOn ==
  ASSUME PagesInv, NEW d \in Sheets, NEW place \in {"wait", "unlaid", "next"},
         Go(d, place) \/ (Turn(d, place) /\ place = "next"),
         UNCHANGED <<fixed, task, texts, instances, pageSlots, cpuSlots, bitmaps, outcome>>,
         \/ reader[d].at = "slot" /\ place # "next"
         \/ reader[d].at = "join" /\ Go(d, place) /\ place = "unlaid"
         \/ reader[d].at = "join" /\ Turn(d, place),
         reader[d].at = "join" => task[d][reader[d].page].at = "done",
         place = "wait" => shape[d].kind = "scan", place = "unlaid" => shape[d].kind = "digital"
  PROVE  DocInv(d)'
<1> DEFINE now == reader[d].page
<1>1. /\ Tables /\ DocInv(d) /\ HandlerInv(d) /\ \A p \in Of(d) : PageInv(d, p)
      /\ now \in Of(d) /\ now \in Nat
      /\ UNCHANGED <<shape, available, task, texts, instances, pageSlots, cpuSlots, bitmaps, outcome>>
      /\ Of(d)' = Of(d)
  BY DEF PagesInv, DocInv, HandlerInv, fixed, Of
<1>2. /\ reader'[d] \in [at : Stations, page : Nat \ {0}] /\ reader'[d].at = place
      /\ place = "next" => reader[d].at = "join" /\ reader'[d].page = now + 1
  BY Moved DEF Stations
<1>3. HandlerInv(d)'
  BY <1>1, <1>2 DEF HandlerInv
<1>4. ASSUME NEW p \in Of(d)
      PROVE  PageInv(d, p)'
  <2>1. PageInv(d, p) /\ p \in Nat
    BY <1>1, <1>4 DEF Of
  <2> QED
    BY <1>1, <1>2, <1>4, <2>1 DEF PageInv, Ours, Ahead, Quiet
<1> QED
  BY <1>1, <1>3, <1>4 DEF DocInv

LEMMA GiveUpKeeps == ASSUME PagesInv, NEW d \in Sheets, GiveUp(d) PROVE DocInv(d)'
<1>1. shape[d].kind \in {"scan", "digital"} /\ reader[d].at = "slot"
  BY DEF PagesInv, Tables, DocInv, HandlerInv, GiveUp, At
<1> QED
  BY <1>1, GoesOn DEF GiveUp

LEMMA JoinKeeps == ASSUME PagesInv, NEW d \in Sheets, Join(d) PROVE DocInv(d)'
<1>1. shape[d].kind = "digital" /\ reader[d].at = "join"
  BY DEF PagesInv, Tables, DocInv, HandlerInv, Join, At
<1> QED
  BY <1>1, GoesOn DEF Join

LEMMA EmitEnds ==
  ASSUME NEW d, NEW text, Emit(d, text)
  PROVE  \E verdict : End(d, verdict, text) \/ End(d, verdict, <<>>)
BY DEF Emit

\* Of a scan, what landed is the text of the pages that were read, in page order.
LEMMA GatheredSame ==
  ASSUME NEW wanted, NEW of, NEW of2, Len(of) = Len(of2),
         \A p \in 0..Len(of) : p \in wanted => of[p] = of2[p]
  PROVE  Gathered(wanted, of) = Gathered(wanted, of2)
BY Zenon DEF Gathered
LEMMA ScanText ==
  ASSUME NEW d \in Sheets, DocInv(d), shape[d].kind = "scan", shape[d].pages \in Nat
  PROVE  Landed(d) = InOrder(d)
<1> DEFINE id == [p \in Of(d) |-> p]
<1>1. texts[d] = [p \in Of(d) |-> IF task[d][p].got THEN p ELSE 0]
  <2>1. texts[d] \in [Of(d) -> Nat]
    BY DEF DocInv
  <2>2. \A p \in Of(d) : texts[d][p] = IF task[d][p].got THEN p ELSE 0
    BY DEF DocInv, PageInv
  <2> QED
    BY <2>1, <2>2
<1>2. {p \in Of(d) : texts[d][p] # 0} = {p \in Of(d) : task[d][p].got}
  BY <1>1 DEF Of
<1>3. Len(texts[d]) = shape[d].pages /\ Len(id) = shape[d].pages
  BY <1>1 DEF Of
<1>4. \A p \in 0..Len(texts[d]) : p \in {q \in Of(d) : task[d][q].got} => texts[d][p] = id[p]
  BY <1>1
<1>5. Gathered({p \in Of(d) : task[d][p].got}, texts[d]) = Gathered({p \in Of(d) : task[d][p].got}, id)
  BY <1>3, <1>4, GatheredSame
<1> QED
  BY <1>2, <1>5, Zenon DEF Landed, InOrder

LEMMA AssembleKeeps == ASSUME PagesInv, NEW d \in Sheets, Assemble(d) PROVE DocInv(d)'
<1>1. /\ Tables /\ DocInv(d) /\ HandlerInv(d) /\ reader[d].at = "wait"
      /\ shape[d].kind = "scan" /\ shape[d].pages \in Nat
      /\ \A p \in Of(d) : task[d][p].at \in {"none", "done"}
  BY DEF PagesInv, Tables, DocInv, HandlerInv, Assemble, At
<1>2. PICK text \in {<<>>, Layer, InOrder(d)} : \E verdict : End(d, verdict, text)
  <2>1. Landed(d) = InOrder(d)
    BY <1>1, ScanText
  <2>2. CASE cancelled[d]
    BY <2>2 DEF Assemble
  <2>3. CASE ~cancelled[d]
    <3>1. PICK text \in {<<>>, Layer, InOrder(d)} : Emit(d, text)
      BY <2>1, <2>3 DEF Assemble
    <3> QED
      BY <3>1, EmitEnds
  <2> QED
    BY <2>2, <2>3
<1>3. ~Ours(d)
  BY <1>1 DEF Ours
<1>4. (<<d, 0>> \in cpuSlots) = (reader[d].at \in {"render", "bytes"})
  BY <1>1 DEF HandlerInv
<1>5. <<d, 0>> \notin cpuSlots
  BY <1>1, <1>4
<1>6. UNCHANGED <<fixed, task, texts, pageSlots, cpuSlots, bitmaps>>
  BY DEF Assemble
<1> QED
  BY <1>1, <1>2, <1>3, <1>5, <1>6, EndKeeps

LEMMA DeliverKeeps == ASSUME PagesInv, NEW d \in Sheets, Deliver(d) PROVE DocInv(d)'
<1>1. /\ Tables /\ DocInv(d) /\ HandlerInv(d) /\ reader[d].at \in {"laid", "unlaid"}
      /\ shape[d].kind # "scan"
      /\ \A p \in Of(d) : task[d][p].at \in {"none", "done"}
  BY DEF PagesInv, DocInv, HandlerInv, PageInv, Quiet, Deliver, At
<1>2. PICK verdict, text : End(d, verdict, text)
  BY EmitEnds DEF Deliver
<1>3. ~Ours(d)
  BY <1>1 DEF Ours
<1>4. (<<d, 0>> \in cpuSlots) = (reader[d].at \in {"render", "bytes"})
  BY <1>1 DEF HandlerInv
<1>5. <<d, 0>> \notin cpuSlots
  BY <1>1, <1>4
<1>6. UNCHANGED <<fixed, task, texts, pageSlots, cpuSlots, bitmaps>>
  BY DEF Deliver
<1> QED
  BY <1>1, <1>2, <1>3, <1>5, <1>6, EndKeeps

LEMMA ImageKeeps == ASSUME PagesInv, NEW d \in Sheets, AcquireImage(d) PROVE DocInv(d)'
<1>1. /\ Tables /\ DocInv(d) /\ HandlerInv(d)
      /\ reader[d].at = "idle" /\ shape[d].kind = "image" /\ Go(d, "bytes")
      /\ UNCHANGED <<shape, available, task, texts, instances, pageSlots, bitmaps, outcome>>
      /\ Of(d)' = Of(d) /\ cpuSlots' = cpuSlots \union {<<d, 0>>}
      /\ \A p \in Of(d) : PageInv(d, p)
  BY DEF PagesInv, DocInv, AcquireImage, At, fixed, Of
<1>2. reader'[d] \in [at : Stations, page : Nat \ {0}] /\ reader'[d].at = "bytes"
  BY <1>1, Moved DEF Stations
<1>3. HandlerInv(d)'
  BY <1>1, <1>2 DEF HandlerInv
<1>4. ASSUME NEW p \in Of(d)
      PROVE  PageInv(d, p)'
  <2>1. PageInv(d, p) /\ p # 0
    BY <1>1, <1>4 DEF Tables, Of
  <2> QED
    BY <1>1, <1>2, <1>4, <2>1 DEF PageInv, Ours, Ahead, Quiet
<1> QED
  BY <1>1, <1>3, <1>4 DEF DocInv

LEMMA BytesKeeps == ASSUME PagesInv, NEW d \in Sheets, Bytes(d) PROVE DocInv(d)'
<1>1. /\ Tables /\ DocInv(d) /\ HandlerInv(d) /\ reader[d].at = "bytes"
      /\ shape[d].kind # "scan"
      /\ \A p \in Of(d) : task[d][p].at \in {"none", "done"}
  BY DEF PagesInv, DocInv, HandlerInv, PageInv, Quiet, Bytes, At
<1>2. PICK verdict, text : End(d, verdict, text)
  BY EmitEnds DEF Bytes
<1>3. ~Ours(d)
  BY <1>1 DEF Ours
<1>4. <<d, 0>> \notin cpuSlots' /\ cpuSlots' = cpuSlots \ {<<d, 0>>}
  BY DEF Bytes
<1>5. UNCHANGED <<fixed, task, texts, pageSlots, bitmaps>>
  BY DEF Bytes
<1> QED
  BY <1>1, <1>2, <1>3, <1>4, <1>5, EndKeeps

LEMMA CancelKeeps == ASSUME PagesInv, NEW d \in Sheets, CancelHandler(d) PROVE DocInv(d)'
<1>1. Same(d) /\ UNCHANGED fixed
  BY DEF CancelHandler, Same
<1> QED
  BY <1>1, SameKeeps

-----------------------------------------------------------------------------
(* A task's steps.                                                         *)

LEMMA TaskKeeps ==
  ASSUME PagesInv, NEW d \in Sheets, NEW p \in Of(d), TaskStep(d, p)
  PROVE  DocInv(d)'
<1>1. /\ Tables /\ DocInv(d) /\ HandlerInv(d) /\ PageInv(d, p) /\ task[d][p] \in Task
      /\ \A q \in Of(d) : PageInv(d, q)
  BY DEF PagesInv, DocInv, PageInv
<1>2. /\ UNCHANGED <<shape, available, reader, instances, outcome>>
      /\ Of(d)' = Of(d) /\ p # 0
      /\ task[d][p].at \in {"queue", "ocr", "clean", "release"}
  BY <1>1 DEF TaskStep, AcquireOcr, ImageWords, Cleanup, ReturnSlot, fixed, Of, Tables
<1>3. DOMAIN task = Sheets /\ DOMAIN texts = Sheets
  BY <1>1 DEF Tables
<1>4. DOMAIN task[d] = Of(d) /\ texts[d] \in [Of(d) -> Nat] /\ p \in Nat
  BY <1>1 DEF DocInv, Tables, Of
<1>5. PICK after \in Task :
         /\ DOMAIN task'[d] = Of(d)
         /\ \A q \in Of(d) : task'[d][q] = IF q = p THEN after ELSE task[d][q]
         /\ after.at # "none"
         /\ texts'[d] \in [Of(d) -> Nat]
         /\ \A q \in Of(d) : q # p => texts'[d][q] = texts[d][q]
         /\ \/ texts'[d][p] = p /\ after.got
            \/ texts'[d][p] = texts[d][p] /\ after.got = task[d][p].got
         /\ (<<d, p>> \in cpuSlots') = (after.at = "ocr")
         /\ (<<d, p>> \in pageSlots') = (after.at \in {"queue", "ocr", "clean", "release"})
         /\ (<<d, p>> \in bitmaps') = (after.at \in {"queue", "ocr", "clean"})
  <2>1. /\ (<<d, p>> \in cpuSlots) = (task[d][p].at = "ocr")
        /\ <<d, p>> \in pageSlots
        /\ (<<d, p>> \in bitmaps) = (task[d][p].at \in {"queue", "ocr", "clean"})
        /\ shape[d].kind = "scan" => texts[d][p] = IF task[d][p].got THEN p ELSE 0
    BY <1>1, <1>2 DEF PageInv
  <2>2. ASSUME NEW place \in {"queue", "ocr", "clean", "release", "done"}, SetTask(d, p, place)
        PROVE  /\ [at |-> place, got |-> task[d][p].got] \in Task
               /\ DOMAIN task'[d] = Of(d)
               /\ \A q \in Of(d) : task'[d][q] = IF q = p THEN [at |-> place, got |-> task[d][p].got]
                                                 ELSE task[d][q]
    BY <1>1, <2>2, TaskSet DEF Task
  <2>3. CASE AcquireOcr(d, p)
    BY <1>2, <1>3, <1>4, <2>1, <2>2, <2>3 DEF AcquireOcr
  <2>4. CASE ImageWords(d, p)
    <3>1. CASE SetTask(d, p, "clean") /\ UNCHANGED texts
      BY <1>2, <1>3, <1>4, <2>1, <2>2, <2>4, <3>1 DEF ImageWords
    <3>2. CASE task' = [task EXCEPT ![d][p] = [at |-> "clean", got |-> TRUE]] /\ texts' = Land(d, p)
      <4> DEFINE after == [at |-> "clean", got |-> TRUE]
      <4>1. after \in Task /\ after.at = "clean" /\ after.got
        BY DEF Task
      <4>2. /\ DOMAIN task'[d] = Of(d)
            /\ \A q \in Of(d) : task'[d][q] = IF q = p THEN after ELSE task[d][q]
        BY <1>3, <1>4, <3>2
      <4>3. /\ texts'[d] \in [Of(d) -> Nat] /\ texts'[d][p] = p
            /\ \A q \in Of(d) : q # p => texts'[d][q] = texts[d][q]
        BY <1>3, <1>4, <3>2 DEF Land
      <4>4. /\ <<d, p>> \notin cpuSlots'
            /\ pageSlots' = pageSlots /\ bitmaps' = bitmaps /\ task[d][p].at = "ocr"
        BY <2>4 DEF ImageWords
      <4> HIDE DEF after
      <4> QED
        BY <2>1, <4>1, <4>2, <4>3, <4>4
    <3> QED
      BY <2>4, <3>1, <3>2 DEF ImageWords
  <2>5. CASE Cleanup(d, p)
    BY <1>2, <1>3, <1>4, <2>1, <2>2, <2>5 DEF Cleanup
  <2>6. CASE ReturnSlot(d, p)
    BY <1>2, <1>3, <1>4, <2>1, <2>2, <2>6 DEF ReturnSlot
  <2> QED
    BY <2>3, <2>4, <2>5, <2>6 DEF TaskStep
<1>6. \A x : x # p => /\ (<<d, x>> \in cpuSlots') = (<<d, x>> \in cpuSlots)
                     /\ (<<d, x>> \in pageSlots') = (<<d, x>> \in pageSlots)
                     /\ (<<d, x>> \in bitmaps') = (<<d, x>> \in bitmaps)
  BY DEF TaskStep, AcquireOcr, ImageWords, Cleanup, ReturnSlot
<1>7. /\ reader[d].at \notin Quiet
      /\ ~(reader[d].at \in Ahead /\ reader[d].page <= p)
      /\ ~(reader[d].at = "join" /\ reader[d].page < p)
      /\ shape[d].kind = "digital" => reader[d].at = "join" /\ reader[d].page = p
  BY <1>1, <1>2 DEF PageInv
<1>8. HandlerInv(d)'
  BY <1>1, <1>2, <1>6, <1>7 DEF HandlerInv, Quiet
<1>9. ASSUME NEW q \in Of(d)
      PROVE  PageInv(d, q)'
  <2>1. PageInv(d, q) /\ PageInv(d, p)
    BY <1>1, <1>9
  <2>2. CASE q = p
    <3>1. ~(Ours(d) /\ reader[d].page = p)
      BY <1>4, <1>7 DEF Ours, Ahead
    <3>2. shape[d].kind = "scan" => texts'[d][p] = IF after.got THEN p ELSE 0
      BY <1>5, <2>1 DEF PageInv
    <3> QED
      BY <1>2, <1>4, <1>5, <1>7, <2>2, <3>1, <3>2 DEF PageInv, Ours
  <2>3. CASE q # p
    BY <1>2, <1>5, <1>6, <1>9, <2>1, <2>3 DEF PageInv, Ours
  <2> QED
    BY <2>2, <2>3
<1> QED
  BY <1>2, <1>5, <1>8, <1>9 DEF DocInv
-----------------------------------------------------------------------------
(* The theorems.                                                           *)

LEMMA PagesInitInv == PagesInit => PagesInv
<1> SUFFICES ASSUME PagesInit PROVE PagesInv
  OBVIOUS
<1>1. ASSUME NEW d \in Sheets
      PROVE  shape[d].kind \in {"scan", "digital", "image"} /\ shape[d].pages \in Nat
  BY <1>1, PagesAssumption DEF PagesInit, PagesAssumption
<1>2. Tables
  BY <1>1 DEF PagesInit, Tables
<1>3. IsFiniteSet({}) /\ Cardinality({}) = 0 /\ CpuSlots \in Nat
  BY FS_EmptySet, PagesAssumption DEF PagesAssumption
<1>4. Kept({}) /\ Keyed({})
  BY <1>3 DEF Kept, Keyed
<1>5. ASSUME NEW d \in Sheets
      PROVE  DocInv(d)
  <2>1. /\ reader[d] = [at |-> "idle", page |-> 1] /\ task[d] = [p \in Of(d) |-> NoTask]
        /\ texts[d] = [p \in Of(d) |-> 0] /\ outcome[d].text = <<>>
        /\ instances = {} /\ pageSlots = {} /\ cpuSlots = {} /\ bitmaps = {}
    BY <1>5 DEF PagesInit
  <2>2. HandlerInv(d)
    BY <2>1 DEF HandlerInv, Stations
  <2>3. \A p \in Of(d) : PageInv(d, p)
    BY <2>1 DEF PageInv, NoTask, Task, Ours
  <2> QED
    BY <2>1, <2>2, <2>3 DEF DocInv
<1> QED
  BY <1>2, <1>4, <1>5 DEF PagesInv, PagesInit

LEMMA PagesNextInv == PagesInv /\ [PagesNext]_pagesVars => PagesInv'
<1> SUFFICES ASSUME PagesInv, [PagesNext]_pagesVars PROVE PagesInv'
  OBVIOUS
<1>1. ASSUME NEW d \in Sheets, PageStep(d) \/ CancelHandler(d)
      PROVE  PagesInv'
  <2>1. ASSUME NEW e \in Sheets, e # d
        PROVE  DocInv(e)'
    BY <1>1, <2>1, Elsewhere, SameKeeps
  <2>2. DocInv(d)'
    BY <1>1, CancelKeeps, EndEarlyKeeps, OpenKeeps, NextKeeps, GiveUpKeeps, PageSlotKeeps,
       RasterKeeps, RenderKeeps, RenderFailsKeeps, JoinKeeps, AssembleKeeps, DeliverKeeps,
       ImageKeeps, BytesKeeps, TaskKeeps DEF PageStep, HandlerStep
  <2> QED
    BY <1>1, <2>1, <2>2, TablesKeep, SlotsKeep DEF PagesInv
<1>2. CASE UNCHANGED pagesVars
  <2>1. ASSUME NEW e \in Sheets
        PROVE  DocInv(e)'
    <3>1. Same(e) /\ UNCHANGED fixed
      BY <1>2 DEF pagesVars, fixed, Same
    <3> QED
      BY <2>1, <3>1, SameKeeps
  <2>2. Tables' /\ Kept(cpuSlots)' /\ Kept(pageSlots)' /\ Keyed(pageSlots)' /\ Keyed(bitmaps)'
    BY <1>2 DEF pagesVars, fixed, PagesInv, Tables, Kept, Keyed, Of
  <2> QED
    BY <2>1, <2>2 DEF PagesInv
<1> QED
  BY <1>1, <1>2 DEF PagesNext

\* Who holds what, and how far each page is, in every reachable state.
THEOREM PagesInductive == PagesSpec => []PagesInv
BY PagesInitInv, PagesNextInv, PTL DEF PagesSpec

LEMMA PagesAreSound == PagesInv => PagesSound
<1> SUFFICES ASSUME PagesInv PROVE PagesSound
  OBVIOUS
<1>1. ASSUME NEW h \in bitmaps
      PROVE  h \in pageSlots /\ h[1] \in instances
  <2>0. PICK d \in Sheets : \E p \in Of(d) : h = <<d, p>>
    BY <1>1 DEF PagesInv, Keyed
  <2>1. PICK p \in Of(d) : h = <<d, p>>
    BY <2>0
  <2>2. PageInv(d, p) /\ HandlerInv(d)
    BY DEF PagesInv, DocInv
  <2>3. task[d][p].at \in {"queue", "ocr", "clean"}
    BY <1>1, <2>1, <2>2 DEF PageInv
  <2>4. reader[d].at \notin {"idle", "bytes", "ended"}
    BY <2>2, <2>3 DEF PageInv, Quiet
  <2> QED
    BY <2>1, <2>2, <2>3, <2>4 DEF PageInv, HandlerInv
<1>2. ASSUME NEW h \in pageSlots \union cpuSlots
      PROVE  ~At(h[1], "ended")
  <2>0. PICK d \in Sheets : \E p \in {0} \union Of(d) : h = <<d, p>>
    BY <1>2 DEF PagesInv, Kept
  <2>1. PICK p \in {0} \union Of(d) : h = <<d, p>>
    BY <2>0
  <2>2. HandlerInv(d) /\ (p \in Of(d) => PageInv(d, p))
    BY DEF PagesInv, DocInv
  <2>3. CASE p \in Of(d)
    BY <1>2, <2>1, <2>2, <2>3 DEF PageInv, Quiet, Ours, At
  <2>4. CASE p \notin Of(d)
    <3>1. h \notin pageSlots
      BY <2>1, <2>4 DEF PagesInv, Keyed
    <3> QED
      BY <1>2, <2>1, <2>2, <2>4, <3>1 DEF HandlerInv, At
  <2> QED
    BY <2>3, <2>4
<1>3. ASSUME NEW d \in Sheets, shape[d].kind = "scan", outcome[d].text \notin {<<>>, Layer}
      PROVE  outcome[d].text = InOrder(d)
  BY <1>3 DEF PagesInv, DocInv, HandlerInv
<1> QED
  BY <1>1, <1>2, <1>3 DEF PagesSound, InOrder, PagesInv, Kept

\* However many documents, pages, slots and instances there are: each bitmap has a
\* slot and an open document, whoever ends holds nothing, and the text of a scan is
\* that of the pages read, in page order (pdfium.go, PageSlot; limits.go, Acquire;
\* document_worker.go, ocrPages).
THEOREM PagesAlwaysSound == PagesSpec => []PagesSound
BY PagesInductive, PagesAreSound, PTL

LEMMA SlotHeld ==
  ASSUME NEW slots, Kept(slots), ~Room(slots)
  PROVE  \E d \in Sheets : \E p \in {0} \union Of(d) : <<d, p>> \in slots
<1>1. slots # {}
  BY FS_EmptySet, PagesAssumption DEF Room, PagesAssumption
<1> QED
  BY <1>1 DEF Kept

LEMMA SomePageMoves == PagesInv => PagesMove
<1> SUFFICES ASSUME PagesInv, NEW d \in Sheets, ~At(d, "ended"),
                    \A e \in Sheets : ~HandlerMoves(e) /\ \A p \in Of(e) : ~TaskMoves(e, p)
             PROVE  FALSE
  BY DEF PagesMove
<1>1. ASSUME NEW e \in Sheets
      PROVE  HandlerInv(e) /\ \A p \in Of(e) : PageInv(e, p)
  BY <1>1 DEF PagesInv, DocInv
\* Nobody waits for the CPU: whoever has it has a step.
<1>2. Room(cpuSlots)
  <2> SUFFICES ASSUME ~Room(cpuSlots) PROVE FALSE
    OBVIOUS
  <2>0. PICK e \in Sheets : \E p \in {0} \union Of(e) : <<e, p>> \in cpuSlots
    BY SlotHeld DEF PagesInv
  <2>1. PICK p \in {0} \union Of(e) : <<e, p>> \in cpuSlots
    BY <2>0
  <2>2. CASE p \in Of(e)
    BY <1>1, <2>1, <2>2 DEF PageInv, TaskMoves
  <2>3. CASE p \notin Of(e)
    BY <1>1, <2>1, <2>3 DEF HandlerInv, HandlerMoves
  <2> QED
    BY <2>2, <2>3
<1>3. ASSUME NEW e \in Sheets
      PROVE  /\ reader[e].at \in {"slot", "ended"}
             /\ \A p \in Of(e) : task[e][p].at \in {"none", "done"}
  <2>1. \A p \in Of(e) : task[e][p].at \in {"none", "done"}
    <3> SUFFICES ASSUME NEW p \in Of(e) PROVE task[e][p].at \in {"none", "done"}
      OBVIOUS
    <3>1. task[e][p] \in Task /\ ~TaskMoves(e, p)
      BY <1>1 DEF PageInv
    <3> QED
      BY <1>2, <3>1 DEF Task, TaskMoves
  <2>2. HandlerInv(e) /\ ~HandlerMoves(e)
    BY <1>1
  <2>3. reader[e].at # "wait"
    BY <2>1, <2>2 DEF HandlerMoves, At
  <2>4. reader[e].at # "join"
    <3> SUFFICES ASSUME reader[e].at = "join" PROVE FALSE
      OBVIOUS
    <3>1. reader[e].page \in Of(e)
      BY <2>2 DEF HandlerInv
    <3>2. task[e][reader[e].page].at # "none"
      BY <1>1, <3>1 DEF PageInv
    <3> QED
      BY <2>1, <2>2, <3>1, <3>2 DEF HandlerMoves, At
  <2> QED
    BY <1>2, <2>1, <2>2, <2>3, <2>4 DEF HandlerInv, Stations, HandlerMoves, At
\* Nor for a page slot: whoever has one waits for the CPU at most.
<1>4. ~Room(pageSlots)
  BY <1>3 DEF HandlerMoves, At
<1>5. PICK e \in Sheets : \E p \in Of(e) : <<e, p>> \in pageSlots
  <2>1. PICK h : h \in pageSlots
    BY <1>4, SlotHeld DEF PagesInv
  <2> QED
    BY <2>1 DEF PagesInv, Keyed
<1>6. PICK p \in Of(e) : <<e, p>> \in pageSlots
  BY <1>5
<1> QED
  BY <1>1, <1>3, <1>6 DEF PageInv, Ours

\* The handlers never deadlock on the two semaphores, whatever the numbers of
\* documents, pages and slots: until every handler has returned one of them, or a
\* task of theirs, is not waiting or waits for a slot that is free (pdfium.go,
\* PageSlot; limits.go, Acquire; document_worker.go, ocrPages; layout.go).
THEOREM PagesAlwaysMove == PagesSpec => []PagesMove
BY PagesInductive, SomePageMoves, PTL

-----------------------------------------------------------------------------
(* Counting characters.                                                    *)

LEMMA RunesAre ==
  ASSUME NEW t, NEW a \in Nat, NEW b \in Nat
  PROVE  /\ IsFiniteSet({i \in (a + 1)..b : t[i] # "c"})
         /\ Runes(t, a, b) \in Nat
         /\ a <= b => Runes(t, a, b) <= b - a
         /\ b <= a => Runes(t, a, b) = 0
<1> DEFINE S == {i \in (a + 1)..b : t[i] # "c"}
<1>1. IsFiniteSet((a + 1)..b) /\ Cardinality((a + 1)..b) = IF a + 1 > b THEN 0 ELSE b - (a + 1) + 1
  BY FS_Interval
<1>2. S \in SUBSET ((a + 1)..b)
  OBVIOUS
<1>3. IsFiniteSet(S) /\ Cardinality(S) <= Cardinality((a + 1)..b)
  BY <1>1, <1>2, FS_Subset
<1>4. Cardinality(S) \in Nat
  BY <1>3, FS_CardinalityType
<1>5. Runes(t, a, b) = Cardinality(S)
  BY DEF Runes
<1> QED
  BY <1>1, <1>3, <1>4, <1>5

LEMMA NoRunes == ASSUME NEW t, NEW a \in Nat PROVE Runes(t, a, a) = 0
<1>1. {i \in (a + 1)..a : t[i] # "c"} = {}
  OBVIOUS
<1> QED
  BY <1>1, FS_EmptySet DEF Runes

LEMMA RunesWithin ==
  ASSUME NEW t, NEW a \in Nat, NEW b \in Nat, NEW c \in Nat, NEW d \in Nat, a <= c, d <= b
  PROVE  Runes(t, c, d) <= Runes(t, a, b)
<1>1. {i \in (c + 1)..d : t[i] # "c"} \in SUBSET {i \in (a + 1)..b : t[i] # "c"}
  OBVIOUS
<1> QED
  BY <1>1, RunesAre, FS_Subset DEF Runes

LEMMA RunesAdd ==
  ASSUME NEW t, NEW a \in Nat, NEW b \in Nat, NEW c \in Nat, a <= b, b <= c
  PROVE  Runes(t, a, c) = Runes(t, a, b) + Runes(t, b, c)
<1> DEFINE S == {i \in (a + 1)..b : t[i] # "c"}
           T == {i \in (b + 1)..c : t[i] # "c"}
           U == {i \in (a + 1)..c : t[i] # "c"}
<1>1. U = S \union T /\ S \intersect T = {}
  OBVIOUS
<1>2. IsFiniteSet(S) /\ IsFiniteSet(T) /\ Cardinality(S) \in Nat /\ Cardinality(T) \in Nat
  BY RunesAre, FS_CardinalityType
<1> HIDE DEF S, T, U
<1>3. Cardinality(S \union T) = Cardinality(S) + Cardinality(T) - Cardinality(S \intersect T)
  BY <1>2, FS_Union
<1>4. Cardinality(S \intersect T) = 0
  BY <1>1, FS_EmptySet, Zenon
<1>5. Cardinality(U) = Cardinality(S) + Cardinality(T)
  BY <1>1, <1>2, <1>3, <1>4
<1> QED
  BY <1>5 DEF Runes, S, T, U

\* From one boundary to the next there is one character.
LEMMA OneRune ==
  ASSUME NEW t, IsText(t), NEW i \in Boundaries(t), NEW j \in Boundaries(t), i < j,
         \A k \in Boundaries(t) : ~(i < k /\ k < j)
  PROVE  Runes(t, i, j) = 1
<1>1. i \in Nat /\ j \in Nat /\ j <= Len(t) /\ Len(t) \in Nat
  BY LenProperties DEF Boundaries, IsText
<1>2. t[i + 1] # "c"
  BY <1>1 DEF Boundaries, Starts
<1>3. ASSUME NEW k \in (i + 1)..j, t[k] # "c"
      PROVE  k = i + 1
  <2> SUFFICES ASSUME k # i + 1 PROVE FALSE
    OBVIOUS
  <2>1. k - 1 \in 0..Len(t) /\ i < k - 1 /\ k - 1 < j /\ (k - 1) + 1 = k
    BY <1>1
  <2>2. k - 1 \in Boundaries(t)
    BY <1>3, <2>1 DEF Boundaries, Starts
  <2> QED
    BY <2>1, <2>2
<1>4. {k \in (i + 1)..j : t[k] # "c"} = {i + 1}
  BY <1>1, <1>2, <1>3
<1>5. Cardinality({i + 1}) = 1
  BY FS_Singleton
<1> QED
  BY <1>4, <1>5 DEF Runes

\* A character has at most four bytes.
LEMMA FourBytes ==
  ASSUME NEW t, IsText(t), NEW a \in Boundaries(t), NEW b \in Nat, a <= b, b <= Len(t)
  PROVE  b - a <= 4 * Runes(t, a, b)
<1> DEFINE heads == {i \in (a + 1)..b : t[i] # "c"}
           back(i) == CHOOSE k \in 0..3 : i - k \in heads
           f == [i \in (a + 1)..b |-> <<i - back(i), back(i)>>]
<1>1. a \in Nat /\ Len(t) \in Nat /\ DOMAIN t = 1..Len(t)
  BY LenProperties DEF Boundaries, IsText
<1>2. ASSUME NEW i \in (a + 1)..b
      PROVE  \E k \in 0..3 : i - k \in heads
  <2>1. i \in DOMAIN t /\ i - 0 = i
    BY <1>1
  <2>2. CASE t[i] # "c"
    BY <2>1, <2>2
  <2>3. CASE t[i] = "c"
    <3>1. PICK k \in 1..3 : /\ i - k \in DOMAIN t /\ t[i - k] = "m"
                            /\ \A j \in (i - k + 1)..i : t[j] = "c"
      BY <2>1, <2>3 DEF IsText
    <3>2. a < Len(t) /\ t[a + 1] # "c"
      BY <1>1 DEF Boundaries, Starts
    <3>3. a + 1 <= i - k
      BY <1>1, <3>1, <3>2
    <3> QED
      BY <1>1, <3>1, <3>3
  <2> QED
    BY <2>2, <2>3
<1>3. \A i \in (a + 1)..b : back(i) \in 0..3 /\ i - back(i) \in heads
  BY <1>2
<1> HIDE DEF back
<1>4. f \in [(a + 1)..b -> heads \X (0..3)]
  BY <1>3
<1>5. \A i, j \in (a + 1)..b : f[i] = f[j] => i = j
  <2> SUFFICES ASSUME NEW i \in (a + 1)..b, NEW j \in (a + 1)..b, f[i] = f[j] PROVE i = j
    OBVIOUS
  <2>1. i - back(i) = j - back(j) /\ back(i) = back(j)
    OBVIOUS
  <2>2. back(i) \in 0..3 /\ back(j) \in 0..3
    BY <1>3
  <2> HIDE DEF f
  <2> QED
    BY <1>1, <2>1, <2>2
<1>6. IsFiniteSet(heads) /\ Cardinality(heads) \in Nat
  BY <1>1, RunesAre, FS_CardinalityType
<1>7. IsFiniteSet(0..3) /\ Cardinality(0..3) = 4
  <2>1. 0 \in Int /\ 3 \in Int
    OBVIOUS
  <2>2. IsFiniteSet(0..3) /\ Cardinality(0..3) = IF 0 > 3 THEN 0 ELSE 3 - 0 + 1
    BY <2>1, FS_Interval
  <2> QED
    BY <2>2
<1>8. IsFiniteSet(heads \X (0..3)) /\ Cardinality(heads \X (0..3)) = Cardinality(heads) * 4
  BY <1>6, <1>7, FS_Product
<1>9. f \in Injection((a + 1)..b, heads \X (0..3))
  BY <1>4, <1>5 DEF Injection, IsInjective
<1>10. Cardinality((a + 1)..b) <= Cardinality(heads) * 4
  <2> DEFINE T == heads \X (0..3)
  <2> HIDE DEF f, heads
  <2>1. Cardinality((a + 1)..b) <= Cardinality(T)
    <3> HIDE DEF T
    <3>1. IsFiniteSet(T) /\ f \in Injection((a + 1)..b, T)
      BY <1>8, <1>9 DEF T
    <3> QED
      BY <3>1, FS_Injection
  <2> QED
    BY <1>8, <2>1
<1>11. Cardinality((a + 1)..b) = b - a
  <2>1. Cardinality((a + 1)..b) = IF a + 1 > b THEN 0 ELSE b - (a + 1) + 1
    BY <1>1, FS_Interval
  <2> QED
    BY <1>1, <2>1
<1>12. Runes(t, a, b) = Cardinality(heads)
  BY DEF Runes
<1> HIDE DEF heads
<1> QED
  BY <1>1, <1>6, <1>10, <1>11, <1>12
-----------------------------------------------------------------------------
(* Where a window ends and the next begins.                                *)

LEMMA BoundariesAre ==
  ASSUME NEW t, IsText(t)
  PROVE  /\ Boundaries(t) \in SUBSET Nat /\ Len(t) \in Nat /\ DOMAIN t = 1..Len(t)
         /\ \A i \in Boundaries(t) : i <= Len(t)
BY LenProperties DEF Boundaries, IsText

LEMMA NextBoundary ==
  ASSUME NEW t, IsText(t), NEW i \in Boundaries(t), NEW last \in Boundaries(t), i < last
  PROVE  \E j \in Boundaries(t) : i < j /\ j <= last /\ Runes(t, i, j) = 1
<1> DEFINE S == {k \in Boundaries(t) : i < k}
<1>1. S \in SUBSET Nat /\ S # {}
  BY BoundariesAre
<1>2. PICK j \in S : \A k \in S : j <= k
  BY <1>1, LeastElement
<1>3. \A k \in Boundaries(t) : ~(i < k /\ k < j)
  BY <1>1, <1>2, BoundariesAre
<1>4. Runes(t, i, j) = 1
  BY <1>2, <1>3, OneRune
<1> QED
  BY <1>2, <1>4

LEMMA LastBoundary ==
  ASSUME NEW t, IsText(t), NEW i \in Boundaries(t), NEW first \in Boundaries(t), first < i
  PROVE  \E j \in Boundaries(t) : first <= j /\ j < i /\ Runes(t, j, i) = 1
<1> DEFINE S == {k \in Boundaries(t) : k < i}
<1>1. S \in SUBSET Nat /\ S # {} /\ i \in Nat /\ \A k \in S : k <= i
  BY BoundariesAre
<1>2. PICK j \in S : \A k \in S : k <= j
  BY <1>1, Greatest
<1>3. \A k \in Boundaries(t) : ~(j < k /\ k < i)
  BY <1>1, <1>2, BoundariesAre
<1>4. Runes(t, j, i) = 1
  BY <1>2, <1>3, OneRune
<1> QED
  BY <1>2, <1>4

LEMMA AdvanceIs ==
  ASSUME NEW t, IsText(t), NEW start \in Boundaries(t), NEW last \in Boundaries(t),
         start <= last, NEW n \in Nat
  PROVE  LET i == Advance(t, start, n, last)
         IN /\ i \in Boundaries(t) /\ start <= i /\ i <= last
            /\ Runes(t, start, i) <= n /\ (i = last \/ Runes(t, start, i) = n)
<1> DEFINE S == {i \in Boundaries(t) : start <= i /\ i <= last /\ Runes(t, start, i) <= n}
<1>1. start \in S /\ S \in SUBSET Nat /\ last \in Nat /\ \A i \in S : i <= last
  <2>1. Boundaries(t) \in SUBSET Nat /\ start \in Nat
    BY BoundariesAre
  <2>2. Runes(t, start, start) = 0
    BY <2>1, NoRunes
  <2> QED
    BY <2>1, <2>2
<1>2. PICK i \in S : \A j \in S : j <= i
  BY <1>1, Greatest
<1>3. i = last \/ Runes(t, start, i) = n
  <2> SUFFICES ASSUME i # last, Runes(t, start, i) # n PROVE FALSE
    OBVIOUS
  <2>1. start \in Nat /\ i \in Nat /\ i < last
    BY <1>1, <1>2
  <2>2. PICK j \in Boundaries(t) : i < j /\ j <= last /\ Runes(t, i, j) = 1
    BY <1>2, <2>1, NextBoundary
  <2>3. Runes(t, start, j) = Runes(t, start, i) + 1
    BY <1>2, <2>1, <2>2, RunesAdd, BoundariesAre
  <2>4. Runes(t, start, i) \in Nat /\ j \in Nat
    BY <2>1, RunesAre, BoundariesAre
  <2>5. j \in S
    BY <1>2, <2>1, <2>2, <2>3, <2>4
  <2> QED
    BY <1>2, <2>1, <2>2, <2>4, <2>5
<1>4. \E k \in Boundaries(t) :
         /\ start <= k /\ k <= last
         /\ Runes(t, start, k) <= n /\ (k = last \/ Runes(t, start, k) = n)
  BY <1>2, <1>3
<1> QED
  BY <1>4 DEF Advance

LEMMA RetreatIs ==
  ASSUME NEW t, IsText(t), NEW end \in Boundaries(t), NEW first \in Boundaries(t),
         first <= end, NEW n \in Nat
  PROVE  LET i == Retreat(t, end, n, first)
         IN /\ i \in Boundaries(t) /\ first <= i /\ i <= end
            /\ Runes(t, i, end) <= n /\ (i = first \/ Runes(t, i, end) = n)
<1> DEFINE S == {i \in Boundaries(t) : first <= i /\ i <= end /\ Runes(t, i, end) <= n}
<1>1. end \in S /\ S \in SUBSET Nat /\ first \in Nat
  <2>1. Boundaries(t) \in SUBSET Nat /\ end \in Nat
    BY BoundariesAre
  <2>2. Runes(t, end, end) = 0
    BY <2>1, NoRunes
  <2> QED
    BY <2>1, <2>2
<1>2. PICK i \in S : \A j \in S : i <= j
  BY <1>1, LeastElement
<1>3. i = first \/ Runes(t, i, end) = n
  <2> SUFFICES ASSUME i # first, Runes(t, i, end) # n PROVE FALSE
    OBVIOUS
  <2>1. end \in Nat /\ i \in Nat /\ first < i
    BY <1>1, <1>2
  <2>2. PICK j \in Boundaries(t) : first <= j /\ j < i /\ Runes(t, j, i) = 1
    BY <1>2, <2>1, LastBoundary
  <2>3. Runes(t, j, end) = 1 + Runes(t, i, end)
    BY <1>2, <2>1, <2>2, RunesAdd, BoundariesAre
  <2>4. Runes(t, i, end) \in Nat /\ j \in Nat
    BY <2>1, RunesAre, BoundariesAre
  <2>5. j \in S
    BY <1>2, <2>1, <2>2, <2>3, <2>4
  <2> QED
    BY <1>2, <2>1, <2>2, <2>4, <2>5
<1>4. \E k \in Boundaries(t) :
         /\ first <= k /\ k <= end
         /\ Runes(t, k, end) <= n /\ (k = first \/ Runes(t, k, end) = n)
  BY <1>2, <1>3
<1> QED
  BY <1>4 DEF Retreat

LEMMA AlignIs ==
  ASSUME NEW t, IsText(t), NEW i \in Nat, NEW b \in Boundaries(t), i <= b
  PROVE  Align(t, i) \in Boundaries(t) /\ i <= Align(t, i) /\ Align(t, i) <= b
<1> DEFINE S == {j \in Boundaries(t) : j >= i}
<1>1. S \in SUBSET Nat /\ b \in S
  BY BoundariesAre
<1>2. PICK j \in S : \A k \in S : j <= k
  BY <1>1, LeastElement
<1>3. \E m \in Boundaries(t) : m >= i /\ \A k \in Boundaries(t) : k >= i => m <= k
  BY <1>2
<1> QED
  BY <1>3 DEF Align

LEMMA BoundaryIs ==
  ASSUME NEW t, IsText(t), NEW start \in Boundaries(t), NEW hard \in Boundaries(t), start < hard
  PROVE  /\ Boundary(t, start, hard) \in Boundaries(t) /\ Boundary(t, start, hard) <= hard
         /\ start + ((hard - start) * 6) \div 10 < Boundary(t, start, hard)
<1> DEFINE from == start + ((hard - start) * 6) \div 10
           after(kind) == {i \in (from + 1)..hard : t[i] = kind}
           paragraphs == {i \in after("n") : i > from + 1 /\ t[i - 1] = "n"}
           sentences == IF hard \in after(".") THEN {} ELSE after(".")
           found == IF paragraphs # {} THEN paragraphs
                    ELSE IF after("n") # {} THEN after("n")
                    ELSE IF sentences # {} THEN sentences
                    ELSE IF after("w") # {} THEN after("w") ELSE {hard}
           last == CHOOSE i \in found : \A j \in found : i >= j
<1>1. start \in Nat /\ hard \in Nat
  BY BoundariesAre
<1>2. from \in Nat /\ from + 1 <= hard
  BY <1>1
<1> HIDE DEF from
<1>3. /\ paragraphs \in SUBSET ((from + 1)..hard) /\ sentences \in SUBSET ((from + 1)..hard)
      /\ after("n") \in SUBSET ((from + 1)..hard) /\ after("w") \in SUBSET ((from + 1)..hard)
      /\ {hard} \in SUBSET ((from + 1)..hard)
  BY <1>1, <1>2
<1>4. Boundary(t, start, hard) = Align(t, last)
  BY DEF Boundary, from
<1> HIDE DEF after, paragraphs, sentences
<1>5. found \in SUBSET ((from + 1)..hard) /\ found # {}
  BY <1>3
<1> HIDE DEF found
<1>6. found \in SUBSET Nat /\ \A i \in found : i <= hard
  BY <1>1, <1>2, <1>5
<1>7. \E m \in found : \A j \in found : j <= m
  BY <1>1, <1>5, <1>6, Greatest
<1>8. \E m \in found : \A j \in found : m >= j
  BY <1>6, <1>7
<1>9. last \in found
  BY <1>8
<1> HIDE DEF last
<1>10. last \in Nat /\ last <= hard /\ from < last
  BY <1>1, <1>2, <1>5, <1>9
<1>11. Align(t, last) \in Boundaries(t) /\ last <= Align(t, last) /\ Align(t, last) <= hard
  BY <1>10, AlignIs
<1>12. from < Align(t, last)
  BY <1>2, <1>10, <1>11, BoundariesAre
<1> QED
  BY <1>4, <1>11, <1>12 DEF from
\* What is trimmed loses blanks only, and keeps whole characters.
LEMMA TrimmedIs ==
  ASSUME NEW t, IsText(t), NEW a \in Nat, NEW b \in Nat, a <= b, b <= Len(t)
  PROVE  LET solid == {i \in Solid(t) : a < i /\ i <= b}
             cut == Trimmed(t, a, b)
         IN /\ solid = {} => cut = [from |-> a, to |-> a]
            /\ solid # {} =>
                  /\ cut \in [from : Nat, to : Nat]
                  /\ a <= cut.from /\ cut.from < cut.to /\ cut.to <= b
                  /\ cut.from + 1 \in Solid(t) /\ cut.to \in Solid(t)
                  /\ \A i \in solid : cut.from < i /\ i <= cut.to
            /\ solid # {} /\ a \in Boundaries(t) /\ b \in Boundaries(t) =>
                  cut.from \in Boundaries(t) /\ cut.to \in Boundaries(t)
<1> DEFINE solid == {i \in Solid(t) : a < i /\ i <= b}
           cut == Trimmed(t, a, b)
           first == CHOOSE i \in solid : \A j \in solid : i <= j
           last == CHOOSE i \in solid : \A j \in solid : i >= j
<1>0. /\ Solid(t) \in SUBSET (1..Len(t)) /\ Len(t) \in Nat /\ DOMAIN t = 1..Len(t)
      /\ \A i \in 1..Len(t) : t[i] \in Blanks <=> i \notin Solid(t)
  BY BoundariesAre DEF Solid
<1>1. CASE solid = {}
  BY <1>1 DEF Trimmed
<1>2. CASE solid # {}
  <2>1. cut = [from |-> first - 1, to |-> last]
    BY <1>2 DEF Trimmed
  <2>2. solid \in SUBSET Nat /\ \A i \in solid : a < i /\ i <= b /\ i \in Solid(t) /\ i <= Len(t)
    BY <1>0
  <2>3. \E m \in solid : \A j \in solid : m <= j
    BY <1>2, <2>2, LeastElement
  <2>4. \E m \in solid : \A j \in solid : j <= m
    BY <1>2, <2>2, Greatest
  <2>5. \E m \in solid : \A j \in solid : m >= j
    BY <2>2, <2>4
  <2>6. first \in solid /\ \A j \in solid : first <= j
    BY <2>3
  <2>7. last \in solid /\ \A j \in solid : last >= j
    BY <2>5
  <2> HIDE DEF first, last
  <2>8. first \in Nat /\ last \in Nat /\ first <= last /\ a < first /\ last <= b /\ first >= 1
    BY <2>2, <2>6, <2>7
  <2>9. /\ cut \in [from : Nat, to : Nat] /\ cut.from = first - 1 /\ cut.to = last
        /\ cut.from + 1 = first
    BY <2>1, <2>8
  <2>10. /\ a <= cut.from /\ cut.from < cut.to /\ cut.to <= b
         /\ cut.from + 1 \in Solid(t) /\ cut.to \in Solid(t)
    BY <2>2, <2>6, <2>7, <2>8, <2>9
  <2>11. \A i \in solid : cut.from < i /\ i <= cut.to
    BY <2>2, <2>6, <2>7, <2>8, <2>9
  <2>12. ASSUME a \in Boundaries(t), b \in Boundaries(t)
         PROVE  cut.from \in Boundaries(t) /\ cut.to \in Boundaries(t)
    <3>1. t[first] # "c"
      <4> SUFFICES ASSUME t[first] = "c" PROVE FALSE
        OBVIOUS
      <4>1. first # a + 1
        BY <2>2, <2>6, <2>8, <2>12 DEF Boundaries, Starts
      <4>2. PICK k \in 1..3 : /\ first - k \in DOMAIN t /\ t[first - k] = "m"
                              /\ \A j \in (first - k + 1)..first : t[j] = "c"
        BY <1>0, <2>2, <2>6, <2>8 DEF IsText
      <4>3. first - 1 \in 1..Len(t) /\ t[first - 1] \in {"m", "c"}
        BY <1>0, <2>2, <2>6, <2>8, <4>2
      <4>4. first - 1 \in solid
        BY <1>0, <2>2, <2>6, <2>8, <4>1, <4>3 DEF Blanks
      <4> QED
        BY <2>6, <2>8, <4>4
    <3>2. last < b => t[last + 1] \in Blanks
      <4> SUFFICES ASSUME last < b PROVE last + 1 \notin Solid(t)
        BY <1>0, <2>2, <2>7, <2>8
      <4>1. last + 1 \notin solid
        BY <2>7, <2>8
      <4> QED
        BY <2>8, <4>1
    <3>3. last \in Boundaries(t)
      BY <1>0, <2>2, <2>7, <2>8, <2>12, <3>2 DEF Boundaries, Starts, Blanks
    <3>4. first - 1 \in Boundaries(t)
      BY <1>0, <2>2, <2>6, <2>8, <3>1 DEF Boundaries, Starts
    <3> QED
      BY <2>9, <3>3, <3>4
  <2> QED
    BY <1>2, <2>9, <2>10, <2>11, <2>12
<1> QED
  BY <1>1, <1>2

\* What is split, and a place in it where a window starts.
IsRange(t, text) ==
    /\ IsText(t) /\ text \in [from : Nat, to : Nat]
    /\ text.from \in Boundaries(t) /\ text.to \in Boundaries(t) /\ text.from < text.to
Windows(t, text) == {i \in Boundaries(t) : text.from <= i /\ i < text.to}

\* A window has no more than the target, and the next starts inside it, or where it
\* ends.
LEMMA WindowIs ==
  ASSUME NEW t, NEW text, IsRange(t, text), NEW start \in Windows(t, text)
  PROVE  LET end == EndOf(t, text, start)
             next == NextOf(t, text, start)
         IN /\ end \in Boundaries(t) /\ start < end /\ end <= text.to
            /\ Runes(t, start, end) <= Target
            /\ next \in Boundaries(t) /\ start < next /\ next <= end
            /\ next = end \/ Runes(t, next, end) <= Overlap
<1> DEFINE hard == Advance(t, start, Target, text.to)
           end == EndOf(t, text, start)
           next == NextOf(t, text, start)
           back == Retreat(t, end, Overlap, text.from)
<1>0. /\ Target \in Nat \ {0} /\ Overlap \in Nat \ {0} /\ IsText(t)
      /\ Boundaries(t) \in SUBSET Nat /\ start \in Boundaries(t) /\ start < text.to
      /\ text.from \in Boundaries(t) /\ text.to \in Boundaries(t) /\ text.from <= start
  BY EmbeddingAssumption, BoundariesAre DEF EmbeddingAssumption, IsRange, Windows
<1>1. /\ hard \in Boundaries(t) /\ start <= hard /\ hard <= text.to
      /\ Runes(t, start, hard) <= Target /\ (hard = text.to \/ Runes(t, start, hard) = Target)
  <2>1. start <= text.to /\ Target \in Nat
    BY <1>0
  <2> QED
    BY <1>0, <2>1, AdvanceIs
<1>2. end = IF hard < text.to THEN Boundary(t, start, hard) ELSE hard
  BY DEF EndOf
<1>3. next = IF back <= start THEN end ELSE back
  BY DEF NextOf
<1> HIDE DEF hard, end, next
<1>4. start < hard
  <2>1. start # hard
    BY <1>0, <1>1, NoRunes
  <2> QED
    BY <1>0, <1>1, <2>1
<1>5. end \in Boundaries(t) /\ start < end /\ end <= hard
  <2>1. CASE hard < text.to
    <3>1. /\ end \in Boundaries(t) /\ end <= hard
          /\ start + ((hard - start) * 6) \div 10 < end
      BY <1>0, <1>1, <1>2, <1>4, <2>1, BoundaryIs
    <3>2. start \in Nat /\ hard \in Nat /\ end \in Nat
      BY <1>0, <1>1, <3>1
    <3>3. ((hard - start) * 6) \div 10 >= 0
      BY <1>4, <3>2
    <3> DEFINE part == ((hard - start) * 6) \div 10
    <3>4. part \in Int
      BY <3>2
    <3> HIDE DEF part
    <3> QED
      BY <3>1, <3>2, <3>3, <3>4 DEF part
  <2>2. CASE ~(hard < text.to)
    BY <1>0, <1>1, <1>2, <1>4, <2>2
  <2> QED
    BY <2>1, <2>2
<1>6. end <= text.to /\ Runes(t, start, end) <= Target
  <2>1. Runes(t, start, end) <= Runes(t, start, hard)
    BY <1>0, <1>1, <1>5, RunesWithin
  <2>2. Runes(t, start, end) \in Nat /\ Runes(t, start, hard) \in Nat
    BY <1>0, <1>1, <1>5, RunesAre
  <2> QED
    BY <1>0, <1>1, <1>5, <2>1, <2>2
<1>7. /\ back \in Boundaries(t) /\ text.from <= back /\ back <= end
      /\ Runes(t, back, end) <= Overlap
  <2>1. text.from <= end
    BY <1>0, <1>5
  <2> QED
    BY <1>0, <1>5, <2>1, RetreatIs
<1> HIDE DEF back
<1>8. next \in Boundaries(t) /\ start < next /\ next <= end /\ (next = end \/ Runes(t, next, end) <= Overlap)
  BY <1>0, <1>3, <1>5, <1>7
<1> QED
  BY <1>5, <1>6, <1>8 DEF end, next

\* Windows end further and further on: the last two fifths, where a window may end, are
\* beyond what it shares with the one before.
LEMMA EndsFurther ==
  ASSUME NEW t, NEW text, IsRange(t, text), NEW start \in Windows(t, text),
         EndOf(t, text, start) < text.to
  PROVE  /\ NextOf(t, text, start) \in Windows(t, text)
         /\ EndOf(t, text, start) < EndOf(t, text, NextOf(t, text, start))
<1> DEFINE end == EndOf(t, text, start)
           next == NextOf(t, text, start)
           hard == Advance(t, next, Target, text.to)
           then == EndOf(t, text, next)
<1>0. /\ Target \in Nat \ {0} /\ Overlap \in Nat \ {0} /\ 4 * Overlap <= Target /\ IsText(t)
      /\ Boundaries(t) \in SUBSET Nat /\ start \in Boundaries(t) /\ text.from <= start
      /\ text.from \in Boundaries(t) /\ text.to \in Boundaries(t) /\ Len(t) \in Nat
      /\ \A i \in Boundaries(t) : i <= Len(t)
  BY EmbeddingAssumption, BoundariesAre DEF EmbeddingAssumption, IsRange, Windows
<1>1. /\ end \in Boundaries(t) /\ start < end /\ end < text.to
      /\ next \in Boundaries(t) /\ start < next /\ next <= end
      /\ next = end \/ Runes(t, next, end) <= Overlap
  BY WindowIs
<1>2. then = IF hard < text.to THEN Boundary(t, next, hard) ELSE hard
  BY DEF EndOf
<1> HIDE DEF end, next, then
<1>3. next \in Windows(t, text) /\ next <= text.to
  BY <1>0, <1>1 DEF Windows
<1>4. /\ hard \in Boundaries(t) /\ next <= hard /\ hard <= text.to
      /\ Runes(t, next, hard) <= Target /\ (hard = text.to \/ Runes(t, next, hard) = Target)
  BY <1>0, <1>1, <1>3, AdvanceIs
<1> HIDE DEF hard
<1>5. end < then
  <2>1. CASE hard = text.to
    BY <1>0, <1>1, <1>2, <1>4, <2>1
  <2>2. CASE hard # text.to
    <3>1. hard < text.to /\ Runes(t, next, hard) = Target
      BY <1>0, <1>4, <2>2
    <3>2. next < hard
      <4>1. next # hard
        BY <1>0, <1>1, <3>1, NoRunes
      <4> QED
        BY <1>0, <1>1, <1>4, <4>1
    <3>3. /\ then \in Boundaries(t) /\ next + ((hard - next) * 6) \div 10 < then
      BY <1>0, <1>1, <1>2, <1>4, <3>1, <3>2, BoundaryIs
    <3>4. /\ next \in Nat /\ end \in Nat /\ hard \in Nat /\ then \in Nat
          /\ Runes(t, next, end) \in Nat /\ Runes(t, end, hard) \in Nat
      BY <1>0, <1>1, <1>4, <3>3, RunesAre
    <3>5. CASE next = end
      <4> DEFINE part == ((hard - next) * 6) \div 10
      <4>1. part \in Int /\ part >= 0
        BY <3>2, <3>4
      <4> HIDE DEF part
      <4> QED
        BY <3>3, <3>4, <3>5, <4>1 DEF part
    <3>6. CASE next # end
      <4>1. Runes(t, next, end) <= Overlap
        BY <1>1, <3>6
      <4>2. end <= hard
        <5> SUFFICES ASSUME hard < end PROVE FALSE
          BY <3>4
        <5>1. Runes(t, next, hard) <= Runes(t, next, end)
          BY <3>4, RunesWithin
        <5> QED
          BY <1>0, <3>1, <3>4, <4>1, <5>1
      <4>3. Runes(t, next, hard) = Runes(t, next, end) + Runes(t, end, hard)
        BY <1>1, <3>4, <4>2, RunesAdd
      <4>4. end - next <= 4 * Runes(t, next, end)
        BY <1>0, <1>1, <3>4, FourBytes
      <4>5. Runes(t, end, hard) <= hard - end
        BY <3>4, <4>2, RunesAre
      <4> DEFINE m == Runes(t, next, end)
                 k == Runes(t, end, hard)
                 shared == end - next
                 more == hard - end
      <4>6. /\ m \in Nat /\ k \in Nat /\ shared \in Nat /\ more \in Nat
            /\ Target = m + k /\ m <= Overlap /\ shared <= 4 * m /\ k <= more
            /\ hard - next = shared + more
        BY <1>1, <3>1, <3>4, <4>1, <4>2, <4>3, <4>4, <4>5
      <4> HIDE DEF m, k, shared, more
      <4>7. (shared + more) * 6 >= 10 * shared
        BY <1>0, <4>6
      <4>8. ((shared + more) * 6) \div 10 >= shared
        BY <4>6, <4>7
      <4>9. next + ((shared + more) * 6) \div 10 < then
        BY <3>3, <4>6
      <4>10. end = next + shared
        BY <3>4 DEF shared
      <4> QED
        BY <3>4, <4>6, <4>8, <4>9, <4>10
    <3> QED
      BY <3>5, <3>6
  <2> QED
    BY <2>1, <2>2
<1> QED
  BY <1>3, <1>5 DEF end, next, then
-----------------------------------------------------------------------------
(* Window after window.                                                    *)

\* A recursion that only looks at larger numbers has a solution.
IsChain(D, bound, X, p, L, n) ==
    /\ D \in SUBSET Nat /\ bound \in Nat /\ \A s \in D : s <= bound
    /\ p \in [D -> Seq(X)] /\ L \in SUBSET D /\ n \in [D -> Nat]
    /\ \A s \in D \ L : n[s] \in D /\ s < n[s]
Chains(D, X, p, L, n) ==
    {f \in [D -> Seq(X)] : \A s \in D : f[s] = p[s] \o (IF s \in L THEN <<>> ELSE f[n[s]])}
LEMMA ChainExists ==
  ASSUME NEW D, NEW bound, NEW X, NEW p, NEW L, NEW n, IsChain(D, bound, X, p, L, n)
  PROVE  Chains(D, X, p, L, n) # {}
<1> DEFINE From(m) == {s \in D : m <= s}
           Solves(f, m) == \A s \in From(m) : f[s] = p[s] \o (IF s \in L THEN <<>> ELSE f[n[s]])
           Good == {m \in Nat : \E f \in [From(m) -> Seq(X)] : Solves(f, m)}
<1>0. /\ D \in SUBSET Nat /\ bound \in Nat /\ \A s \in D : s <= bound
      /\ p \in [D -> Seq(X)] /\ L \in SUBSET D /\ n \in [D -> Nat]
      /\ \A s \in D \ L : n[s] \in D /\ s < n[s]
  BY DEF IsChain
<1>1. bound + 1 \in Good
  <2>1. From(bound + 1) = {}
    <3>1. \A s \in D : s \in Nat /\ s <= bound
      BY <1>0
    <3>2. \A s \in Nat : s <= bound => ~(bound + 1 <= s)
      BY <1>0
    <3> QED
      BY <1>0, <3>1, <3>2
  <2> DEFINE f == [s \in From(bound + 1) |-> p[s]]
  <2>2. f \in [From(bound + 1) -> Seq(X)]
    BY <1>0
  <2>3. Solves(f, bound + 1)
    BY <1>0, <2>1
  <2>4. bound + 1 \in Nat
    BY <1>0
  <2> HIDE DEF f, From, Solves
  <2> QED
    BY <1>0, <2>2, <2>3, <2>4
<1>2. PICK m \in Good : \A k \in Good : m <= k
  BY <1>0, <1>1, LeastElement
<1>3. PICK f \in [From(m) -> Seq(X)] : Solves(f, m)
  BY <1>0
<1>4. m = 0
  <2> SUFFICES ASSUME m # 0 PROVE FALSE
    BY <1>0
  <2> DEFINE k == m - 1
             g == [s \in From(k) |->
                     IF s = k THEN p[s] \o (IF s \in L THEN <<>> ELSE f[n[s]]) ELSE f[s]]
  <2>1. k \in Nat /\ k < m /\ m \in Nat
    BY <1>0
  <2>2. \A s \in From(k) : s # k => s \in From(m)
    BY <1>0, <2>1
  <2>3. \A s \in From(k) \ L : n[s] \in From(m) /\ n[s] \in From(k) /\ n[s] # k
    BY <1>0, <2>1, SMTT(30)
  <2>4. \A s \in From(k) : p[s] \in Seq(X) /\ (s \in From(m) => f[s] \in Seq(X))
    BY <1>0
  <2> HIDE DEF k
  <2>5. ASSUME NEW s \in From(k)
        PROVE  /\ g[s] \in Seq(X)
               /\ g[s] = p[s] \o (IF s \in L THEN <<>> ELSE g[n[s]])
    <3>1. s \notin L => n[s] \in From(k) /\ n[s] \in From(m) /\ g[n[s]] = f[n[s]] /\ f[n[s]] \in Seq(X)
      BY <1>0, <2>3, <2>4
    <3>2. CASE s = k
      <4>1. g[s] = p[s] \o (IF s \in L THEN <<>> ELSE f[n[s]])
        BY <1>0, <3>2
      <4>2. p[s] \in Seq(X) /\ <<>> \in Seq(X)
        BY <1>0, <2>4
      <4> HIDE DEF g, From
      <4>3. CASE s \in L
        BY <1>0, <4>1, <4>2, <4>3
      <4>4. CASE s \notin L
        <5>1. g[s] = p[s] \o f[n[s]] /\ g[n[s]] = f[n[s]] /\ f[n[s]] \in Seq(X)
          BY <1>0, <3>1, <4>1, <4>4
        <5>2. p[s] \o f[n[s]] \in Seq(X)
          BY <1>0, <4>2, <5>1
        <5> QED
          BY <1>0, <4>4, <5>1, <5>2
      <4> QED
        BY <1>0, <4>3, <4>4
    <3>3. CASE s # k
      <4>1. s \in From(m) /\ g[s] = f[s] /\ f[s] \in Seq(X)
        BY <1>0, <2>2, <2>4, <3>3
      <4>2. f[s] = p[s] \o (IF s \in L THEN <<>> ELSE f[n[s]])
        BY <1>0, <1>3, <4>1
      <4> HIDE DEF g, From, Solves
      <4> QED
        BY <1>0, <3>1, <4>1, <4>2
    <3> QED
      BY <1>0, <3>2, <3>3
  <2>6. g \in [From(k) -> Seq(X)]
    BY <1>0, <2>5
  <2>7. Solves(g, k)
    BY <1>0, <2>5
  <2> HIDE DEF g, From, Solves
  <2>8. k \in Good
    BY <1>0, <2>1, <2>6, <2>7
  <2> QED
    BY <1>0, <1>2, <2>1, <2>8
<1>5. From(m) = D
  BY <1>0, <1>4
<1>6. f \in Chains(D, X, p, L, n)
  BY <1>0, <1>3, <1>5 DEF Chains
<1> QED
  BY <1>6

\* What a window leaves, without the blanks around it.
IsPiece(t, p) ==
    /\ {p.from, p.to} \subseteq Boundaries(t)
    /\ Runes(t, p.from, p.to) \in 1..Target
    /\ {p.from + 1, p.to} \subseteq Solid(t)
Follows(t, p, q) ==
    /\ p.from <= q.from /\ p.to <= q.to
    /\ q.from >= p.to \/ Runes(t, q.from, p.to) <= Overlap
Ranges == [from : Nat, to : Nat]

LEMMA PieceIs ==
  ASSUME NEW t, IsText(t), NEW a \in Boundaries(t), NEW b \in Boundaries(t), a < b,
         Runes(t, a, b) <= Target
  PROVE  LET solid == {i \in Solid(t) : a < i /\ i <= b}
             p == Trimmed(t, a, b)
         IN /\ solid = {} => Piece(t, a, b) = <<>>
            /\ solid # {} =>
                  /\ Piece(t, a, b) = <<p>> /\ p \in Ranges /\ IsPiece(t, p)
                  /\ a <= p.from /\ p.from < p.to /\ p.to <= b
                  /\ \A i \in solid : p.from < i /\ i <= p.to
<1> DEFINE solid == {i \in Solid(t) : a < i /\ i <= b}
           p == Trimmed(t, a, b)
<1>1. a \in Nat /\ b \in Nat /\ b <= Len(t) /\ Target \in Nat \ {0} /\ a <= b
  BY BoundariesAre, EmbeddingAssumption DEF EmbeddingAssumption
<1>2. /\ solid = {} => p = [from |-> a, to |-> a]
      /\ solid # {} =>
            /\ p \in Ranges
            /\ a <= p.from /\ p.from < p.to /\ p.to <= b
            /\ p.from + 1 \in Solid(t) /\ p.to \in Solid(t)
            /\ \A i \in solid : p.from < i /\ i <= p.to
      /\ solid # {} => p.from \in Boundaries(t) /\ p.to \in Boundaries(t)
  BY <1>1, TrimmedIs DEF Ranges
<1>3. Piece(t, a, b) = IF p.to = a THEN <<>> ELSE <<p>>
  BY DEF Piece
<1> HIDE DEF p, solid
<1>4. CASE solid = {}
  BY <1>2, <1>3, <1>4 DEF p, solid
<1>5. CASE solid # {}
  <2>1. p.from \in Nat /\ p.to \in Nat /\ p.to <= Len(t) /\ p.from <= p.to
    BY <1>1, <1>2, <1>5, BoundariesAre DEF Ranges
  <2>2. Piece(t, a, b) = <<p>>
    BY <1>1, <1>2, <1>3, <1>5, <2>1
  <2>3. p.to - p.from <= 4 * Runes(t, p.from, p.to)
    BY <1>2, <1>5, <2>1, FourBytes
  <2>4. Runes(t, p.from, p.to) <= Runes(t, a, b)
    BY <1>1, <1>2, <1>5, <2>1, RunesWithin
  <2>5. Runes(t, p.from, p.to) \in Nat /\ Runes(t, a, b) \in Nat
    BY <1>1, <2>1, RunesAre
  <2>6. Runes(t, p.from, p.to) \in 1..Target
    BY <1>1, <1>2, <1>5, <2>1, <2>3, <2>4, <2>5, SMTT(30)
  <2>7. IsPiece(t, p)
    BY <1>2, <1>5, <2>6 DEF IsPiece
  <2> QED
    BY <1>2, <1>5, <2>2, <2>7 DEF p, solid
<1> QED
  BY <1>4, <1>5

\* What a window and those after it come to.
CutsFrom(t, text, start) ==
    {c \in Seq(Ranges) :
        /\ \A i \in DOMAIN c : IsPiece(t, c[i]) /\ start <= c[i].from
        /\ \A i \in 2..Len(c) : Follows(t, c[i - 1], c[i])
        /\ \A k \in Solid(t) : start < k /\ k <= text.to =>
              \E i \in DOMAIN c : c[i].from < k /\ k <= c[i].to
        /\ \A k \in Solid(t) : start < k /\ k <= EndOf(t, text, start) =>
              c # <<>> /\ k <= c[1].to}

\* A sequence with one more before it.
LEMMA OneBefore ==
  ASSUME NEW X, NEW p \in X, NEW c \in Seq(X)
  PROVE  /\ <<p>> \o c \in Seq(X) /\ Len(<<p>> \o c) = Len(c) + 1 /\ Len(c) \in Nat
         /\ DOMAIN (<<p>> \o c) = 1..(Len(c) + 1) /\ DOMAIN c = 1..Len(c)
         /\ (<<p>> \o c)[1] = p
         /\ \A i \in 1..Len(c) : (<<p>> \o c)[i + 1] = c[i]
         /\ \A i \in 2..(Len(c) + 1) : (<<p>> \o c)[i] = c[i - 1]
<1>1. <<p>> \in Seq(X) /\ Len(<<p>>) = 1 /\ <<p>>[1] = p
  OBVIOUS
<1>2. Len(c) \in Nat /\ DOMAIN c = 1..Len(c)
  BY LenProperties
<1> QED
  BY <1>1, <1>2

\* What Split does, window by window, has the property that it should have.
LEMMA RestIs ==
  ASSUME NEW t, NEW text, IsRange(t, text)
  PROVE  \E f \in [Windows(t, text) -> Seq(Ranges)] :
            \A s \in Windows(t, text) :
               f[s] = Piece(t, s, EndOf(t, text, s)) \o
                      (IF EndOf(t, text, s) >= text.to THEN <<>> ELSE f[NextOf(t, text, s)])
<1> DEFINE D == Windows(t, text)
           p == [s \in D |-> Piece(t, s, EndOf(t, text, s))]
           L == {s \in D : EndOf(t, text, s) >= text.to}
           n == [s \in D |-> NextOf(t, text, s)]
<1>1. D \in SUBSET Nat /\ text.to \in Nat /\ \A s \in D : s <= text.to
  BY BoundariesAre DEF Windows, IsRange
<1>2. \A s \in D : Piece(t, s, EndOf(t, text, s)) \in Seq(Ranges)
  <2> SUFFICES ASSUME NEW s \in D PROVE Piece(t, s, EndOf(t, text, s)) \in Seq(Ranges)
    OBVIOUS
  <2>1. /\ s \in Boundaries(t) /\ EndOf(t, text, s) \in Boundaries(t) /\ s < EndOf(t, text, s)
        /\ Runes(t, s, EndOf(t, text, s)) <= Target
    BY WindowIs DEF Windows
  <2>2. IsText(t)
    BY DEF IsRange
  <2>3. \/ Piece(t, s, EndOf(t, text, s)) = <<>>
        \/ \E q \in Ranges : Piece(t, s, EndOf(t, text, s)) = <<q>>
    BY <2>1, <2>2, PieceIs
  <2>4. <<>> \in Seq(Ranges) /\ \A q \in Ranges : <<q>> \in Seq(Ranges)
    OBVIOUS
  <2> QED
    BY <2>3, <2>4, Zenon
<1>3. p \in [D -> Seq(Ranges)]
  BY <1>2
<1>4. \A s \in D : NextOf(t, text, s) \in Nat /\ EndOf(t, text, s) \in Nat
  BY WindowIs, BoundariesAre DEF IsRange
<1>5. n \in [D -> Nat]
  BY <1>4
<1>6. \A s \in D \ L : n[s] \in D /\ s < n[s]
  <2> SUFFICES ASSUME NEW s \in D \ L PROVE n[s] \in D /\ s < n[s]
    OBVIOUS
  <2>1. EndOf(t, text, s) < text.to
    BY <1>1, <1>4
  <2>2. NextOf(t, text, s) \in D
    BY <2>1, EndsFurther
  <2>3. s < NextOf(t, text, s)
    BY WindowIs
  <2> QED
    BY <2>2, <2>3
<1>7. L \in SUBSET D
  OBVIOUS
<1> DEFINE Solves(f) == \A s \in D : f[s] = p[s] \o (IF s \in L THEN <<>> ELSE f[n[s]])
<1>8. \E f \in [D -> Seq(Ranges)] : Solves(f)
  <2> DEFINE bound == text.to
  <2>1. bound \in Nat /\ \A s \in D : s <= bound
    BY <1>1
  <2> HIDE DEF D, p, L, n, bound
  <2>2. IsChain(D, bound, Ranges, p, L, n)
    BY <1>1, <1>3, <1>5, <1>6, <1>7, <2>1 DEF IsChain
  <2>3. Chains(D, Ranges, p, L, n) # {}
    BY <2>2, ChainExists, Zenon
  <2> QED
    BY <2>3 DEF Chains
<1>9. ASSUME NEW f \in [D -> Seq(Ranges)], Solves(f), NEW s \in D
      PROVE  f[s] = Piece(t, s, EndOf(t, text, s)) \o
                    (IF EndOf(t, text, s) >= text.to THEN <<>> ELSE f[NextOf(t, text, s)])
  BY <1>9
<1> HIDE DEF p, L, n
<1> QED
  BY <1>8, <1>9

LEMMA RestCuts ==
  ASSUME NEW t, NEW text, IsRange(t, text), NEW f,
         \A s \in Windows(t, text) :
            f[s] = Piece(t, s, EndOf(t, text, s)) \o
                   (IF EndOf(t, text, s) >= text.to THEN <<>> ELSE f[NextOf(t, text, s)]),
         NEW start \in Windows(t, text)
  PROVE  f[start] \in CutsFrom(t, text, start)
<1> DEFINE Bad == {s \in Windows(t, text) : f[s] \notin CutsFrom(t, text, s)}
<1>1. /\ Windows(t, text) \in SUBSET Nat /\ text.to \in Nat
      /\ \A s \in Windows(t, text) : s <= text.to
      /\ IsText(t) /\ Boundaries(t) \in SUBSET Nat /\ Windows(t, text) \in SUBSET Boundaries(t)
  BY BoundariesAre DEF Windows, IsRange
<1> SUFFICES ASSUME start \in Bad PROVE FALSE
  OBVIOUS
<1>2. PICK s \in Bad : \A other \in Bad : other <= s
  BY <1>1, Greatest
<1> DEFINE end == EndOf(t, text, s)
           next == NextOf(t, text, s)
           p == Trimmed(t, s, end)
           solid == {i \in Solid(t) : s < i /\ i <= end}
           before == Piece(t, s, end)
           after == IF end >= text.to THEN <<>> ELSE f[next]
           c == f[s]
<1>3. /\ s \in Boundaries(t) /\ s \in Nat /\ end \in Boundaries(t) /\ end \in Nat
      /\ s < end /\ end <= text.to /\ Runes(t, s, end) <= Target
      /\ next \in Boundaries(t) /\ next \in Nat /\ s < next /\ next <= end
      /\ next = end \/ Runes(t, next, end) <= Overlap
  BY <1>1, WindowIs
<1>4. c = before \o after
  OBVIOUS
<1>5. /\ solid = {} => before = <<>>
      /\ solid # {} =>
            /\ before = <<p>> /\ p \in Ranges /\ IsPiece(t, p)
            /\ s <= p.from /\ p.from < p.to /\ p.to <= end
            /\ \A i \in solid : p.from < i /\ i <= p.to
  BY <1>1, <1>3, PieceIs
<1>6. ASSUME end < text.to
      PROVE  /\ next \in Windows(t, text) /\ f[next] \in CutsFrom(t, text, next)
             /\ end < EndOf(t, text, next) /\ EndOf(t, text, next) \in Nat
  <2>1. next \in Windows(t, text) /\ end < EndOf(t, text, next)
    BY <1>6, EndsFurther
  <2>2. EndOf(t, text, next) \in Nat
    BY <1>1, <2>1, WindowIs
  <2>3. next \notin Bad
    BY <1>2, <1>3
  <2> QED
    BY <2>1, <2>2, <2>3
<1>7. Solid(t) \in SUBSET Nat
  BY <1>1, BoundariesAre DEF Solid
<1> DEFINE later == EndOf(t, text, next)
\* What the rest promises.
<1>8. /\ after \in Seq(Ranges)
      /\ \A i \in DOMAIN after : IsPiece(t, after[i]) /\ next <= after[i].from
      /\ \A i \in 2..Len(after) : Follows(t, after[i - 1], after[i])
      /\ \A k \in Solid(t) : end < k /\ k <= text.to =>
            \E i \in DOMAIN after : after[i].from < k /\ k <= after[i].to
      /\ \A k \in Solid(t) : next < k /\ k <= end /\ after # <<>> => k <= after[1].to
      /\ after = <<>> => \A k \in Solid(t) : end < k => ~(k <= text.to)
  <2>1. CASE end < text.to
    <3>1. after = f[next]
      BY <1>1, <1>3, <2>1
    <3>2. /\ f[next] \in Seq(Ranges)
          /\ \A i \in DOMAIN f[next] : IsPiece(t, f[next][i]) /\ next <= f[next][i].from
          /\ \A i \in 2..Len(f[next]) : Follows(t, f[next][i - 1], f[next][i])
          /\ \A k \in Solid(t) : next < k /\ k <= text.to =>
                \E i \in DOMAIN f[next] : f[next][i].from < k /\ k <= f[next][i].to
          /\ \A k \in Solid(t) : next < k /\ k <= later => f[next] # <<>> /\ k <= f[next][1].to
      BY <1>6, <2>1 DEF CutsFrom
    <3>3. end < later /\ later \in Nat
      BY <1>6, <2>1
    <3> HIDE DEF after, later, end, next
    <3>4. \A k \in Solid(t) : next < k /\ k <= end => k <= after[1].to
      BY <1>3, <1>7, <3>1, <3>2, <3>3
    <3>5. \A k \in Solid(t) : end < k /\ k <= text.to =>
             \E i \in DOMAIN after : after[i].from < k /\ k <= after[i].to
      BY <1>3, <1>7, <3>1, <3>2
    <3>6. after = <<>> => DOMAIN after = {}
      OBVIOUS
    <3>7. after = <<>> => \A k \in Solid(t) : end < k => ~(k <= text.to)
      BY <3>5, <3>6
    <3> QED
      BY <3>1, <3>2, <3>4, <3>5, <3>7
  <2>2. CASE ~(end < text.to)
    <3>1. after = <<>>
      BY <1>1, <1>3, <2>2
    <3>2. \A k \in Solid(t) : ~(end < k /\ k <= text.to)
      BY <1>1, <1>3, <1>7, <2>2
    <3>3. DOMAIN (<<>>) = {} /\ <<>> \in Seq(Ranges) /\ 2..Len(<<>>) = {}
      OBVIOUS
    <3> HIDE DEF after, end, next
    <3> QED
      BY <3>1, <3>2, <3>3
  <2> QED
    BY <2>1, <2>2
<1> HIDE DEF end, next, p, before, after, c
<1>9. CASE solid = {}
  <2>1. c = after
    BY <1>4, <1>5, <1>8, <1>9
  <2>2. \A k \in Solid(t) : ~(s < k /\ k <= end)
    BY <1>9
  <2>3. \A k \in Solid(t) : s < k /\ k <= text.to => end < k
    BY <1>3, <1>7, <2>2
  <2>4. \A i \in DOMAIN after : IsPiece(t, after[i]) /\ s <= after[i].from
    <3>1. \A i \in DOMAIN after : after[i].from \in Nat
      <4>1. \A i \in DOMAIN after : after[i] \in Ranges
        BY <1>8
      <4> QED
        BY <4>1 DEF Ranges
    <3> QED
      BY <1>3, <1>8, <3>1
  <2>5. c \in CutsFrom(t, text, s)
    BY <1>8, <2>1, <2>2, <2>3, <2>4 DEF CutsFrom, end
  <2> QED
    BY <1>2, <2>5 DEF c
<1>10. CASE solid # {}
  <2>1. c = <<p>> \o after /\ p \in Ranges
    BY <1>4, <1>5, <1>10
  <2>2. /\ c \in Seq(Ranges) /\ Len(c) = Len(after) + 1 /\ Len(after) \in Nat
        /\ DOMAIN c = 1..(Len(after) + 1) /\ DOMAIN after = 1..Len(after)
        /\ c[1] = p
        /\ \A i \in 1..Len(after) : c[i + 1] = after[i]
        /\ \A i \in 2..(Len(after) + 1) : c[i] = after[i - 1]
    BY <1>8, <2>1, OneBefore
  <2>3. \A i \in DOMAIN after : after[i].from \in Nat /\ after[i].to \in Nat
    <3>1. \A i \in DOMAIN after : after[i] \in Ranges
      BY <1>8
    <3> QED
      BY <3>1 DEF Ranges
  <2>4. /\ p.from \in Nat /\ p.to \in Nat /\ IsPiece(t, p)
        /\ s <= p.from /\ p.from < p.to /\ p.to <= end
        /\ \A i \in Solid(t) : s < i /\ i <= end => p.from < i /\ i <= p.to
    BY <1>5, <1>10 DEF Ranges
  <2>5. \A i \in DOMAIN c : IsPiece(t, c[i]) /\ s <= c[i].from
    <3> SUFFICES ASSUME NEW i \in DOMAIN c PROVE IsPiece(t, c[i]) /\ s <= c[i].from
      OBVIOUS
    <3>1. CASE i = 1
      BY <2>2, <2>4, <3>1
    <3>2. CASE i # 1
      <4>1. i \in 2..(Len(after) + 1) /\ i - 1 \in 1..Len(after)
        <5> DEFINE n == Len(after)
        <5>1. n \in Nat /\ i \in 1..(n + 1)
          BY <2>2
        <5> HIDE DEF n
        <5>2. i \in 2..(n + 1) /\ i - 1 \in 1..n
          BY <3>2, <5>1
        <5> QED
          BY <5>2 DEF n
      <4>2. i - 1 \in DOMAIN after /\ c[i] = after[i - 1]
        BY <2>2, <4>1
      <4>3. IsPiece(t, after[i - 1]) /\ next <= after[i - 1].from
        BY <1>8, <4>2
      <4> QED
        BY <1>3, <2>3, <4>2, <4>3
    <3> QED
      BY <3>1, <3>2
  <2>6. ASSUME 1 \in DOMAIN after
        PROVE  Follows(t, p, after[1])
    <3> DEFINE q == after[1]
    <3>1. /\ IsPiece(t, q) /\ next <= q.from /\ q.from \in Nat /\ q.to \in Nat
          /\ q.from + 1 \in Solid(t) /\ q.from \in Boundaries(t) /\ q.to \in Boundaries(t)
      BY <1>8, <2>3, <2>6 DEF IsPiece
    <3>2. q.from < q.to
      <4> SUFFICES ASSUME q.to <= q.from PROVE FALSE
        BY <3>1
      <4>1. Runes(t, q.from, q.to) = 0
        BY <3>1, RunesAre
      <4>2. Runes(t, q.from, q.to) \in 1..Target
        BY <3>1 DEF IsPiece
      <4> QED
        BY <4>1, <4>2
    <3>3. p.to \in Solid(t) /\ after # <<>>
      BY <2>4, <2>6 DEF IsPiece
    <3>4. next < p.to => p.to <= q.to
      BY <1>8, <2>4, <3>3
    <3> HIDE DEF q
    <3>5. p.to <= q.to
      BY <1>3, <2>4, <3>1, <3>2, <3>4
    <3>6. p.from <= q.from
      <4>1. CASE q.from + 1 <= end
        <5>1. p.from < q.from + 1
          BY <1>3, <2>4, <3>1, <4>1
        <5> QED
          BY <2>4, <3>1, <5>1
      <4>2. CASE ~(q.from + 1 <= end)
        BY <1>3, <2>4, <3>1, <4>2
      <4> QED
        BY <4>1, <4>2
    <3>7. q.from >= p.to \/ Runes(t, q.from, p.to) <= Overlap
      <4> SUFFICES ASSUME q.from < p.to PROVE Runes(t, q.from, p.to) <= Overlap
        BY <2>4, <3>1
      <4>1. next # end
        BY <1>3, <2>4, <3>1
      <4>2. Runes(t, q.from, p.to) <= Runes(t, next, end)
        BY <1>3, <2>4, <3>1, RunesWithin
      <4>3. Runes(t, q.from, p.to) \in Nat /\ Runes(t, next, end) \in Nat /\ Overlap \in Nat
        BY <1>3, <2>4, <3>1, RunesAre, EmbeddingAssumption DEF EmbeddingAssumption
      <4> QED
        BY <1>3, <4>1, <4>2, <4>3
    <3> QED
      BY <3>5, <3>6, <3>7 DEF Follows, q
  <2>7. \A i \in 2..Len(c) : Follows(t, c[i - 1], c[i])
    <3> SUFFICES ASSUME NEW i \in 2..Len(c) PROVE Follows(t, c[i - 1], c[i])
      OBVIOUS
    <3>1. CASE i = 2
      <4>1. 1 \in DOMAIN after /\ c[i - 1] = p /\ c[i] = after[1]
        BY <2>2, <3>1
      <4> QED
        BY <2>6, <4>1
    <3>2. CASE i # 2
      <4> DEFINE n == Len(after)
                 j == i - 1
      <4>1. n \in Nat /\ i \in 2..(n + 1)
        BY <2>2
      <4> HIDE DEF n
      <4>2. j \in 2..n /\ i \in 2..(n + 1) /\ j \in 2..(n + 1)
        BY <3>2, <4>1
      <4> HIDE DEF j
      <4>3. c[i] = after[i - 1] /\ c[j] = after[j - 1]
        BY <2>2, <4>2 DEF n
      <4>4. Follows(t, after[j - 1], after[j])
        BY <1>8, <4>2 DEF n
      <4> QED
        BY <4>3, <4>4 DEF j
    <3> QED
      BY <3>1, <3>2
  <2>8. ASSUME NEW k \in Solid(t), s < k, k <= text.to
        PROVE  \E i \in DOMAIN c : c[i].from < k /\ k <= c[i].to
    <3>1. CASE k <= end
      <4>1. 1 \in DOMAIN c /\ c[1].from < k /\ k <= c[1].to
        BY <2>2, <2>4, <2>8, <3>1
      <4> QED
        BY <4>1
    <3>2. CASE ~(k <= end)
      <4>1. end < k
        BY <1>3, <1>7, <3>2
      <4>2. PICK i \in DOMAIN after : after[i].from < k /\ k <= after[i].to
        BY <1>8, <2>8, <4>1
      <4>3. i + 1 \in DOMAIN c /\ c[i + 1] = after[i]
        BY <2>2, <4>2
      <4> QED
        BY <4>2, <4>3
    <3> QED
      BY <3>1, <3>2
  <2>9. ASSUME NEW k \in Solid(t), s < k, k <= end
        PROVE  c # <<>> /\ k <= c[1].to
    <3>1. k <= p.to /\ c[1] = p /\ Len(c) # 0
      BY <2>2, <2>4, <2>9
    <3> QED
      BY <3>1
  <2>10. c \in CutsFrom(t, text, s)
    BY <2>2, <2>5, <2>7, <2>8, <2>9 DEF CutsFrom, end
  <2> QED
    BY <1>2, <2>10 DEF c
<1> QED
  BY <1>9, <1>10
\* The blanks around a text are no part of what is split.
LEMMA TextIs ==
  ASSUME NEW t, IsText(t)
  PROVE  LET text == Trimmed(t, 0, Len(t))
         IN /\ Solid(t) = {} => text.to = 0
            /\ Solid(t) # {} =>
                  /\ IsRange(t, text) /\ text.to # 0
                  /\ {text.from + 1, text.to} \subseteq Solid(t)
                  /\ \A k \in Solid(t) : text.from < k /\ k <= text.to
<1> DEFINE text == Trimmed(t, 0, Len(t))
<1>1. Len(t) \in Nat /\ DOMAIN t = 1..Len(t) /\ 0 \in Nat /\ 0 <= Len(t)
  BY BoundariesAre
<1>2. {i \in Solid(t) : 0 < i /\ i <= Len(t)} = Solid(t)
  BY <1>1 DEF Solid
<1>3. 0 \in Boundaries(t) /\ Len(t) \in Boundaries(t)
  <2>1. Len(t) \in Boundaries(t)
    BY <1>1 DEF Boundaries, Starts
  <2>2. CASE Len(t) = 0
    BY <2>1, <2>2
  <2>3. CASE Len(t) # 0
    <3>1. t[1] # "c"
      <4> SUFFICES ASSUME t[1] = "c" PROVE FALSE
        OBVIOUS
      <4>1. 1 \in DOMAIN t
        BY <1>1, <2>3
      <4>2. PICK k \in 1..3 : 1 - k \in DOMAIN t
        BY <4>1 DEF IsText
      <4> QED
        BY <1>1, <4>2
    <3>2. 0 + 1 = 1 /\ 0 \in 0..Len(t)
      BY <1>1
    <3> QED
      BY <2>1, <3>1, <3>2 DEF Boundaries, Starts
  <2> QED
    BY <2>2, <2>3
<1>4. /\ Solid(t) = {} => text = [from |-> 0, to |-> 0]
      /\ Solid(t) # {} =>
            /\ text \in [from : Nat, to : Nat]
            /\ 0 <= text.from /\ text.from < text.to
            /\ text.from + 1 \in Solid(t) /\ text.to \in Solid(t)
            /\ \A i \in Solid(t) : text.from < i /\ i <= text.to
      /\ Solid(t) # {} => text.from \in Boundaries(t) /\ text.to \in Boundaries(t)
  BY <1>1, <1>2, <1>3, TrimmedIs
<1> HIDE DEF text
<1>5. CASE Solid(t) = {}
  BY <1>4, <1>5 DEF text
<1>6. CASE Solid(t) # {}
  <2>1. text.from \in Nat /\ text.to \in Nat /\ text.to # 0
    BY <1>4, <1>6
  <2>2. IsRange(t, text)
    BY <1>4, <1>6, <2>1 DEF IsRange
  <2> QED
    BY <1>4, <1>6, <2>1, <2>2 DEF text
<1> QED
  BY <1>5, <1>6

\* Every text is split soundly.
IsCut(t, cut) ==
    /\ cut \in Seq(Ranges)
    /\ \A i \in DOMAIN cut : IsPiece(t, cut[i])
    /\ \A i \in 2..Len(cut) : Follows(t, cut[i - 1], cut[i])
    /\ \A k \in Solid(t) : \E i \in DOMAIN cut : cut[i].from < k /\ k <= cut[i].to

LEMMA SplitIs ==
  ASSUME NEW t, IsText(t)
  PROVE  IsCut(t, Split(t))
<1> DEFINE text == Trimmed(t, 0, Len(t))
           rest == CHOOSE rest :
                      rest = [start \in Windows(t, text) |->
                                Piece(t, start, EndOf(t, text, start)) \o
                                (IF EndOf(t, text, start) >= text.to THEN <<>>
                                 ELSE rest[NextOf(t, text, start)])]
<1>1. Split(t) = IF text.to = 0 THEN <<>>
                 ELSE IF Runes(t, text.from, text.to) <= Target THEN <<text>> ELSE rest[text.from]
  BY Zenon DEF Split, Windows
<1>2. /\ Solid(t) = {} => text.to = 0
      /\ Solid(t) # {} =>
            /\ IsRange(t, text) /\ text.to # 0
            /\ {text.from + 1, text.to} \subseteq Solid(t)
            /\ \A k \in Solid(t) : text.from < k /\ k <= text.to
  BY TextIs
<1>3. CASE Solid(t) = {}
  <2>1. Split(t) = <<>>
    BY <1>1, <1>2, <1>3
  <2>2. <<>> \in Seq(Ranges) /\ DOMAIN (<<>>) = {} /\ 2..Len(<<>>) = {}
    OBVIOUS
  <2> QED
    BY <1>3, <2>1, <2>2 DEF IsCut
<1>4. CASE Solid(t) # {}
  <2> HIDE DEF text
  <2>1. /\ IsRange(t, text) /\ text.to # 0 /\ text \in Ranges
        /\ text.from \in Nat /\ text.to \in Nat /\ text.from < text.to
        /\ text.from \in Boundaries(t) /\ text.to \in Boundaries(t)
    BY <1>2, <1>4 DEF IsRange, Ranges
  <2>2. CASE Runes(t, text.from, text.to) <= Target
    <3>1. Split(t) = <<text>>
      BY <1>1, <2>1, <2>2
    <3>2. /\ <<text>> \in Seq(Ranges) /\ DOMAIN (<<text>>) = {1} /\ 2..Len(<<text>>) = {}
          /\ <<text>>[1] = text
      BY <2>1
    <3>3. text.to - text.from <= 4 * Runes(t, text.from, text.to) /\ Runes(t, text.from, text.to) \in Nat
      <4>1. text.to <= Len(t) /\ text.from <= text.to
        BY <2>1, BoundariesAre
      <4> QED
        BY <2>1, <4>1, FourBytes, RunesAre
    <3>4. Runes(t, text.from, text.to) \in 1..Target
      BY <2>1, <2>2, <3>3, EmbeddingAssumption DEF EmbeddingAssumption
    <3>5. IsPiece(t, text)
      BY <1>2, <1>4, <2>1, <3>4 DEF IsPiece
    <3> QED
      BY <1>2, <1>4, <3>1, <3>2, <3>5 DEF IsCut
  <2>3. CASE ~(Runes(t, text.from, text.to) <= Target)
    <3>1. Split(t) = rest[text.from]
      BY <1>1, <2>1, <2>3
    <3>2. \E f : f = [start \in Windows(t, text) |->
                        Piece(t, start, EndOf(t, text, start)) \o
                        (IF EndOf(t, text, start) >= text.to THEN <<>>
                         ELSE f[NextOf(t, text, start)])]
      <4>1. PICK f \in [Windows(t, text) -> Seq(Ranges)] :
               \A s \in Windows(t, text) :
                  f[s] = Piece(t, s, EndOf(t, text, s)) \o
                         (IF EndOf(t, text, s) >= text.to THEN <<>> ELSE f[NextOf(t, text, s)])
        BY <2>1, RestIs
      <4>2. f = [start \in Windows(t, text) |-> f[start]]
        OBVIOUS
      <4>3. f = [start \in Windows(t, text) |->
                   Piece(t, start, EndOf(t, text, start)) \o
                   (IF EndOf(t, text, start) >= text.to THEN <<>>
                    ELSE f[NextOf(t, text, start)])]
        BY <4>1, <4>2, Zenon
      <4> QED
        BY <4>3, Zenon
    <3>3. rest = [start \in Windows(t, text) |->
                    Piece(t, start, EndOf(t, text, start)) \o
                    (IF EndOf(t, text, start) >= text.to THEN <<>>
                     ELSE rest[NextOf(t, text, start)])]
      BY <3>2, Zenon
    <3> HIDE DEF rest
    <3>4. \A s \in Windows(t, text) :
             rest[s] = Piece(t, s, EndOf(t, text, s)) \o
                       (IF EndOf(t, text, s) >= text.to THEN <<>> ELSE rest[NextOf(t, text, s)])
      BY <3>3, Zenon
    <3>5. text.from \in Windows(t, text)
      BY <2>1 DEF Windows
    <3>6. Split(t) \in CutsFrom(t, text, text.from)
      BY <2>1, <3>1, <3>4, <3>5, RestCuts
    <3> QED
      BY <1>2, <1>4, <3>6 DEF CutsFrom, IsCut
  <2> QED
    BY <2>2, <2>3
<1> QED
  BY <1>3, <1>4

\* Every UTF-8 text is split soundly, whatever the target and an overlap of at most a
\* quarter of it: the chunker ends, and its pieces cover the text, in order, each of
\* whole characters and within the target (chunker.go, Split).
THEOREM SplitAlwaysSound ==
  ASSUME NEW t, IsText(t)
  PROVE  SplitSound(t)
BY SplitIs, Zenon DEF IsCut, IsPiece, Follows, SplitSound

\* So is each of the sample texts (chunker.go, Split).
THEOREM SamplesSplitSoundly == SplitsSound
<1> SUFFICES ASSUME NEW t \in Samples PROVE SplitSound(t)
  BY DEF SplitsSound
<1>1. IsText(t)
  BY EmbeddingAssumption DEF EmbeddingAssumption
<1> QED
  BY <1>1, SplitAlwaysSound
-----------------------------------------------------------------------------
(* What is counted, and the batches.                                       *)

LEMMA ImageFinite ==
  ASSUME NEW S, IsFiniteSet(S), NEW f, f = [x \in S |-> f[x]]
  PROVE  IsFiniteSet({f[x] : x \in S})
<1> DEFINE T == {f[x] : x \in S}
<1>1. f \in [S -> T]
  OBVIOUS
<1>2. \A y \in T : \E x \in S : f[x] = y
  OBVIOUS
<1>3. f \in Surjection(S, T)
  BY <1>1, <1>2, Zenon DEF Surjection
<1> HIDE DEF T
<1>4. IsFiniteSet(T)
  BY <1>3, FS_Surjection
<1> QED
  BY <1>4 DEF T

LEMMA SeqFinite ==
  ASSUME NEW X, NEW c \in Seq(X)
  PROVE  /\ IsFiniteSet(DOMAIN c) /\ IsFiniteSet(ToSet(c)) /\ ToSet(c) \in SUBSET X
         /\ Len(c) \in Nat /\ DOMAIN c = 1..Len(c)
<1>1. Len(c) \in Nat /\ DOMAIN c = 1..Len(c) /\ c \in [1..Len(c) -> X]
  BY LenProperties
<1>2. IsFiniteSet(1..Len(c))
  BY <1>1, FS_Interval
<1>3. c = [x \in DOMAIN c |-> c[x]]
  BY <1>1
<1>4. IsFiniteSet({c[x] : x \in DOMAIN c})
  BY <1>1, <1>2, <1>3, ImageFinite
<1> QED
  BY <1>1, <1>2, <1>4 DEF ToSet

Texts == Seq(ByteKinds)

LEMMA CountIs ==
  ASSUME NEW batch \in Seq(Texts), NEW K, NEW J \in SUBSET K
  PROVE  Count(batch, K) \in Nat /\ Count(batch, J) \in Nat /\ Count(batch, J) <= Count(batch, K)
<1> DEFINE all == [i \in DOMAIN batch |-> {i} \X DOMAIN batch[i]]
           of(kinds) == UNION {{i} \X {k \in DOMAIN batch[i] : batch[i][k] \in kinds} : i \in DOMAIN batch}
           whole == {all[i] : i \in DOMAIN batch}
<1>1. IsFiniteSet(DOMAIN batch) /\ \A i \in DOMAIN batch : batch[i] \in Texts
  BY SeqFinite
<1>2. IsFiniteSet(whole)
  <2>1. all = [i \in DOMAIN batch |-> all[i]]
    OBVIOUS
  <2> HIDE DEF all
  <2> QED
    BY <1>1, <2>1, ImageFinite
<1>3. \A T \in whole : IsFiniteSet(T)
  <2> SUFFICES ASSUME NEW i \in DOMAIN batch PROVE IsFiniteSet({i} \X DOMAIN batch[i])
    OBVIOUS
  <2>1. IsFiniteSet({i}) /\ IsFiniteSet(DOMAIN batch[i])
    BY <1>1, SeqFinite, FS_Singleton DEF Texts
  <2> QED
    BY <2>1, FS_Product
<1>4. IsFiniteSet(UNION whole)
  <2> HIDE DEF whole
  <2> QED
    BY <1>2, <1>3, FS_UNION
<1>5. of(K) \in SUBSET (UNION whole)
  <2> SUFFICES ASSUME NEW i \in DOMAIN batch,
                      NEW x \in {i} \X {k \in DOMAIN batch[i] : batch[i][k] \in K}
               PROVE  \E T \in whole : x \in T
    OBVIOUS
  <2>1. x \in all[i] /\ all[i] \in whole
    OBVIOUS
  <2> QED
    BY <2>1, Zenon
<1>6. of(J) \in SUBSET of(K)
  <2> DEFINE at(i, kinds) == {i} \X {k \in DOMAIN batch[i] : batch[i][k] \in kinds}
  <2>1. \A i \in DOMAIN batch : at(i, J) \in SUBSET at(i, K)
    OBVIOUS
  <2>2. \A kinds : of(kinds) = UNION {at(i, kinds) : i \in DOMAIN batch}
    OBVIOUS
  <2> HIDE DEF at, of
  <2> QED
    BY <2>1, <2>2
<1>7. Count(batch, K) = Cardinality(of(K)) /\ Count(batch, J) = Cardinality(of(J))
  BY Zenon DEF Count
<1> HIDE DEF of, whole
<1>8. IsFiniteSet(of(K))
  BY <1>4, <1>5, FS_Subset
<1>9. IsFiniteSet(of(J)) /\ Cardinality(of(J)) <= Cardinality(of(K))
  BY <1>6, <1>8, FS_Subset
<1> QED
  BY <1>7, <1>8, <1>9, FS_CardinalityType

\* A batch is the beginning of what is to be sent; one of more than one piece is within
\* both limits.
LEMMA BatchIs ==
  ASSUME NEW todo \in Seq(Texts), todo # <<>>, NEW ratio
  PROVE  \E n \in 1..Len(todo) :
            /\ BatchOf(todo, ratio) = SubSeq(todo, 1, n)
            /\ BatchOf(todo, ratio) \in Seq(Texts) /\ Len(BatchOf(todo, ratio)) = n
            /\ \A i \in 1..n : BatchOf(todo, ratio)[i] = todo[i]
            /\ n > 1 => n <= MaxBatchChunks /\ ~Exceeds(BatchOf(todo, ratio), ratio)
<1> DEFINE fits(n) == n <= MaxBatchChunks /\ ~Exceeds(SubSeq(todo, 1, n), ratio)
           Fine == {n \in 1..Len(todo) : \A k \in 2..n : fits(k)}
           n == CHOOSE n \in 1..Len(todo) :
                   /\ \A k \in 2..n : fits(k)
                   /\ n = Len(todo) \/ ~fits(n + 1)
<1> HIDE DEF fits
<1>1. Len(todo) \in Nat /\ Len(todo) >= 1
  BY EmptySeq
<1>2. 1 \in Fine /\ Fine \in SUBSET Nat /\ \A m \in Fine : m <= Len(todo)
  BY <1>1
<1>3. PICK m \in Fine : \A k \in Fine : k <= m
  BY <1>1, <1>2, Greatest
<1>4. m = Len(todo) \/ ~fits(m + 1)
  <2> SUFFICES ASSUME m # Len(todo), fits(m + 1) PROVE FALSE
    OBVIOUS
  <2>1. m + 1 \in 1..Len(todo) /\ m \in Nat
    BY <1>1
  <2>2. \A k \in 2..(m + 1) : k \in 2..m \/ k = m + 1
    BY <2>1
  <2>3. m + 1 \in Fine
    BY <2>1, <2>2
  <2> HIDE DEF Fine
  <2> QED
    BY <1>3, <2>1, <2>3
<1>5. /\ n \in 1..Len(todo)
      /\ \A k \in 2..n : fits(k)
  <2>1. \E i \in 1..Len(todo) : /\ \A k \in 2..i : fits(k)
                                /\ i = Len(todo) \/ ~fits(i + 1)
    BY <1>4
  <2> QED
    BY <2>1, Zenon
<1>6. BatchOf(todo, ratio) = SubSeq(todo, 1, n)
  BY Zenon DEF BatchOf, fits
<1> HIDE DEF n
<1>7. /\ SubSeq(todo, 1, n) \in Seq(Texts) /\ Len(SubSeq(todo, 1, n)) = n
      /\ \A i \in 1..n : SubSeq(todo, 1, n)[i] = todo[i]
  <2>1. \A i \in 1..n : todo[i] \in Texts
    BY <1>1, <1>5, ElementOfSeq
  <2> QED
    BY <1>1, <1>5
<1>8. n > 1 => fits(n)
  BY <1>1, <1>5
<1> QED
  BY <1>5, <1>6, <1>7, <1>8 DEF fits

\* Characters to a token: no more than the fixed estimate.
Ratios == {r \in Nat \X (Nat \ {0}) : r[1] <= 4 * r[2]}

LEMMA ObservedIs ==
  ASSUME NEW ratio \in Ratios, NEW chars \in Nat, NEW tokens \in Nat
  PROVE  Observed(ratio, chars, tokens) \in Ratios
<1>1. <<1, 2>> \in Ratios /\ CharsPerToken \in Ratios
  BY DEF Ratios, CharsPerToken
<1>2. CASE tokens = 0
  BY <1>2 DEF Observed
<1>3. CASE tokens > 0 /\ chars * 2 < tokens
  BY <1>1, <1>3 DEF Observed
<1>4. CASE tokens > 0 /\ ~(chars * 2 < tokens) /\ chars > 4 * tokens
  BY <1>1, <1>4 DEF Observed
<1>5. CASE tokens > 0 /\ ~(chars * 2 < tokens) /\ ~(chars > 4 * tokens)
  <2>1. Observed(ratio, chars, tokens) = <<chars, tokens>>
    BY <1>5 DEF Observed
  <2>2. <<chars, tokens>> \in Ratios
    BY <1>5 DEF Ratios
  <2> QED
    BY <2>1, <2>2
<1> QED
  BY <1>2, <1>3, <1>4, <1>5

LEMMA Lighter ==
  ASSUME NEW c \in Nat, NEW m \in Nat, NEW a \in Nat, NEW b \in Nat \ {0}, a <= 4 * b, c * b <= m * a
  PROVE  c <= 4 * m
<1>1. m * a <= m * (4 * b)
  OBVIOUS
<1>2. m * (4 * b) = (4 * m) * b
  OBVIOUS
<1>3. c * b <= (4 * m) * b
  <2>1. c * b \in Int /\ m * a \in Int /\ m * (4 * b) \in Int
    OBVIOUS
  <2> QED
    BY <1>1, <1>2, <2>1
<1> QED
  BY <1>3

LEMMA BatchLimits ==
  ASSUME NEW batch \in Seq(Texts), NEW ratio \in Ratios, ~Exceeds(batch, ratio)
  PROVE  /\ ~Exceeds(batch, CharsPerToken)
         /\ ratio = Densest => Tokens(batch) <= MaxBatchTokens
<1> DEFINE c == Chars(batch)
           d == Count(batch, {"d"})
           m == MaxBatchTokens
<1>1. c \in Nat /\ d \in Nat /\ d <= c
  <2>1. {"d"} \in SUBSET (ByteKinds \ {"c"})
    BY DEF ByteKinds
  <2> QED
    BY <2>1, CountIs DEF Chars
<1>2. m \in Nat
  BY EmbeddingAssumption DEF EmbeddingAssumption
<1>3. ratio[1] \in Nat /\ ratio[2] \in Nat \ {0} /\ ratio[1] <= 4 * ratio[2]
  BY DEF Ratios
<1>4. ~(c * ratio[2] > m * ratio[1])
  BY DEF Exceeds
<1>5. Exceeds(batch, CharsPerToken) <=> c * 1 > m * 4
  BY DEF Exceeds, CharsPerToken
<1>6. Tokens(batch) = (c + 2 * d) \div 4
  BY DEF Tokens
<1> HIDE DEF c, d, m
<1>7. c * ratio[2] <= m * ratio[1]
  <2>1. c * ratio[2] \in Int /\ m * ratio[1] \in Int
    BY <1>1, <1>2, <1>3
  <2> QED
    BY <1>4, <2>1
<1>8. c <= 4 * m
  BY <1>1, <1>2, <1>3, <1>7, Lighter
<1>9. ASSUME ratio = Densest PROVE Tokens(batch) <= m
  <2>1. ratio[1] = 13 /\ ratio[2] = 10
    BY <1>9 DEF Densest
  <2>2. c * 10 <= m * 13
    BY <1>7, <2>1
  <2> QED
    BY <1>1, <1>2, <1>6, <2>2
<1> QED
  BY <1>1, <1>2, <1>5, <1>8, <1>9 DEF m
-----------------------------------------------------------------------------
(* The cache and the lanes.                                                *)

\* Every piece of a document, with its place.
AllOf(d) == {<<i, pieces[d][i]>> : i \in DOMAIN pieces[d]}

\* The account is that of the entries, within the bound, and no text is in it twice.
CacheIs(c) ==
    /\ c \in [order : Seq(Everything), size : Nat]
    /\ c.size = VectorBytes * Len(c.order) /\ c.size <= cacheBytes
    /\ IsInjective(c.order)

LaneStates ==
    [at : {"idle", "look", "batch", "keep"}, doc : Papers \union {NoPaper},
     have : SUBSET (Nat \X Everything), todo : Seq(Nat), next : Nat, ratio : Ratios, count : Nat]

\* The piece i has its vector, or is still to be sent or kept.
Accounted(e, i) ==
    \/ <<i, pieces[e.doc][i]>> \in e.have
    \/ \E j \in DOMAIN e.todo : e.todo[j] = i /\ (e.at = "keep" => e.next <= j)
Busy(e) ==
    /\ e.at # "idle" /\ e.doc \in Papers
    /\ e.have \subseteq AllOf(e.doc)
    /\ e.todo \in Seq(DOMAIN pieces[e.doc])
    /\ e.at = "look" => 1 <= e.next /\ e.next <= Len(pieces[e.doc])
    /\ e.at = "keep" => 1 <= e.next /\ e.next <= e.count /\ e.count <= Len(e.todo)
    /\ \A i \in DOMAIN pieces[e.doc] : (e.at = "look" => i < e.next) => Accounted(e, i)
LaneIs(e) == e \in LaneStates /\ (e = Resting \/ Busy(e))

\* A text that an answer was for, on its way into the cache.
Keeps(e, t) ==
    /\ e.at = "keep"
    /\ \E j \in DOMAIN e.todo : e.next <= j /\ j <= e.count /\ pieces[e.doc][e.todo[j]] = t
NoneLost == Fits => \A t \in received : t \in Cached \/ \E l \in Embedders : Keeps(embedder[l], t)

EmbeddingInv ==
    /\ cacheBytes \in Nat /\ pieces \in [Papers -> Seq(Texts)]
    /\ CacheIs(cache)
    /\ embedder \in [Embedders -> LaneStates]
    /\ stored \in [Papers -> SUBSET (Nat \X Everything)]
    /\ received \subseteq Everything
    /\ NoneLost
    /\ \A d \in Papers : stored[d] \in {{}, AllOf(d)}
    /\ \A l \in Embedders : LaneIs(embedder[l])

LEMMA EverythingIs ==
  ASSUME pieces \in [Papers -> Seq(Texts)]
  PROVE  /\ IsFiniteSet(Everything) /\ Everything \in SUBSET Texts
         /\ \A d \in Papers : \A i \in DOMAIN pieces[d] : pieces[d][i] \in Everything
<1> DEFINE f == [d \in Papers |-> ToSet(pieces[d])]
           S == {f[d] : d \in Papers}
<1>1. \A d \in Papers : pieces[d] \in Seq(Texts)
  OBVIOUS
<1>2. \A d \in Papers : IsFiniteSet(ToSet(pieces[d])) /\ ToSet(pieces[d]) \in SUBSET Texts
  BY <1>1, SeqFinite
<1>3. Everything = UNION S
  BY DEF Everything
<1>4. IsFiniteSet(S)
  <2>1. f = [d \in Papers |-> f[d]] /\ IsFiniteSet(Papers)
    BY EmbeddingAssumption DEF EmbeddingAssumption
  <2> HIDE DEF f
  <2> QED
    BY <2>1, ImageFinite
<1>5. \A T \in S : IsFiniteSet(T) /\ T \in SUBSET Texts
  BY <1>2
<1>6. \A d \in Papers : \A i \in DOMAIN pieces[d] : pieces[d][i] \in ToSet(pieces[d])
  BY DEF ToSet
<1>7. \A d \in Papers : \A i \in DOMAIN pieces[d] : pieces[d][i] \in Everything
  BY <1>6 DEF Everything
<1> HIDE DEF S
<1>8. IsFiniteSet(UNION S)
  BY <1>4, <1>5, FS_UNION
<1> QED
  BY <1>3, <1>5, <1>7, <1>8

LEMMA SliceIs ==
  ASSUME NEW X, NEW o \in Seq(X), NEW a \in Nat, NEW b \in Nat, 1 <= a, a <= b + 1, b <= Len(o)
  PROVE  /\ SubSeq(o, a, b) \in Seq(X) /\ Len(SubSeq(o, a, b)) = (b - a) + 1
         /\ \A i \in 1..((b - a) + 1) : SubSeq(o, a, b)[i] = o[(a + i) - 1]
<1>1. \A i \in a..b : o[i] \in X
  <2>1. \A i \in a..b : i \in 1..Len(o)
    BY LenProperties
  <2> QED
    BY <2>1, ElementOfSeq
<1>2. /\ SubSeq(o, a, b) \in Seq(X)
      /\ Len(SubSeq(o, a, b)) = IF a <= b THEN b - a + 1 ELSE 0
      /\ \A i \in 1..(b - a + 1) : SubSeq(o, a, b)[i] = o[a + i - 1]
  BY <1>1, SubSeqProperties
<1> QED
  BY <1>2

\* Moving an entry to the front moves nothing else.
LEMMA MoveToFront ==
  ASSUME NEW X, NEW o \in Seq(X), IsInjective(o), NEW at \in DOMAIN o
  PROVE  LET moved == <<o[at]>> \o RemoveAt(o, at)
         IN /\ moved \in Seq(X) /\ Len(moved) = Len(o)
            /\ IsInjective(moved) /\ ToSet(moved) = ToSet(o)
<1> DEFINE n == Len(o)
           r == RemoveAt(o, at)
           moved == <<o[at]>> \o r
           was(j) == IF j = 1 THEN at ELSE IF j <= at THEN j - 1 ELSE j
           now(j) == IF j = at THEN 1 ELSE IF j < at THEN j + 1 ELSE j
<1>1. n \in Nat /\ DOMAIN o = 1..n /\ \A i \in 1..n : o[i] \in X
  BY LenProperties
<1>2. /\ SubSeq(o, 1, at - 1) \in Seq(X) /\ Len(SubSeq(o, 1, at - 1)) = at - 1
      /\ \A i \in 1..(at - 1) : SubSeq(o, 1, at - 1)[i] = o[i]
  BY <1>1
<1>3. /\ SubSeq(o, at + 1, n) \in Seq(X) /\ Len(SubSeq(o, at + 1, n)) = n - at
      /\ \A i \in 1..(n - at) : SubSeq(o, at + 1, n)[i] = o[at + i]
  <2> DEFINE a == at + 1
             b == SubSeq(o, a, n)
  <2>1. a \in Nat /\ 1 <= a /\ a <= n + 1 /\ n <= Len(o) /\ (n - a) + 1 = n - at
    BY <1>1
  <2> HIDE DEF a
  <2>2. /\ b \in Seq(X) /\ Len(b) = (n - a) + 1
        /\ \A i \in 1..((n - a) + 1) : b[i] = o[(a + i) - 1]
    BY <1>1, <2>1, SliceIs
  <2> HIDE DEF b
  <2>3. ASSUME NEW i \in 1..(n - at) PROVE b[i] = o[at + i]
    <3>1. b[i] = o[(a + i) - 1]
      BY <2>1, <2>2
    <3>2. (a + i) - 1 = at + i
      BY <1>1 DEF a
    <3> QED
      BY <3>1, <3>2
  <2>4. b \in Seq(X) /\ Len(b) = n - at
    BY <2>1, <2>2
  <2> QED
    BY <2>3, <2>4 DEF b, a
<1>4. /\ r \in Seq(X) /\ Len(r) = n - 1
      /\ \A i \in 1..(n - 1) : r[i] = IF i <= at - 1 THEN o[i] ELSE o[i + 1]
  <2> DEFINE a == SubSeq(o, 1, at - 1)
             b == SubSeq(o, at + 1, n)
  <2>1. r = a \o b
    BY DEF RemoveAt
  <2>2. /\ a \in Seq(X) /\ Len(a) = at - 1 /\ b \in Seq(X) /\ Len(b) = n - at
        /\ \A i \in 1..(at - 1) : a[i] = o[i]
        /\ \A i \in 1..(n - at) : b[i] = o[at + i]
    BY <1>2, <1>3
  <2> HIDE DEF a, b, r
  <2>3. r \in Seq(X) /\ Len(r) = n - 1
    <3>1. r \in Seq(X) /\ Len(r) = Len(a) + Len(b)
      BY <2>1, <2>2, ConcatProperties
    <3> QED
      BY <1>1, <2>2, <3>1
  <2>4. ASSUME NEW i \in 1..(n - 1) PROVE r[i] = IF i <= at - 1 THEN o[i] ELSE o[i + 1]
    <3>1. r[i] = IF i <= at - 1 THEN a[i] ELSE b[i - (at - 1)]
      BY <1>1, <2>1, <2>2, SMTT(30)
    <3>2. CASE i <= at - 1
      BY <1>1, <2>2, <3>1, <3>2
    <3>3. CASE ~(i <= at - 1)
      <4>1. i - (at - 1) \in 1..(n - at) /\ at + (i - (at - 1)) = i + 1
        BY <1>1, <3>3
      <4> QED
        BY <2>2, <3>1, <3>3, <4>1
    <3> QED
      BY <3>2, <3>3
  <2> QED
    BY <2>3, <2>4
<1> HIDE DEF r
<1>5. /\ moved \in Seq(X) /\ Len(moved) = n /\ DOMAIN moved = 1..n /\ moved[1] = o[at]
      /\ \A j \in 2..n : moved[j] = r[j - 1]
  <2>1. o[at] \in X /\ (n - 1) + 1 = n
    BY <1>1
  <2> QED
    BY <1>4, <2>1, OneBefore
<1> HIDE DEF moved
<1>6. \A j \in 1..n : was(j) \in 1..n /\ now(j) \in 1..n /\ was(now(j)) = j /\ now(was(j)) = j
  BY <1>1
<1>7. ASSUME NEW j \in 1..n PROVE moved[j] = o[was(j)]
  <2>1. CASE j = 1
    BY <1>5, <2>1
  <2>2. CASE j # 1
    <3>1. j \in 2..n /\ j - 1 \in 1..(n - 1) /\ (j - 1) + 1 = j
      BY <1>1, <2>2
    <3>2. moved[j] = IF j - 1 <= at - 1 THEN o[j - 1] ELSE o[j]
      BY <1>4, <1>5, <3>1
    <3> QED
      BY <1>1, <2>2, <3>1, <3>2
  <2> QED
    BY <2>1, <2>2
<1> HIDE DEF was, now
<1>8. IsInjective(moved)
  <2> SUFFICES ASSUME NEW i \in 1..n, NEW j \in 1..n, moved[i] = moved[j] PROVE i = j
    BY <1>5 DEF IsInjective
  <2>1. was(i) = was(j)
    BY <1>1, <1>6, <1>7 DEF IsInjective
  <2> QED
    BY <1>6, <2>1
<1>9. \A j \in 1..n : moved[now(j)] = o[j]
  BY <1>6, <1>7
<1>10. ToSet(moved) = ToSet(o)
  <2>1. ToSet(moved) = {moved[j] : j \in 1..n} /\ ToSet(o) = {o[j] : j \in 1..n}
    BY <1>1, <1>5 DEF ToSet
  <2>2. \A j \in 1..n : was(j) \in 1..n /\ now(j) \in 1..n
    BY <1>6
  <2>3. \A j \in 1..n : moved[j] \in {o[k] : k \in 1..n}
    BY <1>7, <2>2
  <2>4. \A j \in 1..n : o[j] \in {moved[k] : k \in 1..n}
    BY <1>9, <2>2
  <2> QED
    BY <2>1, <2>3, <2>4
<1> QED
  BY <1>5, <1>8, <1>10 DEF moved, r

LEMMA UsedIs ==
  ASSUME CacheIs(cache), NEW t \in Cached
  PROVE  CacheIs(Used(t)) /\ ToSet(Used(t).order) = Cached
<1> DEFINE o == cache.order
           at == CHOOSE i \in DOMAIN o : o[i] = t
           moved == <<o[at]>> \o RemoveAt(o, at)
<1>1. o \in Seq(Everything) /\ IsInjective(o) /\ cache \in [order : Seq(Everything), size : Nat]
  BY DEF CacheIs
<1>2. at \in DOMAIN o /\ o[at] = t
  <2>1. \E i \in DOMAIN o : o[i] = t
    BY DEF Cached, ToSet
  <2> QED
    BY <2>1
<1>3. Used(t) = [cache EXCEPT !.order = moved]
  BY <1>2 DEF Used
<1> HIDE DEF at
<1>4. /\ moved \in Seq(Everything) /\ Len(moved) = Len(o)
      /\ IsInjective(moved) /\ ToSet(moved) = ToSet(o)
  BY <1>1, <1>2, MoveToFront
<1> HIDE DEF moved
<1>5. Used(t) = [order |-> moved, size |-> cache.size]
  BY <1>1, <1>3
<1> QED
  BY <1>4, <1>5 DEF CacheIs, Cached

\* What is put is in the cache, which stays within its bound; while everything fits,
\* nothing is dropped for it.
LEMMA PutIs ==
  ASSUME cacheBytes \in Nat, pieces \in [Papers -> Seq(Texts)], CacheIs(cache), NEW t \in Everything
  PROVE  /\ CacheIs(Put(t))
         /\ Fits => Cached \union {t} \subseteq ToSet(Put(t).order)
<1>1. CASE t \in Cached
  <2>1. Put(t) = Used(t)
    BY <1>1 DEF Put
  <2> QED
    BY <1>1, <2>1, UsedIs
<1>2. CASE t \notin Cached
  <2> DEFINE order == <<t>> \o cache.order
             n == Len(cache.order)
             b == VectorBytes
             size == cache.size + b
             Within(k) == size - k * b <= cacheBytes
             drop == CHOOSE k \in 0..Len(order) :
                        /\ size - k * b <= cacheBytes
                        /\ \A i \in 0..(k - 1) : size - i * b > cacheBytes
  <2>1. /\ cache.order \in Seq(Everything) /\ IsInjective(cache.order) /\ n \in Nat
        /\ cache.size \in Nat /\ cache.size = b * n /\ cache.size <= cacheBytes
        /\ b \in Nat \ {0}
    BY LenProperties, EmbeddingAssumption DEF CacheIs, EmbeddingAssumption
  <2>2. Put(t) = [order |-> SubSeq(order, 1, Len(order) - drop), size |-> size - drop * b]
    BY <1>2 DEF Put
  <2>3. /\ order \in Seq(Everything) /\ Len(order) = n + 1 /\ DOMAIN order = 1..(n + 1)
        /\ DOMAIN cache.order = 1..n /\ order[1] = t
        /\ \A i \in 1..n : order[i + 1] = cache.order[i]
        /\ \A i \in 2..(n + 1) : order[i] = cache.order[i - 1]
    BY <2>1, OneBefore
  <2>4. \A i \in 1..n : cache.order[i] # t
    BY <1>2, <2>3 DEF Cached, ToSet
  <2> HIDE DEF order
  <2>5. IsInjective(order)
    <3> SUFFICES ASSUME NEW i \in 1..(n + 1), NEW j \in 1..(n + 1), order[i] = order[j]
                 PROVE  i = j
      BY <2>3 DEF IsInjective
    <3>0. /\ i # 1 => i \in 2..(n + 1) /\ i - 1 \in 1..n
          /\ j # 1 => j \in 2..(n + 1) /\ j - 1 \in 1..n
      BY <2>1
    <3>1. CASE i = 1
      BY <2>3, <2>4, <3>0, <3>1
    <3>2. CASE j = 1
      BY <2>3, <2>4, <3>0, <3>2
    <3>3. CASE i # 1 /\ j # 1
      <4>1. cache.order[i - 1] = cache.order[j - 1]
        BY <2>3, <3>0, <3>3
      <4>2. i - 1 = j - 1
        BY <2>1, <2>3, <3>0, <3>3, <4>1 DEF IsInjective
      <4> QED
        BY <4>2
    <3> QED
      BY <3>1, <3>2, <3>3
  <2>6. size = b * (n + 1) /\ size \in Nat
    BY <2>1
  <2> HIDE DEF n, b
  <2>7. /\ drop \in 0..(n + 1) /\ Within(drop)
        /\ \A i \in 0..(drop - 1) : ~Within(i)
    <3> DEFINE S == {k \in 0..(n + 1) : Within(k)}
    <3>1. size - (n + 1) * b = 0
      BY <2>1, <2>6
    <3>2. n + 1 \in S /\ S \in SUBSET Nat
      BY <2>1, <3>1
    <3>3. PICK k \in S : \A i \in S : k <= i
      BY <3>2, LeastElement
    <3>4. k \in 0..(n + 1) /\ Within(k)
      OBVIOUS
    <3>5. \A i \in 0..(k - 1) : i \in 0..(n + 1) /\ ~(k <= i)
      BY <2>1, <3>4
    <3>6. \A i \in 0..(k - 1) : ~Within(i)
      BY <3>3, <3>5
    <3>7. \A i \in Int : ~Within(i) <=> size - i * b > cacheBytes
      BY <2>1, <2>6
    <3>8. \A i \in 0..(k - 1) : size - i * b > cacheBytes
      BY <3>6, <3>7
    <3>9. \E m \in 0..Len(order) : /\ size - m * b <= cacheBytes
                                   /\ \A i \in 0..(m - 1) : size - i * b > cacheBytes
      BY <2>3, <3>4, <3>8
    <3>10. /\ drop \in 0..Len(order) /\ size - drop * b <= cacheBytes
           /\ \A i \in 0..(drop - 1) : size - i * b > cacheBytes
      BY <3>9, Zenon
    <3> HIDE DEF drop
    <3> QED
      BY <2>3, <3>7, <3>10
  <2> HIDE DEF drop
  <2> DEFINE m == (n + 1) - drop
             kept == SubSeq(order, 1, m)
  <2>8. /\ m \in Nat /\ m <= n + 1 /\ Put(t) = [order |-> kept, size |-> size - drop * b]
        /\ drop \in Nat
    BY <2>1, <2>2, <2>3, <2>7
  <2>9. /\ kept \in Seq(Everything) /\ Len(kept) = m /\ DOMAIN kept = 1..m
        /\ \A i \in 1..m : kept[i] = order[i]
    <3> HIDE DEF m
    <3>1. 1 \in Nat /\ 1 <= m + 1 /\ m <= Len(order) /\ (m - 1) + 1 = m
      BY <2>1, <2>3, <2>8
    <3>2. /\ kept \in Seq(Everything) /\ Len(kept) = m
          /\ \A i \in 1..m : kept[i] = order[(1 + i) - 1]
      BY <2>3, <2>8, <3>1, SliceIs
    <3>3. \A i \in 1..m : (1 + i) - 1 = i
      BY <2>8
    <3> HIDE DEF kept
    <3> QED
      BY <3>2, <3>3, LenProperties
  <2>10. size - drop * b = b * m /\ size - drop * b \in Nat
    <3>1. size - drop * b = b * m
      BY <2>1, <2>6, <2>8
    <3> QED
      BY <2>1, <2>8, <3>1
  <2>11. IsInjective(kept)
    <3> HIDE DEF kept, m
    <3>1. \A i \in 1..m : i \in 1..(n + 1)
      BY <2>1, <2>8
    <3> QED
      BY <2>3, <2>5, <2>9, <3>1 DEF IsInjective
  <2>12. CacheIs(Put(t))
    <3> HIDE DEF kept, m, size
    <3> QED
      BY <2>7, <2>8, <2>9, <2>10, <2>11 DEF CacheIs, b
  <2>13. ASSUME Fits PROVE Cached \union {t} \subseteq ToSet(Put(t).order)
    <3> DEFINE all == Cardinality(Everything)
    <3>1. IsFiniteSet(Everything) /\ all \in Nat
      BY EverythingIs, FS_CardinalityType
    <3>2. order \in Injection(1..(n + 1), Everything)
      BY <2>1, <2>3, <2>5 DEF Injection
    <3>3. Cardinality(1..(n + 1)) <= all
      BY <3>1, <3>2, FS_Injection
    <3>4. Cardinality(1..(n + 1)) = n + 1
      <4>1. 1 \in Int /\ n + 1 \in Int
        BY <2>1
      <4>2. Cardinality(1..(n + 1)) = IF 1 > n + 1 THEN 0 ELSE (n + 1) - 1 + 1
        BY <4>1, FS_Interval
      <4> QED
        BY <2>1, <4>2
    <3>5. all * b <= cacheBytes
      BY <2>13 DEF Fits, b
    <3> HIDE DEF all
    <3>6. (n + 1) * b <= all * b
      BY <2>1, <3>1, <3>3, <3>4
    <3>7. size <= cacheBytes
      <4>1. (n + 1) * b = size /\ all * b \in Nat
        BY <2>1, <2>6, <3>1
      <4> QED
        BY <2>6, <3>5, <3>6, <4>1
    <3>8. drop = 0
      <4> SUFFICES ASSUME drop # 0 PROVE FALSE
        OBVIOUS
      <4>1. 0 \in 0..(drop - 1) /\ 0 * b = 0
        BY <2>1, <2>8
      <4>2. ~(size - 0 <= cacheBytes)
        BY <2>7, <4>1
      <4> QED
        BY <2>6, <3>7, <4>2
    <3>9. m = n + 1
      BY <2>1, <3>8
    <3> HIDE DEF m, kept
    <3>10. 1 \in 1..m /\ \A i \in 1..n : i + 1 \in 1..m
      BY <2>1, <3>9
    <3>11. t \in ToSet(kept)
      BY <2>3, <2>9, <3>10 DEF ToSet
    <3>12. \A i \in 1..n : cache.order[i] \in ToSet(kept)
      BY <2>3, <2>9, <3>10 DEF ToSet
    <3>13. Cached \subseteq ToSet(kept)
      BY <2>3, <3>12 DEF Cached, ToSet
    <3> QED
      BY <2>8, <3>11, <3>13
  <2> QED
    BY <2>12, <2>13
<1> QED
  BY <1>1, <1>2
LEMMA PiecesAre == ASSUME NEW t, IsText(t) PROVE Pieces(t) \in Seq(Texts)
<1> DEFINE cut == Split(t)
           f == [i \in DOMAIN cut |-> SubSeq(t, cut[i].from + 1, cut[i].to)]
<1>1. IsCut(t, cut)
  BY SplitIs
<1>2. cut \in Seq(Ranges) /\ t \in Seq(ByteKinds)
  BY <1>1 DEF IsCut, IsText
<1>3. Len(cut) \in Nat /\ DOMAIN cut = 1..Len(cut) /\ \A i \in DOMAIN cut : cut[i] \in Ranges
  BY <1>2, LenProperties, ElementOfSeq
<1> HIDE DEF cut
<1>4. ASSUME NEW i \in DOMAIN cut PROVE SubSeq(t, cut[i].from + 1, cut[i].to) \in Texts
  <2> DEFINE a == cut[i].from + 1
             b == cut[i].to
  <2>1. cut[i] \in Ranges /\ IsPiece(t, cut[i])
    BY <1>1, <1>3 DEF IsCut
  <2>2. a \in Nat /\ b \in Nat /\ 1 <= a /\ b <= Len(t)
    BY <2>1, BoundariesAre DEF Ranges, IsPiece
  <2> HIDE DEF a, b
  <2>3. \A j \in a..b : t[j] \in ByteKinds
    <3>1. \A j \in a..b : j \in 1..Len(t)
      BY <1>2, <2>2, LenProperties
    <3> QED
      BY <1>2, <3>1, ElementOfSeq
  <2>4. SubSeq(t, a, b) \in Seq(ByteKinds)
    BY <2>2, <2>3, SubSeqProperties
  <2> QED
    BY <2>4 DEF a, b, Texts
<1>5. f \in [1..Len(cut) -> Texts]
  BY <1>3, <1>4
<1>6. Pieces(t) = f
  BY Zenon DEF Pieces, cut
<1> HIDE DEF f
<1> QED
  BY <1>3, <1>5, <1>6

LEMMA Settings ==
  ASSUME UNCHANGED <<cacheBytes, pieces>>
  PROVE  /\ Everything' = Everything /\ (Fits' <=> Fits) /\ \A d : AllOf(d)' = AllOf(d)
         /\ \A c : CacheIs(c)' <=> CacheIs(c)
         /\ \A e, t : Keeps(e, t)' <=> Keeps(e, t)
<1>1. Everything' = Everything
  BY DEF Everything
<1> QED
  BY <1>1 DEF Fits, AllOf, CacheIs, Keeps

LEMMA LaneAlone ==
  ASSUME EmbeddingInv, UNCHANGED <<cacheBytes, pieces>>, NEW l \in Embedders, NEW e,
         SetEmbedder(l, e), LaneIs(e)
  PROVE  /\ cacheBytes' \in Nat /\ pieces' \in [Papers -> Seq(Texts)]
         /\ embedder' \in [Embedders -> LaneStates]
         /\ embedder'[l] = e /\ \A k \in Embedders : k # l => embedder'[k] = embedder[k]
         /\ \A k \in Embedders : LaneIs(embedder[k])'
<1>1. e \in LaneStates /\ embedder \in [Embedders -> LaneStates]
  BY DEF EmbeddingInv, LaneIs
<1>2. /\ embedder' \in [Embedders -> LaneStates]
      /\ embedder'[l] = e /\ \A k \in Embedders : k # l => embedder'[k] = embedder[k]
  <2>1. embedder' = [embedder EXCEPT ![l] = e]
    BY DEF SetEmbedder
  <2> HIDE DEF LaneStates
  <2>2. LaneStates' = LaneStates
    BY DEF LaneStates, Everything
  <2> QED
    BY <1>1, <2>1, <2>2
<1>3. ASSUME NEW k \in Embedders PROVE LaneIs(embedder[k])'
  <2>1. LaneIs(embedder'[k])
    BY <1>2 DEF EmbeddingInv
  <2> DEFINE x == embedder'[k]
  <2>2. LaneStates' = LaneStates /\ pieces' = pieces
    BY DEF LaneStates, Everything
  <2>3. LaneIs(embedder[k])' <=> LaneIs(x)
    BY <2>2 DEF LaneIs, Busy, Accounted, AllOf
  <2> QED
    BY <2>1, <2>3
<1> QED
  BY <1>2, <1>3 DEF EmbeddingInv

\* One lane moves.
LEMMA OneLaneMoves ==
  ASSUME EmbeddingInv, UNCHANGED <<cacheBytes, pieces>>, NEW l \in Embedders, NEW e,
         SetEmbedder(l, e), LaneIs(e),
         CacheIs(cache'), received' \subseteq Everything,
         stored' \in [Papers -> SUBSET (Nat \X Everything)],
         \A d \in Papers : stored'[d] \in {{}, AllOf(d)},
         Fits => \A t \in received' :
                    \/ t \in ToSet(cache'.order) \/ Keeps(e, t)
                    \/ \E k \in Embedders : k # l /\ Keeps(embedder[k], t)
  PROVE  EmbeddingInv'
<1>1. /\ cacheBytes' \in Nat /\ pieces' \in [Papers -> Seq(Texts)]
      /\ embedder' \in [Embedders -> LaneStates]
      /\ embedder'[l] = e /\ \A k \in Embedders : k # l => embedder'[k] = embedder[k]
      /\ \A k \in Embedders : LaneIs(embedder[k])'
  BY LaneAlone
<1>2. Everything' = Everything /\ (Fits' <=> Fits) /\ \A d : AllOf(d)' = AllOf(d)
  BY Settings
<1>3. CacheIs(cache)'
  BY <1>2 DEF CacheIs
<1>4. NoneLost'
  <2> SUFFICES ASSUME Fits', NEW t \in received'
               PROVE  t \in Cached' \/ \E k \in Embedders : Keeps(embedder[k], t)'
    BY DEF NoneLost
  <2>1. CASE t \in ToSet(cache'.order)
    BY <2>1 DEF Cached
  <2>2. CASE Keeps(e, t)
    <3>1. Keeps(embedder[l], t)'
      BY <1>1, <2>2 DEF Keeps
    <3> QED
      BY <3>1
  <2>3. CASE \E k \in Embedders : k # l /\ Keeps(embedder[k], t)
    <3>1. PICK k \in Embedders : k # l /\ Keeps(embedder[k], t)
      BY <2>3
    <3>2. Keeps(embedder[k], t)'
      BY <1>1, <3>1 DEF Keeps
    <3> QED
      BY <3>2
  <2> QED
    BY <1>2, <2>1, <2>2, <2>3
<1>5. \A d \in Papers : (stored[d] \in {{}, AllOf(d)})'
  BY <1>2
<1>6. /\ received' \subseteq Everything'
      /\ stored' \in [Papers -> SUBSET (Nat \X Everything')]
  BY <1>2
<1>7. LaneStates' = LaneStates
  BY <1>2 DEF LaneStates
<1> QED
  BY <1>1, <1>3, <1>4, <1>5, <1>6, <1>7 DEF EmbeddingInv

\* What is neither received nor stored now, and dropped from the cache, stays as it is.
LEMMA KeepsKnown ==
  ASSUME EmbeddingInv, NEW l \in Embedders, embedder[l].at # "keep",
         UNCHANGED <<cacheBytes, pieces, received>>, ToSet(cache'.order) = Cached
  PROVE  /\ received' \subseteq Everything
         /\ Fits => \A t \in received' :
                       \/ t \in ToSet(cache'.order)
                       \/ \E k \in Embedders : k # l /\ Keeps(embedder[k], t)
<1>1. Fits => \A t \in received : t \in Cached \/ \E k \in Embedders : Keeps(embedder[k], t)
  BY DEF EmbeddingInv, NoneLost
<1>2. \A t : ~Keeps(embedder[l], t)
  BY DEF Keeps
<1> QED
  BY <1>1, <1>2 DEF EmbeddingInv

LEMMA StoredSame ==
  ASSUME EmbeddingInv, UNCHANGED stored
  PROVE  /\ stored' \in [Papers -> SUBSET (Nat \X Everything)]
         /\ \A d \in Papers : stored'[d] \in {{}, AllOf(d)}
BY DEF EmbeddingInv

LEMMA CacheSame ==
  ASSUME EmbeddingInv, UNCHANGED cache
  PROVE  CacheIs(cache') /\ ToSet(cache'.order) = Cached
BY DEF EmbeddingInv, Cached

LEMMA RestingIs == Resting \in LaneStates
<1>1. Densest \in Ratios /\ <<>> \in Seq(Nat)
  BY DEF Densest, Ratios
<1> QED
  BY <1>1 DEF Resting, LaneStates

\* The empty cache.
LEMMA NothingCached ==
  ASSUME cacheBytes \in Nat PROVE CacheIs([order |-> <<>>, size |-> 0])
<1>1. <<>> \in Seq(Everything) /\ Len(<<>>) = 0 /\ DOMAIN (<<>>) = {}
  OBVIOUS
<1>2. VectorBytes * 0 = 0
  BY EmbeddingAssumption DEF EmbeddingAssumption
<1> QED
  BY <1>1, <1>2 DEF CacheIs, IsInjective

LEMMA EmbeddingInitially == EmbeddingInit => EmbeddingInv
<1> SUFFICES ASSUME EmbeddingInit PROVE EmbeddingInv
  OBVIOUS
<1>1. cacheBytes \in Nat
  BY EmbeddingAssumption DEF EmbeddingInit, EmbeddingAssumption
<1>2. pieces \in [Papers -> Seq(Texts)]
  <2>1. PICK text \in [Papers -> UNION {TextOf[d] : d \in Papers}] :
           /\ \A d \in Papers : text[d] \in TextOf[d]
           /\ pieces = [d \in Papers |-> Pieces(text[d])]
    BY DEF EmbeddingInit
  <2>2. \A d \in Papers : IsText(text[d])
    BY <2>1, EmbeddingAssumption DEF EmbeddingAssumption
  <2>3. \A d \in Papers : Pieces(text[d]) \in Seq(Texts)
    BY <2>2, PiecesAre
  <2> QED
    BY <2>1, <2>3
<1>3. CacheIs(cache)
  BY <1>1, NothingCached DEF EmbeddingInit
<1>4. Resting \in LaneStates
  BY RestingIs
<1>5. /\ embedder \in [Embedders -> LaneStates]
      /\ \A l \in Embedders : LaneIs(embedder[l])
  BY <1>4 DEF EmbeddingInit, LaneIs
<1>6. /\ stored \in [Papers -> SUBSET (Nat \X Everything)]
      /\ \A d \in Papers : stored[d] = {}
  BY DEF EmbeddingInit
<1>7. received = {}
  BY DEF EmbeddingInit
<1> QED
  BY <1>1, <1>2, <1>3, <1>5, <1>6, <1>7 DEF EmbeddingInv, NoneLost

\* A lane at work.
LEMMA Working ==
  ASSUME EmbeddingInv, NEW l \in Embedders, embedder[l].at # "idle"
  PROVE  LET e == embedder[l]
         IN /\ e \in LaneStates /\ Busy(e) /\ e.doc \in Papers
            /\ pieces[e.doc] \in Seq(Texts) /\ Len(pieces[e.doc]) \in Nat
            /\ DOMAIN pieces[e.doc] = 1..Len(pieces[e.doc])
            /\ \A i \in DOMAIN pieces[e.doc] : pieces[e.doc][i] \in Everything /\ pieces[e.doc][i] \in Texts
            /\ Len(e.todo) \in Nat /\ DOMAIN e.todo = 1..Len(e.todo)
            /\ \A j \in DOMAIN e.todo : e.todo[j] \in DOMAIN pieces[e.doc]
<1> DEFINE e == embedder[l]
<1>1. LaneIs(e) /\ e.at # "idle"
  BY DEF EmbeddingInv
<1>2. Busy(e) /\ e \in LaneStates
  BY <1>1 DEF LaneIs, Resting
<1>3. /\ e.doc \in Papers /\ pieces[e.doc] \in Seq(Texts) /\ pieces \in [Papers -> Seq(Texts)]
      /\ e.todo \in Seq(DOMAIN pieces[e.doc])
  BY <1>2 DEF Busy, EmbeddingInv
<1> HIDE DEF e
<1>4. \A i \in DOMAIN pieces[e.doc] : pieces[e.doc][i] \in Everything
  BY <1>3, EverythingIs
<1>5. /\ Len(pieces[e.doc]) \in Nat /\ DOMAIN pieces[e.doc] = 1..Len(pieces[e.doc])
      /\ \A i \in DOMAIN pieces[e.doc] : pieces[e.doc][i] \in Texts
  BY <1>3, LenProperties, ElementOfSeq
<1>6. /\ Len(e.todo) \in Nat /\ DOMAIN e.todo = 1..Len(e.todo)
      /\ \A j \in DOMAIN e.todo : e.todo[j] \in DOMAIN pieces[e.doc]
  BY <1>3, LenProperties, ElementOfSeq
<1> QED
  BY <1>2, <1>3, <1>4, <1>5, <1>6 DEF e

LEMMA LoadKeeps ==
  ASSUME EmbeddingInv, NEW l \in Embedders, NEW d \in Papers, Load(l, d)
  PROVE  EmbeddingInv'
<1> DEFINE e == [Resting EXCEPT !.at = "look", !.doc = d]
<1>1. /\ embedder[l].at = "idle" /\ pieces[d] # <<>> /\ SetEmbedder(l, e)
      /\ UNCHANGED <<cacheBytes, pieces, cache, stored, received>>
  BY DEF Load
<1>2. /\ e.at = "look" /\ e.doc = d /\ e.have = {} /\ e.todo = <<>> /\ e.next = 1
  BY DEF Resting
<1>3. pieces[d] \in Seq(Texts) /\ Len(pieces[d]) \in Nat /\ Len(pieces[d]) >= 1
  <2>1. pieces[d] \in Seq(Texts)
    BY DEF EmbeddingInv
  <2> QED
    BY <1>1, <2>1, EmptySeq
<1>4. LaneIs(e)
  <2>1. <<>> \in Seq(DOMAIN pieces[d])
    OBVIOUS
  <2>2. e \in LaneStates
    BY RestingIs DEF LaneStates
  <2>3. \A i \in DOMAIN pieces[d] : ~(i < 1)
    BY <1>3, LenProperties
  <2> HIDE DEF e
  <2>5. Busy(e)
    BY <1>2, <1>3, <2>1, <2>3 DEF Busy
  <2> QED
    BY <2>2, <2>5 DEF LaneIs
<1> HIDE DEF e
<1> QED
  BY <1>1, <1>4, OneLaneMoves, KeepsKnown, StoredSame, CacheSame

LEMMA LookUpKeeps ==
  ASSUME EmbeddingInv, NEW l \in Embedders, LookUp(l)
  PROVE  EmbeddingInv'
<1> DEFINE e == embedder[l]
           P == pieces[e.doc]
           t == P[e.next]
           on == IF e.next = Len(P) THEN [e EXCEPT !.at = "batch", !.next = 1]
                 ELSE [e EXCEPT !.next = @ + 1]
           found == [on EXCEPT !.have = @ \union {<<e.next, t>>}]
           missed == [on EXCEPT !.todo = Append(@, e.next)]
<1>1. /\ e.at = "look" /\ UNCHANGED <<cacheBytes, pieces, stored, received>>
      /\ \/ t \in Cached /\ SetEmbedder(l, found) /\ cache' = Used(t)
         \/ SetEmbedder(l, missed) /\ cache' = cache
  BY DEF LookUp
<1>2. /\ e \in LaneStates /\ Busy(e) /\ e.doc \in Papers
      /\ P \in Seq(Texts) /\ Len(P) \in Nat /\ DOMAIN P = 1..Len(P)
      /\ \A i \in DOMAIN P : P[i] \in Everything /\ P[i] \in Texts
      /\ Len(e.todo) \in Nat /\ DOMAIN e.todo = 1..Len(e.todo)
  BY <1>1, Working
<1> HIDE DEF e
<1>3. /\ e.next \in DOMAIN P /\ e.next \in Nat /\ e.have \subseteq AllOf(e.doc)
      /\ e.todo \in Seq(DOMAIN P)
      /\ \A i \in DOMAIN P : i < e.next => <<i, P[i]>> \in e.have \/ \E j \in DOMAIN e.todo : e.todo[j] = i
  BY <1>1, <1>2 DEF Busy, LaneStates, Accounted
<1>4. /\ on \in LaneStates /\ on.doc = e.doc /\ on.have = e.have /\ on.todo = e.todo
      /\ on.at \in {"look", "batch"}
      /\ on.at = "look" => on.next = e.next + 1 /\ e.next < Len(P)
      /\ on.at = "batch" => e.next = Len(P)
  <2>1. CASE e.next = Len(P)
    BY <1>2, <2>1 DEF LaneStates
  <2>2. CASE e.next # Len(P)
    <3>1. e.next + 1 \in Nat /\ e.next < Len(P)
      BY <1>2, <1>3, <2>2
    <3>2. on = [e EXCEPT !.next = e.next + 1]
      BY <1>2, <2>2 DEF LaneStates
    <3> HIDE DEF on
    <3>3. /\ on \in LaneStates /\ on.doc = e.doc /\ on.have = e.have /\ on.todo = e.todo
          /\ on.at = e.at /\ on.next = e.next + 1
      BY <1>2, <3>1, <3>2 DEF LaneStates
    <3> QED
      BY <1>1, <3>1, <3>3
  <2> QED
    BY <2>1, <2>2
<1> HIDE DEF on
<1>5. /\ on.at = "look" => 1 <= on.next /\ on.next <= Len(P)
      /\ \A i \in DOMAIN P : (on.at = "look" => i < on.next) => i < e.next \/ i = e.next
  BY <1>2, <1>3, <1>4
<1>6. ASSUME t \in Cached PROVE LaneIs(found)
  <2>0. <<e.next, t>> \in Nat \X Everything
    BY <1>2, <1>3
  <2>1. /\ found \in LaneStates /\ found.at = on.at /\ found.doc = e.doc /\ found.todo = e.todo
        /\ found.have = e.have \union {<<e.next, t>>} /\ found.next = on.next
    <3> DEFINE new == e.have \union {<<e.next, t>>}
    <3>1. new \in SUBSET (Nat \X Everything)
      BY <1>2, <2>0 DEF LaneStates
    <3>2. found = [on EXCEPT !.have = new]
      BY <1>4
    <3> HIDE DEF new, found
    <3>3. /\ found \in LaneStates /\ found.at = on.at /\ found.doc = on.doc
          /\ found.todo = on.todo /\ found.have = new /\ found.next = on.next
      BY <1>4, <3>1, <3>2 DEF LaneStates
    <3> QED
      BY <1>4, <3>3 DEF new
  <2>2. <<e.next, t>> \in AllOf(e.doc)
    BY <1>3 DEF AllOf
  <2> HIDE DEF found
  <2>3. \A i \in DOMAIN P : (found.at = "look" => i < found.next) => Accounted(found, i)
    BY <1>3, <1>4, <1>5, <2>1 DEF Accounted
  <2>4. Busy(found)
    <3>1. /\ found.at # "idle" /\ found.at # "keep" /\ found.doc \in Papers
          /\ found.todo \in Seq(DOMAIN P)
          /\ found.at = "look" => 1 <= found.next /\ found.next <= Len(P)
      BY <1>2, <1>3, <1>4, <1>5, <2>1
    <3>2. found.have \subseteq AllOf(found.doc)
      BY <1>3, <2>1, <2>2
    <3> QED
      BY <2>1, <2>3, <3>1, <3>2 DEF Busy
  <2> QED
    BY <2>1, <2>4 DEF LaneIs
<1>7. LaneIs(missed)
  <2> DEFINE more == Append(e.todo, e.next)
  <2>1. /\ more \in Seq(DOMAIN P) /\ Len(more) = Len(e.todo) + 1
        /\ \A j \in 1..Len(e.todo) : more[j] = e.todo[j]
        /\ more[Len(e.todo) + 1] = e.next
    <3> DEFINE D == DOMAIN P
    <3>1. e.todo \in Seq(D) /\ e.next \in D
      BY <1>3
    <3> HIDE DEF D
    <3>2. /\ more \in Seq(D) /\ Len(more) = Len(e.todo) + 1
          /\ \A j \in 1..Len(e.todo) : more[j] = e.todo[j]
          /\ more[Len(e.todo) + 1] = e.next
      BY <3>1, AppendProperties
    <3> QED
      BY <3>2 DEF D
  <2>2. more \in Seq(Nat) /\ DOMAIN more = 1..(Len(e.todo) + 1)
    BY <1>2, <2>1, LenProperties
  <2>3. missed = [on EXCEPT !.todo = more]
    BY <1>4
  <2> HIDE DEF more, missed
  <2>4. /\ missed \in LaneStates /\ missed.at = on.at /\ missed.doc = e.doc /\ missed.todo = more
        /\ missed.have = e.have /\ missed.next = on.next
    BY <1>4, <2>2, <2>3 DEF LaneStates
  <2>5. ASSUME NEW i \in DOMAIN P, missed.at = "look" => i < missed.next
        PROVE  Accounted(missed, i)
    <3>1. i < e.next \/ i = e.next
      BY <1>5, <2>4, <2>5
    <3>2. CASE i = e.next
      <4>1. Len(e.todo) + 1 \in DOMAIN more
        BY <1>2, <2>2
      <4> QED
        BY <1>4, <2>1, <2>4, <3>2, <4>1 DEF Accounted
    <3>3. CASE i < e.next /\ <<i, P[i]>> \in e.have
      BY <2>4, <3>3 DEF Accounted
    <3>4. CASE i < e.next /\ \E j \in DOMAIN e.todo : e.todo[j] = i
      <4>1. PICK j \in DOMAIN e.todo : e.todo[j] = i
        BY <3>4
      <4>2. j \in DOMAIN more /\ more[j] = i
        BY <1>2, <2>1, <2>2, <4>1, SMTT(30)
      <4> QED
        BY <1>4, <2>4, <4>2 DEF Accounted
    <3> QED
      BY <1>3, <3>1, <3>2, <3>3, <3>4
  <2>6. Busy(missed)
    <3>1. /\ missed.at # "idle" /\ missed.at # "keep" /\ missed.doc \in Papers
          /\ missed.todo \in Seq(DOMAIN P)
          /\ missed.at = "look" => 1 <= missed.next /\ missed.next <= Len(P)
      BY <1>2, <1>3, <1>4, <1>5, <2>1, <2>4
    <3>2. missed.have \subseteq AllOf(missed.doc)
      BY <1>3, <2>4
    <3> QED
      BY <2>4, <2>5, <3>1, <3>2 DEF Busy
  <2> QED
    BY <2>4, <2>6 DEF LaneIs
<1> HIDE DEF found, missed, t
<1>8. embedder[l].at # "keep"
  BY <1>1 DEF e
<1>9. CASE t \in Cached /\ SetEmbedder(l, found) /\ cache' = Used(t)
  <2>1. CacheIs(cache') /\ ToSet(cache'.order) = Cached
    BY <1>9, UsedIs DEF EmbeddingInv
  <2> QED
    BY <1>1, <1>6, <1>8, <1>9, <2>1, OneLaneMoves, KeepsKnown, StoredSame
<1>10. CASE SetEmbedder(l, missed) /\ cache' = cache
  BY <1>1, <1>7, <1>8, <1>10, OneLaneMoves, KeepsKnown, StoredSame, CacheSame
<1> QED
  BY <1>1, <1>9, <1>10

LEMMA AbandonKeeps ==
  ASSUME EmbeddingInv, NEW l \in Embedders, Abandon(l)
  PROVE  EmbeddingInv'
<1>1. /\ embedder[l].at # "keep" /\ SetEmbedder(l, Resting)
      /\ UNCHANGED <<cacheBytes, pieces, cache, stored, received>>
  BY DEF Abandon, Ends
<1>2. LaneIs(Resting)
  BY RestingIs DEF LaneIs
<1> QED
  BY <1>1, <1>2, OneLaneMoves, KeepsKnown, StoredSame, CacheSame

LEMMA StoreFailsKeeps ==
  ASSUME EmbeddingInv, NEW l \in Embedders, StoreFails(l)
  PROVE  EmbeddingInv'
<1>1. /\ embedder[l].at # "keep" /\ SetEmbedder(l, Resting)
      /\ UNCHANGED <<cacheBytes, pieces, cache, stored, received>>
  BY DEF StoreFails, Ends
<1>2. LaneIs(Resting)
  BY RestingIs DEF LaneIs
<1> QED
  BY <1>1, <1>2, OneLaneMoves, KeepsKnown, StoredSame, CacheSame

\* A new process keeps what is stored, and nothing else.
LEMMA RestartKeeps ==
  ASSUME EmbeddingInv, Restart
  PROVE  EmbeddingInv'
<1>1. /\ UNCHANGED <<cacheBytes, pieces, stored>> /\ received' = {}
      /\ cache' = [order |-> <<>>, size |-> 0]
      /\ embedder' = [l \in Embedders |-> Resting]
  BY DEF Restart
<1>2. /\ Everything' = Everything /\ LaneStates' = LaneStates
      /\ \A d : AllOf(d)' = AllOf(d)
  BY <1>1, Settings DEF LaneStates
<1>3. CacheIs(cache)'
  <2>1. CacheIs(cache')
    BY <1>1, NothingCached DEF EmbeddingInv
  <2> QED
    BY <1>1, <1>2, <2>1 DEF CacheIs
<1>4. (embedder \in [Embedders -> LaneStates])' /\ \A l \in Embedders : LaneIs(embedder[l])'
  BY <1>1, <1>2, RestingIs DEF LaneIs
<1>5. \A d \in Papers : (stored[d] \in {{}, AllOf(d)})'
  BY <1>1, <1>2 DEF EmbeddingInv
<1> QED
  BY <1>1, <1>2, <1>3, <1>4, <1>5 DEF EmbeddingInv, NoneLost

\* What a lane has still to send.
LEMMA TodoIs ==
  ASSUME EmbeddingInv, NEW l \in Embedders, embedder[l].at # "idle"
  PROVE  /\ Todo(l) \in Seq(Texts) /\ Len(Todo(l)) = Len(embedder[l].todo)
         /\ \A i \in 1..Len(embedder[l].todo) :
               Todo(l)[i] = pieces[embedder[l].doc][embedder[l].todo[i]]
         /\ Todo(l) = <<>> <=> embedder[l].todo = <<>>
<1> DEFINE e == embedder[l]
           P == pieces[e.doc]
           f == [i \in DOMAIN e.todo |-> P[e.todo[i]]]
<1>1. /\ Len(e.todo) \in Nat /\ DOMAIN e.todo = 1..Len(e.todo)
      /\ \A j \in DOMAIN e.todo : e.todo[j] \in DOMAIN P
      /\ \A i \in DOMAIN P : P[i] \in Texts
      /\ e.todo \in Seq(DOMAIN P)
  BY Working DEF Busy
<1>2. Todo(l) = f
  BY DEF Todo, PiecesOf
<1>3. f \in [1..Len(e.todo) -> Texts]
  BY <1>1
<1>4. \A i \in 1..Len(e.todo) : f[i] = P[e.todo[i]]
  BY <1>1
<1> HIDE DEF f
<1>5. f \in Seq(Texts) /\ Len(f) = Len(e.todo)
  BY <1>1, <1>3
<1>6. f = <<>> <=> e.todo = <<>>
  BY <1>1, <1>5, EmptySeq
<1> QED
  BY <1>2, <1>4, <1>5, <1>6
LEMMA AnswerKeeps ==
  ASSUME EmbeddingInv, NEW l \in Embedders, Answer(l)
  PROVE  EmbeddingInv'
<1> DEFINE e == embedder[l]
           P == pieces[e.doc]
           batch == Batch(l)
           ratio == Observed(e.ratio, Chars(batch), Tokens(batch))
           new == [e EXCEPT !.at = "keep", !.next = 1, !.count = Len(batch), !.ratio = ratio]
<1>1. /\ e.at = "batch" /\ Todo(l) # <<>> /\ UNCHANGED <<cacheBytes, pieces, cache, stored>>
      /\ SetEmbedder(l, new) /\ received' = received \union ToSet(batch)
  <2>1. PICK b \in {Batch(l)} :
           /\ SetEmbedder(l, [embedder[l] EXCEPT !.at = "keep", !.next = 1, !.count = Len(b),
                 !.ratio = Observed(@, Chars(b), Tokens(b))])
           /\ received' = received \union ToSet(b)
    BY DEF Answer
  <2>2. e \in LaneStates
    BY DEF EmbeddingInv
  <2>3. b = batch
    OBVIOUS
  <2> HIDE DEF e, batch
  <2>4. [e EXCEPT !.at = "keep", !.next = 1, !.count = Len(b),
           !.ratio = Observed(@, Chars(b), Tokens(b))] = new
    BY <2>2, <2>3 DEF LaneStates
  <2> QED
    BY <2>1, <2>3, <2>4 DEF Answer, e
<1>2. /\ e \in LaneStates /\ Busy(e) /\ e.doc \in Papers
      /\ P \in Seq(Texts) /\ Len(P) \in Nat /\ DOMAIN P = 1..Len(P)
      /\ \A i \in DOMAIN P : P[i] \in Everything /\ P[i] \in Texts
      /\ Len(e.todo) \in Nat /\ DOMAIN e.todo = 1..Len(e.todo)
      /\ \A j \in DOMAIN e.todo : e.todo[j] \in DOMAIN P
  BY <1>1, Working
<1>3. /\ Todo(l) \in Seq(Texts) /\ Len(Todo(l)) = Len(e.todo)
      /\ \A i \in 1..Len(e.todo) : Todo(l)[i] = P[e.todo[i]]
  BY <1>1, TodoIs
<1>4. PICK n \in 1..Len(e.todo) :
         /\ batch \in Seq(Texts) /\ Len(batch) = n
         /\ \A i \in 1..n : batch[i] = Todo(l)[i]
  BY <1>1, <1>3, BatchIs DEF Batch
<1>5. n \in Nat /\ 1 <= n /\ n <= Len(e.todo) /\ DOMAIN batch = 1..n
  BY <1>2, <1>4, LenProperties
<1> HIDE DEF e, batch
<1>6. ratio \in Ratios
  <2>1. Chars(batch) \in Nat
    BY <1>4, CountIs DEF Chars
  <2>2. Tokens(batch) \in Nat
    <3>1. Count(batch, {"d"}) \in Nat
      BY <1>4, CountIs
    <3> QED
      BY <2>1, <3>1 DEF Tokens
  <2>3. e.ratio \in Ratios
    BY <1>2 DEF LaneStates
  <2> QED
    BY <2>1, <2>2, <2>3, ObservedIs
<1> HIDE DEF ratio
<1>7. /\ new \in LaneStates /\ new.at = "keep" /\ new.doc = e.doc /\ new.have = e.have
      /\ new.todo = e.todo /\ new.next = 1 /\ new.count = n
  BY <1>2, <1>4, <1>5, <1>6 DEF LaneStates
<1> HIDE DEF new
<1>8. ASSUME NEW i \in DOMAIN P PROVE Accounted(new, i)
  <2>1. Accounted(e, i)
    BY <1>1, <1>2 DEF Busy
  <2>2. CASE <<i, P[i]>> \in e.have
    BY <1>7, <2>2 DEF Accounted
  <2>3. CASE \E j \in DOMAIN e.todo : e.todo[j] = i
    <3>1. PICK j \in DOMAIN e.todo : e.todo[j] = i
      BY <2>3
    <3>2. 1 <= j
      BY <1>2, <3>1
    <3> QED
      BY <1>7, <3>1, <3>2 DEF Accounted
  <2> QED
    BY <2>1, <2>2, <2>3 DEF Accounted
<1>9. LaneIs(new)
  <2>1. /\ new.at # "idle" /\ new.at # "look" /\ new.doc \in Papers
        /\ new.todo \in Seq(DOMAIN P) /\ new.have \subseteq AllOf(new.doc)
    BY <1>2, <1>7 DEF Busy
  <2>2. 1 <= new.next /\ new.next <= new.count /\ new.count <= Len(new.todo)
    BY <1>5, <1>7
  <2>3. Busy(new)
    BY <1>7, <1>8, <2>1, <2>2 DEF Busy
  <2> QED
    BY <1>7, <2>3 DEF LaneIs
<1>10. ASSUME NEW t \in ToSet(batch) PROVE t \in Everything /\ Keeps(new, t)
  <2>1. PICK i \in 1..n : batch[i] = t
    BY <1>5 DEF ToSet
  <2>2. i \in DOMAIN e.todo /\ i <= n /\ 1 <= i /\ t = P[e.todo[i]]
    BY <1>2, <1>3, <1>4, <1>5, <2>1
  <2> QED
    BY <1>2, <1>7, <2>2 DEF Keeps
<1>11. received' \subseteq Everything
  BY <1>1, <1>10 DEF EmbeddingInv
<1>12. ASSUME Fits, NEW t \in received'
       PROVE  \/ t \in ToSet(cache'.order) \/ Keeps(new, t)
              \/ \E k \in Embedders : k # l /\ Keeps(embedder[k], t)
  <2>1. CASE t \in ToSet(batch)
    BY <1>10, <2>1
  <2>2. CASE t \in received
    <3>1. t \in Cached \/ \E k \in Embedders : Keeps(embedder[k], t)
      BY <1>12, <2>2 DEF EmbeddingInv, NoneLost
    <3>2. ~Keeps(embedder[l], t)
      BY <1>1 DEF Keeps, e
    <3> QED
      BY <1>1, <3>1, <3>2 DEF Cached
  <2> QED
    BY <1>1, <2>1, <2>2
<1> QED
  BY <1>1, <1>9, <1>11, <1>12, OneLaneMoves, StoredSame, CacheSame

LEMMA KeepKeeps ==
  ASSUME EmbeddingInv, NEW l \in Embedders, Keep(l)
  PROVE  EmbeddingInv'
<1> DEFINE e == embedder[l]
           P == pieces[e.doc]
           i == e.todo[e.next]
           t == P[i]
           kept == [e EXCEPT !.have = @ \union {<<i, t>>}, !.next = @ + 1]
           rest == SubSeq(e.todo, e.count + 1, Len(e.todo))
           done == [kept EXCEPT !.at = "batch", !.next = 1, !.count = 0,
                                !.todo = SubSeq(@, e.count + 1, Len(@))]
           new == IF e.next < e.count THEN kept ELSE done
<1>1. /\ e.at = "keep" /\ UNCHANGED <<cacheBytes, pieces, stored, received>>
      /\ cache' = Put(t) /\ SetEmbedder(l, new)
  BY Zenon DEF Keep
<1> HIDE DEF i, t, kept, rest, done, new
<1>2. /\ e \in LaneStates /\ Busy(e) /\ e.doc \in Papers
      /\ P \in Seq(Texts) /\ Len(P) \in Nat /\ DOMAIN P = 1..Len(P)
      /\ \A j \in DOMAIN P : P[j] \in Everything /\ P[j] \in Texts
      /\ Len(e.todo) \in Nat /\ DOMAIN e.todo = 1..Len(e.todo)
      /\ \A j \in DOMAIN e.todo : e.todo[j] \in DOMAIN P
  BY <1>1, Working
<1> HIDE DEF e
<1>3. /\ e.next \in Nat /\ e.count \in Nat /\ 1 <= e.next /\ e.next <= e.count /\ e.count <= Len(e.todo)
      /\ e.have \subseteq AllOf(e.doc) /\ e.todo \in Seq(DOMAIN P)
      /\ \A k \in DOMAIN P : Accounted(e, k)
  BY <1>1, <1>2 DEF Busy, LaneStates
<1>4. e.next \in DOMAIN e.todo /\ i \in DOMAIN P /\ t \in Everything
  BY <1>2, <1>3 DEF i, t
<1>5. <<i, t>> \in AllOf(e.doc) /\ <<i, t>> \in Nat \X Everything
  BY <1>2, <1>4 DEF AllOf, t
<1>6. /\ kept \in LaneStates /\ kept.at = "keep" /\ kept.doc = e.doc
      /\ kept.have = e.have \union {<<i, t>>} /\ kept.todo = e.todo
      /\ kept.next = e.next + 1 /\ kept.count = e.count
  <2> DEFINE have == e.have \union {<<i, t>>}
             next == e.next + 1
  <2>1. have \in SUBSET (Nat \X Everything) /\ next \in Nat
    BY <1>2, <1>3, <1>5 DEF LaneStates
  <2>2. kept = [e EXCEPT !.have = have, !.next = next]
    BY <1>2 DEF LaneStates, kept
  <2> HIDE DEF have, next
  <2>3. /\ kept \in LaneStates /\ kept.at = e.at /\ kept.doc = e.doc /\ kept.have = have
        /\ kept.todo = e.todo /\ kept.next = next /\ kept.count = e.count
    BY <1>2, <2>1, <2>2 DEF LaneStates
  <2> QED
    BY <1>1, <2>3 DEF have, next
<1>7. /\ rest \in Seq(DOMAIN P) /\ rest \in Seq(Nat) /\ Len(rest) = Len(e.todo) - e.count
      /\ DOMAIN rest = 1..(Len(e.todo) - e.count)
      /\ \A j \in 1..(Len(e.todo) - e.count) : rest[j] = e.todo[e.count + j]
  <2> DEFINE D == DOMAIN P
             a == e.count + 1
             n == Len(e.todo)
  <2>1. /\ a \in Nat /\ n \in Nat /\ 1 <= a /\ a <= n + 1 /\ n <= Len(e.todo)
        /\ (n - a) + 1 = n - e.count /\ e.todo \in Seq(D)
    BY <1>2, <1>3
  <2> HIDE DEF D, a, n
  <2>2. /\ SubSeq(e.todo, a, n) \in Seq(D) /\ Len(SubSeq(e.todo, a, n)) = (n - a) + 1
        /\ \A j \in 1..((n - a) + 1) : SubSeq(e.todo, a, n)[j] = e.todo[(a + j) - 1]
    BY <2>1, SliceIs
  <2>3. rest = SubSeq(e.todo, a, n)
    BY DEF a, n, rest
  <2>4. /\ rest \in Seq(D) /\ Len(rest) = n - e.count
        /\ \A j \in 1..(n - e.count) : rest[j] = e.todo[(a + j) - 1]
    BY <2>1, <2>2, <2>3
  <2>5. \A j \in 1..(n - e.count) : (a + j) - 1 = e.count + j
    BY <1>3, <2>1 DEF a
  <2>6. \A j \in 1..(n - e.count) : rest[j] = e.todo[e.count + j]
    BY <2>4, <2>5
  <2>7. D \in SUBSET Nat
    BY <1>2 DEF D
  <2>8. rest \in Seq(Nat)
    BY <2>4, <2>7, SeqMonotonic
  <2>9. DOMAIN rest = 1..(n - e.count)
    BY <2>4, LenProperties
  <2> QED
    BY <2>4, <2>6, <2>8, <2>9 DEF D, n
<1>8. /\ done \in LaneStates /\ done.at = "batch" /\ done.doc = e.doc
      /\ done.have = e.have \union {<<i, t>>} /\ done.todo = rest /\ done.next = 1
  <2>1. done = [kept EXCEPT !.at = "batch", !.next = 1, !.count = 0, !.todo = rest]
    BY <1>6 DEF LaneStates, done, rest
  <2> QED
    BY <1>6, <1>7, <2>1 DEF LaneStates
\* Of what was to be kept, one piece is.
<1>9. ASSUME NEW k \in DOMAIN P
      PROVE  \/ <<k, P[k]>> \in e.have \union {<<i, t>>}
             \/ \E j \in DOMAIN e.todo : e.todo[j] = k /\ e.next + 1 <= j
  <2>1. CASE <<k, P[k]>> \in e.have
    BY <2>1
  <2>2. CASE \E j \in DOMAIN e.todo : e.todo[j] = k /\ e.next <= j
    <3>1. PICK j \in DOMAIN e.todo : e.todo[j] = k /\ e.next <= j
      BY <2>2
    <3>2. j = e.next \/ e.next + 1 <= j
      BY <1>2, <1>3, <3>1
    <3> QED
      BY <3>1, <3>2 DEF i, t
  <2> QED
    BY <1>1, <1>3, <2>1, <2>2 DEF Accounted
<1>10. ASSUME e.next < e.count PROVE LaneIs(kept)
  <2>1. \A k \in DOMAIN P : Accounted(kept, k)
    BY <1>6, <1>9 DEF Accounted
  <2>2. /\ kept.at # "idle" /\ kept.at # "look" /\ kept.doc \in Papers
        /\ kept.todo \in Seq(DOMAIN P) /\ kept.have \subseteq AllOf(kept.doc)
    BY <1>2, <1>3, <1>5, <1>6
  <2>3. 1 <= kept.next /\ kept.next <= kept.count /\ kept.count <= Len(kept.todo)
    BY <1>3, <1>6, <1>10
  <2>4. Busy(kept)
    BY <1>6, <2>1, <2>2, <2>3 DEF Busy
  <2> QED
    BY <1>6, <2>4 DEF LaneIs
<1>11. ASSUME ~(e.next < e.count) PROVE LaneIs(done)
  <2>1. ASSUME NEW k \in DOMAIN P PROVE Accounted(done, k)
    <3>1. CASE <<k, P[k]>> \in e.have \union {<<i, t>>}
      BY <1>8, <3>1 DEF Accounted
    <3>2. CASE \E j \in DOMAIN e.todo : e.todo[j] = k /\ e.next + 1 <= j
      <4>1. PICK j \in DOMAIN e.todo : e.todo[j] = k /\ e.next + 1 <= j
        BY <3>2
      <4>2. /\ j - e.count \in 1..(Len(e.todo) - e.count) /\ e.count + (j - e.count) = j
        <5> DEFINE c == e.count
                   n == Len(e.todo)
        <5>1. c \in Nat /\ n \in Nat /\ j \in 1..n /\ c + 1 <= j
          BY <1>2, <1>3, <1>11, <4>1
        <5> HIDE DEF c, n
        <5>2. j - c \in 1..(n - c) /\ c + (j - c) = j
          BY <5>1
        <5> QED
          BY <5>2 DEF c, n
      <4>3. j - e.count \in DOMAIN rest /\ rest[j - e.count] = k
        BY <1>7, <4>1, <4>2
      <4> QED
        BY <1>8, <4>3 DEF Accounted
    <3> QED
      BY <1>9, <3>1, <3>2
  <2>2. /\ done.at # "idle" /\ done.at # "look" /\ done.at # "keep" /\ done.doc \in Papers
        /\ done.todo \in Seq(DOMAIN P) /\ done.have \subseteq AllOf(done.doc)
    BY <1>2, <1>3, <1>5, <1>7, <1>8
  <2>4. Busy(done)
    BY <1>8, <2>1, <2>2 DEF Busy
  <2> QED
    BY <1>8, <2>4 DEF LaneIs
<1>12. LaneIs(new)
  BY <1>10, <1>11 DEF new
<1>13. CacheIs(cache') /\ (Fits => Cached \union {t} \subseteq ToSet(cache'.order))
  BY <1>1, <1>4, PutIs DEF EmbeddingInv
<1>14. ASSUME Fits, NEW x \in received'
       PROVE  \/ x \in ToSet(cache'.order) \/ Keeps(new, x)
              \/ \E k \in Embedders : k # l /\ Keeps(embedder[k], x)
  <2>1. x \in Cached \/ \E k \in Embedders : Keeps(embedder[k], x)
    BY <1>1, <1>14 DEF EmbeddingInv, NoneLost
  <2>2. CASE x \in Cached
    BY <1>13, <1>14, <2>2
  <2>3. CASE Keeps(e, x)
    <3>1. PICK j \in DOMAIN e.todo : e.next <= j /\ j <= e.count /\ P[e.todo[j]] = x
      BY <2>3 DEF Keeps
    <3>2. CASE j = e.next
      BY <1>13, <1>14, <3>1, <3>2 DEF i, t
    <3>3. CASE j # e.next
      <4>1. e.next < e.count /\ e.next + 1 <= j
        BY <1>2, <1>3, <3>1, <3>3
      <4>2. new = kept
        BY <4>1 DEF new
      <4>3. Keeps(kept, x)
        BY <1>6, <3>1, <4>1 DEF Keeps
      <4> QED
        BY <4>2, <4>3
    <3> QED
      BY <3>2, <3>3
  <2>4. CASE \E k \in Embedders : k # l /\ Keeps(embedder[k], x)
    BY <2>4
  <2> QED
    BY <2>1, <2>2, <2>3, <2>4 DEF e
<1>15. received' \subseteq Everything
  BY <1>1 DEF EmbeddingInv
<1> QED
  BY <1>1, <1>12, <1>13, <1>14, <1>15, OneLaneMoves, StoredSame

LEMMA HandOverKeeps ==
  ASSUME EmbeddingInv, NEW l \in Embedders, HandOver(l)
  PROVE  EmbeddingInv'
<1> DEFINE e == embedder[l]
           P == pieces[e.doc]
<1>1. /\ e.at = "batch" /\ Todo(l) = <<>> /\ SetEmbedder(l, Resting)
      /\ stored' = [stored EXCEPT ![e.doc] = e.have]
      /\ UNCHANGED <<cacheBytes, pieces, cache, received>>
  BY DEF HandOver
<1>2. /\ e \in LaneStates /\ Busy(e) /\ e.doc \in Papers
  BY <1>1, Working
<1>3. e.todo = <<>>
  BY <1>1, TodoIs
<1>4. LaneIs(Resting)
  BY RestingIs DEF LaneIs
<1>5. embedder[l].at # "keep"
  BY <1>1
<1> HIDE DEF e
<1>6. e.have = AllOf(e.doc)
  <2>1. e.have \subseteq AllOf(e.doc) /\ \A i \in DOMAIN P : Accounted(e, i)
    BY <1>1, <1>2 DEF Busy
  <2>2. DOMAIN e.todo = {}
    BY <1>3
  <2>3. \A i \in DOMAIN P : <<i, P[i]>> \in e.have
    BY <2>1, <2>2 DEF Accounted
  <2> QED
    BY <2>1, <2>3 DEF AllOf
<1>7. /\ stored' \in [Papers -> SUBSET (Nat \X Everything)]
      /\ \A d \in Papers : stored'[d] \in {{}, AllOf(d)}
  <2>1. e.have \in SUBSET (Nat \X Everything)
    BY <1>2 DEF LaneStates
  <2>2. /\ stored \in [Papers -> SUBSET (Nat \X Everything)]
        /\ \A d \in Papers : stored[d] \in {{}, AllOf(d)}
    BY DEF EmbeddingInv
  <2> QED
    BY <1>1, <1>2, <1>6, <2>1, <2>2
<1> QED
  BY <1>1, <1>4, <1>5, <1>7, OneLaneMoves, KeepsKnown, CacheSame

\* The inductive invariant of the embed lanes and the cache that they share.
THEOREM EmbeddingInductive == EmbeddingSpec => []EmbeddingInv
<1>1. EmbeddingInit => EmbeddingInv
  BY EmbeddingInitially
<1>2. EmbeddingInv /\ [EmbeddingNext]_embeddingVars => EmbeddingInv'
  <2> SUFFICES ASSUME EmbeddingInv, [EmbeddingNext]_embeddingVars PROVE EmbeddingInv'
    OBVIOUS
  <2>1. ASSUME NEW l \in Embedders, EmbedderStep(l) PROVE EmbeddingInv'
    <3>1. CASE LookUp(l)
      BY <3>1, LookUpKeeps
    <3>2. CASE Answer(l)
      BY <3>2, AnswerKeeps
    <3>3. CASE Keep(l)
      BY <3>3, KeepKeeps
    <3>4. CASE HandOver(l)
      BY <3>4, HandOverKeeps
    <3>5. CASE \E d \in Papers : Load(l, d)
      BY <3>5, LoadKeeps
    <3>6. CASE Abandon(l)
      BY <3>6, AbandonKeeps
    <3>7. CASE StoreFails(l)
      BY <3>7, StoreFailsKeeps
    <3> QED
      BY <2>1, <3>1, <3>2, <3>3, <3>4, <3>5, <3>6, <3>7 DEF EmbedderStep
  <2>2. CASE UNCHANGED embeddingVars
    <3>1. UNCHANGED <<cacheBytes, pieces, cache, embedder, stored, received>>
      BY <2>2 DEF embeddingVars
    <3>2. /\ Everything' = Everything /\ (Fits' <=> Fits) /\ Cached' = Cached
          /\ LaneStates' = LaneStates /\ CacheIs(cache)'
          /\ \A d : AllOf(d)' = AllOf(d)
      BY <3>1, Settings DEF Cached, LaneStates, EmbeddingInv, CacheIs
    <3>3. \A l \in Embedders : LaneIs(embedder[l])'
      BY <3>1, <3>2 DEF LaneIs, Busy, Accounted, EmbeddingInv
    <3>4. NoneLost'
      BY <3>1, <3>2 DEF NoneLost, Keeps, EmbeddingInv
    <3> QED
      BY <3>1, <3>2, <3>3, <3>4 DEF EmbeddingInv
  <2>3. CASE Restart
    BY <2>3, RestartKeeps
  <2> QED
    BY <2>1, <2>2, <2>3 DEF EmbeddingNext
<1> QED
  BY <1>1, <1>2, PTL DEF EmbeddingSpec

\* What the invariant says of the cache and of the lanes.
LEMMA InvIsSound == EmbeddingInv => EmbeddingSound
<1> SUFFICES ASSUME EmbeddingInv PROVE EmbeddingSound
  OBVIOUS
<1>1. ASSUME NEW l \in Embedders, embedder[l].at = "batch" /\ Len(Todo(l)) > 1 /\ Len(Batch(l)) > 1
      PROVE  /\ Len(Batch(l)) <= MaxBatchChunks
             /\ ~Exceeds(Batch(l), CharsPerToken)
             /\ embedder[l].ratio = Densest => Tokens(Batch(l)) <= MaxBatchTokens
  <2>1. embedder[l].at # "idle"
    BY <1>1
  <2>2. Todo(l) \in Seq(Texts) /\ embedder[l].ratio \in Ratios
    BY <2>1, TodoIs, Working DEF LaneStates
  <2>3. Todo(l) # <<>>
    BY <1>1
  <2>4. PICK n \in 1..Len(Todo(l)) :
           /\ Batch(l) \in Seq(Texts) /\ Len(Batch(l)) = n
           /\ n > 1 => n <= MaxBatchChunks /\ ~Exceeds(Batch(l), embedder[l].ratio)
    BY <2>2, <2>3, BatchIs DEF Batch
  <2> QED
    BY <1>1, <2>2, <2>4, BatchLimits
<1>2. ASSUME Fits, NEW t \in received
      PROVE  \/ t \in Cached
             \/ \E l \in Embedders : embedder[l].at = "keep" /\ t \in ToSet(Todo(l))
  <2>1. t \in Cached \/ \E l \in Embedders : Keeps(embedder[l], t)
    BY <1>2 DEF EmbeddingInv, NoneLost
  <2>2. ASSUME NEW l \in Embedders, Keeps(embedder[l], t)
        PROVE  embedder[l].at = "keep" /\ t \in ToSet(Todo(l))
    <3>1. embedder[l].at = "keep" /\ embedder[l].at # "idle"
      BY <2>2 DEF Keeps
    <3>2. PICK j \in DOMAIN embedder[l].todo : pieces[embedder[l].doc][embedder[l].todo[j]] = t
      BY <2>2 DEF Keeps
    <3>3. DOMAIN embedder[l].todo = 1..Len(embedder[l].todo)
      BY <3>1, Working
    <3>4. j \in DOMAIN Todo(l) /\ Todo(l)[j] = t
      BY <3>1, <3>2, <3>3, TodoIs, LenProperties
    <3> QED
      BY <3>1, <3>4 DEF ToSet
  <2> QED
    BY <2>1, <2>2
<1>3. SplitsSound
  BY SamplesSplitSoundly
<1>4. \A d \in Papers : stored[d] \in {{}, {<<i, pieces[d][i]>> : i \in DOMAIN pieces[d]}}
  BY DEF EmbeddingInv, AllOf
<1> QED
  BY <1>1, <1>2, <1>3, <1>4 DEF EmbeddingSound, EmbeddingInv, CacheIs

\* However many papers, lanes and batches there are: the shared cache never holds more
\* than it may, keeps what was received while everything fits, a document is stored
\* whole with its own vectors, and every sample text splits soundly (vector_cache.go;
\* embed_worker.go, Handle; chunker.go).
THEOREM EmbeddingAlwaysSound == EmbeddingSpec => []EmbeddingSound
BY EmbeddingInductive, InvIsSound, PTL

-----------------------------------------------------------------------------
(* Attempts that add up.                                                   *)

\* The piece i was answered for and is on its way into the cache.
Keeping(e, i) ==
    /\ e.at = "keep"
    /\ \E j \in DOMAIN e.todo : e.todo[j] = i /\ e.next <= j /\ j <= e.count

\* A lane at work asks for each piece once, for none it has not looked up, and for
\* none of those in `had', which were answered for, but the ones it now keeps.
AsksAnew(e, had) ==
    /\ pieces[e.doc] # <<>>
    /\ \A i, j \in DOMAIN e.todo : e.todo[i] = e.todo[j] => i = j
    /\ e.at = "look" => \A j \in DOMAIN e.todo : e.todo[j] < e.next
    /\ \A j \in DOMAIN e.todo : e.todo[j] \in had => e.at = "keep" /\ j <= e.count

AtWork(e, d) == e.at # "idle" /\ e.doc = d
SomeMissing(d) == ended[d] = "answers" => stored[d] # {} \/ got[d] # DOMAIN pieces[d]

AddInv ==
    /\ got \in [Papers -> SUBSET Nat] /\ ended \in [Papers -> {"nothing", "answers", "commit"}]
    /\ \A l, k \in Embedders : AtWork(embedder[l], embedder[k].doc) /\ embedder[k].at # "idle" => l = k
    /\ Fits =>
          /\ \A l \in Embedders : embedder[l].at # "idle" => AsksAnew(embedder[l], got[embedder[l].doc])
          /\ \A d \in Papers : \A i \in got[d] :
                /\ i \in DOMAIN pieces[d]
                /\ pieces[d][i] \in Cached \/ \E l \in Embedders : embedder[l].doc = d /\ Keeping(embedder[l], i)
          /\ \A d \in Papers : SomeMissing(d) \/ \E l \in Embedders : AtWork(embedder[l], d)

\* A lane moves that is the only one at work on d.
LEMMA OneAttemptMoves ==
  ASSUME EmbeddingInv, AddInv, UNCHANGED <<cacheBytes, pieces>>,
         NEW l \in Embedders, NEW d \in Papers, NEW e,
         SetEmbedder(l, e), e = Resting \/ AtWork(e, d),
         embedder[l].at = "idle" \/ embedder[l].doc = d,
         \A k \in Embedders : k # l => ~AtWork(embedder[k], d),
         got' \in [Papers -> SUBSET Nat], ended' \in [Papers -> {"nothing", "answers", "commit"}],
         \A c \in Papers : c # d => got'[c] = got[c] /\ ended'[c] = ended[c] /\ stored'[c] = stored[c],
         Fits => Cached \subseteq ToSet(cache'.order),
         Fits /\ e # Resting => AsksAnew(e, got'[d]),
         Fits => \A i \in got'[d] :
                    i \in DOMAIN pieces[d] /\ (pieces[d][i] \in ToSet(cache'.order) \/ (Keeping(e, i) /\ e # Resting)),
         Fits /\ e = Resting /\ ended'[d] = "answers" => stored'[d] # {} \/ got'[d] # DOMAIN pieces[d]
  PROVE  AddInv'
<1>1. /\ embedder \in [Embedders -> LaneStates]
      /\ embedder'[l] = e /\ \A k \in Embedders : k # l => embedder'[k] = embedder[k]
  BY Zenon DEF EmbeddingInv, SetEmbedder
<1>2. Resting.at = "idle"
  BY DEF Resting
<1>3. pieces' = pieces /\ (Fits' <=> Fits) /\ Cached' = ToSet(cache'.order)
  BY DEF Fits, Everything, Cached
<1>4. \A k, m \in Embedders :
         AtWork(embedder'[k], embedder'[m].doc) /\ embedder'[m].at # "idle" => k = m
  <2> SUFFICES ASSUME NEW k \in Embedders, NEW m \in Embedders, k # m,
                      AtWork(embedder'[k], embedder'[m].doc), embedder'[m].at # "idle"
               PROVE  FALSE
    OBVIOUS
  <2>1. CASE k = l
    <3>1. AtWork(embedder[m], d)
      BY <1>1, <1>2, <2>1 DEF AtWork
    <3> QED
      BY <2>1, <3>1
  <2>2. CASE m = l
    <3>1. AtWork(embedder[k], d)
      BY <1>1, <1>2, <2>2 DEF AtWork
    <3> QED
      BY <2>2, <3>1
  <2>3. CASE k # l /\ m # l
    BY <1>1, <2>3 DEF AddInv
  <2> QED
    BY <2>1, <2>2, <2>3
<1>5. ASSUME Fits, NEW k \in Embedders, embedder'[k].at # "idle"
      PROVE  AsksAnew(embedder'[k], got'[embedder'[k].doc])
  <2>1. CASE k = l
    BY <1>1, <1>2, <1>5, <2>1 DEF AtWork
  <2>2. CASE k # l
    <3>1. embedder'[k] = embedder[k] /\ AsksAnew(embedder[k], got[embedder[k].doc])
      BY <1>1, <1>5, <2>2 DEF AddInv
    <3>2. embedder[k].doc \in Papers /\ embedder[k].doc # d
      BY <1>5, <2>2, <3>1, Working DEF AtWork
    <3> QED
      BY <3>1, <3>2
  <2> QED
    BY <2>1, <2>2
<1>6. ASSUME Fits, NEW c \in Papers, NEW i \in got'[c]
      PROVE  /\ i \in DOMAIN pieces[c]
             /\ \/ pieces[c][i] \in ToSet(cache'.order)
                \/ \E k \in Embedders : embedder'[k].doc = c /\ Keeping(embedder'[k], i)
  <2>1. CASE c = d
    BY <1>1, <1>6, <2>1 DEF AtWork
  <2>2. CASE c # d
    <3>1. /\ i \in DOMAIN pieces[c]
          /\ pieces[c][i] \in Cached \/ \E k \in Embedders : embedder[k].doc = c /\ Keeping(embedder[k], i)
      BY <1>6, <2>2 DEF AddInv
    <3>2. CASE pieces[c][i] \in Cached
      BY <1>6, <3>1, <3>2
    <3>3. CASE \E k \in Embedders : embedder[k].doc = c /\ Keeping(embedder[k], i)
      <4>1. PICK k \in Embedders : embedder[k].doc = c /\ Keeping(embedder[k], i)
        BY <3>3
      <4>2. k # l
        BY <2>2, <4>1 DEF Keeping
      <4> QED
        BY <1>1, <3>1, <4>1, <4>2
    <3> QED
      BY <3>1, <3>2, <3>3
  <2> QED
    BY <2>1, <2>2
<1>7. ASSUME Fits, NEW c \in Papers
      PROVE  \/ ended'[c] = "answers" => stored'[c] # {} \/ got'[c] # DOMAIN pieces[c]
             \/ \E k \in Embedders : AtWork(embedder'[k], c)
  <2>1. CASE c = d
    BY <1>1, <1>7, <2>1
  <2>2. CASE c # d
    <3>1. CASE SomeMissing(c)
      BY <2>2, <3>1 DEF SomeMissing
    <3>2. CASE \E k \in Embedders : AtWork(embedder[k], c)
      <4>1. PICK k \in Embedders : AtWork(embedder[k], c)
        BY <3>2
      <4>2. k # l
        BY <2>2, <4>1 DEF AtWork
      <4> QED
        BY <1>1, <4>1, <4>2
    <3> QED
      BY <1>7, <3>1, <3>2 DEF AddInv
  <2> QED
    BY <2>1, <2>2
<1> QED
  <2>1. (\A k, m \in Embedders :
            AtWork(embedder[k], embedder[m].doc) /\ embedder[m].at # "idle" => k = m)'
    BY <1>4 DEF AtWork
  <2>2. ASSUME Fits PROVE (\A k \in Embedders : embedder[k].at # "idle" =>
                              AsksAnew(embedder[k], got[embedder[k].doc]))'
    BY <1>3, <1>5, <2>2 DEF AsksAnew
  <2>3. ASSUME Fits
        PROVE (\A c \in Papers : \A i \in got[c] :
                 /\ i \in DOMAIN pieces[c]
                 /\ \/ pieces[c][i] \in Cached
                    \/ \E k \in Embedders : embedder[k].doc = c /\ Keeping(embedder[k], i))'
    BY <1>3, <1>6, <2>3 DEF Keeping
  <2>4. ASSUME Fits
        PROVE (\A c \in Papers : SomeMissing(c) \/ \E k \in Embedders : AtWork(embedder[k], c))'
    BY <1>3, <1>7, <2>4 DEF AtWork, SomeMissing
  <2> QED
    BY <1>3, <2>1, <2>2, <2>3, <2>4, Zenon DEF AddInv

\* The lane is the only one at work on its document.
LEMMA Alone ==
  ASSUME EmbeddingInv, AddInv, NEW l \in Embedders, embedder[l].at # "idle"
  PROVE  /\ embedder[l].doc \in Papers
         /\ \A k \in Embedders : k # l => ~AtWork(embedder[k], embedder[l].doc)
         /\ Fits => AsksAnew(embedder[l], got[embedder[l].doc])
<1>1. embedder[l].doc \in Papers
  BY Working
<1> QED
  BY <1>1 DEF AddInv

\* What was answered for is cached, but what its lane now keeps.
LEMMA InTheCache ==
  ASSUME EmbeddingInv, AddInv, Fits, NEW d \in Papers, NEW i, i \in got[d], NEW l \in Embedders,
         \A k \in Embedders : k # l => ~AtWork(embedder[k], d)
  PROVE  /\ i \in DOMAIN pieces[d]
         /\ pieces[d][i] \in Cached \/ (AtWork(embedder[l], d) /\ Keeping(embedder[l], i))
<1>1. /\ i \in DOMAIN pieces[d]
      /\ pieces[d][i] \in Cached \/ \E k \in Embedders : embedder[k].doc = d /\ Keeping(embedder[k], i)
  BY DEF AddInv
<1>2. ASSUME NEW k \in Embedders, embedder[k].doc = d, Keeping(embedder[k], i)
      PROVE  k = l /\ AtWork(embedder[l], d) /\ Keeping(embedder[l], i)
  <2>1. AtWork(embedder[k], d)
    BY <1>2 DEF AtWork, Keeping
  <2>2. k = l
    BY <2>1
  <2> QED
    BY <1>2, <2>1, <2>2
<1> QED
  BY <1>1, <1>2

LEMMA LoadAdds ==
  ASSUME EmbeddingInv, AddInv, NEW l \in Embedders, NEW d \in Papers, Load(l, d)
  PROVE  AddInv'
<1> DEFINE e == [Resting EXCEPT !.at = "look", !.doc = d]
<1>1. /\ embedder[l].at = "idle" /\ pieces[d] # <<>> /\ SetEmbedder(l, e)
      /\ \A k \in Embedders : ~AtWork(embedder[k], d)
      /\ UNCHANGED <<cacheBytes, pieces, cache, stored, got, ended>>
  BY DEF Load, AtWork
<1>2. e.at = "look" /\ e.doc = d /\ e.todo = <<>> /\ DOMAIN (<<>>) = {}
  BY DEF Resting
<1> HIDE DEF e
<1>3. AtWork(e, d) /\ AsksAnew(e, got[d])
  BY <1>1, <1>2 DEF AtWork, AsksAnew
<1>4. e # Resting
  BY <1>2 DEF Resting
<1>5. got \in [Papers -> SUBSET Nat] /\ ended \in [Papers -> {"nothing", "answers", "commit"}]
  BY DEF AddInv
<1>6. ASSUME Fits, NEW i \in got[d] PROVE i \in DOMAIN pieces[d] /\ pieces[d][i] \in Cached
  BY <1>1, <1>6, InTheCache
<1> QED
  BY <1>1, <1>3, <1>4, <1>5, <1>6, OneAttemptMoves, CacheSame

LEMMA LookUpAdds ==
  ASSUME EmbeddingInv, AddInv, NEW l \in Embedders, LookUp(l)
  PROVE  AddInv'
<1> DEFINE e == embedder[l]
           d == e.doc
           P == pieces[d]
           t == P[e.next]
           on == IF e.next = Len(P) THEN [e EXCEPT !.at = "batch", !.next = 1]
                 ELSE [e EXCEPT !.next = @ + 1]
           found == [on EXCEPT !.have = @ \union {<<e.next, t>>}]
           missed == [on EXCEPT !.todo = Append(@, e.next)]
<1>1. /\ e.at = "look" /\ UNCHANGED <<cacheBytes, pieces, stored, got, ended>>
      /\ \/ SetEmbedder(l, found) /\ t \in Cached /\ cache' = Used(t)
         \/ SetEmbedder(l, missed) /\ t \notin Cached /\ cache' = cache
  BY DEF LookUp
<1>2. /\ e \in LaneStates /\ Busy(e) /\ d \in Papers /\ Len(P) \in Nat /\ DOMAIN P = 1..Len(P)
      /\ Len(e.todo) \in Nat /\ DOMAIN e.todo = 1..Len(e.todo)
  BY <1>1, Working
<1>3. /\ \A k \in Embedders : k # l => ~AtWork(embedder[k], d)
      /\ Fits => AsksAnew(e, got[d])
      /\ got \in [Papers -> SUBSET Nat] /\ ended \in [Papers -> {"nothing", "answers", "commit"}]
  BY <1>1, Alone DEF AddInv
<1>4. ASSUME Fits, NEW i \in got[d] PROVE i \in DOMAIN P /\ P[i] \in Cached
  BY <1>1, <1>2, <1>3, <1>4, InTheCache DEF Keeping
<1>5. embedder[l].doc = d
  OBVIOUS
<1> HIDE DEF e, d
<1>6. e.next \in Nat /\ e.next \in DOMAIN P /\ e.todo \in Seq(DOMAIN P) /\ e.doc = d
  BY <1>1, <1>2, <1>5 DEF Busy, LaneStates, d
<1>7. /\ on.doc = d /\ on.todo = e.todo /\ on \in LaneStates
      /\ \/ on.at = "look" /\ on.next = e.next + 1
         \/ on.at = "batch"
  <2>1. CASE e.next = Len(P)
    BY <1>2, <1>6, <2>1 DEF LaneStates
  <2>2. CASE e.next # Len(P)
    <3>1. e.next + 1 \in Nat
      BY <1>6
    <3>2. on = [e EXCEPT !.next = e.next + 1]
      BY <1>2, <2>2 DEF LaneStates
    <3> HIDE DEF on
    <3>3. on.doc = d /\ on.todo = e.todo /\ on.at = e.at /\ on.next = e.next + 1 /\ on \in LaneStates
      BY <1>2, <1>6, <3>1, <3>2 DEF LaneStates
    <3> QED
      BY <1>1, <3>3
  <2> QED
    BY <2>1, <2>2
<1> HIDE DEF on
<1>8. /\ found.doc = d /\ found.todo = e.todo /\ found.at = on.at /\ found.next = on.next
      /\ missed.doc = d /\ missed.todo = Append(e.todo, e.next)
      /\ missed.at = on.at /\ missed.next = on.next
  BY <1>7 DEF LaneStates
<1> HIDE DEF found, missed, t
<1>9. ASSUME Fits PROVE AsksAnew(found, got[d])
  <2>1. \A j \in DOMAIN e.todo : e.todo[j] < e.next /\ e.todo[j] \in Nat
    BY <1>1, <1>2, <1>3, <1>6, <1>9, ElementOfSeq DEF AsksAnew
  <2>2. \A j \in DOMAIN e.todo : e.todo[j] < e.next + 1
    BY <1>6, <2>1
  <2> QED
    BY <1>1, <1>3, <1>6, <1>7, <1>8, <1>9, <2>1, <2>2 DEF AsksAnew
<1>10. ASSUME Fits, t \notin Cached PROVE AsksAnew(missed, got[d])
  <2> DEFINE more == Append(e.todo, e.next)
             n == Len(e.todo)
  <2>1. /\ \A j \in DOMAIN e.todo : e.todo[j] < e.next /\ e.todo[j] \in Nat /\ e.todo[j] \notin got[d]
        /\ \A i, j \in DOMAIN e.todo : e.todo[i] = e.todo[j] => i = j
        /\ P # <<>>
    BY <1>1, <1>2, <1>3, <1>6, <1>10, ElementOfSeq DEF AsksAnew
  <2>2. e.next \notin got[d]
    BY <1>4, <1>10 DEF t
  <2>3. /\ DOMAIN more = 1..(n + 1) /\ \A j \in 1..n : more[j] = e.todo[j]
        /\ more[n + 1] = e.next
    <3> DEFINE D == DOMAIN P
    <3>1. e.todo \in Seq(D) /\ e.next \in D
      BY <1>6
    <3> HIDE DEF D
    <3>2. /\ more \in Seq(D) /\ Len(more) = n + 1
          /\ \A j \in 1..n : more[j] = e.todo[j]
          /\ more[n + 1] = e.next
      BY <3>1, AppendProperties
    <3> QED
      BY <3>2, LenProperties
  <2> HIDE DEF more
  <2>4. \A j \in 1..(n + 1) : j \in 1..n \/ j = n + 1
    BY <1>2
  <2>5. ASSUME NEW j \in 1..(n + 1) PROVE more[j] < e.next + 1 /\ more[j] \notin got[d]
    <3>1. CASE j \in 1..n
      <4>1. more[j] = e.todo[j] /\ e.todo[j] < e.next /\ e.todo[j] \in Nat /\ e.todo[j] \notin got[d]
        BY <1>2, <2>1, <2>3, <3>1
      <4> QED
        BY <1>6, <4>1
    <3>2. CASE j = n + 1
      BY <1>6, <2>2, <2>3, <3>2
    <3> QED
      BY <2>4, <3>1, <3>2
  <2>6. \A i, j \in 1..(n + 1) : more[i] = more[j] => i = j
    <3> SUFFICES ASSUME NEW i \in 1..(n + 1), NEW j \in 1..(n + 1), more[i] = more[j] PROVE i = j
      OBVIOUS
    <3>1. CASE i \in 1..n /\ j \in 1..n
      BY <1>2, <2>1, <2>3, <3>1
    <3>2. CASE i \in 1..n /\ j = n + 1
      BY <1>2, <1>6, <2>1, <2>3, <3>2
    <3>3. CASE i = n + 1 /\ j \in 1..n
      BY <1>2, <1>6, <2>1, <2>3, <3>3
    <3> QED
      BY <2>4, <3>1, <3>2, <3>3
  <2>7. missed.todo = more /\ (missed.at = "look" => missed.next = e.next + 1)
    BY <1>7, <1>8 DEF more
  <2> HIDE DEF n
  <2> QED
    BY <1>6, <1>8, <2>1, <2>3, <2>5, <2>6, <2>7 DEF AsksAnew
<1>11. /\ AtWork(found, d) /\ AtWork(missed, d) /\ found # Resting /\ missed # Resting
  BY <1>7, <1>8 DEF AtWork, Resting
<1>12. CASE SetEmbedder(l, found) /\ t \in Cached /\ cache' = Used(t)
  <2>1. ToSet(cache'.order) = Cached
    BY <1>12, UsedIs DEF EmbeddingInv
  <2> QED
    BY <1>1, <1>2, <1>3, <1>4, <1>5, <1>9, <1>11, <1>12, <2>1, OneAttemptMoves
<1>13. CASE SetEmbedder(l, missed) /\ t \notin Cached /\ cache' = cache
  BY <1>1, <1>2, <1>3, <1>4, <1>5, <1>10, <1>11, <1>13, CacheSame, OneAttemptMoves
<1> QED
  BY <1>1, <1>12, <1>13

LEMMA AnswerAdds ==
  ASSUME EmbeddingInv, AddInv, NEW l \in Embedders, Answer(l)
  PROVE  AddInv'
<1> DEFINE e == embedder[l]
           d == e.doc
           P == pieces[d]
           batch == Batch(l)
           new == [e EXCEPT !.at = "keep", !.next = 1, !.count = Len(batch),
                            !.ratio = Observed(@, Chars(batch), Tokens(batch))]
           more == got[d] \union {e.todo[i] : i \in 1..Len(batch)}
<1>1. /\ e.at = "batch" /\ Todo(l) # <<>> /\ UNCHANGED <<cacheBytes, pieces, cache, stored, ended>>
      /\ SetEmbedder(l, new) /\ got' = [got EXCEPT ![d] = more]
  BY DEF Answer
<1>2. /\ e \in LaneStates /\ Busy(e) /\ d \in Papers
      /\ Len(P) \in Nat /\ DOMAIN P = 1..Len(P)
      /\ Len(e.todo) \in Nat /\ DOMAIN e.todo = 1..Len(e.todo)
      /\ \A j \in DOMAIN e.todo : e.todo[j] \in DOMAIN P
  BY <1>1, Working
<1>3. Todo(l) \in Seq(Texts) /\ Len(Todo(l)) = Len(e.todo)
  BY <1>1, TodoIs
<1>4. PICK n \in 1..Len(e.todo) : Len(batch) = n
  BY <1>1, <1>3, BatchIs DEF Batch
<1>5. /\ \A k \in Embedders : k # l => ~AtWork(embedder[k], d)
      /\ Fits => AsksAnew(e, got[d])
      /\ got \in [Papers -> SUBSET Nat] /\ ended \in [Papers -> {"nothing", "answers", "commit"}]
  BY <1>1, Alone DEF AddInv
<1>6. ASSUME Fits, NEW i \in got[d] PROVE i \in DOMAIN P /\ P[i] \in Cached
  BY <1>1, <1>2, <1>5, <1>6, InTheCache DEF Keeping
<1>7. embedder[l].doc = d
  OBVIOUS
<1> HIDE DEF e, d, batch
<1>8. /\ new.at = "keep" /\ new.doc = d /\ new.todo = e.todo /\ new.next = 1 /\ new.count = n
  BY <1>2, <1>4, <1>7 DEF LaneStates, d
<1> HIDE DEF new
<1>9. /\ \A i \in more : i \in got[d] \/ \E j \in DOMAIN e.todo : e.todo[j] = i /\ 1 <= j /\ j <= n
      /\ \A j \in 1..n : j \in DOMAIN e.todo
      /\ more \in SUBSET Nat
  <2>1. \A j \in 1..n : j \in DOMAIN e.todo /\ 1 <= j /\ j <= n /\ e.todo[j] \in Nat
    BY <1>2, <1>4
  <2>2. got[d] \in SUBSET Nat
    BY <1>2, <1>5
  <2> QED
    BY <1>4, <2>1, <2>2
<1> HIDE DEF more
<1>10. ASSUME Fits PROVE AsksAnew(new, more)
  <2>1. /\ \A j \in DOMAIN e.todo : e.todo[j] \notin got[d]
        /\ \A i, j \in DOMAIN e.todo : e.todo[i] = e.todo[j] => i = j
        /\ P # <<>>
    BY <1>1, <1>5, <1>7, <1>10 DEF AsksAnew, d
  <2>2. ASSUME NEW j \in DOMAIN e.todo, e.todo[j] \in more PROVE j <= n
    <3>1. PICK k \in DOMAIN e.todo : e.todo[k] = e.todo[j] /\ k <= n
      BY <1>9, <2>1, <2>2
    <3>2. k = j
      BY <2>1, <3>1
    <3> QED
      BY <3>1, <3>2
  <2> QED
    BY <1>8, <2>1, <2>2 DEF AsksAnew
<1>11. ASSUME Fits, NEW i \in more
       PROVE  i \in DOMAIN P /\ (P[i] \in Cached \/ Keeping(new, i))
  <2>1. CASE i \in got[d]
    BY <1>6, <1>11, <2>1
  <2>2. CASE \E j \in DOMAIN e.todo : e.todo[j] = i /\ 1 <= j /\ j <= n
    BY <1>2, <1>8, <2>2 DEF Keeping
  <2> QED
    BY <1>9, <1>11, <2>1, <2>2
<1>12. /\ got' \in [Papers -> SUBSET Nat] /\ got'[d] = more
       /\ \A c \in Papers : c # d => got'[c] = got[c]
  BY <1>1, <1>2, <1>5, <1>9
<1>13. AtWork(new, d) /\ new # Resting
  BY <1>8 DEF AtWork, Resting
<1> QED
  BY <1>1, <1>2, <1>5, <1>7, <1>10, <1>11, <1>12, <1>13, CacheSame, OneAttemptMoves

LEMMA KeepAdds ==
  ASSUME EmbeddingInv, AddInv, NEW l \in Embedders, Keep(l)
  PROVE  AddInv'
<1> DEFINE e == embedder[l]
           d == e.doc
           P == pieces[d]
           i == e.todo[e.next]
           t == P[i]
           kept == [e EXCEPT !.have = @ \union {<<i, t>>}, !.next = @ + 1]
           rest == SubSeq(e.todo, e.count + 1, Len(e.todo))
           done == [kept EXCEPT !.at = "batch", !.next = 1, !.count = 0,
                                !.todo = SubSeq(@, e.count + 1, Len(@))]
           new == IF e.next < e.count THEN kept ELSE done
<1>1. /\ e.at = "keep" /\ UNCHANGED <<cacheBytes, pieces, stored, got, ended>>
      /\ cache' = Put(t) /\ SetEmbedder(l, new)
  BY Zenon DEF Keep
<1> HIDE DEF new
<1>2. /\ e \in LaneStates /\ Busy(e) /\ d \in Papers
      /\ Len(P) \in Nat /\ DOMAIN P = 1..Len(P)
      /\ \A j \in DOMAIN P : P[j] \in Everything
      /\ Len(e.todo) \in Nat /\ DOMAIN e.todo = 1..Len(e.todo)
      /\ \A j \in DOMAIN e.todo : e.todo[j] \in DOMAIN P
  BY <1>1, Working
<1>3. /\ \A k \in Embedders : k # l => ~AtWork(embedder[k], d)
      /\ Fits => AsksAnew(e, got[d])
      /\ got \in [Papers -> SUBSET Nat] /\ ended \in [Papers -> {"nothing", "answers", "commit"}]
  BY <1>1, Alone DEF AddInv
<1>4. ASSUME Fits, NEW x \in got[d] PROVE x \in DOMAIN P /\ (P[x] \in Cached \/ Keeping(e, x))
  BY <1>2, <1>3, <1>4, InTheCache
<1>5. embedder[l].doc = d
  OBVIOUS
<1> HIDE DEF e, i, t, kept, rest, done
<1>6. /\ e.next \in Nat /\ e.count \in Nat /\ 1 <= e.next /\ e.next <= e.count /\ e.count <= Len(e.todo)
      /\ e.todo \in Seq(DOMAIN P) /\ e.doc = d
  BY <1>1, <1>2 DEF Busy, LaneStates
<1> HIDE DEF d
<1>7. e.next \in DOMAIN e.todo /\ i \in DOMAIN P /\ t \in Everything
  BY <1>2, <1>6 DEF i, t
<1>8. Fits => Cached \union {t} \subseteq ToSet(cache'.order)
  BY <1>1, <1>7, PutIs DEF EmbeddingInv
<1>9. /\ kept.at = "keep" /\ kept.doc = d /\ kept.todo = e.todo
      /\ kept.next = e.next + 1 /\ kept.count = e.count /\ kept.have = e.have \union {<<i, t>>}
  BY <1>1, <1>2, <1>6 DEF LaneStates, kept
<1>10. /\ \A j \in DOMAIN rest : rest[j] = e.todo[e.count + j] /\ e.count + j \in DOMAIN e.todo
       /\ \A j \in DOMAIN rest : j \in Nat \ {0}
  <2> DEFINE D == DOMAIN P
             a == e.count + 1
             n == Len(e.todo)
  <2>1. /\ a \in Nat /\ n \in Nat /\ 1 <= a /\ a <= n + 1 /\ n <= Len(e.todo)
        /\ (n - a) + 1 = n - e.count /\ e.todo \in Seq(D)
    BY <1>2, <1>6
  <2> HIDE DEF D, a, n
  <2>2. /\ SubSeq(e.todo, a, n) \in Seq(D) /\ Len(SubSeq(e.todo, a, n)) = (n - a) + 1
        /\ \A j \in 1..((n - a) + 1) : SubSeq(e.todo, a, n)[j] = e.todo[(a + j) - 1]
    BY <2>1, SliceIs
  <2>3. rest = SubSeq(e.todo, a, n)
    BY DEF a, n, rest
  <2>4. /\ DOMAIN rest = 1..(n - e.count)
        /\ \A j \in 1..(n - e.count) : rest[j] = e.todo[(a + j) - 1]
    <3>1. /\ rest \in Seq(D) /\ Len(rest) = n - e.count
          /\ \A j \in 1..(n - e.count) : rest[j] = e.todo[(a + j) - 1]
      BY <2>1, <2>2, <2>3
    <3> QED
      BY <3>1, LenProperties
  <2>5. \A j \in 1..(n - e.count) : (a + j) - 1 = e.count + j /\ e.count + j \in 1..n
    <3> DEFINE m == e.count
    <3>1. m \in Nat /\ n \in Nat /\ a = m + 1
      BY <1>6, <2>1 DEF a
    <3> HIDE DEF m
    <3>2. \A j \in 1..(n - m) : (a + j) - 1 = m + j /\ m + j \in 1..n
      BY <3>1
    <3> QED
      BY <3>2 DEF m
  <2>6. DOMAIN e.todo = 1..n
    BY <1>2 DEF n
  <2>7. \A j \in DOMAIN rest : j \in 1..(n - e.count) /\ j \in Nat \ {0}
    BY <2>1, <2>4, <1>6
  <2> QED
    BY <2>4, <2>5, <2>6, <2>7, Zenon
<1>11. done.at = "batch" /\ done.doc = d /\ done.todo = rest
  <2>1. kept \in [at : {"keep"}, doc : {d}, have : {kept.have}, todo : {e.todo}, next : {kept.next},
                  ratio : {kept.ratio}, count : {e.count}]
    BY <1>1, <1>2, <1>6 DEF LaneStates, kept
  <2> QED
    BY <1>9, <2>1 DEF done, rest
<1>12. ASSUME Fits PROVE AsksAnew(new, got[d])
  <2>1. /\ \A j \in DOMAIN e.todo : e.todo[j] \in got[d] => j <= e.count
        /\ \A j, k \in DOMAIN e.todo : e.todo[j] = e.todo[k] => j = k
        /\ P # <<>>
    BY <1>1, <1>3, <1>6, <1>12 DEF AsksAnew
  <2>2. AsksAnew(kept, got[d])
    BY <1>9, <2>1 DEF AsksAnew
  <2>3. ASSUME NEW j \in DOMAIN rest PROVE rest[j] \notin got[d]
    <3>1. e.count + j \in DOMAIN e.todo /\ ~(e.count + j <= e.count)
      BY <1>6, <1>10
    <3> QED
      BY <1>10, <2>1, <3>1
  <2>4. ASSUME NEW j \in DOMAIN rest, NEW k \in DOMAIN rest, rest[j] = rest[k] PROVE j = k
    <3>1. e.count + j = e.count + k
      BY <1>10, <2>1, <2>4
    <3> QED
      BY <1>6, <1>10, <3>1
  <2>5. AsksAnew(done, got[d])
    BY <1>11, <2>1, <2>3, <2>4 DEF AsksAnew
  <2> QED
    BY <2>2, <2>5 DEF new
<1>13. ASSUME Fits, NEW x \in got[d]
       PROVE  x \in DOMAIN P /\ (P[x] \in ToSet(cache'.order) \/ Keeping(new, x))
  <2>1. CASE P[x] \in Cached
    BY <1>4, <1>8, <1>13, <2>1
  <2>2. CASE Keeping(e, x)
    <3>1. PICK j \in DOMAIN e.todo : e.todo[j] = x /\ e.next <= j /\ j <= e.count
      BY <2>2 DEF Keeping
    <3>2. CASE j = e.next
      BY <1>4, <1>8, <1>13, <3>1, <3>2 DEF i, t
    <3>3. CASE j # e.next
      <4>1. e.next < e.count /\ e.next + 1 <= j
        BY <1>2, <1>6, <3>1, <3>3
      <4>2. Keeping(kept, x)
        BY <1>9, <3>1, <4>1 DEF Keeping
      <4> QED
        BY <1>4, <1>13, <4>1, <4>2 DEF new
    <3> QED
      BY <3>2, <3>3
  <2> QED
    BY <1>4, <1>13, <2>1, <2>2
<1>14. AtWork(new, d) /\ new # Resting
  <2>1. new.at # "idle" /\ new.doc = d
    BY <1>9, <1>11 DEF new
  <2> QED
    BY <2>1 DEF AtWork, Resting
<1> QED
  BY <1>1, <1>2, <1>3, <1>5, <1>8, <1>12, <1>13, <1>14, OneAttemptMoves

\* An attempt ends, or its passages are stored.
LEMMA EndAdds ==
  ASSUME EmbeddingInv, AddInv, NEW l \in Embedders, embedder[l].at = "batch",
         SetEmbedder(l, Resting), UNCHANGED <<cacheBytes, pieces, cache, got>>,
         ended' \in [Papers -> {"nothing", "answers", "commit"}],
         \A c \in Papers : c # embedder[l].doc => ended'[c] = ended[c] /\ stored'[c] = stored[c],
         Fits /\ ended'[embedder[l].doc] = "answers" =>
            stored'[embedder[l].doc] # {} \/ got[embedder[l].doc] # DOMAIN pieces[embedder[l].doc]
  PROVE  AddInv'
<1> DEFINE d == embedder[l].doc
<1>1. embedder[l].at # "idle" /\ embedder[l].at # "keep"
  OBVIOUS
<1>2. /\ d \in Papers /\ \A k \in Embedders : k # l => ~AtWork(embedder[k], d)
      /\ got \in [Papers -> SUBSET Nat]
  BY <1>1, Alone DEF AddInv
<1>3. ASSUME Fits, NEW i \in got[d] PROVE i \in DOMAIN pieces[d] /\ pieces[d][i] \in Cached
  BY <1>1, <1>2, <1>3, InTheCache DEF Keeping
<1>4. embedder[l].doc = d
  OBVIOUS
<1> HIDE DEF d
<1> QED
  BY <1>2, <1>3, <1>4, CacheSame, OneAttemptMoves

\* Nothing is left to ask for, or a piece that no answer was for.
LEMMA AbandonAdds ==
  ASSUME EmbeddingInv, AddInv, NEW l \in Embedders, Abandon(l)
  PROVE  AddInv'
<1> DEFINE e == embedder[l]
           d == e.doc
<1>1. /\ e.at = "batch" /\ Todo(l) # <<>> /\ SetEmbedder(l, Resting)
      /\ ended' = [ended EXCEPT ![d] = "answers"]
      /\ UNCHANGED <<cacheBytes, pieces, cache, stored, got>>
  BY DEF Abandon, Ends
<1>2. /\ d \in Papers /\ e.todo # <<>> /\ e.todo \in Seq(DOMAIN pieces[d])
      /\ \A j \in DOMAIN e.todo : e.todo[j] \in DOMAIN pieces[d]
  BY <1>1, Working, TodoIs DEF Busy
<1>3. ended \in [Papers -> {"nothing", "answers", "commit"}] /\ (Fits => AsksAnew(e, got[d]))
  BY <1>1, Alone DEF AddInv
<1> HIDE DEF d
<1>4. /\ ended' \in [Papers -> {"nothing", "answers", "commit"}]
      /\ \A c \in Papers : c # d => ended'[c] = ended[c]
  BY <1>1, <1>2, <1>3
<1>5. ASSUME Fits PROVE got[d] # DOMAIN pieces[d]
  <2>1. 1 \in DOMAIN e.todo
    BY <1>2, EmptySeq, LenProperties
  <2>2. e.todo[1] \notin got[d]
    BY <1>1, <1>3, <1>5, <2>1 DEF AsksAnew
  <2> QED
    BY <1>2, <2>1, <2>2
<1> QED
  BY <1>1, <1>4, <1>5, EndAdds DEF d

LEMMA StoreFailsAdds ==
  ASSUME EmbeddingInv, AddInv, NEW l \in Embedders, StoreFails(l)
  PROVE  AddInv'
<1> DEFINE d == embedder[l].doc
<1>1. /\ embedder[l].at = "batch" /\ SetEmbedder(l, Resting)
      /\ ended' = [ended EXCEPT ![d] = "commit"]
      /\ UNCHANGED <<cacheBytes, pieces, cache, stored, got>>
  BY DEF StoreFails, Ends
<1>2. ended \in [Papers -> {"nothing", "answers", "commit"}] /\ d \in Papers
  BY <1>1, Alone DEF AddInv
<1> HIDE DEF d
<1>3. /\ ended' \in [Papers -> {"nothing", "answers", "commit"}] /\ ended'[d] = "commit"
      /\ \A c \in Papers : c # d => ended'[c] = ended[c]
  BY <1>1, <1>2
<1> QED
  BY <1>1, <1>3, EndAdds DEF d

LEMMA HandOverAdds ==
  ASSUME EmbeddingInv, AddInv, NEW l \in Embedders, HandOver(l)
  PROVE  AddInv'
<1> DEFINE e == embedder[l]
           d == e.doc
           P == pieces[d]
<1>1. /\ e.at = "batch" /\ Todo(l) = <<>> /\ SetEmbedder(l, Resting)
      /\ stored' = [stored EXCEPT ![d] = e.have]
      /\ UNCHANGED <<cacheBytes, pieces, cache, got, ended>>
  BY DEF HandOver
<1>2. /\ Busy(e) /\ d \in Papers /\ P \in Seq(Texts) /\ Len(P) \in Nat /\ DOMAIN P = 1..Len(P)
      /\ e.todo = <<>>
  BY <1>1, Working, TodoIs
<1>3. ended \in [Papers -> {"nothing", "answers", "commit"}] /\ (Fits => AsksAnew(e, got[d]))
  BY <1>1, Alone DEF AddInv
<1>4. stored \in [Papers -> SUBSET (Nat \X Everything)]
  BY DEF EmbeddingInv
<1>5. ASSUME Fits PROVE e.have # {}
  <2>1. P # <<>>
    BY <1>3, <1>5 DEF AsksAnew
  <2>2. 1 \in DOMAIN P
    BY <1>2, <2>1, EmptySeq
  <2>3. Accounted(e, 1) /\ DOMAIN e.todo = {}
    BY <1>1, <1>2, <2>2 DEF Busy
  <2> QED
    BY <2>3 DEF Accounted
<1> HIDE DEF d, e
<1>6. /\ stored'[d] = e.have
      /\ \A c \in Papers : c # d => stored'[c] = stored[c]
  BY <1>1, <1>2, <1>4
<1> QED
  BY <1>1, <1>3, <1>5, <1>6, EndAdds DEF d, e

LEMMA RestartAdds ==
  ASSUME EmbeddingInv, Restart
  PROVE  AddInv'
<1>1. /\ got' = [d \in Papers |-> {}] /\ ended' = [d \in Papers |-> "nothing"]
      /\ embedder' = [l \in Embedders |-> Resting]
  BY DEF Restart
<1>2. Resting.at = "idle"
  BY DEF Resting
<1> QED
  BY <1>1, <1>2 DEF AddInv, AtWork, SomeMissing

LEMMA AddInitially == EmbeddingInit => AddInv
<1> SUFFICES ASSUME EmbeddingInit PROVE AddInv
  OBVIOUS
<1>1. /\ got = [d \in Papers |-> {}] /\ ended = [d \in Papers |-> "nothing"]
      /\ embedder = [l \in Embedders |-> Resting]
  BY DEF EmbeddingInit
<1>2. Resting.at = "idle"
  BY DEF Resting
<1> QED
  BY <1>1, <1>2 DEF AddInv, AtWork, SomeMissing

\* Attempts of one process never ask twice while there is room (vector_cache.go: a
\* retry "resumes from the batches it already has"), for any texts, papers and lanes.
THEOREM AttemptsAlwaysAddUp == EmbeddingSpec => []AttemptsAddUp
<1>1. EmbeddingInv /\ AddInv /\ [EmbeddingNext]_embeddingVars => AddInv'
  <2> SUFFICES ASSUME EmbeddingInv, AddInv, [EmbeddingNext]_embeddingVars PROVE AddInv'
    OBVIOUS
  <2>1. ASSUME NEW l \in Embedders, EmbedderStep(l) PROVE AddInv'
    <3>1. CASE LookUp(l)
      BY <3>1, LookUpAdds
    <3>2. CASE Answer(l)
      BY <3>2, AnswerAdds
    <3>3. CASE Abandon(l)
      BY <3>3, AbandonAdds
    <3>4. CASE Keep(l)
      BY <3>4, KeepAdds
    <3>5. CASE HandOver(l)
      BY <3>5, HandOverAdds
    <3>6. CASE StoreFails(l)
      BY <3>6, StoreFailsAdds
    <3>7. CASE \E d \in Papers : Load(l, d)
      BY <3>7, LoadAdds
    <3> QED
      BY <2>1, <3>1, <3>2, <3>3, <3>4, <3>5, <3>6, <3>7 DEF EmbedderStep
  <2>2. CASE UNCHANGED embeddingVars
    <3>1. UNCHANGED <<cacheBytes, pieces, cache, embedder, stored, got, ended>>
      BY <2>2 DEF embeddingVars
    <3>2. (Fits' <=> Fits) /\ Cached' = Cached
      BY <3>1 DEF Fits, Everything, Cached
    <3> QED
      BY <3>1, <3>2 DEF AddInv, AtWork, AsksAnew, Keeping, SomeMissing
  <2>3. CASE Restart
    BY <2>3, RestartAdds
  <2> QED
    BY <2>1, <2>2, <2>3 DEF EmbeddingNext
<1>2. EmbeddingInv /\ AddInv => AttemptsAddUp
  <2> SUFFICES ASSUME EmbeddingInv, AddInv, Fits
               PROVE  /\ \A l \in Embedders : embedder[l].at = "batch" =>
                            ToSet(embedder[l].todo) \intersect got[embedder[l].doc] = {}
                      /\ \A d \in Papers :
                            (ended[d] = "answers" /\ \A l \in Embedders : embedder[l].doc # d) =>
                               stored[d] # {} \/ got[d] # DOMAIN pieces[d]
    BY DEF AttemptsAddUp
  <2>1. ASSUME NEW l \in Embedders, embedder[l].at = "batch"
        PROVE  ToSet(embedder[l].todo) \intersect got[embedder[l].doc] = {}
    <3>1. AsksAnew(embedder[l], got[embedder[l].doc])
      BY <2>1, Alone
    <3> QED
      BY <2>1, <3>1 DEF AsksAnew, ToSet
  <2>2. ASSUME NEW d \in Papers, ended[d] = "answers", \A l \in Embedders : embedder[l].doc # d
        PROVE  stored[d] # {} \/ got[d] # DOMAIN pieces[d]
    BY <2>2 DEF AddInv, SomeMissing, AtWork
  <2> QED
    BY <2>1, <2>2
<1> QED
  BY <1>1, <1>2, AddInitially, EmbeddingInductive, PTL DEF EmbeddingSpec
=============================================================================
