--------------------------- MODULE WorkerPools ---------------------------
(***************************************************************************)
(* The worker pools of one process and the gate they share                 *)
(* (internal/worker/runtime.go, internal/storage/postgres/job_gate.go).    *)
(*                                                                         *)
(* A pool is a claim loop and its lanes.  The loop reserves gate slots     *)
(* before it claims, hands each job with its slot to an idle lane, and     *)
(* gives jobs back when claiming stops.  A lane of a preparing pool        *)
(* returns its slot while it prepares and takes one back, through          *)
(* shutdown too, before it opens a transaction.                            *)
(*                                                                         *)
(* A critical section of the gate's mutex, an atomic counter operation or  *)
(* a channel operation is one step.  What the jobs do is JobQueue's        *)
(* subject; here a claim brings back any number of the jobs asked for.     *)
(***************************************************************************)
EXTENDS Naturals, FiniteSets

CONSTANTS Pools,      \* one per subject
          Lanes,      \* lanes of all pools
          PoolOf,     \* the pool of each lane
          Preparing,  \* the pools that prepare outside the transaction
          Total,      \* slots of the gate
          MaxClaims   \* bound on the claim statements of each pool

ASSUME PoolAssumption ==
    /\ IsFiniteSet(Lanes)
    /\ PoolOf \in [Lanes -> Pools]
    /\ Preparing \subseteq Pools
    /\ Total \in Nat \ {0}
    /\ MaxClaims \in Nat

VARIABLES free,      \* Gate.free
          fresh,     \* lanes whose released channel is not closed yet
          loop,      \* the claim loop of each pool
          inFlight,  \* jobs handed over and not finished, per pool
          lane,      \* where each lane stands
          claims,    \* claim statements of each pool so far
          stopping    \* fetchCtx is done

poolVars == <<free, fresh, loop, inFlight, lane, claims, stopping>>

-----------------------------------------------------------------------------
LanesOf(p) == {l \in Lanes : PoolOf[l] = p}

\* receive: waiting for a job; held: with a job and its slot; preparing: the
\* slot returned; retry, took, blocked: taking it back; ready: taken back;
\* open: in the stage transaction; settling: bookkeeping; failing: in the
\* transaction that records a failure; counted: no longer in flight, the slot
\* about to be released.
Phases == {"receive", "held", "preparing", "retry", "took", "blocked",
           "ready", "open", "settling", "failing", "counted"}
\* Phases in which a lane owns a slot of the gate.
Holding == {"held", "ready", "open", "settling", "failing", "counted"}

\* slots: reserved and not yet handed to a lane.  While a batch is handed over
\* each slot goes with one claimed job.
LoopStates == {"look", "reserve", "claim", "hand", "return", "over"}
Loop == [at : LoopStates, want : 0..Cardinality(Lanes), slots : 0..Total]

Least(a, b) == IF a < b THEN a ELSE b

PoolInit ==
    /\ free = Total
    /\ fresh = {}
    /\ loop = [p \in Pools |-> [at |-> "look", want |-> 0, slots |-> 0]]
    /\ inFlight = [p \in Pools |-> 0]
    /\ lane = [l \in Lanes |-> "receive"]
    /\ claims = [p \in Pools |-> 0]
    /\ stopping = FALSE

-----------------------------------------------------------------------------
(* The gate.                                                               *)

\* TryReserve takes what is free right now, up to n.
Reservable(n) == Least(Least(n, Total), free)

\* Release returns n slots, never past the total, and wakes every waiter.
Release(n) ==
    IF n < 1 THEN UNCHANGED <<free, fresh>>
    ELSE /\ free' = Least(free + n, Total)
         /\ fresh' = {}

-----------------------------------------------------------------------------
(* The claim loop of pool p.  Its waits all end by a timer, so a parked    *)
(* loop is one that has not taken its next step yet.                       *)

LoopAt(p, place) == loop[p].at = place
LoopGo(p, place, want, slots) ==
    loop' = [loop EXCEPT ![p] = [at |-> place, want |-> want, slots |-> slots]]

\* Idle lanes, as the in-flight counter tells.
IdleLanes(p) == Cardinality(LanesOf(p)) - inFlight[p]

Look(p) ==
    /\ LoopAt(p, "look")
    /\ ~stopping
    /\ claims[p] < MaxClaims
    /\ inFlight[p] < Cardinality(LanesOf(p))
    /\ LoopGo(p, "reserve", IdleLanes(p), 0)
    /\ UNCHANGED <<free, fresh, inFlight, lane, claims, stopping>>

Reserve(p) ==
    /\ LoopAt(p, "reserve")
    /\ LET n == Reservable(loop[p].want) IN
       /\ free' = free - n
       /\ LoopGo(p, IF n = 0 THEN "look" ELSE "claim", 0, n)
    /\ UNCHANGED <<fresh, inFlight, lane, claims, stopping>>

\* The statement returns at most as many jobs as were reserved for, none if
\* it failed; the surplus is released at once.
Claim(p) ==
    /\ LoopAt(p, "claim")
    /\ claims' = [claims EXCEPT ![p] = @ + 1]
    /\ \E n \in 0..loop[p].slots :
          /\ Release(loop[p].slots - n)
          /\ LoopGo(p, IF n = 0 THEN "look" ELSE "hand", 0, n)
    /\ UNCHANGED <<inFlight, lane, stopping>>

\* A job and its slot go to a lane that is receiving.
Hand(p, l) ==
    /\ LoopAt(p, "hand")
    /\ l \in LanesOf(p)
    /\ lane[l] = "receive"
    /\ inFlight' = [inFlight EXCEPT ![p] = @ + 1]
    /\ lane' = [lane EXCEPT ![l] = "held"]
    /\ LoopGo(p, IF loop[p].slots = 1 THEN "look" ELSE "hand", 0, loop[p].slots - 1)
    /\ UNCHANGED <<free, fresh, claims, stopping>>

\* Claiming was stopped while a hand-over waited: the rest is handed back.
StopHanding(p) ==
    /\ LoopAt(p, "hand")
    /\ stopping
    /\ LoopGo(p, "return", 0, loop[p].slots)
    /\ UNCHANGED <<free, fresh, inFlight, lane, claims, stopping>>

\* Mutant: the verdict is recorded and the slot kept.
GiveBackJobOnly(p) ==
    /\ LoopAt(p, "return")
    /\ LoopGo(p, IF loop[p].slots = 1 THEN "over" ELSE "return", 0, loop[p].slots - 1)
    /\ UNCHANGED <<free, fresh, inFlight, lane, claims, stopping>>

\* giveBack, job by job: the fenced verdict, then the slot.
GiveBack(p) ==
    /\ LoopAt(p, "return")
    /\ Release(1)
    /\ LoopGo(p, IF loop[p].slots = 1 THEN "over" ELSE "return", 0, loop[p].slots - 1)
    /\ UNCHANGED <<inFlight, lane, claims, stopping>>

\* The work channel is closed.
LoopEnds(p) ==
    /\ LoopAt(p, "look")
    /\ stopping
    /\ LoopGo(p, "over", 0, 0)
    /\ UNCHANGED <<free, fresh, inFlight, lane, claims, stopping>>

LoopStep(p) ==
    \/ Look(p)        \/ Reserve(p)  \/ Claim(p)
    \/ StopHanding(p) \/ GiveBack(p) \/ LoopEnds(p)
    \/ \E l \in Lanes : Hand(p, l)

-----------------------------------------------------------------------------
(* A lane with a job.                                                      *)

MoveLane(l, from, to) ==
    /\ lane[l] = from
    /\ lane' = [lane EXCEPT ![l] = to]
    /\ UNCHANGED <<loop, claims, stopping>>

Prepares(l) == PoolOf[l] \in Preparing

\* prepare: the slot goes back before model work starts.
Prepare(l) ==
    /\ Prepares(l)
    /\ MoveLane(l, "held", "preparing")
    /\ Release(1)
    /\ UNCHANGED inFlight

\* However preparing ends, panics included, the slot is taken back.
Prepared(l) ==
    /\ MoveLane(l, "preparing", "retry")
    /\ UNCHANGED <<free, fresh, inFlight>>

\* reacquire: the release channel is taken before the slot is tried for.
TakeChannel(l) ==
    /\ MoveLane(l, "retry", "took")
    /\ fresh' = fresh \union {l}
    /\ UNCHANGED <<free, inFlight>>

TryTake(l) ==
    /\ IF Reservable(1) = 1
       THEN MoveLane(l, "took", "ready") /\ free' = free - 1
       ELSE MoveLane(l, "took", "blocked") /\ UNCHANGED free
    /\ UNCHANGED <<fresh, inFlight>>

Woken(l) ==
    /\ l \notin fresh
    /\ MoveLane(l, "blocked", "retry")
    /\ UNCHANGED <<free, fresh, inFlight>>

\* The stage transaction opens.
Open(l) ==
    /\ \/ MoveLane(l, "ready", "open")
       \/ ~Prepares(l) /\ MoveLane(l, "held", "open")
    /\ UNCHANGED <<free, fresh, inFlight>>

\* The handler returns, or preparing had failed and none ran.
Settle(l) ==
    /\ MoveLane(l, "open", "settling") \/ MoveLane(l, "ready", "settling")
    /\ UNCHANGED <<free, fresh, inFlight>>

\* Fail opens a transaction of its own, after the handler's or, for a claim
\* that charged nothing, without one.
FailJob(l) ==
    /\ MoveLane(l, "settling", "failing") \/ MoveLane(l, "held", "failing")
    /\ UNCHANGED <<free, fresh, inFlight>>

\* handle has returned: the counter first, then the slot.
CountDown(l) ==
    /\ MoveLane(l, "settling", "counted") \/ MoveLane(l, "failing", "counted")
    /\ inFlight' = [inFlight EXCEPT ![PoolOf[l]] = @ - 1]
    /\ UNCHANGED <<free, fresh>>

\* Mutant: the slot is counted back and nobody is woken.
ReleaseSlotSilently(l) ==
    /\ MoveLane(l, "counted", "receive")
    /\ free' = free + 1
    /\ UNCHANGED <<fresh, inFlight>>

ReleaseSlot(l) ==
    /\ MoveLane(l, "counted", "receive")
    /\ Release(1)
    /\ UNCHANGED inFlight

LaneStep(l) ==
    \/ Prepare(l) \/ Prepared(l) \/ TakeChannel(l) \/ TryTake(l) \/ Woken(l)
    \/ Open(l)    \/ Settle(l)   \/ FailJob(l)        \/ CountDown(l)
    \/ ReleaseSlot(l)

-----------------------------------------------------------------------------
Stop ==
    /\ ~stopping
    /\ stopping' = TRUE
    /\ UNCHANGED <<free, fresh, loop, inFlight, lane, claims>>

\* Consume has returned for every pool.
Drained ==
    /\ \A p \in Pools : LoopAt(p, "over")
    /\ \A l \in Lanes : lane[l] = "receive"

Returned == Drained /\ UNCHANGED poolVars

PoolNext ==
    \/ \E p \in Pools : LoopStep(p)
    \/ \E l \in Lanes : LaneStep(l)
    \/ Stop
    \/ Returned

PoolSpec == PoolInit /\ [][PoolNext]_poolVars

-----------------------------------------------------------------------------
(* Properties.                                                             *)

PoolTypeOK ==
    /\ free \in 0..Total
    /\ fresh \subseteq Lanes
    /\ loop \in [Pools -> Loop]
    /\ inFlight \in [Pools -> 0..Cardinality(Lanes)]
    /\ lane \in [Lanes -> Phases]
    /\ claims \in [Pools -> 0..MaxClaims]
    /\ stopping \in BOOLEAN

\* Reserved slots are exactly the ones somebody will release: none is lost,
\* on any path through surplus, hand-back, preparing and shutdown, and none is
\* released twice, which the clamp in Release would hide.  No more transactions
\* are open than the gate has slots, also while lanes that gave their slot away
\* come back for one ("releasing one never taken back would admit a transaction
\* past the bound", runtime.go, reacquire).  And no claimed job waits behind a
\* busy lane while its lease runs: for each job still to be handed over there
\* is a lane that is receiving or about to (claimLoop: "claims only as many jobs
\* as there are idle lanes").  Nor does a lane that comes back from preparing miss
\* the slot it needs: while it waits without having been woken none is free (no
\* release between its look at the gate and its wait is lost).
LaneSlots == Cardinality({l \in Lanes : lane[l] \in Holding})
LoopSlots == Cardinality(UNION {{p} \X (1..loop[p].slots) : p \in Pools})
SlotsExact ==
    /\ PoolTypeOK
    /\ free + LaneSlots + LoopSlots = Total
    /\ Cardinality({l \in Lanes : lane[l] \in {"open", "failing"}}) <= Total
    /\ \A p \in Pools : LoopAt(p, "hand") =>
          loop[p].slots <=
              Cardinality({l \in LanesOf(p) : lane[l] \in {"receive", "counted"}})
    /\ \A l \in Lanes : lane[l] = "blocked" /\ l \in fresh => free = 0

\* Once claiming is stopped somebody can always move until every lane has
\* finished, every unstarted job is given back and Consume returns with every
\* slot free: no step is repeated from then on, so that all of it happens.  A loop
\* can always move, and a lane unless it has no job or waits to be woken.
LoopMoves(p) == ~LoopAt(p, "over")
LaneMoves(l) == lane[l] # "receive" /\ (lane[l] = "blocked" => l \notin fresh)
PoolsMove ==
    stopping =>
        \/ Drained /\ free = Total
        \/ (\E p \in Pools : LoopMoves(p)) \/ \E l \in Lanes : LaneMoves(l)
=============================================================================
