------------------------------ MODULE Breaker ------------------------------
(***************************************************************************)
(* The embedding client (internal/client/embedding/client.go,              *)
(* EmbedCounted) and the circuit breaker in front of its endpoint          *)
(* (circuit_breaker.go), shared by every embed lane and query of a         *)
(* process.                                                                *)
(*                                                                         *)
(* A critical section of the breaker's mutex or an operation on the        *)
(* semaphore is one step.  A tick is a fixed length of time; a request     *)
(* lives at most Timeout ticks (http.Client.Timeout).                      *)
(***************************************************************************)
EXTENDS Naturals, FiniteSets

CONSTANTS Callers,      \* goroutines that embed
          Concurrency,  \* capacity of the client's semaphore
          Threshold,    \* failures that open the circuit (5 in the code)
          Cooldown,     \* ticks it stays shut (thirty seconds)
          Timeout       \* ticks a request may take (sixty seconds)

ASSUME BreakerAssumption ==
    /\ IsFiniteSet(Callers)
    /\ Concurrency \in Nat \ {0}
    /\ Threshold \in Nat \ {0}
    /\ Cooldown \in Nat \ {0}
    /\ Timeout \in Nat \ {0}

VARIABLES failures,      \* counted up to Threshold: nothing reads beyond it
          since,         \* ticks since openedAt, counted up to Cooldown
          halfOpenOnly,  \* the mark of a probe
          caller,        \* where each caller stands
          age,           \* ticks since its request was sent
          up,            \* whether the endpoint answers
          wasted         \* history: requests sent in the present cooldown

vars == <<failures, since, halfOpenOnly, caller, age, up, wasted>>

-----------------------------------------------------------------------------
\* queued: waiting for the semaphore; turn: in it; allowed: let through by
\* the breaker; sent: in flight; stuck: in flight and lost at a dead endpoint;
\* leaving: done, still in the semaphore.
Places == {"idle", "queued", "turn", "allowed", "sent", "stuck", "leaving"}
Inside == {c \in Callers : caller[c] \notin {"idle", "queued"}}
\* Let through and not yet reported to the breaker.
InFlight == {c \in Callers : caller[c] \in {"allowed", "sent", "stuck"}}

Shut == failures >= Threshold
Cooling == Shut /\ since < Cooldown

Init ==
    /\ failures = 0
    /\ since = Cooldown
    /\ halfOpenOnly = FALSE
    /\ caller = [c \in Callers |-> "idle"]
    /\ age = [c \in Callers |-> 0]
    /\ up = TRUE
    /\ wasted = 0

Move(c, from, to) ==
    /\ caller[c] = from
    /\ caller' = [caller EXCEPT ![c] = to]

-----------------------------------------------------------------------------
(* The breaker.                                                            *)

\* Mutant: one failure too many.
ClosedAtThreshold == failures <= Threshold
Closed == failures < Threshold

Refuse(c) ==
    /\ Move(c, "turn", "leaving")
    /\ UNCHANGED halfOpenOnly

\* Allow: everybody while closed, nobody in the cooldown, and after it the
\* first to ask.
Allow(c) ==
    /\ \/ /\ Closed
          /\ Move(c, "turn", "allowed")
          /\ UNCHANGED halfOpenOnly
       \/ /\ ~Closed
          /\ since < Cooldown \/ halfOpenOnly
          /\ Refuse(c)
       \/ /\ ~Closed
          /\ since >= Cooldown
          /\ ~halfOpenOnly
          /\ Move(c, "turn", "allowed")
          /\ halfOpenOnly' = TRUE
    /\ UNCHANGED <<failures, since, age, up, wasted>>

\* Mutant: the mark outlives a probe that succeeds.
SuccessKeepsMark == failures' = 0 /\ UNCHANGED <<since, halfOpenOnly, wasted>>

Success ==
    /\ failures' = 0
    /\ halfOpenOnly' = FALSE
    /\ UNCHANGED <<since, wasted>>

\* Mutant: the mark outlives a probe that fails.
FailKeepsMark ==
    LET n == IF Shut THEN Threshold ELSE failures + 1 IN
    /\ failures' = n
    /\ since' = IF n >= Threshold THEN 0 ELSE since
    /\ wasted' = IF n >= Threshold THEN 0 ELSE wasted
    /\ UNCHANGED halfOpenOnly

Fail ==
    LET n == IF Shut THEN Threshold ELSE failures + 1 IN
    /\ failures' = n
    /\ halfOpenOnly' = FALSE
    /\ since' = IF n >= Threshold THEN 0 ELSE since
    /\ wasted' = IF n >= Threshold THEN 0 ELSE wasted

-----------------------------------------------------------------------------
(* A caller.                                                               *)

\* A batch is due; the caller waits for the semaphore, or its context ends.
Ask(c) ==
    /\ Move(c, "idle", "queued")
    /\ UNCHANGED <<failures, since, halfOpenOnly, age, up, wasted>>

Withdraw(c) ==
    /\ Move(c, "queued", "idle")
    /\ UNCHANGED <<failures, since, halfOpenOnly, age, up, wasted>>

Enter(c) ==
    /\ Cardinality(Inside) < Concurrency
    /\ Move(c, "queued", "turn")
    /\ UNCHANGED <<failures, since, halfOpenOnly, age, up, wasted>>

\* The request goes out.  Building it cannot fail: its body is a list of
\* strings and a wrong endpoint URL fails every request, so that the breaker
\* never counts anything.
Send(c) ==
    /\ Move(c, "allowed", IF up THEN "sent" ELSE "stuck")
    /\ age' = [age EXCEPT ![c] = 0]
    /\ wasted' = IF Cooling THEN wasted + 1 ELSE wasted
    /\ UNCHANGED <<failures, since, halfOpenOnly, up>>

\* The request is over, and the breaker hears of it.
Over(c, from) ==
    /\ Move(c, from, "leaving")
    /\ age' = [age EXCEPT ![c] = 0]
    /\ UNCHANGED up

\* A well-formed answer, whatever its vectors turn out to be.
Answered(c) == Over(c, "sent") /\ Success

\* A refused connection, a bad status or body, a timeout.
Failed(c) == Over(c, "stuck") /\ Fail

\* The caller's context ends before the answer: a failure like any other.
Cancelled(c) == (Over(c, "allowed") \/ Over(c, "sent")) /\ Fail

Leave(c) ==
    /\ Move(c, "leaving", "idle")
    /\ UNCHANGED <<failures, since, halfOpenOnly, age, up, wasted>>

-----------------------------------------------------------------------------
(* The endpoint and the clock.                                             *)

\* Some of the requests in flight are lost with it.
GoDown ==
    /\ up
    /\ up' = FALSE
    /\ \E lost \in SUBSET {c \in Callers : caller[c] = "sent"} :
          caller' = [c \in Callers |-> IF c \in lost THEN "stuck" ELSE caller[c]]
    /\ UNCHANGED <<failures, since, halfOpenOnly, age, wasted>>

ComeUp ==
    /\ ~up
    /\ up' = TRUE
    /\ UNCHANGED <<failures, since, halfOpenOnly, caller, age, wasted>>

\* Ticks are long: nobody let through takes one to send.
Flying(c) == caller[c] \in {"sent", "stuck"}
Tick ==
    /\ \A c \in Callers : caller[c] # "allowed"
    /\ \A c \in Callers : Flying(c) => age[c] < Timeout
    /\ age' = [c \in Callers |-> IF Flying(c) THEN age[c] + 1 ELSE age[c]]
    /\ since' = IF since < Cooldown THEN since + 1 ELSE since
    /\ UNCHANGED <<failures, halfOpenOnly, caller, up, wasted>>

CallerStep(c) ==
    \/ Ask(c)      \/ Withdraw(c) \/ Enter(c)     \/ Allow(c) \/ Send(c)
    \/ Answered(c) \/ Failed(c)   \/ Cancelled(c) \/ Leave(c)

Next == (\E c \in Callers : CallerStep(c)) \/ GoDown \/ ComeUp \/ Tick

Spec == Init /\ [][Next]_vars

\* Work keeps coming and callers keep going; a place in the semaphore is
\* handed over in turn; time passes.
FairSpec ==
    /\ Spec
    /\ \A c \in Callers :
          /\ WF_vars(Ask(c))
          /\ WF_vars(Allow(c) \/ Send(c) \/ Answered(c) \/ Failed(c) \/ Leave(c))
    /\ SF_vars(\E c \in Callers : Enter(c))
    /\ SF_vars(Tick)

-----------------------------------------------------------------------------
(* Properties.                                                             *)

TypeOK ==
    /\ failures \in 0..Threshold
    /\ since \in 0..Cooldown
    /\ halfOpenOnly \in BOOLEAN
    /\ caller \in [Callers -> Places]
    /\ age \in [Callers -> 0..Timeout]
    /\ up \in BOOLEAN
    /\ wasted \in Nat

\* The half-open mark always has somebody in flight whose report will take it
\* away: otherwise the circuit would refuse every request for ever
\* (circuit_breaker.go, Allow).
MarkIsHeld == halfOpenOnly => InFlight # {}

\* In one cooldown only requests that were already let through when it began
\* reach the endpoint, fewer than its concurrency, however many callers are
\* queued: "a caller queued behind the semaphore should re-read the breaker
\* when it actually gets its turn" (client.go, EmbedCounted).
HammeringBounded == Cooling => wasted < Concurrency

\* Once the endpoint stays up and callers stay to hear it, the circuit closes
\* again, whatever was in flight when it came back and however often it had
\* failed (circuit_breaker.go).
Recovers ==
    <>[]up /\ <>[][\A c \in Callers : ~Cancelled(c)]_vars => []<>(~Shut)
=============================================================================
