------------------------------- MODULE Lease -------------------------------
(***************************************************************************)
(* The lease of one claim and the heartbeat that renews it while the       *)
(* handler runs (internal/worker/runtime.go, startHeartbeat and handle;    *)
(* internal/storage/postgres/jobs.go, claim and Renew).                    *)
(*                                                                         *)
(* now is real time, which the database clock and the process's monotonic  *)
(* clock both follow; the origin is the moment the claim request was sent  *)
(* (Job.Started).  JobQueue abstracts from all of this: there a held lease *)
(* lapses when a misfortune says so.                                       *)
(***************************************************************************)
EXTENDS Integers

CONSTANTS LeaseDuration,   \* how long a claim is valid without renewal
          HandlerBudget,   \* a claim's total lifetime
          ControlTimeout,  \* bound on a claim or renewal, and on a retry's delay
          RenewEvery,      \* period of the heartbeat
          RenewMargin      \* safety window before the local expiry

ASSUME LeaseAssumption ==
    /\ {LeaseDuration, HandlerBudget, ControlTimeout, RenewEvery, RenewMargin}
          \subseteq Nat \ {0}
    /\ ControlTimeout < RenewMargin
    /\ RenewEvery <= RenewMargin
    /\ 2 * ControlTimeout + RenewEvery + RenewMargin < LeaseDuration
    /\ LeaseDuration <= HandlerBudget

VARIABLES now,
          claimedAt,   \* claimed_at, database
          leaseUntil,  \* lease_until, database
          exists,      \* the job's row is there
          began,       \* when the handler and its heartbeat started
          expiry,      \* the heartbeat's estimate of lease_until
          beat,        \* where the heartbeat stands
          tick,        \* when the ticker's next tick is there to be taken
          due,         \* when the heartbeat goes on by itself
          sent,        \* when the renewal in progress was sent
          reply,       \* what the database made of that renewal
          handler,     \* running, or why its context ended
          confirmed    \* history: the latest renewal sent was answered

row == <<claimedAt, leaseUntil, exists>>
leaseVars == <<now, row, began, expiry, beat, tick, due, sent, reply, handler,
               confirmed>>

-----------------------------------------------------------------------------
Earlier(a, b) == IF a < b THEN a ELSE b

Beats == {"waiting", "renewing", "pausing", "stopped"}
NoReply == -1
Lost == -2

\* The claim is executed between request and answer, and the lane starts once
\* it is answered.  What is left of the lease by the database's clock counts
\* from the request.
LeaseInit ==
    /\ claimedAt \in 0..ControlTimeout
    /\ leaseUntil = claimedAt + LeaseDuration
    /\ began \in claimedAt..ControlTimeout
    /\ \E serverNow \in claimedAt..began : expiry = leaseUntil - serverNow
    /\ exists = TRUE
    /\ now = began
    /\ beat = "waiting"
    /\ tick = began + RenewEvery
    /\ due = tick
    /\ sent = 0
    /\ reply = NoReply
    /\ handler = "running"
    /\ confirmed = TRUE

\* The handler's own deadline, HandlerBudget from the request, and the one the
\* heartbeat keeps are the same.
BudgetEnd == HandlerBudget
\* Mutant: the handler is cancelled at the local expiry itself.
LimitWithoutMargin == Earlier(expiry, BudgetEnd)

Limit == Earlier(expiry - RenewMargin, BudgetEnd)

\* The tick after the one taken now.  The ticker keeps one tick for a
\* heartbeat that is busy and drops the rest.
NextTick == began + RenewEvery * (((now - began) \div RenewEvery) + 1)

-----------------------------------------------------------------------------
(* The heartbeat.                                                          *)

Cancel(cause) ==
    /\ beat' = "stopped"
    /\ handler' = cause
    /\ UNCHANGED <<now, row, began, expiry, tick, due, sent, reply, confirmed>>

\* A tick, or the end of the pause after a failed renewal.
Wakes == beat \in {"waiting", "pausing"} /\ now >= due

\* Too close to the local expiry: ownership is uncertain.
BeatGivesUp ==
    /\ Wakes
    /\ now >= Limit
    /\ Cancel("uncertain")

\* A renewal is sent under a deadline that ends no later than the limit.
SendRenewal ==
    /\ Wakes
    /\ now < Limit
    /\ beat' = "renewing"
    /\ tick' = IF beat = "waiting" THEN NextTick ELSE tick
    /\ sent' = now
    /\ reply' = NoReply
    /\ due' = now + Earlier(ControlTimeout, Limit - now)
    /\ confirmed' = FALSE
    /\ UNCHANGED <<now, row, began, expiry, handler>>

\* Renew at the database: extended from its own clock, capped at the budget,
\* and only while the lease still holds.  The reply is what is left of it.
RenewedUntil == Earlier(now + LeaseDuration, claimedAt + HandlerBudget)

Execute ==
    /\ beat = "renewing"
    /\ reply = NoReply
    /\ IF exists /\ leaseUntil > now /\ claimedAt + HandlerBudget > now
       THEN leaseUntil' = RenewedUntil /\ reply' = RenewedUntil - now
       ELSE UNCHANGED leaseUntil /\ reply' = Lost
    /\ UNCHANGED <<now, claimedAt, exists, began, expiry, beat, tick, due, sent,
                   handler, confirmed>>

RenewedUnnoticed ==
    /\ beat = "renewing"
    /\ reply >= 0
    /\ beat' = "waiting"
    /\ due' = tick
    /\ confirmed' = TRUE
    /\ UNCHANGED <<now, row, began, expiry, tick, sent, reply, handler>>

\* The answer arrives: the estimate counts from the request.
Renewed ==
    /\ beat = "renewing"
    /\ reply >= 0
    /\ expiry' = sent + reply
    /\ beat' = "waiting"
    /\ due' = tick
    /\ confirmed' = TRUE
    /\ UNCHANGED <<now, row, began, tick, sent, reply, handler>>

\* No row matched: the lease is gone.
LeaseLost ==
    /\ beat = "renewing"
    /\ reply = Lost
    /\ Cancel("lost")

\* An error, or no answer by the deadline, whether or not the database
\* renewed: try again after a short pause.
RenewFails ==
    /\ beat = "renewing"
    /\ beat' = "pausing"
    /\ \E pause \in 1..ControlTimeout : due' = now + pause
    /\ UNCHANGED <<now, row, began, expiry, tick, sent, reply, handler,
                   confirmed>>

\* The handler returns and the heartbeat is joined.
Finish ==
    /\ handler = "running"
    /\ beat \in {"waiting", "pausing"}
    /\ beat' = "stopped"
    /\ handler' = "returned"
    /\ UNCHANGED <<now, row, began, expiry, tick, due, sent, reply, confirmed>>

\* Time passes, but not past the moment the heartbeat goes on.
TimePasses ==
    /\ handler = "running"
    /\ now < due
    /\ now' = now + 1
    /\ UNCHANGED <<row, began, expiry, beat, tick, due, sent, reply, handler,
                   confirmed>>

\* The document is deleted under the handler, and the job with it.
Forget ==
    /\ handler = "running"
    /\ exists
    /\ exists' = FALSE
    /\ UNCHANGED <<now, claimedAt, leaseUntil, began, expiry, beat, tick, due,
                   sent, reply, handler, confirmed>>

Ended == beat = "stopped" /\ UNCHANGED leaseVars

LeaseNext == BeatGivesUp \/ SendRenewal \/ Execute \/ Renewed \/ LeaseLost \/ RenewFails
             \/ Finish \/ TimePasses \/ Forget \/ Ended

LeaseSpec == LeaseInit /\ [][LeaseNext]_leaseVars

-----------------------------------------------------------------------------
(* Properties.                                                             *)

LeaseTypeOK ==
    /\ {now, claimedAt, leaseUntil, began, tick, sent} \subseteq Nat
    /\ exists \in BOOLEAN
    /\ expiry \in Int
    /\ due \in Nat
    /\ beat \in Beats
    /\ reply \in Nat \union {NoReply, Lost}
    /\ handler \in {"running", "returned", "lost", "uncertain"}
    /\ confirmed \in BOOLEAN

\* A handler is told to stop before the database would let another claim its
\* job, whatever renewals were slow, failed or lost their answers, also when
\* the budget ends the renewals; for its estimate is never later than the
\* database's ("response delay can only make it earlier"), and no renewal
\* extends a claim past its hour (runtime.go, startHeartbeat).
StoppedInTime ==
    /\ LeaseTypeOK
    /\ handler = "running" => now < leaseUntil
    /\ expiry <= leaseUntil
    /\ leaseUntil <= claimedAt + HandlerBudget

\* A handler whose latest renewal was answered keeps its job until the budget
\* is all but over (the safety window and one request's delay are all it can
\* lose), and one is told that its lease is lost only when its job is gone.
KeptWhileConfirmed ==
    /\ handler = "uncertain" /\ confirmed =>
          now >= claimedAt + HandlerBudget - RenewMargin - ControlTimeout
    /\ handler = "lost" => ~exists

=============================================================================
