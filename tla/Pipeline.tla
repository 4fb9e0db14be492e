------------------------------ MODULE Pipeline ------------------------------
(***************************************************************************)
(* One finite run of the process: the pools that claim and handle, the     *)
(* listener whose notifications wake them, the depth sampler, and the main *)
(* goroutine that feeds, waits for the queue to drain and stops            *)
(* (internal/pipeline/pipeline.go, internal/storage/postgres/              *)
(* job_listener.go, internal/telemetry/stats.go, internal/worker/          *)
(* runtime.go, internal/cli/ingest.go and the signals of                   *)
(* internal/cli/cli.go).                                                   *)
(*                                                                         *)
(* A pool has one lane; batches and the transaction gate are WorkerPools,  *)
(* leases and attempts JobQueue.  The fallback timers of waits may fire at *)
(* any time.  The settling time is counted in samples, not seconds.        *)
(***************************************************************************)
EXTENDS Naturals, FiniteSets

CONSTANTS Subjects,      \* the pools
          Jobs,          \* the jobs that can come to exist
          SubjectOf,     \* [Jobs -> Subjects]
          Roots,         \* jobs the scan admits
          ChildrenOf,    \* [Jobs -> SUBSET Jobs]: what finishing one publishes
          NoJob,
          SettleSamples, \* quiet samples that end a drain
          MaxMishaps,    \* bound on retries, waits, failed queries, lost connections
          MaxOverrun     \* bound on the samples counted after the pools ended

ASSUME PipelineAssumption ==
    /\ SubjectOf \in [Jobs -> Subjects]
    /\ ChildrenOf \in [Jobs -> SUBSET (Jobs \ Roots)]
    /\ Roots \subseteq Jobs
    /\ NoJob \notin Jobs
    /\ SettleSamples \in Nat \ {0}
    /\ {MaxMishaps, MaxOverrun} \subseteq Nat

VARIABLES jobs,       \* the job table
          pool,       \* where each claim loop stands, with the job it hands over
          laneJob,    \* the job each lane has (Queue.active: how many have one)
          pending,    \* Queue.pending, of all pools: the last sample saw work
          wake,       \* the buffered signal of each pool
          conn,       \* the LISTEN connection
          inbox,      \* a notification is under way on it
          main,       \* where runIngest stands
          drainAt,    \* where WaitDrained stands
          unfinished, \* what its last Counts saw
          quiet,      \* quiet samples in a row
          scanned,    \* the scan completed
          signals,    \* 1: claiming stopped; 2: handlers cancelled
          mishaps,
          overrun     \* history: samples since the last handler was joined

pipelineVars == <<jobs, pool, laneJob, pending, wake, conn, inbox,
    main, drainAt, unfinished, quiet, scanned, signals, mishaps, overrun>>
table == <<jobs, inbox>>
pools == <<pool, laneJob>>
draining == <<drainAt, unfinished, quiet, overrun>>
mode == <<scanned, signals>>

-----------------------------------------------------------------------------
\* ready: announced when it became so; due: a delay that ran out, which
\* nothing announces.
JobStates == {"none", "ready", "due", "delayed", "running", "waiting", "done"}
Claimable == {"ready", "due"}
Unfinished == {"ready", "due", "delayed", "running"}

\* Mutant: retries that are not due yet do not count.
DueWork == \E j \in Jobs : jobs[j] \in Unfinished \ {"delayed"}
\* Counts and Depths: READY and RUNNING, delayed and expired work included.
WorkLeft == \E j \in Jobs : jobs[j] \in Unfinished
\* Claiming has been stopped for the pools.
FetchStopped == signals >= 1 \/ main \in {"stopping", "joined", "ended"}

PipelineInit ==
    /\ jobs = [j \in Jobs |-> "none"]
    /\ pool = [s \in Subjects |-> [at |-> "look", job |-> NoJob]]
    /\ laneJob = [s \in Subjects |-> NoJob]
    /\ pending = FALSE
    /\ wake = [s \in Subjects |-> FALSE]
    /\ conn \in {"up", "down"}
    /\ inbox = FALSE
    /\ main = "feed"
    /\ drainAt = "tick"
    /\ unfinished = FALSE
    /\ quiet = 0
    /\ scanned = FALSE
    /\ signals = 0
    /\ mishaps = 0
    /\ overrun = 0

Mishap == mishaps < MaxMishaps /\ mishaps' = mishaps + 1

\* pg_notify at the commit: an established LISTEN will deliver it, whatever
\* happens to the pools meanwhile; nobody else hears it.
Notify == inbox' = (inbox \/ conn \in {"new", "up"})

Record(j, state, announced) ==
    /\ jobs' = [jobs EXCEPT ![j] = state]
    /\ IF announced THEN Notify ELSE UNCHANGED inbox

-----------------------------------------------------------------------------
(* The listener.                                                           *)

\* A buffered-one channel and a send that does not block.  A loop that has
\* ended takes no signal any more.
WakeAll == wake' = [s \in Subjects |-> pool[s].at # "over"]

ListenerRests == UNCHANGED <<jobs, pools, pending, main, draining, mode>>

Notifies ==
    /\ conn = "up"
    /\ inbox
    /\ inbox' = FALSE
    /\ WakeAll
    /\ UNCHANGED <<conn, mishaps>> /\ ListenerRests

LoseConnection ==
    /\ conn \in {"new", "up"}
    /\ Mishap
    /\ conn' = "down"
    /\ inbox' = FALSE
    /\ UNCHANGED wake /\ ListenerRests

Reconnect ==
    /\ conn = "down"
    /\ conn' = "new"
    /\ UNCHANGED <<inbox, wake, mishaps>> /\ ListenerRests

\* Mutant: notifications missed while disconnected stay missed.
ListenOn ==
    /\ conn = "new"
    /\ conn' = "up"
    /\ UNCHANGED <<wake, inbox, mishaps>> /\ ListenerRests

\* Anything notified while disconnected is gone; look once.
LookOnce ==
    /\ conn = "new"
    /\ conn' = "up"
    /\ WakeAll
    /\ UNCHANGED <<inbox, mishaps>> /\ ListenerRests

ListenerStep == Notifies \/ LoseConnection \/ Reconnect \/ LookOnce

-----------------------------------------------------------------------------
(* A pool: its claim loop and its lane.                                    *)

PoolGoes(s, place, j) == pool' = [pool EXCEPT ![s] = [at |-> place, job |-> j]]
PoolRests == UNCHANGED <<conn, pending, main, draining, mode>>

\* A look with the lane busy parks until it is freed.
PoolClaims(s) ==
    /\ pool[s].at = "look"
    /\ ~FetchStopped
    /\ laneJob[s] = NoJob
    /\ LET mine == {j \in Jobs : SubjectOf[j] = s /\ jobs[j] \in Claimable} IN
       IF mine = {} THEN PoolGoes(s, "dry", NoJob) /\ UNCHANGED jobs
       ELSE \E j \in mine : /\ PoolGoes(s, "hand", j)
                            /\ jobs' = [jobs EXCEPT ![j] = "running"]
    /\ UNCHANGED <<laneJob, wake, inbox, mishaps>> /\ PoolRests

PoolEnds(s) ==
    /\ pool[s].at = "look"
    /\ FetchStopped
    /\ PoolGoes(s, "over", NoJob)
    /\ wake' = [wake EXCEPT ![s] = FALSE]
    /\ UNCHANGED <<table, laneJob, mishaps>> /\ PoolRests

HandOn(s) ==
    /\ pool[s].at = "hand"
    /\ laneJob[s] = NoJob
    /\ laneJob' = [laneJob EXCEPT ![s] = pool[s].job]
    /\ PoolGoes(s, "look", NoJob)
    /\ UNCHANGED <<table, wake, mishaps>> /\ PoolRests

\* Claiming was stopped while the hand-over waited.
HandBack(s) ==
    /\ pool[s].at = "hand"
    /\ FetchStopped
    /\ Record(pool[s].job, "ready", TRUE)
    /\ PoolGoes(s, "over", NoJob)
    /\ wake' = [wake EXCEPT ![s] = FALSE]
    /\ UNCHANGED <<laneJob, mishaps>> /\ PoolRests

Idle(s) ==
    /\ pool[s].at = "dry"
    /\ PoolGoes(s, "idle", NoJob)
    /\ UNCHANGED <<table, laneJob, wake, mishaps>> /\ PoolRests

\* The signal is taken, or the timer or the end of claiming came first.
IdleEnds(s) ==
    /\ pool[s].at = "idle"
    /\ PoolGoes(s, "look", NoJob)
    /\ wake' = [wake EXCEPT ![s] = FALSE] \/ UNCHANGED wake
    /\ UNCHANGED <<table, laneJob, mishaps>> /\ PoolRests

Handling(s) == laneJob[s] # NoJob /\ jobs[laneJob[s]] = "running"
HandlerRests(s) == UNCHANGED <<pools, wake>> /\ PoolRests

\* The stage commits with what it publishes, in one transaction.
LaneCommits(s) ==
    /\ Handling(s)
    /\ LET new == {j \in ChildrenOf[laneJob[s]] : jobs[j] = "none"} IN
       /\ jobs' = [j \in Jobs |-> IF j = laneJob[s] THEN "done"
                                  ELSE IF j \in new THEN "ready" ELSE jobs[j]]
       /\ IF new = {} THEN UNCHANGED inbox ELSE Notify
    /\ UNCHANGED mishaps /\ HandlerRests(s)

\* A transient failure is announced when it is recorded, and delayed.
HandlerFails(s) ==
    /\ Handling(s)
    /\ Mishap
    /\ Record(laneJob[s], "delayed", TRUE)
    /\ HandlerRests(s)

SourceMissing(s) ==
    /\ Handling(s)
    /\ Mishap
    /\ Record(laneJob[s], "waiting", FALSE)
    /\ HandlerRests(s)

\* Cancelled: straight back, attempt refunded.
HandlerCancelled(s) ==
    /\ Handling(s)
    /\ signals = 2
    /\ Record(laneJob[s], "ready", TRUE)
    /\ UNCHANGED mishaps /\ HandlerRests(s)

LaneFinished(s) ==
    /\ laneJob[s] # NoJob
    /\ jobs[laneJob[s]] # "running"
    /\ laneJob' = [laneJob EXCEPT ![s] = NoJob]
    /\ UNCHANGED <<table, pool, wake, mishaps>> /\ PoolRests

PoolStep(s) ==
    \/ PoolClaims(s) \/ PoolEnds(s) \/ HandOn(s) \/ HandBack(s)
    \/ Idle(s) \/ IdleEnds(s) \/ LaneCommits(s)
    \/ HandlerFails(s) \/ SourceMissing(s) \/ HandlerCancelled(s)
    \/ LaneFinished(s)

\* The clock makes a delayed retry claimable.
ComesDue(j) ==
    /\ jobs[j] = "delayed"
    /\ Record(j, "due", FALSE)
    /\ UNCHANGED <<pools, wake, mishaps>> /\ PoolRests

-----------------------------------------------------------------------------
(* The depth sampler, beside WaitDrained's own samples, which alone are     *)
(* read.                                                                   *)

Poll ==
    /\ main \in {"drain", "again"}
    /\ pending' = WorkLeft
    /\ UNCHANGED <<table, pools, wake, conn, main, draining, mode, mishaps>>

-----------------------------------------------------------------------------
(* The main goroutine.                                                     *)

MainRests == UNCHANGED <<pools, wake, conn>>

\* Scan and feed: each file's job is published in a transaction of its own.
Admit(j) ==
    /\ main = "feed"
    /\ signals = 0
    /\ j \in Roots
    /\ jobs[j] = "none"
    /\ Record(j, "ready", TRUE)
    /\ UNCHANGED <<pending, main, draining, scanned, signals, mishaps>> /\ MainRests

Resume ==
    /\ jobs' = [j \in Jobs |-> IF jobs[j] = "waiting" THEN "ready" ELSE jobs[j]]
    /\ IF jobs' = jobs THEN UNCHANGED inbox ELSE Notify

\* The scan completed; the waits are retried.
Fed ==
    /\ main = "feed"
    /\ signals = 0
    /\ \A j \in Roots : jobs[j] # "none"
    /\ scanned' = TRUE
    /\ Resume
    /\ main' = "drain"
    /\ UNCHANGED <<pending, draining, signals, mishaps>> /\ MainRests

\* The scan deferred something or a statement failed: what was admitted is
\* drained all the same.
FeedFails ==
    /\ main = "feed"
    /\ signals = 0
    /\ Mishap
    /\ main' = "drain"
    /\ UNCHANGED <<table, pending, draining, scanned, signals>> /\ MainRests

\* An interrupted run does not drain.
FeedStopped ==
    /\ main = "feed"
    /\ signals > 0
    /\ main' = "stopping"
    /\ UNCHANGED <<table, pending, draining, scanned, signals, mishaps>> /\ MainRests

Waiting(place) ==
    /\ main \in {"drain", "again"}
    /\ drainAt = place
    /\ UNCHANGED <<scanned, signals>> /\ MainRests

\* samplePending on a tick of WaitDrained.
Sample ==
    /\ Waiting("tick")
    /\ signals < 2
    /\ pending' = WorkLeft
    /\ drainAt' = "count"
    /\ UNCHANGED <<table, main, unfinished, quiet, overrun, mishaps>>

\* A failed sample is not an empty observation.
SampleFails ==
    /\ Waiting("tick")
    /\ signals < 2
    /\ Mishap
    /\ quiet' = 0
    /\ UNCHANGED <<table, pending, main, drainAt, unfinished, overrun>>

Count ==
    /\ Waiting("count")
    /\ unfinished' = WorkLeft
    /\ drainAt' = "judge"
    /\ UNCHANGED <<table, pending, main, quiet, overrun, mishaps>>

\* The error ends the drain.
CountFails ==
    /\ Waiting("count")
    /\ Mishap
    /\ main' = "stopping"
    /\ UNCHANGED <<table, pending, draining>>

\* Stats.Idle: no lane active and nothing pending at the last sample.
StatsIdle == ~pending /\ \A s \in Subjects : laneJob[s] = NoJob
Joined == \A s \in Subjects : pool[s].at = "over" /\ laneJob[s] = NoJob
Capped(n) == IF n < MaxOverrun THEN n ELSE MaxOverrun

\* Mutant: every quiet sample starts the settling time anew.
QuietAnew == IF ~StatsIdle \/ unfinished THEN 0 ELSE 1

QuietSamples == IF ~StatsIdle \/ unfinished THEN 0 ELSE quiet + 1

Judge ==
    /\ Waiting("judge")
    /\ quiet' = QuietSamples
    /\ drainAt' = IF quiet' >= SettleSamples THEN "quiet" ELSE "tick"
    /\ unfinished' = FALSE
    /\ overrun' = IF signals = 1 /\ Joined THEN Capped(overrun + 1) ELSE 0
    /\ UNCHANGED <<table, pending, main, mishaps>>

\* drain: when the scan completed and waits are left, they are retried once.
RunIsOver ==
    /\ Waiting("quiet")
    /\ drainAt' = "tick"
    /\ quiet' = 0
    /\ IF main = "drain" /\ scanned /\ \E j \in Jobs : jobs[j] = "waiting"
       THEN main' = "again" /\ Resume
       ELSE main' = "stopping" /\ UNCHANGED table
    /\ UNCHANGED <<pending, unfinished, overrun, mishaps>>

DrainCancelled ==
    /\ Waiting("tick")
    /\ signals = 2
    /\ main' = "stopping"
    /\ UNCHANGED <<table, pending, draining, mishaps>>

\* Pipeline.Wait: the pools, then the sampler and the listener.
JoinsLanes ==
    /\ main = "stopping"
    /\ Joined
    /\ main' = "joined"
    /\ conn' = "closed"
    /\ inbox' = FALSE
    /\ UNCHANGED <<jobs, pools, pending, wake, draining, mode, mishaps>>

\* The search index and the summary.
RunReturns ==
    /\ main = "joined"
    /\ main' = "ended"
    /\ UNCHANGED <<table, pending, draining, scanned, signals, mishaps>> /\ MainRests

MainStep ==
    \/ \E j \in Jobs : Admit(j)
    \/ Fed \/ FeedFails \/ FeedStopped
    \/ Sample \/ SampleFails \/ Count \/ CountFails \/ Judge \/ RunIsOver
    \/ DrainCancelled \/ JoinsLanes \/ RunReturns

\* A signal: the first, the second, or the grace period that follows the first.
Signal ==
    /\ main \notin {"joined", "ended"}
    /\ signals < 2
    /\ signals' = signals + 1
    /\ UNCHANGED <<table, pools, pending, wake, conn, main, draining, scanned,
                   mishaps>>

PipelineEnded == main = "ended" /\ UNCHANGED pipelineVars

PipelineNext ==
    \/ ListenerStep
    \/ \E s \in Subjects : PoolStep(s)
    \/ \E j \in Jobs : ComesDue(j)
    \/ Poll
    \/ MainStep
    \/ Signal
    \/ PipelineEnded

PipelineSpec == PipelineInit /\ [][PipelineNext]_pipelineVars

-----------------------------------------------------------------------------
(* Properties.                                                             *)

PipelineTypeOK ==
    /\ jobs \in [Jobs -> JobStates]
    /\ pool \in [Subjects -> [at : {"look", "hand", "dry", "idle", "over"},
                              job : Jobs \union {NoJob}]]
    /\ laneJob \in [Subjects -> Jobs \union {NoJob}]
    /\ pending \in BOOLEAN
    /\ wake \in [Subjects -> BOOLEAN]
    /\ conn \in {"up", "down", "new", "closed"} /\ inbox \in BOOLEAN
    /\ main \in {"feed", "drain", "again", "stopping", "joined", "ended"}
    /\ drainAt \in {"tick", "count", "judge", "quiet"}
    /\ unfinished \in BOOLEAN /\ scanned \in BOOLEAN
    /\ quiet \in 0..SettleSamples /\ signals \in 0..2
    /\ mishaps \in 0..MaxMishaps /\ overrun \in 0..MaxOverrun

\* A finite run that nobody interrupted and whose last drain ended quietly
\* stops with no job READY or RUNNING, between stages, delayed or not yet
\* started by a lane (pipeline.go, WaitDrained).
QuietMeansDone ==
    /\ PipelineTypeOK
    /\ drainAt = "quiet" => /\ \A j \in Jobs : jobs[j] \notin Unfinished
                         /\ \A s \in Subjects : laneJob[s] = NoJob

\* No pool sleeps over announced work: while the connection listens and has
\* nothing under way, a pool in its wait without a signal has no announced job
\* to claim; neither a notification between a dry claim and the wait nor one
\* sent while the connection was down is lost for good.
NoSleepOverWork ==
    \A s \in Subjects :
        pool[s].at = "idle" /\ ~wake[s] /\ conn = "up" /\ ~inbox =>
            \A j \in Jobs : SubjectOf[j] = s => jobs[j] # "ready"

\* A finite run ends, whatever retries, waits, failed queries, lost connections
\* and signals it meets: every delayed retry comes due and is found, with or
\* without its notification, and a wait for a missing source does not keep the
\* drain from ending.
RunEnds == <>[](main = "ended")

\* A first interrupt "lets in-flight handlers finish" and only "a drain that
\* overruns" is cancelled (cli.go, interrupts): once no handler is left, a
\* drain ends within the settling periods of its two rounds.
StopsOnceDrained == overrun < 2 * SettleSamples + 2
=============================================================================
