--------------------------- MODULE ProcessProofs ---------------------------
(***************************************************************************)
(* Theorems about what one process does: a run of the pipeline (Pipeline), *)
(* an MCP session (StdioServer), the lease of a claim (Lease) and the MCP   *)
(* daemons with the commands that look after them (Daemon).                *)
(***************************************************************************)
EXTENDS Lease, Pipeline, StdioServer, Daemon, FiniteSetTheorems, SequenceTheorems,
        TLAPS

-----------------------------------------------------------------------------
(* The pipeline's inductive invariant.                                     *)

\* A claimed job on its way to the lane is running and nobody else's; a lane
\* has jobs of its own pool.
HandInv(s) ==
    /\ pool[s].at = "hand" =>
          /\ pool[s].job \in Jobs
          /\ SubjectOf[pool[s].job] = s
          /\ jobs[pool[s].job] = "running"
          /\ laneJob[s] # pool[s].job
    /\ laneJob[s] # NoJob => SubjectOf[laneJob[s]] = s

\* NoSleepOverWork from the dry claim on.
Heard(s) ==
    pool[s].at \in {"dry", "idle"} /\ ~wake[s] /\ conn = "up" /\ ~inbox =>
        \A j \in Jobs : SubjectOf[j] = s => jobs[j] # "ready"

\* A sample that saw nothing pending stays true until the samples are judged,
\* and what was judged quiet stays so until the main goroutine goes on.
DrainInv ==
    /\ main = "feed" => drainAt = "tick"
    /\ drainAt \in {"count", "judge"} /\ ~pending => ~WorkLeft
    /\ drainAt = "quiet" => ~WorkLeft /\ \A s \in Subjects : laneJob[s] = NoJob
    /\ drainAt # "quiet" => quiet < SettleSamples

PipelineInv ==
    /\ PipelineTypeOK
    /\ \A s \in Subjects : HandInv(s) /\ Heard(s)
    /\ DrainInv

-----------------------------------------------------------------------------
(* Its types.                                                              *)

\* A recorded state of one job, announced or not.
LEMMA RecordEffect ==
    ASSUME PipelineTypeOK, NEW j \in Jobs, NEW state \in JobStates,
           NEW announced \in BOOLEAN, Record(j, state, announced)
    PROVE  /\ jobs' \in [Jobs -> JobStates] /\ inbox' \in BOOLEAN
           /\ \A k \in Jobs : jobs'[k] = IF k = j THEN state ELSE jobs[k]
           /\ inbox => inbox'
           /\ announced /\ conn = "up" => inbox'
           /\ ~announced => inbox' = inbox
BY DEF PipelineTypeOK, Record, Notify

\* The steps of the listener, the sampler, the clock and the signals.
LEMMA OtherTypes ==
    ASSUME PipelineTypeOK,
           \/ ListenerStep \/ Poll \/ Signal \/ UNCHANGED pipelineVars
           \/ \E j \in Jobs : ComesDue(j)
    PROVE  PipelineTypeOK'
<1> USE PipelineAssumption DEF PipelineTypeOK
<1>1. CASE Notifies
  BY <1>1 DEF Notifies, WakeAll, ListenerRests, pools, draining, mode
<1>2. CASE LoseConnection
  <2>1. mishaps' \in 0..MaxMishaps /\ conn' = "down" /\ inbox' = FALSE
    BY <1>2 DEF LoseConnection, Mishap
  <2> QED BY <1>2, <2>1 DEF LoseConnection, ListenerRests, pools, draining, mode
<1>3. CASE Reconnect
  BY <1>3 DEF Reconnect, ListenerRests, pools, draining, mode
<1>4. CASE LookOnce
  BY <1>4 DEF LookOnce, WakeAll, ListenerRests, pools, draining, mode
<1>5. CASE Poll
  BY <1>5 DEF Poll, WorkLeft, table, pools, draining, mode
<1>6. CASE Signal
  BY <1>6 DEF Signal, table, pools, draining
<1>7. CASE UNCHANGED pipelineVars
  BY <1>7 DEF pipelineVars
<1>8. ASSUME NEW j \in Jobs, ComesDue(j) PROVE PipelineTypeOK'
  <2>1. jobs' \in [Jobs -> JobStates] /\ inbox' \in BOOLEAN
    BY <1>8, RecordEffect DEF ComesDue, JobStates
  <2> QED BY <1>8, <2>1 DEF ComesDue, PoolRests, pools, draining, mode
<1> QED
  BY <1>1, <1>2, <1>3, <1>4, <1>5, <1>6, <1>7, <1>8 DEF ListenerStep

LEMMA PoolTypes ==
    ASSUME PipelineTypeOK, NEW s \in Subjects, HandInv(s), PoolStep(s)
    PROVE  PipelineTypeOK'
<1> USE PipelineAssumption DEF PipelineTypeOK
<1>1. CASE PoolClaims(s)
  BY <1>1 DEF PoolClaims, PoolGoes, PoolRests, draining, mode, JobStates
<1>2. CASE PoolEnds(s)
  BY <1>2 DEF PoolEnds, PoolGoes, PoolRests, draining, mode, table
<1>3. CASE HandOn(s)
  BY <1>3 DEF HandOn, PoolGoes, PoolRests, draining, mode, table
<1>4. CASE HandBack(s)
  <2>1. pool[s].job \in Jobs
    BY <1>4 DEF HandBack, HandInv
  <2>2. jobs' \in [Jobs -> JobStates] /\ inbox' \in BOOLEAN
    BY <1>4, <2>1, RecordEffect DEF HandBack, JobStates
  <2> QED BY <1>4, <2>2 DEF HandBack, PoolGoes, PoolRests, draining, mode
<1>5. CASE Idle(s)
  <2>1. pool' \in [Subjects -> [at : {"look", "hand", "dry", "idle", "over"},
                                 job : Jobs \union {NoJob}]]
    BY <1>5 DEF Idle, PoolGoes
  <2> QED BY <1>5, <2>1 DEF Idle, PoolRests, draining, mode, table
<1>6. CASE IdleEnds(s)
  <2>1. pool' \in [Subjects -> [at : {"look", "hand", "dry", "idle", "over"},
                                 job : Jobs \union {NoJob}]]
    BY <1>6 DEF IdleEnds, PoolGoes
  <2>2. wake' \in [Subjects -> BOOLEAN]
    BY <1>6 DEF IdleEnds
  <2> QED BY <1>6, <2>1, <2>2 DEF IdleEnds, PoolRests, draining, mode, table
<1>7. CASE LaneCommits(s)
  <2>1. jobs' \in [Jobs -> JobStates] /\ inbox' \in BOOLEAN
    BY <1>7 DEF LaneCommits, Notify, JobStates
  <2> QED BY <1>7, <2>1 DEF LaneCommits, HandlerRests, PoolRests, pools, draining, mode
<1>8. CASE HandlerFails(s)
  <2>1. laneJob[s] \in Jobs
    BY <1>8 DEF HandlerFails, Handling
  <2>2. jobs' \in [Jobs -> JobStates] /\ inbox' \in BOOLEAN
    BY <1>8, <2>1, RecordEffect DEF HandlerFails, JobStates
  <2> QED BY <1>8, <2>2 DEF HandlerFails, Mishap, HandlerRests, PoolRests, pools, draining, mode
<1>9. CASE SourceMissing(s)
  <2>1. laneJob[s] \in Jobs
    BY <1>9 DEF SourceMissing, Handling
  <2>2. jobs' \in [Jobs -> JobStates] /\ inbox' \in BOOLEAN
    BY <1>9, <2>1, RecordEffect DEF SourceMissing, JobStates
  <2> QED BY <1>9, <2>2 DEF SourceMissing, Mishap, HandlerRests, PoolRests, pools, draining, mode
<1>10. CASE HandlerCancelled(s)
  <2>1. laneJob[s] \in Jobs
    BY <1>10 DEF HandlerCancelled, Handling
  <2>2. jobs' \in [Jobs -> JobStates] /\ inbox' \in BOOLEAN
    BY <1>10, <2>1, RecordEffect DEF HandlerCancelled, JobStates
  <2> QED BY <1>10, <2>2 DEF HandlerCancelled, HandlerRests, PoolRests, pools, draining, mode
<1>11. CASE LaneFinished(s)
  BY <1>11 DEF LaneFinished, PoolRests, draining, mode, table
<1> QED
  BY <1>1, <1>2, <1>3, <1>4, <1>5, <1>6, <1>7, <1>8, <1>9, <1>10, <1>11 DEF PoolStep

LEMMA ResumeEffect ==
    ASSUME PipelineTypeOK, Resume
    PROVE  /\ jobs' \in [Jobs -> JobStates] /\ inbox' \in BOOLEAN
           /\ \A k \in Jobs : jobs'[k] = IF jobs[k] = "waiting" THEN "ready" ELSE jobs[k]
           /\ inbox => inbox'
           /\ jobs' # jobs /\ conn = "up" => inbox'
BY DEF PipelineTypeOK, Resume, Notify, JobStates

LEMMA MainTypes ==
    ASSUME PipelineTypeOK, DrainInv, MainStep
    PROVE  PipelineTypeOK'
<1> USE PipelineAssumption DEF PipelineTypeOK
<1>1. ASSUME NEW j \in Jobs, Admit(j) PROVE PipelineTypeOK'
  <2>1. jobs' \in [Jobs -> JobStates] /\ inbox' \in BOOLEAN
    BY <1>1, RecordEffect DEF Admit, JobStates
  <2> QED BY <1>1, <2>1 DEF Admit, MainRests, pools, draining
<1>2. CASE Fed
  <2>1. jobs' \in [Jobs -> JobStates] /\ inbox' \in BOOLEAN
    BY <1>2, ResumeEffect DEF Fed
  <2> QED BY <1>2, <2>1 DEF Fed, MainRests, pools, draining
<1>3. CASE FeedFails
  BY <1>3 DEF FeedFails, Mishap, MainRests, pools, draining, table
<1>4. CASE FeedStopped
  BY <1>4 DEF FeedStopped, MainRests, pools, draining, table
<1>5. CASE Sample
  BY <1>5 DEF Sample, Waiting, WorkLeft, MainRests, pools, table
<1>6. CASE SampleFails
  BY <1>6 DEF SampleFails, Waiting, Mishap, MainRests, pools, table
<1>7. CASE Count
  BY <1>7 DEF Count, Waiting, WorkLeft, MainRests, pools, table
<1>8. CASE CountFails
  BY <1>8 DEF CountFails, Waiting, Mishap, MainRests, pools, table, draining
<1>9. CASE Judge
  <2>1. quiet < SettleSamples /\ quiet \in Nat
    BY <1>9 DEF Judge, Waiting, DrainInv
  <2>2. quiet' \in 0..SettleSamples
    BY <1>9, <2>1 DEF Judge, QuietSamples
  <2>3. overrun' \in 0..MaxOverrun
    BY <1>9 DEF Judge, Capped
  <2>4. drainAt' \in {"tick", "quiet"} /\ unfinished' = FALSE
    BY <1>9 DEF Judge
  <2> QED BY <1>9, <2>2, <2>3, <2>4 DEF Judge, Waiting, MainRests, pools, table
<1>10. CASE RunIsOver
  <2>1. jobs' \in [Jobs -> JobStates] /\ inbox' \in BOOLEAN
        /\ main' \in {"again", "stopping"}
    BY <1>10, ResumeEffect DEF RunIsOver, table
  <2> QED BY <1>10, <2>1 DEF RunIsOver, Waiting, MainRests, pools
<1>11. CASE DrainCancelled
  BY <1>11 DEF DrainCancelled, Waiting, MainRests, pools, table, draining
<1>12. CASE JoinsLanes
  BY <1>12 DEF JoinsLanes, pools, draining, mode
<1>13. CASE RunReturns
  BY <1>13 DEF RunReturns, MainRests, pools, table, draining
<1> QED
  BY <1>1, <1>2, <1>3, <1>4, <1>5, <1>6, <1>7, <1>8, <1>9, <1>10, <1>11, <1>12,
     <1>13 DEF MainStep

-----------------------------------------------------------------------------
(* What keeps the three parts of the invariant.                            *)

LEMMA HandKeeps ==
    ASSUME NEW t \in Subjects, HandInv(t), pool'[t] = pool[t],
           laneJob'[t] = laneJob[t] \/ laneJob'[t] = NoJob,
           pool[t].at = "hand" => jobs'[pool[t].job] = "running"
    PROVE  HandInv(t)'
BY PipelineAssumption DEF HandInv

\* Whatever becomes ready is announced, and the wake-up stays where it is.
LEMMA HeardKeeps ==
    ASSUME NEW t \in Subjects, Heard(t), pool'[t] = pool[t],
           wake[t] => wake'[t], conn' = conn, inbox => inbox',
           \A j \in Jobs : SubjectOf[j] = t /\ jobs'[j] = "ready" =>
               jobs[j] = "ready" \/ (conn = "up" => inbox')
    PROVE  Heard(t)'
BY DEF Heard

\* A pool elsewhere in its loop may sleep later only.
LEMMA NotListening ==
    ASSUME NEW t \in Subjects, pool'[t].at \notin {"dry", "idle"}
    PROVE  Heard(t)'
BY DEF Heard

\* No pool, handler or delay creates work when none is unfinished.
LEMMA DrainKeeps ==
    ASSUME DrainInv, UNCHANGED <<pending, main, drainAt, quiet>>,
           WorkLeft \/ (/\ jobs' = jobs
                        /\ \A s \in Subjects : laneJob'[s] = laneJob[s] \/ laneJob'[s] = NoJob)
    PROVE  DrainInv'
<1>1. CASE WorkLeft
  BY <1>1 DEF DrainInv
<1>2. CASE ~WorkLeft /\ jobs' = jobs
           /\ \A s \in Subjects : laneJob'[s] = laneJob[s] \/ laneJob'[s] = NoJob
  <2>1. ~WorkLeft'
    BY <1>2 DEF WorkLeft
  <2> QED BY <1>2, <2>1 DEF DrainInv
<1> QED
  BY <1>1, <1>2

\* A lane's job is on its way to no lane.
LEMMA Apart ==
    ASSUME PipelineInv, NEW s \in Subjects, laneJob[s] # NoJob,
           NEW t \in Subjects, pool[t].at = "hand"
    PROVE  pool[t].job # laneJob[s]
BY DEF PipelineInv, HandInv

-----------------------------------------------------------------------------
(* The listener, the sampler, the clock and the signals.                   *)

LEMMA OtherKeeps ==
    ASSUME PipelineInv,
           \/ ListenerStep \/ Poll \/ Signal \/ UNCHANGED pipelineVars
           \/ \E j \in Jobs : ComesDue(j)
    PROVE  PipelineInv'
<1>0. /\ PipelineTypeOK /\ DrainInv
      /\ \A t \in Subjects : HandInv(t) /\ Heard(t)
  BY DEF PipelineInv
<1>a. PipelineTypeOK'
  BY <1>0, OtherTypes
<1>b. \A t \in Subjects : pool[t].at = "hand" =>
          pool[t].job \in Jobs /\ jobs[pool[t].job] = "running"
  BY <1>0 DEF HandInv
<1>1. CASE Notifies \/ LookOnce
  <2>1. /\ UNCHANGED <<jobs, pool, laneJob, pending, main, drainAt, quiet>>
        /\ \A t \in Subjects : wake'[t] = (pool[t].at # "over")
    BY <1>1 DEF Notifies, LookOnce, WakeAll, ListenerRests, pools, draining
  <2>2. DrainInv'
    BY <1>0, <2>1, DrainKeeps
  <2>3. \A t \in Subjects : HandInv(t)'
    BY <1>0, <1>b, <2>1, HandKeeps
  <2>4. \A t \in Subjects : Heard(t)'
    BY <2>1 DEF Heard
  <2> QED BY <1>a, <2>2, <2>3, <2>4 DEF PipelineInv
<1>2. CASE LoseConnection \/ Reconnect
  <2>1. /\ UNCHANGED <<jobs, pool, laneJob, pending, main, drainAt, quiet>>
        /\ conn' # "up"
    BY <1>2 DEF LoseConnection, Reconnect, ListenerRests, pools, draining
  <2>2. DrainInv'
    BY <1>0, <2>1, DrainKeeps
  <2>3. \A t \in Subjects : HandInv(t)'
    BY <1>0, <1>b, <2>1, HandKeeps
  <2>4. \A t \in Subjects : Heard(t)'
    BY <2>1 DEF Heard
  <2> QED BY <1>a, <2>2, <2>3, <2>4 DEF PipelineInv
<1>3. CASE Poll
  <2>1. UNCHANGED <<jobs, pool, laneJob, main, drainAt, quiet, wake, conn, inbox>>
        /\ pending' = WorkLeft
    BY <1>3 DEF Poll, table, pools, draining
  <2>2. WorkLeft' = WorkLeft
    BY <2>1 DEF WorkLeft
  <2>3. DrainInv'
    BY <1>0, <2>1, <2>2 DEF DrainInv
  <2>4. \A t \in Subjects : HandInv(t)' /\ Heard(t)'
    BY <1>0, <1>b, <2>1, HandKeeps, HeardKeeps
  <2> QED BY <1>a, <2>3, <2>4 DEF PipelineInv
<1>4. CASE Signal \/ UNCHANGED pipelineVars
  <2>1. UNCHANGED <<jobs, pool, laneJob, pending, main, drainAt, quiet, wake, conn,
                    inbox>>
    BY <1>4 DEF Signal, table, pools, draining, pipelineVars
  <2>2. DrainInv'
    BY <1>0, <2>1, DrainKeeps
  <2>3. \A t \in Subjects : HandInv(t)' /\ Heard(t)'
    BY <1>0, <1>b, <2>1, HandKeeps, HeardKeeps
  <2> QED BY <1>a, <2>2, <2>3 DEF PipelineInv
<1>5. ASSUME NEW j \in Jobs, ComesDue(j) PROVE PipelineInv'
  <2>1. /\ UNCHANGED <<pool, laneJob, pending, main, drainAt, quiet, wake, conn>>
        /\ inbox' = inbox
        /\ \A k \in Jobs : jobs'[k] = IF k = j THEN "due" ELSE jobs[k]
    BY <1>0, <1>5, RecordEffect DEF ComesDue, PoolRests, pools, draining, JobStates
  <2>2. jobs[j] = "delayed"
    BY <1>5 DEF ComesDue
  <2>3. DrainInv'
    <3>1. WorkLeft
      BY <2>2 DEF WorkLeft, Unfinished
    <3> QED BY <1>0, <2>1, <3>1, DrainKeeps
  <2>4. ASSUME NEW t \in Subjects PROVE HandInv(t)' /\ Heard(t)'
    <3>1. HandInv(t)'
      BY <1>0, <1>b, <2>1, <2>2, HandKeeps
    <3>2. Heard(t)'
      BY <1>0, <2>1, HeardKeeps
    <3> QED BY <3>1, <3>2
  <2> QED BY <1>a, <2>3, <2>4 DEF PipelineInv
<1> QED
  BY <1>1, <1>2, <1>3, <1>4, <1>5 DEF ListenerStep

-----------------------------------------------------------------------------
(* The pools.                                                              *)

LEMMA ClaimKeeps ==
    ASSUME PipelineInv, NEW s \in Subjects, PoolClaims(s) PROVE PipelineInv'
<1>0. /\ PipelineTypeOK /\ DrainInv
      /\ \A t \in Subjects : HandInv(t) /\ Heard(t)
  BY DEF PipelineInv
<1>a. PipelineTypeOK'
  BY <1>0, PoolTypes DEF PoolStep
<1>b. UNCHANGED <<laneJob, pending, main, drainAt, quiet, wake, conn, inbox>>
      /\ laneJob[s] = NoJob
  BY DEF PoolClaims, PoolRests, draining
<1>c. pool \in [Subjects -> [at : {"look", "hand", "dry", "idle", "over"},
                             job : Jobs \union {NoJob}]]
      /\ jobs \in [Jobs -> JobStates]
  BY <1>0 DEF PipelineTypeOK
<1> DEFINE mine == {j \in Jobs : SubjectOf[j] = s /\ jobs[j] \in Claimable}
<1>1. CASE mine = {}
  <2>1. jobs' = jobs /\ pool' = [pool EXCEPT ![s] = [at |-> "dry", job |-> NoJob]]
    BY <1>1 DEF PoolClaims, PoolGoes
  <2>2. pool'[s].at = "dry" /\ \A t \in Subjects : t # s => pool'[t] = pool[t]
    BY <1>c, <2>1
  <2>3. DrainInv'
    BY <1>0, <1>b, <2>1, DrainKeeps
  <2>4. ASSUME NEW t \in Subjects PROVE HandInv(t)' /\ Heard(t)'
    <3>1. CASE t = s
      <4>1. HandInv(t)'
        BY <1>b, <2>2, <3>1 DEF HandInv
      <4>2. Heard(t)'
        BY <1>1, <2>1, <3>1 DEF Heard, Claimable
      <4> QED BY <4>1, <4>2
    <3>2. CASE t # s
      <4>1. HandInv(t)'
        BY <1>0, <1>b, <2>1, <2>2, <3>2 DEF HandInv
      <4>2. Heard(t)'
        BY <1>0, <1>b, <2>1, <2>2, <3>2 DEF Heard
      <4> QED BY <4>1, <4>2
    <3> QED BY <3>1, <3>2
  <2> QED BY <1>a, <2>3, <2>4 DEF PipelineInv
<1>2. CASE mine # {}
  <2>1. PICK j \in mine :
            /\ jobs' = [jobs EXCEPT ![j] = "running"]
            /\ pool' = [pool EXCEPT ![s] = [at |-> "hand", job |-> j]]
    BY <1>2 DEF PoolClaims, PoolGoes
  <2>2. /\ j \in Jobs /\ SubjectOf[j] = s /\ jobs[j] \in Claimable
        /\ pool'[s].at = "hand" /\ pool'[s].job = j
        /\ \A t \in Subjects : t # s => pool'[t] = pool[t]
        /\ \A k \in Jobs : jobs'[k] = IF k = j THEN "running" ELSE jobs[k]
    BY <1>c, <2>1
  <2>3. DrainInv'
    <3>1. WorkLeft
      BY <2>2 DEF WorkLeft, Claimable, Unfinished
    <3> QED BY <1>0, <1>b, <3>1, DrainKeeps
  <2>4. ASSUME NEW t \in Subjects PROVE HandInv(t)' /\ Heard(t)'
    <3>1. CASE t = s
      <4>1. HandInv(t)'
        BY <1>b, <2>2, <3>1, PipelineAssumption DEF HandInv
      <4>2. Heard(t)'
        BY <2>2, <3>1, NotListening
      <4> QED BY <4>1, <4>2
    <3>2. CASE t # s
      <4>1. pool[t].at = "hand" => jobs'[pool[t].job] = "running"
        BY <1>0, <2>2 DEF HandInv
      <4>2. HandInv(t)'
        BY <1>0, <1>b, <2>2, <3>2, <4>1, HandKeeps
      <4>3. Heard(t)'
        BY <1>0, <1>b, <2>2, <3>2, HeardKeeps
      <4> QED BY <4>2, <4>3
    <3> QED BY <3>1, <3>2
  <2> QED BY <1>a, <2>3, <2>4 DEF PipelineInv
<1> QED
  BY <1>1, <1>2

\* Steps of the claim loop that leave the jobs alone.
LEMMA LoopKeeps ==
    ASSUME PipelineInv, NEW s \in Subjects,
           PoolEnds(s) \/ Idle(s) \/ IdleEnds(s) \/ HandOn(s) \/ LaneFinished(s)
    PROVE  PipelineInv'
<1>0. /\ PipelineTypeOK /\ DrainInv
      /\ \A t \in Subjects : HandInv(t) /\ Heard(t)
  BY DEF PipelineInv
<1>a. PipelineTypeOK'
  BY <1>0, PoolTypes DEF PoolStep
<1>b. UNCHANGED <<jobs, inbox, pending, main, drainAt, quiet, conn>>
  BY DEF PoolEnds, Idle, IdleEnds, HandOn, LaneFinished, PoolRests, table, draining
<1>c. /\ pool \in [Subjects -> [at : {"look", "hand", "dry", "idle", "over"},
                                job : Jobs \union {NoJob}]]
      /\ laneJob \in [Subjects -> Jobs \union {NoJob}]
      /\ wake \in [Subjects -> BOOLEAN]
  BY <1>0 DEF PipelineTypeOK
<1>d. \A t \in Subjects : pool[t].at = "hand" => jobs'[pool[t].job] = "running"
  BY <1>0, <1>b DEF HandInv
<1>1. CASE PoolEnds(s) \/ Idle(s) \/ IdleEnds(s)
  <2>1. /\ laneJob' = laneJob
        /\ pool'[s].at \in {"over", "idle", "look"}
        /\ \A t \in Subjects : t # s => pool'[t] = pool[t] /\ wake'[t] = wake[t]
    BY <1>1, <1>c DEF PoolEnds, Idle, IdleEnds, PoolGoes
  <2>2. DrainInv'
    BY <1>0, <1>b, <2>1, DrainKeeps
  <2>3. ASSUME NEW t \in Subjects PROVE HandInv(t)' /\ Heard(t)'
    <3>1. CASE t = s
      <4>1. HandInv(t)'
        BY <1>0, <2>1, <3>1 DEF HandInv
      <4>2. CASE Idle(s)
        <5>1. pool[s].at = "dry" /\ wake' = wake
          BY <4>2 DEF Idle
        <5> QED BY <1>0, <1>b, <3>1, <4>1, <5>1 DEF Heard
      <4>3. CASE ~Idle(s)
        <5>1. pool'[s].at \in {"over", "look"}
          BY <1>1, <1>c, <4>3 DEF PoolEnds, IdleEnds, PoolGoes
        <5> QED BY <3>1, <4>1, <5>1, NotListening
      <4> QED BY <4>2, <4>3
    <3>2. CASE t # s
      BY <1>0, <1>b, <1>d, <2>1, <3>2, HandKeeps, HeardKeeps
    <3> QED BY <3>1, <3>2
  <2> QED BY <1>a, <2>2, <2>3 DEF PipelineInv
<1>2. CASE HandOn(s)
  <2>1. /\ pool[s].at = "hand" /\ wake' = wake
        /\ pool'[s].at = "look" /\ laneJob'[s] = pool[s].job
        /\ \A t \in Subjects : t # s => pool'[t] = pool[t] /\ laneJob'[t] = laneJob[t]
    BY <1>2, <1>c DEF HandOn, PoolGoes
  <2>2. DrainInv'
    <3>1. WorkLeft
      BY <1>0, <2>1 DEF HandInv, WorkLeft, Unfinished
    <3> QED BY <1>0, <1>b, <3>1, DrainKeeps
  <2>3. ASSUME NEW t \in Subjects PROVE HandInv(t)' /\ Heard(t)'
    <3>1. CASE t = s
      <4>1. HandInv(t)'
        BY <1>0, <2>1, <3>1 DEF HandInv
      <4> QED BY <2>1, <3>1, <4>1, NotListening
    <3>2. CASE t # s
      BY <1>0, <1>b, <1>d, <2>1, <3>2, HandKeeps, HeardKeeps
    <3> QED BY <3>1, <3>2
  <2> QED BY <1>a, <2>2, <2>3 DEF PipelineInv
<1>3. CASE LaneFinished(s)
  <2>1. /\ pool' = pool /\ wake' = wake
        /\ \A t \in Subjects : laneJob'[t] = laneJob[t] \/ laneJob'[t] = NoJob
    BY <1>3, <1>c DEF LaneFinished
  <2>2. DrainInv'
    BY <1>0, <1>b, <2>1, DrainKeeps
  <2>3. \A t \in Subjects : HandInv(t)' /\ Heard(t)'
    BY <1>0, <1>b, <1>d, <2>1, HandKeeps, HeardKeeps
  <2> QED BY <1>a, <2>2, <2>3 DEF PipelineInv
<1> QED
  BY <1>1, <1>2, <1>3

LEMMA GiveBackKeeps ==
    ASSUME PipelineInv, NEW s \in Subjects, HandBack(s) PROVE PipelineInv'
<1>0. /\ PipelineTypeOK /\ DrainInv
      /\ \A t \in Subjects : HandInv(t) /\ Heard(t)
  BY DEF PipelineInv
<1>a. PipelineTypeOK'
  BY <1>0, PoolTypes DEF PoolStep
<1>b. UNCHANGED <<laneJob, pending, main, drainAt, quiet, conn>>
  BY DEF HandBack, PoolRests, draining
<1>c. /\ pool \in [Subjects -> [at : {"look", "hand", "dry", "idle", "over"},
                                job : Jobs \union {NoJob}]]
      /\ wake \in [Subjects -> BOOLEAN]
  BY <1>0 DEF PipelineTypeOK
<1> DEFINE j == pool[s].job
<1>1. /\ pool[s].at = "hand" /\ j \in Jobs /\ SubjectOf[j] = s
      /\ jobs[j] = "running"
  BY <1>0 DEF HandBack, HandInv
<1>2. /\ \A k \in Jobs : jobs'[k] = IF k = j THEN "ready" ELSE jobs[k]
      /\ inbox => inbox'
      /\ conn = "up" => inbox'
  <2>1. Record(j, "ready", TRUE)
    BY DEF HandBack
  <2> HIDE DEF j
  <2> QED BY <1>0, <1>1, <2>1, RecordEffect DEF JobStates
<1>3. /\ pool'[s].at = "over"
      /\ \A t \in Subjects : t # s => pool'[t] = pool[t] /\ wake'[t] = wake[t]
  BY <1>c DEF HandBack, PoolGoes
<1>4. DrainInv'
  <2>1. WorkLeft
    BY <1>1 DEF WorkLeft, Unfinished
  <2> QED BY <1>0, <1>b, <2>1, DrainKeeps
<1>5. ASSUME NEW t \in Subjects PROVE HandInv(t)' /\ Heard(t)'
  <2>1. CASE t = s
    BY <1>0, <1>b, <1>3, <2>1, NotListening DEF HandInv
  <2>2. CASE t # s
    <3>1. pool[t].at = "hand" => jobs'[pool[t].job] = "running"
      BY <1>0, <1>1, <1>2, <2>2 DEF HandInv
    <3> QED BY <1>0, <1>b, <1>2, <1>3, <2>2, <3>1, HandKeeps, HeardKeeps
  <2> QED BY <2>1, <2>2
<1> QED
  BY <1>a, <1>4, <1>5 DEF PipelineInv

\* What a handler does to its own job, and what it publishes.
LEMMA HandlerKeeps ==
    ASSUME PipelineInv, NEW s \in Subjects,
           LaneCommits(s) \/ HandlerFails(s) \/ SourceMissing(s) \/ HandlerCancelled(s)
    PROVE  PipelineInv'
<1>0. /\ PipelineTypeOK /\ DrainInv
      /\ \A t \in Subjects : HandInv(t) /\ Heard(t)
  BY DEF PipelineInv
<1>a. PipelineTypeOK'
  BY <1>0, PoolTypes DEF PoolStep
<1>b. UNCHANGED <<pool, laneJob, wake, pending, main, drainAt, quiet, conn>>
  BY DEF LaneCommits, HandlerFails, SourceMissing, HandlerCancelled, HandlerRests,
         PoolRests, draining, pools
<1>c. laneJob[s] \in Jobs /\ laneJob[s] # NoJob /\ jobs[laneJob[s]] = "running"
  BY <1>0 DEF LaneCommits, HandlerFails, SourceMissing, HandlerCancelled, Handling,
              PipelineTypeOK
<1>1. /\ \A k \in Jobs : k # laneJob[s] => jobs'[k] = jobs[k] \/ jobs[k] = "none"
      /\ inbox => inbox'
      /\ \A k \in Jobs : jobs'[k] = "ready" /\ jobs[k] # "ready" /\ conn = "up" =>
             inbox'
  <2>1. CASE LaneCommits(s)
    <3> DEFINE new == {k \in ChildrenOf[laneJob[s]] : jobs[k] = "none"}
    <3>1. \A k \in Jobs : jobs'[k] = IF k = laneJob[s] THEN "done"
                                     ELSE IF k \in new THEN "ready" ELSE jobs[k]
      BY <2>1 DEF LaneCommits
    <3>2. IF new = {} THEN inbox' = inbox ELSE inbox' = (inbox \/ conn \in {"new", "up"})
      BY <2>1 DEF LaneCommits, Notify
    <3>3. \A k \in new : jobs[k] = "none"
      OBVIOUS
    <3> HIDE DEF new
    <3> QED BY <1>c, <3>1, <3>2, <3>3
  <2>2. CASE HandlerFails(s)
    BY <1>0, <1>c, <2>2, RecordEffect DEF HandlerFails, JobStates
  <2>3. CASE SourceMissing(s)
    BY <1>0, <1>c, <2>3, RecordEffect DEF SourceMissing, JobStates
  <2>4. CASE HandlerCancelled(s)
    BY <1>0, <1>c, <2>4, RecordEffect DEF HandlerCancelled, JobStates
  <2> QED BY <2>1, <2>2, <2>3, <2>4
<1>2. DrainInv'
  <2>1. WorkLeft
    BY <1>c DEF WorkLeft, Unfinished
  <2> QED BY <1>0, <1>b, <2>1, DrainKeeps
<1>3. ASSUME NEW t \in Subjects PROVE HandInv(t)' /\ Heard(t)'
  <2>1. pool[t].at = "hand" => jobs'[pool[t].job] = "running"
    <3>1. pool[t].at = "hand" => pool[t].job # laneJob[s]
      BY <1>c, Apart
    <3> QED BY <1>0, <1>1, <3>1 DEF HandInv
  <2>2. HandInv(t)'
    BY <1>0, <1>b, <2>1, HandKeeps
  <2>3. Heard(t)'
    BY <1>0, <1>b, <1>1, HeardKeeps
  <2> QED BY <2>2, <2>3
<1> QED
  BY <1>a, <1>2, <1>3 DEF PipelineInv

-----------------------------------------------------------------------------
(* The main goroutine.                                                     *)

\* Steps that leave the jobs alone.
LEMMA WatchKeeps ==
    ASSUME PipelineInv,
           \/ FeedFails \/ FeedStopped \/ Sample \/ SampleFails \/ Count \/ CountFails
           \/ Judge \/ DrainCancelled \/ JoinsLanes \/ RunReturns
    PROVE  PipelineInv'
<1>0. /\ PipelineTypeOK /\ DrainInv
      /\ \A t \in Subjects : HandInv(t) /\ Heard(t)
  BY DEF PipelineInv
<1>a. PipelineTypeOK'
  BY <1>0, MainTypes DEF MainStep
<1>b. UNCHANGED <<jobs, pool, laneJob, wake>>
  BY DEF FeedFails, FeedStopped, Sample, SampleFails, Count, CountFails, Judge,
         DrainCancelled, JoinsLanes, RunReturns, Waiting, MainRests, table, pools
<1>c. ~JoinsLanes => UNCHANGED <<conn, inbox>>
  BY DEF FeedFails, FeedStopped, Sample, SampleFails, Count, CountFails, Judge,
         DrainCancelled, RunReturns, Waiting, MainRests, table, pools
<1>d. WorkLeft' = WorkLeft
  BY <1>b DEF WorkLeft
<1>1. \A t \in Subjects : HandInv(t)'
  BY <1>0, <1>b DEF HandInv
<1>2. \A t \in Subjects : Heard(t)'
  <2>1. CASE JoinsLanes
    <3>1. conn' = "closed"
      BY <2>1 DEF JoinsLanes
    <3> QED BY <3>1 DEF Heard
  <2>2. CASE ~JoinsLanes
    BY <1>0, <1>b, <1>c, <2>2 DEF Heard
  <2> QED BY <2>1, <2>2
<1>3. DrainInv'
  <2>1. CASE FeedFails \/ FeedStopped \/ CountFails \/ DrainCancelled \/ JoinsLanes \/ RunReturns
    <3>1. UNCHANGED <<pending, drainAt, quiet>> /\ main' # "feed"
      BY <2>1 DEF FeedFails, FeedStopped, CountFails, DrainCancelled, JoinsLanes, RunReturns, draining
    <3> QED BY <1>0, <1>b, <1>d, <3>1 DEF DrainInv
  <2>2. CASE Sample
    <3>1. /\ pending' = WorkLeft /\ drainAt' = "count"
          /\ UNCHANGED <<main, quiet>> /\ main # "feed" /\ drainAt = "tick"
      BY <2>2 DEF Sample, Waiting
    <3> QED BY <1>0, <1>b, <1>d, <3>1 DEF DrainInv
  <2>3. CASE SampleFails
    <3>1. /\ quiet' = 0 /\ drainAt = "tick"
          /\ UNCHANGED <<main, drainAt, pending>> /\ main # "feed"
      BY <2>3 DEF SampleFails, Waiting
    <3>2. 0 < SettleSamples
      BY PipelineAssumption
    <3> QED BY <1>0, <1>b, <1>d, <3>1, <3>2 DEF DrainInv
  <2>4. CASE Count
    <3>1. /\ drainAt' = "judge" /\ drainAt = "count" /\ main # "feed"
          /\ UNCHANGED <<main, quiet, pending>>
      BY <2>4 DEF Count, Waiting
    <3> QED BY <1>0, <1>b, <1>d, <3>1 DEF DrainInv
  <2>5. CASE Judge
    <3>1. /\ drainAt = "judge" /\ main # "feed" /\ UNCHANGED <<main, pending>>
          /\ quiet' = QuietSamples
          /\ drainAt' = IF quiet' >= SettleSamples THEN "quiet" ELSE "tick"
      BY <2>5 DEF Judge, Waiting
    <3>2. quiet \in 0..SettleSamples /\ SettleSamples \in Nat /\ 0 < SettleSamples
      BY <1>0, PipelineAssumption DEF PipelineTypeOK
    <3>3. CASE quiet' >= SettleSamples
      <4>1. StatsIdle
        BY <3>1, <3>2, <3>3 DEF QuietSamples
      <4>2. ~WorkLeft
        BY <1>0, <3>1, <4>1 DEF StatsIdle, DrainInv
      <4> QED BY <1>b, <1>d, <3>1, <3>3, <4>1, <4>2 DEF StatsIdle, DrainInv
    <3>4. CASE ~(quiet' >= SettleSamples)
      <4>1. quiet' < SettleSamples
        BY <1>a, <3>2, <3>4 DEF PipelineTypeOK
      <4> QED BY <3>1, <3>4, <4>1 DEF DrainInv
    <3> QED BY <3>3, <3>4
  <2> QED BY <2>1, <2>2, <2>3, <2>4, <2>5
<1> QED
  BY <1>a, <1>1, <1>2, <1>3 DEF PipelineInv

LEMMA FeedKeeps ==
    ASSUME PipelineInv, Fed \/ \E j \in Jobs : Admit(j) PROVE PipelineInv'
<1>0. /\ PipelineTypeOK /\ DrainInv
      /\ \A t \in Subjects : HandInv(t) /\ Heard(t)
  BY DEF PipelineInv
<1>a. PipelineTypeOK'
  BY <1>0, MainTypes DEF MainStep
<1>b. /\ UNCHANGED <<pool, laneJob, wake, conn, pending, drainAt, quiet>>
      /\ main = "feed"
  BY DEF Admit, Fed, MainRests, pools, draining
<1>1. /\ \A k \in Jobs : jobs[k] = "running" => jobs'[k] = "running"
      /\ inbox => inbox'
      /\ \A k \in Jobs : jobs'[k] = "ready" /\ jobs[k] # "ready" /\ conn = "up" =>
             inbox'
  <2>1. ASSUME NEW j \in Jobs, Admit(j)
        PROVE  /\ \A k \in Jobs : jobs'[k] = IF k = j THEN "ready" ELSE jobs[k]
               /\ jobs[j] = "none"
               /\ inbox => inbox'
               /\ conn = "up" => inbox'
    BY <1>0, <2>1, RecordEffect DEF Admit, JobStates
  <2>2. CASE Fed
    BY <1>0, <2>2, ResumeEffect DEF Fed
  <2> QED BY <2>1, <2>2
<1>2. DrainInv'
  BY <1>0, <1>b DEF DrainInv
<1>3. ASSUME NEW t \in Subjects PROVE HandInv(t)' /\ Heard(t)'
  <2>1. HandInv(t)'
    BY <1>0, <1>b, <1>1, HandKeeps DEF HandInv
  <2>2. Heard(t)'
    BY <1>0, <1>b, <1>1, HeardKeeps
  <2> QED BY <2>1, <2>2
<1> QED
  BY <1>a, <1>2, <1>3 DEF PipelineInv

LEMMA DrainedKeeps == ASSUME PipelineInv, RunIsOver PROVE PipelineInv'
<1>0. /\ PipelineTypeOK /\ DrainInv
      /\ \A t \in Subjects : HandInv(t) /\ Heard(t)
  BY DEF PipelineInv
<1>a. PipelineTypeOK'
  BY <1>0, MainTypes DEF MainStep
<1>b. /\ UNCHANGED <<pool, laneJob, wake, conn, pending>>
      /\ drainAt' = "tick" /\ quiet' = 0 /\ main' \in {"again", "stopping"}
  BY DEF RunIsOver, Waiting, MainRests, pools
<1>1. /\ \A k \in Jobs : jobs[k] = "running" => jobs'[k] = "running"
      /\ inbox => inbox'
      /\ \A k \in Jobs : jobs'[k] = "ready" /\ jobs[k] # "ready" /\ conn = "up" =>
             inbox'
  <2>1. CASE Resume
    BY <1>0, <2>1, ResumeEffect
  <2>2. CASE UNCHANGED table
    BY <2>2 DEF table
  <2> QED BY <2>1, <2>2 DEF RunIsOver
<1>2. DrainInv'
  <2>1. 0 < SettleSamples
    BY PipelineAssumption
  <2> QED BY <1>b, <2>1 DEF DrainInv
<1>3. ASSUME NEW t \in Subjects PROVE HandInv(t)' /\ Heard(t)'
  <2>1. HandInv(t)'
    BY <1>0, <1>b, <1>1, HandKeeps DEF HandInv
  <2>2. Heard(t)'
    BY <1>0, <1>b, <1>1, HeardKeeps
  <2> QED BY <2>1, <2>2
<1> QED
  BY <1>a, <1>2, <1>3 DEF PipelineInv

-----------------------------------------------------------------------------
(* The pipeline's theorems.                                                *)

LEMMA PipelineInitInv == PipelineInit => PipelineInv
<1> SUFFICES ASSUME PipelineInit PROVE PipelineInv
  OBVIOUS
<1> USE PipelineAssumption DEF PipelineInit
<1>1. PipelineTypeOK
  <2>1. pool \in [Subjects -> [at : {"look", "hand", "dry", "idle", "over"},
                               job : Jobs \union {NoJob}]]
    OBVIOUS
  <2>2. jobs \in [Jobs -> JobStates] /\ laneJob \in [Subjects -> Jobs \union {NoJob}]
        /\ wake \in [Subjects -> BOOLEAN]
    BY DEF JobStates
  <2>3. 0 \in 0..SettleSamples /\ 0 \in 0..MaxMishaps /\ 0 \in 0..MaxOverrun /\ 0 \in 0..2
    OBVIOUS
  <2> QED BY <2>1, <2>2, <2>3 DEF PipelineTypeOK
<1>2. \A s \in Subjects : HandInv(s) /\ Heard(s)
  BY DEF HandInv, Heard
<1>3. DrainInv
  BY DEF DrainInv
<1> QED
  BY <1>1, <1>2, <1>3 DEF PipelineInv

LEMMA PipelineNextInv ==
    PipelineInv /\ [PipelineNext]_pipelineVars => PipelineInv'
<1> SUFFICES ASSUME PipelineInv, [PipelineNext]_pipelineVars PROVE PipelineInv'
  OBVIOUS
<1>1. CASE \E s \in Subjects : PoolStep(s)
  <2>1. PICK s \in Subjects : PoolStep(s)
    BY <1>1
  <2> QED
    BY <2>1, ClaimKeeps, LoopKeeps, GiveBackKeeps, HandlerKeeps DEF PoolStep
<1>2. CASE MainStep
  BY <1>2, WatchKeeps, FeedKeeps, DrainedKeeps DEF MainStep
<1>3. CASE ListenerStep \/ Poll \/ Signal \/ UNCHANGED pipelineVars
           \/ \E j \in Jobs : ComesDue(j)
  BY <1>3, OtherKeeps
<1> QED
  BY <1>1, <1>2, <1>3 DEF PipelineNext, PipelineEnded

\* The invariant holds in every state of every run.
THEOREM PipelineInductive == PipelineSpec => []PipelineInv
BY PipelineInitInv, PipelineNextInv, PTL DEF PipelineSpec

\* No pool sleeps over announced work, whatever happens to notifications and
\* connections: a dry claim, the notification and the buffered signal cannot
\* miss each other (claimLoop, JobListener), for any number of pools and jobs.
THEOREM NeverAsleepOverWork == PipelineSpec => []NoSleepOverWork
<1>1. PipelineInv => NoSleepOverWork
  BY DEF PipelineInv, Heard, NoSleepOverWork
<1> QED
  BY <1>1, PipelineInductive, PTL

\* When a drain ends quietly no job is READY or RUNNING and no lane has one,
\* however many stages publish one another and however short the settling
\* time, as long as there is one (WaitDrained).
THEOREM QuietIsDone == PipelineSpec => []QuietMeansDone
<1>1. PipelineInv => QuietMeansDone
  BY DEF PipelineInv, DrainInv, WorkLeft, QuietMeansDone
<1> QED
  BY <1>1, PipelineInductive, PTL

-----------------------------------------------------------------------------
(* The session's inductive invariant.                                      *)

\* A frame that was not accepted yet: it is left to send, or read.
InPlay(f) == f \in toSend \/ \E i \in 1..Len(frames) : frames[i] = f

\* Every frame is sent and read once.
ReadOnce ==
    /\ \A i, j \in 1..Len(frames) : frames[i] = frames[j] => i = j
    /\ \A i \in 1..Len(frames) : frames[i] \notin toSend

NoAnswer(r) == answers[r]["result"] = 0 /\ answers[r]["error"] = 0

\* A request is answered after it was accepted, by what accepted it or by its
\* call, and the call answers at one place.
AnswerInv(r) ==
    /\ InPlay(Frame("request", r)) => call[r] = "none" /\ NoAnswer(r)
    /\ call[r] \in {"running", "answering"} => NoAnswer(r)
    /\ answers[r]["result"] + answers[r]["error"] <= 1

\* A request with a result, or with a call that may bring one.
UsesId(r) == call[r] # "none" \/ answers[r]["result"] > 0

\* Its id is remembered and nobody else's.
IdInv ==
    /\ \A r \in Requests : UsesId(r) => IdOf[r] \in seenIDs
    /\ \A q, r \in Requests :
          UsesId(q) /\ UsesId(r) /\ IdOf[q] = IdOf[r] => q = r

\* The store is closed when Serve returns, and it returns without calls.
StoreInv ==
    /\ snapshots = (serving # "returned")
    /\ serving = "returned" => Active = {}

SessionInv ==
    /\ SessionTypeOK
    /\ ReadOnce
    /\ \A r \in Requests : AnswerInv(r)
    /\ IdInv
    /\ StoreInv

-----------------------------------------------------------------------------
(* The session's steps.                                                    *)

\* Frames about different requests, or of different kinds, are different.
LEMMA FramesDiffer ==
    ASSUME NEW what, NEW r, NEW other, NEW q, Frame(what, r) = Frame(other, q)
    PROVE  what = other /\ r = q
BY DEF Frame

LEMMA AnsweredEffect ==
    ASSUME SessionTypeOK, NEW r \in Requests, NEW kind \in Kinds, AnsweredWith(r, kind)
    PROVE  /\ answers' \in [Requests -> [Kinds -> Nat]]
           /\ \A q \in Requests : q # r => answers'[q] = answers[q]
           /\ \A k \in Kinds : answers'[r][k] =
                 IF k = kind THEN answers[r][k] + 1 ELSE answers[r][k]
<1>1. answers \in [Requests -> [Kinds -> Nat]]
  BY DEF SessionTypeOK
<1>2. answers' = [answers EXCEPT ![r] = [answers[r] EXCEPT ![kind] = answers[r][kind] + 1]]
  BY DEF AnsweredWith
<1>3. [answers[r] EXCEPT ![kind] = answers[r][kind] + 1] \in [Kinds -> Nat]
  BY <1>1
<1> QED
  BY <1>1, <1>2, <1>3

\* Accepting a frame takes it out of play and leaves the others.
LEMMA AcceptedEffect ==
    ASSUME SessionTypeOK, ReadOnce, NEW what, NEW r, Accepted(what, r)
    PROVE  /\ frames' \in Seq(Frames) /\ toSend' = toSend
           /\ ReadOnce'
           /\ ~InPlay(Frame(what, r))'
           /\ InPlay(Frame(what, r))
           /\ \A f : InPlay(f)' => InPlay(f)
<1>1. /\ frames \in Seq(Frames) /\ frames # <<>> /\ frames' = Tail(frames)
      /\ Head(frames) = Frame(what, r) /\ toSend' = toSend
  BY DEF Accepted, SessionTypeOK, ClientRests
<1>2. /\ frames' \in Seq(Frames) /\ Len(frames) \in Nat /\ Len(frames) >= 1
      /\ Len(frames') = Len(frames) - 1
      /\ frames[1] = Frame(what, r)
      /\ \A i \in 1..Len(frames') : frames'[i] = frames[i + 1]
  BY <1>1
<1>3. \A i \in 1..Len(frames') : i + 1 \in 1..Len(frames) /\ i + 1 # 1
  BY <1>2
<1>4. 1 \in 1..Len(frames)
  BY <1>2
<1>5. ReadOnce'
  <2>1. ASSUME NEW i \in 1..Len(frames'), NEW j \in 1..Len(frames'),
               frames'[i] = frames'[j]
        PROVE  i = j
    <3>1. i + 1 = j + 1
      BY <1>2, <1>3, <2>1 DEF ReadOnce
    <3> QED BY <1>2, <3>1
  <2>2. \A i \in 1..Len(frames') : frames'[i] \notin toSend'
    BY <1>1, <1>2, <1>3 DEF ReadOnce
  <2> QED BY <2>1, <2>2 DEF ReadOnce
<1>6. \A i \in 1..Len(frames') : frames'[i] # Frame(what, r)
  BY <1>2, <1>3, <1>4 DEF ReadOnce
<1>7. Frame(what, r) \notin toSend
  BY <1>2, <1>4 DEF ReadOnce
<1> QED
  BY <1>1, <1>2, <1>3, <1>4, <1>5, <1>6, <1>7 DEF InPlay

\* The client, and whatever leaves the requests alone.
LEMMA ClientKeeps ==
    ASSUME SessionInv,
           ClientSends \/ CloseInput \/ Interrupt \/ UNCHANGED sessionVars
    PROVE  SessionInv'
<1>0. /\ SessionTypeOK /\ ReadOnce /\ IdInv /\ StoreInv
      /\ \A r \in Requests : AnswerInv(r)
  BY DEF SessionInv
<1>1. UNCHANGED <<serving, seenIDs, call, cancelledCalls, answers, snapshots>>
  BY DEF ClientSends, CloseInput, Interrupt, ServerRests, sessionVars
<1>2. /\ frames' \in Seq(Frames) /\ toSend' \subseteq Frames
      /\ ReadOnce'
      /\ \A f : InPlay(f)' => InPlay(f)
  <2>1. CASE ClientSends
    <3>1. PICK f \in toSend : toSend' = toSend \ {f} /\ frames' = Append(frames, f)
      BY <2>1 DEF ClientSends
    <3>2. frames \in Seq(Frames) /\ f \in Frames /\ toSend \subseteq Frames
      BY <1>0, <3>1 DEF SessionTypeOK
    <3>3. /\ frames' \in Seq(Frames) /\ Len(frames) \in Nat
          /\ Len(frames') = Len(frames) + 1
          /\ frames'[Len(frames) + 1] = f
          /\ \A i \in 1..Len(frames) : frames'[i] = frames[i]
      BY <3>1, <3>2
    <3>4. \A i \in 1..Len(frames') : i \in 1..Len(frames) \/ i = Len(frames) + 1
      BY <3>3
    <3>5. \A i \in 1..Len(frames) : frames[i] # f
      BY <1>0, <3>1 DEF ReadOnce
    <3>6. ReadOnce'
      <4>1. ASSUME NEW i \in 1..Len(frames'), NEW j \in 1..Len(frames'),
                   frames'[i] = frames'[j]
            PROVE  i = j
        BY <1>0, <3>3, <3>4, <3>5, <4>1 DEF ReadOnce
      <4>2. \A i \in 1..Len(frames') : frames'[i] \notin toSend'
        BY <1>0, <3>1, <3>3, <3>4 DEF ReadOnce
      <4> QED BY <4>1, <4>2 DEF ReadOnce
    <3>7. ASSUME NEW g, InPlay(g)' PROVE InPlay(g)
      BY <3>1, <3>3, <3>4, <3>7 DEF InPlay
    <3> QED BY <3>1, <3>2, <3>3, <3>6, <3>7
  <2>2. CASE UNCHANGED <<toSend, frames>>
    BY <1>0, <2>2 DEF ReadOnce, InPlay, SessionTypeOK
  <2> QED
    BY <2>1, <2>2 DEF CloseInput, Interrupt, sessionVars
<1>3. SessionTypeOK'
  BY <1>0, <1>1, <1>2 DEF SessionTypeOK
<1>4. \A r \in Requests : AnswerInv(r)'
  BY <1>0, <1>1, <1>2 DEF AnswerInv, NoAnswer, Frame
<1>5. IdInv' /\ StoreInv'
  BY <1>0, <1>1 DEF IdInv, StoreInv, UsesId, Active
<1> QED
  BY <1>2, <1>3, <1>4, <1>5 DEF SessionInv

\* A request that is answered at once: it had no answer, and it does not get
\* a result under an id that is in use.
LEMMA PlainKeeps ==
    ASSUME SessionInv, NEW r \in Requests, AcceptDuplicate(r) \/ AcceptPlain(r)
    PROVE  SessionInv'
<1>0. /\ SessionTypeOK /\ ReadOnce /\ IdInv /\ StoreInv
      /\ \A q \in Requests : AnswerInv(q)
  BY DEF SessionInv
<1>1. Accepted("request", r)
  BY DEF AcceptDuplicate, AcceptPlain
<1>2. /\ frames' \in Seq(Frames) /\ toSend' = toSend /\ ReadOnce'
      /\ InPlay(Frame("request", r)) /\ ~InPlay(Frame("request", r))'
      /\ \A f : InPlay(f)' => InPlay(f)
  BY <1>0, <1>1, AcceptedEffect
<1>3. UNCHANGED <<serving, call, cancelledCalls, snapshots>>
  BY <1>1 DEF AcceptDuplicate, AcceptPlain, Accepted
<1>4. PICK kind \in Kinds :
          /\ AnsweredWith(r, kind)
          /\ kind = "result" => IdOf[r] \notin seenIDs
          /\ \/ seenIDs' = seenIDs /\ kind = "error"
             \/ seenIDs' = seenIDs \union {IdOf[r]}
  <2>1. CASE AcceptDuplicate(r)
    BY <2>1 DEF AcceptDuplicate, Kinds
  <2>2. CASE AcceptPlain(r)
    <3>1. (IF \/ MethodOf[r] = "initialize" /\ ~initialized
              \/ MethodOf[r] = "list" /\ ready
           THEN "result" ELSE "error") \in Kinds
      BY DEF Kinds
    <3> QED BY <2>2, <3>1 DEF AcceptPlain, UsedIDs
  <2> QED BY <2>1, <2>2
<1>5. /\ answers' \in [Requests -> [Kinds -> Nat]]
      /\ \A q \in Requests : q # r => answers'[q] = answers[q]
      /\ \A k \in Kinds : answers'[r][k] =
            IF k = kind THEN answers[r][k] + 1 ELSE answers[r][k]
  BY <1>0, <1>4, AnsweredEffect
<1>6. call[r] = "none" /\ NoAnswer(r)
  BY <1>0, <1>2 DEF AnswerInv
<1>7. /\ answers'[r]["result"] + answers'[r]["error"] <= 1
      /\ answers'[r]["result"] > 0 => kind = "result"
  BY <1>5, <1>6 DEF NoAnswer, Kinds
<1>8. SessionTypeOK'
  <2>1. seenIDs' \subseteq Ids
    BY <1>0, <1>4, SessionAssumption DEF SessionTypeOK
  <2> QED BY <1>0, <1>2, <1>3, <1>5, <2>1 DEF SessionTypeOK
<1>9. ASSUME NEW q \in Requests PROVE AnswerInv(q)'
  <2>1. CASE q = r
    <3>1. call'[r] = "none"
      BY <1>3, <1>6
    <3>2. ~InPlay(Frame("request", r))'
      BY <1>2
    <3> QED BY <1>7, <2>1, <3>1, <3>2 DEF AnswerInv, Frame
  <2>2. CASE q # r
    BY <1>0, <1>2, <1>3, <1>5, <2>2 DEF AnswerInv, NoAnswer, Frame
  <2> QED BY <2>1, <2>2
<1>10. IdInv'
  <2>1. \A q \in Requests : q # r => UsesId(q)' = UsesId(q)
    BY <1>3, <1>5 DEF UsesId
  <2>2. UsesId(r)' => IdOf[r] \notin seenIDs /\ IdOf[r] \in seenIDs'
    BY <1>3, <1>4, <1>6, <1>7 DEF UsesId
  <2>3. seenIDs \subseteq seenIDs'
    BY <1>4
  <2> QED BY <1>0, <2>1, <2>2, <2>3 DEF IdInv
<1>11. StoreInv'
  BY <1>0, <1>3 DEF StoreInv, Active
<1> QED
  BY <1>2, <1>8, <1>9, <1>10, <1>11 DEF SessionInv

LEMMA LaunchKeeps ==
    ASSUME SessionInv, NEW r \in Requests, LaunchToolCall(r) PROVE SessionInv'
<1>0. /\ SessionTypeOK /\ ReadOnce /\ IdInv /\ StoreInv
      /\ \A q \in Requests : AnswerInv(q)
  BY DEF SessionInv
<1>1. Accepted("request", r)
  BY DEF LaunchToolCall
<1>2. /\ frames' \in Seq(Frames) /\ toSend' = toSend /\ ReadOnce'
      /\ InPlay(Frame("request", r)) /\ ~InPlay(Frame("request", r))'
      /\ \A f : InPlay(f)' => InPlay(f)
  BY <1>0, <1>1, AcceptedEffect
<1>3. /\ UNCHANGED <<serving, cancelledCalls, answers, snapshots>>
      /\ serving = "select"
      /\ IdOf[r] \notin seenIDs /\ seenIDs' = seenIDs \union {IdOf[r]}
  BY <1>1 DEF LaunchToolCall, Accepted, UsedIDs
<1>4. /\ call' \in [Requests -> CallStates]
      /\ \A q \in Requests : call'[q] = IF q = r THEN "running" ELSE call[q]
  BY <1>0 DEF LaunchToolCall, SessionTypeOK, CallStates
<1>5. call[r] = "none" /\ NoAnswer(r)
  BY <1>0, <1>2 DEF AnswerInv
<1>6. SessionTypeOK'
  BY <1>0, <1>2, <1>3, <1>4, SessionAssumption DEF SessionTypeOK
<1>7. ASSUME NEW q \in Requests PROVE AnswerInv(q)'
  <2>1. CASE q = r
    <3>1. ~InPlay(Frame("request", r))'
      BY <1>2
    <3>2. answers'[r] = answers[r]
      BY <1>3
    <3> QED BY <1>5, <2>1, <3>1, <3>2 DEF AnswerInv, NoAnswer, Frame
  <2>2. CASE q # r
    BY <1>0, <1>2, <1>3, <1>4, <2>2 DEF AnswerInv, NoAnswer, Frame
  <2> QED BY <2>1, <2>2
<1>8. IdInv'
  <2>1. \A q \in Requests : q # r => UsesId(q)' = UsesId(q)
    BY <1>3, <1>4 DEF UsesId
  <2> QED BY <1>0, <1>3, <2>1 DEF IdInv
<1>9. StoreInv'
  BY <1>0, <1>3 DEF StoreInv
<1> QED
  BY <1>2, <1>6, <1>7, <1>8, <1>9 DEF SessionInv

LEMMA NotifiedKeeps ==
    ASSUME SessionInv, NEW r \in Requests, MarkReady(r) \/ CancelCall(r)
    PROVE  SessionInv'
<1>0. /\ SessionTypeOK /\ ReadOnce /\ IdInv /\ StoreInv
      /\ \A q \in Requests : AnswerInv(q)
  BY DEF SessionInv
<1>1. PICK what \in {"initialized", "cancelled"} : Accepted(what, r)
  BY DEF MarkReady, CancelCall
<1>2. /\ frames' \in Seq(Frames) /\ toSend' = toSend /\ ReadOnce'
      /\ \A f : InPlay(f)' => InPlay(f)
  BY <1>0, <1>1, AcceptedEffect
<1>3. UNCHANGED <<serving, seenIDs, call, answers, snapshots>>
      /\ cancelledCalls' \subseteq Requests
  BY <1>0, <1>1 DEF MarkReady, CancelCall, Accepted, SessionTypeOK, Active
<1>4. SessionTypeOK'
  BY <1>0, <1>2, <1>3 DEF SessionTypeOK
<1>5. \A q \in Requests : AnswerInv(q)'
  BY <1>0, <1>2, <1>3 DEF AnswerInv, NoAnswer, Frame
<1>6. IdInv' /\ StoreInv'
  BY <1>0, <1>3 DEF IdInv, StoreInv, UsesId, Active
<1> QED
  BY <1>2, <1>4, <1>5, <1>6 DEF SessionInv

LEMMA CallKeeps ==
    ASSUME SessionInv, NEW r \in Requests, CallStep(r) PROVE SessionInv'
<1>0. /\ SessionTypeOK /\ ReadOnce /\ IdInv /\ StoreInv
      /\ \A q \in Requests : AnswerInv(q)
  BY DEF SessionInv
<1>1. UNCHANGED <<toSend, frames, serving, seenIDs, cancelledCalls, snapshots>>
  BY DEF CallStep, ToolReturns, Reply, Retire, CallRests, ClientRests
<1>2. PICK to \in {"answering", "retiring", "over"} :
          /\ call' = [call EXCEPT ![r] = to]
          /\ call[r] \in {"running", "answering", "retiring"}
          /\ to = "answering" => call[r] = "running" /\ answers' = answers
          /\ \/ answers' = answers
             \/ /\ call[r] = "answering" /\ to = "retiring"
                /\ \E kind \in Kinds : AnsweredWith(r, kind)
  BY DEF CallStep, ToolReturns, Reply, Retire, CallMoves
<1>3. /\ call' \in [Requests -> CallStates]
      /\ \A q \in Requests : call'[q] = IF q = r THEN to ELSE call[q]
  BY <1>0, <1>2 DEF SessionTypeOK, CallStates
<1>4. /\ answers' \in [Requests -> [Kinds -> Nat]]
      /\ \A q \in Requests : q # r => answers'[q] = answers[q]
      /\ answers'[r]["result"] + answers'[r]["error"] <= 1
      /\ to = "answering" => answers'[r] = answers[r]
  <2>1. CASE answers' = answers
    BY <1>0, <2>1 DEF SessionTypeOK, AnswerInv
  <2>2. CASE answers' # answers
    <3>1. PICK kind \in Kinds : AnsweredWith(r, kind)
      BY <1>2, <2>2
    <3>2. NoAnswer(r)
      BY <1>0, <1>2, <2>2 DEF AnswerInv
    <3>3. /\ answers' \in [Requests -> [Kinds -> Nat]]
          /\ \A q \in Requests : q # r => answers'[q] = answers[q]
          /\ \A k \in Kinds : answers'[r][k] =
                IF k = kind THEN answers[r][k] + 1 ELSE answers[r][k]
      BY <1>0, <3>1, AnsweredEffect
    <3>4. answers'[r]["result"] + answers'[r]["error"] <= 1
      BY <3>2, <3>3 DEF NoAnswer, Kinds
    <3> QED BY <1>2, <2>2, <3>3, <3>4
  <2> QED BY <2>1, <2>2
<1>5. SessionTypeOK'
  BY <1>0, <1>1, <1>3, <1>4 DEF SessionTypeOK
<1>6. ReadOnce' /\ \A f : InPlay(f)' = InPlay(f)
  BY <1>0, <1>1 DEF ReadOnce, InPlay
<1>7. ASSUME NEW q \in Requests PROVE AnswerInv(q)'
  <2>1. CASE q = r
    <3>1. ~InPlay(Frame("request", r))
      BY <1>0, <1>2 DEF AnswerInv
    <3>2. ~InPlay(Frame("request", r))'
      BY <1>6, <3>1 DEF Frame
    <3>3. call'[r] \in {"running", "answering"} => NoAnswer(r)'
      BY <1>0, <1>2, <1>3, <1>4 DEF AnswerInv, NoAnswer
    <3> QED BY <1>4, <2>1, <3>2, <3>3 DEF AnswerInv, Frame
  <2>2. CASE q # r
    BY <1>0, <1>3, <1>4, <1>6, <2>2 DEF AnswerInv, NoAnswer, Frame
  <2> QED BY <2>1, <2>2
<1>8. IdInv'
  <2>1. \A q \in Requests : UsesId(q)' => UsesId(q)
    BY <1>2, <1>3, <1>4 DEF UsesId
  <2> QED BY <1>0, <1>1, <2>1 DEF IdInv
<1>9. StoreInv'
  <2>1. serving # "returned"
    BY <1>0, <1>2 DEF StoreInv, Active
  <2> QED BY <1>0, <1>1, <2>1 DEF StoreInv
<1> QED
  BY <1>5, <1>6, <1>7, <1>8, <1>9 DEF SessionInv

LEMMA ServeKeeps ==
    ASSUME SessionInv, ShutdownActive \/ ServeReturns PROVE SessionInv'
<1>0. /\ SessionTypeOK /\ ReadOnce /\ IdInv /\ StoreInv
      /\ \A q \in Requests : AnswerInv(q)
  BY DEF SessionInv
<1>1. UNCHANGED <<toSend, frames, seenIDs, call, answers>>
  BY DEF ShutdownActive, ServeReturns, ClientRests
<1>2. /\ cancelledCalls' \subseteq Requests
      /\ \/ serving' = "stopping" /\ serving = "select" /\ snapshots' = snapshots
         \/ serving' = "returned" /\ snapshots' = FALSE /\ Active = {}
  BY <1>0 DEF ShutdownActive, ServeReturns, SessionTypeOK, Active
<1>3. SessionTypeOK'
  BY <1>0, <1>1, <1>2 DEF SessionTypeOK
<1>4. ReadOnce' /\ \A q \in Requests : AnswerInv(q)'
  BY <1>0, <1>1 DEF ReadOnce, AnswerInv, NoAnswer, InPlay
<1>5. IdInv'
  BY <1>0, <1>1 DEF IdInv, UsesId
<1>6. StoreInv'
  BY <1>0, <1>1, <1>2 DEF StoreInv, Active
<1> QED
  BY <1>3, <1>4, <1>5, <1>6 DEF SessionInv

-----------------------------------------------------------------------------
(* The session's theorems.                                                 *)

LEMMA SessionInitInv == SessionInit => SessionInv
<1> SUFFICES ASSUME SessionInit PROVE SessionInv
  OBVIOUS
<1>1. SessionTypeOK
  BY DEF SessionInit, SessionTypeOK, CallStates
<1>2. ReadOnce
  BY DEF SessionInit, ReadOnce
<1>3. \A r \in Requests : answers[r]["result"] = 0 /\ answers[r]["error"] = 0
  BY DEF SessionInit, Kinds
<1>4. \A r \in Requests : AnswerInv(r)
  BY <1>3 DEF SessionInit, AnswerInv, NoAnswer
<1>5. \A r \in Requests : ~UsesId(r)
  BY <1>3 DEF SessionInit, UsesId
<1>6. IdInv
  BY <1>5 DEF IdInv
<1>7. StoreInv
  BY DEF SessionInit, StoreInv
<1> QED
  BY <1>1, <1>2, <1>4, <1>6, <1>7 DEF SessionInv

LEMMA SessionNextInv == SessionInv /\ [SessionNext]_sessionVars => SessionInv'
BY ClientKeeps, PlainKeeps, LaunchKeeps, NotifiedKeeps, CallKeeps, ServeKeeps
   DEF SessionNext, SessionStep, Accept, SessionOver

\* The invariant holds in every state of every session.
THEOREM SessionInductive == SessionSpec => []SessionInv
BY SessionInitInv, SessionNextInv, PTL DEF SessionSpec

\* No request is answered twice, no id gets two results, and no call is left
\* when the snapshot store is closed (Serve, shutdownActive), whatever a client
\* sends, in any number and under any ids.
THEOREM AlwaysSound == SessionSpec => []SessionSound
<1>1. SessionInv => SessionSound
  <2> SUFFICES ASSUME SessionInv PROVE SessionSound
    OBVIOUS
  <2>1. \A r \in Requests : answers[r]["result"] \in Nat /\ answers[r]["error"] \in Nat
    BY DEF SessionInv, SessionTypeOK, Kinds
  <2>2. \A q, r \in Requests :
           IdOf[q] = IdOf[r] /\ answers[q]["result"] + answers[r]["result"] > 1 => q = r
    <3>1. \A r \in Requests : answers[r]["result"] <= 1
      BY <2>1 DEF SessionInv, AnswerInv
    <3>2. \A q, r \in Requests : answers[q]["result"] + answers[r]["result"] > 1 =>
              answers[q]["result"] > 0 /\ answers[r]["result"] > 0
      BY <2>1, <3>1
    <3> QED BY <3>2 DEF SessionInv, IdInv, UsesId
  <2> QED
    BY <2>2 DEF SessionInv, SessionSound, AnswerInv, StoreInv
<1> QED
  BY <1>1, SessionInductive, PTL

-----------------------------------------------------------------------------
(* The lease of one claim, whatever the durations are, as long as they        *)
(* relate as LeaseAssumption says.                                            *)

Beating == beat # "stopped"

\* The lease outlasts the ticker's next tick, and the moment the heartbeat goes
\* on; a renewal under way ends before the safety window.
Ahead ==
    /\ began <= now
    /\ handler = "running" <=> Beating
    /\ Beating => /\ now < leaseUntil /\ tick < leaseUntil /\ due < leaseUntil
                 /\ tick <= now + RenewEvery
    /\ beat = "waiting" => due = tick
    /\ beat = "renewing" => /\ sent <= now /\ now <= due
                            /\ due <= expiry - RenewMargin
                            /\ due <= sent + ControlTimeout
                            /\ tick <= sent + RenewEvery

\* The local estimate and the row: also the estimate that a reply would make.
Behind ==
    /\ expiry <= leaseUntil
    /\ leaseUntil <= claimedAt + HandlerBudget
    /\ leaseUntil <= now + LeaseDuration
    /\ beat = "renewing" /\ reply >= 0 => sent + reply <= leaseUntil

\* The estimate reaches the budget's end, up to one request's delay.
CappedLease(estimate) == estimate >= claimedAt + HandlerBudget - ControlTimeout

\* A confirmed lease reaches that far or past the safety window of the next
\* tick.
Fresh ==
    /\ claimedAt <= ControlTimeout
    /\ confirmed => beat \in {"waiting", "stopped"}
    /\ confirmed /\ Beating =>
          \/ CappedLease(expiry)
          \/ now < expiry - RenewMargin /\ tick < expiry - RenewMargin
    /\ beat = "renewing" /\ reply >= 0 =>
          CappedLease(sent + reply) \/ reply = LeaseDuration
    /\ beat = "renewing" /\ reply = Lost => ~exists

LeaseInv == LeaseTypeOK /\ Ahead /\ Behind /\ Fresh /\ KeptWhileConfirmed

-----------------------------------------------------------------------------
\* The next tick is the first one after now.
LEMMA TickAhead ==
  ASSUME LeaseTypeOK, began <= now
  PROVE  NextTick \in Nat /\ NextTick <= now + RenewEvery
<1> DEFINE x == now - began
           q == x \div RenewEvery
<1>1. RenewEvery \in Nat \ {0} /\ x \in Nat
  BY LeaseAssumption DEF LeaseAssumption, LeaseTypeOK
<1> HIDE DEF x
<1>2. q \in Nat /\ RenewEvery * q <= x
  BY <1>1
<1> QED
  BY <1>1, <1>2 DEF NextTick, LeaseTypeOK, x

\* Every step keeps the types: a confirmed duration is never negative.
LEMMA LeaseTypeNext == LeaseInv /\ [LeaseNext]_leaseVars => LeaseTypeOK'
<1> SUFFICES ASSUME LeaseInv, [LeaseNext]_leaseVars PROVE LeaseTypeOK'
  OBVIOUS
<1>0. NextTick \in Nat /\ NextTick <= now + RenewEvery
  BY TickAhead DEF LeaseInv, Ahead
<1> USE LeaseAssumption DEF LeaseAssumption, LeaseInv, LeaseTypeOK, Ahead, Beats, NoReply, Lost
<1>1. CASE BeatGivesUp
  BY <1>1 DEF BeatGivesUp, Wakes, Cancel, row
<1>2. CASE SendRenewal
  <2>1. tick' \in Nat
    BY <1>0, <1>2 DEF SendRenewal
  <2>2. due' \in Nat
    BY <1>2 DEF SendRenewal, Earlier, Limit, BudgetEnd
  <2> QED
    BY <1>2, <2>1, <2>2 DEF SendRenewal, Wakes, row
<1>3. CASE Execute
  BY <1>3 DEF Execute, RenewedUntil, row, Earlier
<1>4. CASE Renewed
  BY <1>4 DEF Renewed, row, Earlier
<1>5. CASE LeaseLost
  BY <1>5 DEF LeaseLost, Cancel, row
<1>6. CASE RenewFails
  BY <1>6 DEF RenewFails, row
<1>7. CASE Finish
  BY <1>7 DEF Finish, row
<1>8. CASE TimePasses
  BY <1>8 DEF TimePasses, row
<1>9. CASE Forget
  BY <1>9 DEF Forget, row
<1>10. CASE Ended
  BY <1>10 DEF Ended, row, leaseVars, row
<1>11. CASE UNCHANGED leaseVars
  BY <1>11 DEF leaseVars, row
<1> QED
  BY <1>1, <1>2, <1>3, <1>4, <1>5, <1>6, <1>7, <1>8, <1>9, <1>10, <1>11 DEF LeaseNext

\* Nothing is sent, paused or waited for past the end of the lease: a renewal
\* ends before the safety window and a pause is shorter than it, and a tick comes
\* before either could matter.
LEMMA AheadNext == LeaseInv /\ [LeaseNext]_leaseVars => Ahead'
<1> SUFFICES ASSUME LeaseInv, [LeaseNext]_leaseVars PROVE Ahead'
  OBVIOUS
<1>0. NextTick \in Nat /\ NextTick <= now + RenewEvery
  BY TickAhead DEF LeaseInv, Ahead
<1> USE LeaseAssumption DEF LeaseAssumption, LeaseInv, LeaseTypeOK, Ahead, Behind, Beats, Beating
<1>1. CASE BeatGivesUp
  BY <1>1 DEF BeatGivesUp, Wakes, Cancel, row
<1>2. CASE SendRenewal
  BY <1>0, <1>2 DEF SendRenewal, Wakes, row, Earlier, Limit, BudgetEnd
<1>3. CASE Execute
  BY <1>3 DEF Execute, RenewedUntil, row, Earlier
<1>4. CASE Renewed
  BY <1>4 DEF Renewed, row
<1>5. CASE LeaseLost
  BY <1>5 DEF LeaseLost, Cancel, row
<1>6. CASE RenewFails
  BY <1>6 DEF RenewFails, row
<1>7. CASE Finish
  BY <1>7 DEF Finish, row
<1>8. CASE TimePasses
  BY <1>8 DEF TimePasses, row
<1>9. CASE Forget
  BY <1>9 DEF Forget, row
<1>10. CASE Ended
  BY <1>10 DEF Ended, row, leaseVars, row
<1>11. CASE UNCHANGED leaseVars
  BY <1>11 DEF leaseVars, row
<1> QED
  BY <1>1, <1>2, <1>3, <1>4, <1>5, <1>6, <1>7, <1>8, <1>9, <1>10, <1>11 DEF LeaseNext

\* No answer makes the estimate later than the row: the duration counts from
\* the request, which is before the renewal was executed.
LEMMA BehindNext == LeaseInv /\ [LeaseNext]_leaseVars => Behind'
<1> SUFFICES ASSUME LeaseInv, [LeaseNext]_leaseVars PROVE Behind'
  OBVIOUS
<1> USE LeaseAssumption DEF LeaseAssumption, LeaseInv, LeaseTypeOK, Ahead, Behind,
                                   NoReply, Lost, Beating
<1>1. CASE BeatGivesUp
  BY <1>1 DEF BeatGivesUp, Wakes, Cancel, row
<1>2. CASE SendRenewal
  BY <1>2 DEF SendRenewal, Wakes, row, Limit
<1>3. CASE Execute
  BY <1>3 DEF Execute, RenewedUntil, row, Earlier
<1>4. CASE Renewed
  BY <1>4 DEF Renewed, row
<1>5. CASE LeaseLost
  BY <1>5 DEF LeaseLost, Cancel, row
<1>6. CASE RenewFails
  BY <1>6 DEF RenewFails, row
<1>7. CASE Finish
  BY <1>7 DEF Finish, row
<1>8. CASE TimePasses
  BY <1>8 DEF TimePasses, row
<1>9. CASE Forget
  BY <1>9 DEF Forget, row
<1>10. CASE Ended
  BY <1>10 DEF Ended, row, leaseVars, row
<1>11. CASE UNCHANGED leaseVars
  BY <1>11 DEF leaseVars, row
<1> QED
  BY <1>1, <1>2, <1>3, <1>4, <1>5, <1>6, <1>7, <1>8, <1>9, <1>10, <1>11 DEF LeaseNext

\* A renewal gives the whole duration or all that the budget leaves, and in
\* either case the next tick comes before the safety window of it.
LEMMA FreshNext == LeaseInv /\ [LeaseNext]_leaseVars => Fresh'
<1> SUFFICES ASSUME LeaseInv, [LeaseNext]_leaseVars PROVE Fresh'
  OBVIOUS
<1> USE LeaseAssumption DEF LeaseAssumption, LeaseInv, LeaseTypeOK, Ahead, Behind, Fresh, CappedLease,
                                   NoReply, Lost, Beating
<1>1. CASE BeatGivesUp
  BY <1>1 DEF BeatGivesUp, Wakes, Cancel, row
<1>2. CASE SendRenewal
  BY <1>2 DEF SendRenewal, Wakes, row, Limit
<1>3. CASE Execute
  BY <1>3 DEF Execute, RenewedUntil, row, Earlier
<1>4. CASE Renewed
  BY <1>4 DEF Renewed, row
<1>5. CASE LeaseLost
  BY <1>5 DEF LeaseLost, Cancel, row
<1>6. CASE RenewFails
  BY <1>6 DEF RenewFails, row
<1>7. CASE Finish
  BY <1>7 DEF Finish, row
<1>8. CASE TimePasses
  BY <1>8 DEF TimePasses, row
<1>9. CASE Forget
  BY <1>9 DEF Forget, row
<1>10. CASE Ended
  BY <1>10 DEF Ended, row, leaseVars, row
<1>11. CASE UNCHANGED leaseVars
  BY <1>11 DEF leaseVars, row
<1> QED
  BY <1>1, <1>2, <1>3, <1>4, <1>5, <1>6, <1>7, <1>8, <1>9, <1>10, <1>11 DEF LeaseNext

\* Who gives up with a confirmed lease has reached the end of the budget.
LEMMA KeptNext == LeaseInv /\ [LeaseNext]_leaseVars => KeptWhileConfirmed'
<1> SUFFICES ASSUME LeaseInv, [LeaseNext]_leaseVars PROVE KeptWhileConfirmed'
  OBVIOUS
<1> USE LeaseAssumption DEF LeaseAssumption, LeaseInv, LeaseTypeOK, Ahead, Fresh, CappedLease,
                                   KeptWhileConfirmed, Beating
<1>1. CASE BeatGivesUp
  BY <1>1 DEF BeatGivesUp, Wakes, Cancel, row, Earlier, Limit, BudgetEnd
<1>2. CASE SendRenewal
  BY <1>2 DEF SendRenewal, Wakes, row
<1>3. CASE Execute
  BY <1>3 DEF Execute, RenewedUntil, row
<1>4. CASE Renewed
  BY <1>4 DEF Renewed, row
<1>5. CASE LeaseLost
  BY <1>5 DEF LeaseLost, Cancel, row
<1>6. CASE RenewFails
  BY <1>6 DEF RenewFails, row
<1>7. CASE Finish
  BY <1>7 DEF Finish, row
<1>8. CASE TimePasses
  BY <1>8 DEF TimePasses, row
<1>9. CASE Forget
  BY <1>9 DEF Forget, row
<1>10. CASE Ended
  BY <1>10 DEF Ended, row, leaseVars, row
<1>11. CASE UNCHANGED leaseVars
  BY <1>11 DEF leaseVars, row
<1> QED
  BY <1>1, <1>2, <1>3, <1>4, <1>5, <1>6, <1>7, <1>8, <1>9, <1>10, <1>11 DEF LeaseNext

-----------------------------------------------------------------------------
LEMMA LeaseInitInv == LeaseInit => LeaseInv
<1> SUFFICES ASSUME LeaseInit PROVE LeaseInv
  OBVIOUS
<1> USE LeaseAssumption DEF LeaseAssumption, LeaseInit
<1>1. LeaseTypeOK
  BY DEF LeaseTypeOK, Beats, NoReply, Lost
<1>2. Ahead
  BY DEF Ahead, Beating
<1>3. Behind
  BY DEF Behind
<1>4. Fresh
  BY DEF Fresh, CappedLease, Beating
<1>5. KeptWhileConfirmed
  BY DEF KeptWhileConfirmed
<1> QED
  BY <1>1, <1>2, <1>3, <1>4, <1>5 DEF LeaseInv

THEOREM LeaseInductive == LeaseSpec => []LeaseInv
<1>1. LeaseInv /\ [LeaseNext]_leaseVars => LeaseInv'
  BY LeaseTypeNext, AheadNext, BehindNext, FreshNext, KeptNext DEF LeaseInv
<1> QED
  BY <1>1, LeaseInitInv, PTL DEF LeaseSpec

\* A handler is told to stop before another could claim its job, whatever
\* renewals are slow, fail or lose their answers: the estimate is never later
\* than the row, and no renewal extends a claim past its hour (startHeartbeat).
THEOREM AlwaysStoppedInTime == LeaseSpec => []StoppedInTime
<1>1. LeaseInv => StoppedInTime
  BY DEF LeaseInv, Ahead, Behind, StoppedInTime, Beating
<1> QED
  BY <1>1, LeaseInductive, PTL

\* A handler whose renewals are answered keeps its job until its hour is all but
\* over, and is told that the lease is lost only when the job is gone.
THEOREM AlwaysKeptWhileConfirmed == LeaseSpec => []KeptWhileConfirmed
<1>1. LeaseInv => KeptWhileConfirmed
  BY DEF LeaseInv
<1> QED
  BY <1>1, LeaseInductive, PTL

-----------------------------------------------------------------------------
(* The daemons' inductive invariant.                                       *)

Named == {"recorded", "serving", "draining", "cleaning"}

CommandStates ==
    [does : {"none", "start", "stop", "status"},
     at : {"none", "look", "confirm", "await", "started", "done"},
     about : Daemons \union {NoPid}]
LookStates == [at : {"none", "probe", "unlink", "seen"}, saw : Daemons \union {NoPid}]
DaemonTyped ==
    /\ DaemonTypeOK
    /\ command \in [Commands -> CommandStates]
    /\ look \in [Lookers -> LookStates]

\* Whatever p is at, it will not touch the file of d, which is alive: all it can
\* still be about to probe is d itself.
Spares(p, d) ==
    /\ look[p].at # "unlink"
    /\ look[p].at = "probe" => look[p].saw = d
    /\ p \in Daemons =>
          /\ daemon[p] = "booting" /\ look[p].at = "seen" => look[p].saw # NoPid
          /\ daemon[p] \notin Named \union {"create", "write"}

\* A daemon looks once, while it boots.
LooksEarly(d) == daemon[d] # "booting" => look[d].at = "none"

\* The file of a daemon that nobody contested names it, and everybody spares it.
Undisturbed(d) ==
    daemon[d] \in Named /\ d \notin contested =>
        /\ pidFile = d
        /\ \A p \in Lookers : p # d => Spares(p, d)

DaemonInv ==
    /\ DaemonTyped
    /\ \A d \in Daemons : LooksEarly(d) /\ Undisturbed(d)

-----------------------------------------------------------------------------
(* Every step keeps it.                                                    *)

LEMMA LookersApart ==
    /\ \A p \in Lookers : p \in Commands \/ p \in Daemons
    /\ \A c \in Commands, d \in Daemons : c # d
    /\ \A c \in Commands : c \in Lookers
    /\ \A d \in Daemons : d \in Lookers /\ d # NoPid
    /\ NoFile \notin Daemons /\ Torn \notin Daemons /\ NoPid \notin Lookers
BY DaemonAssumption DEF Lookers

\* Who is not committed to change the file when d writes it spares it from then on.
LEMMA UncommittedSpares ==
    ASSUME NEW p \in Lookers, NEW d \in Daemons, ~Committed(p)
    PROVE  Spares(p, d)
BY DEF Committed, Spares, Named

\* A step of one process p, which leaves the file alone and p sparing whom it
\* spared, disturbs nobody.
LEMMA StepOfOne ==
    ASSUME DaemonInv, DaemonTyped', NEW p \in Lookers, contested' = contested,
           pidFile' = pidFile,
           \A q \in Lookers : q # p => look'[q] = look[q],
           \A e \in Daemons : e # p => daemon'[e] = daemon[e],
           p \in Daemons => LooksEarly(p)' /\ (daemon'[p] \in Named => daemon[p] \in Named),
           \A d \in Daemons : d # p /\ daemon[d] \in Named /\ pidFile = d /\ Spares(p, d) =>
               Spares(p, d)'
    PROVE  DaemonInv'
<1>1. ASSUME NEW d \in Daemons PROVE LooksEarly(d)'
  <2>1. CASE d = p
    BY <2>1
  <2>2. CASE d # p
    BY <2>2, LookersApart DEF DaemonInv, LooksEarly
  <2> QED BY <2>1, <2>2
<1>2. ASSUME NEW d \in Daemons, daemon'[d] \in Named, d \notin contested
      PROVE  pidFile' = d /\ \A q \in Lookers : q # d => Spares(q, d)'
  <2>1. daemon[d] \in Named
    BY <1>2
  <2>2. pidFile = d /\ \A q \in Lookers : q # d => Spares(q, d)
    BY <1>2, <2>1 DEF DaemonInv, Undisturbed
  <2>3. ASSUME NEW q \in Lookers, q # d PROVE Spares(q, d)'
    <3>1. CASE q = p
      BY <2>1, <2>2, <2>3, <3>1
    <3>2. CASE q # p
      BY <2>2, <2>3, <3>2 DEF Spares
    <3> QED BY <3>1, <3>2
  <2> QED BY <2>2, <2>3
<1> QED BY <1>1, <1>2 DEF DaemonInv, Undisturbed

\* Who may change the file spares nobody: no other daemon is named and
\* uncontested then.
LEMMA WhoWrites ==
    ASSUME DaemonInv, DaemonTyped', NEW p \in Lookers,
           contested \subseteq contested',
           \A q \in Lookers : q # p => look'[q] = look[q],
           \A e \in Daemons : e # p => daemon'[e] = daemon[e],
           p \in Daemons => LooksEarly(p)' /\ Undisturbed(p)',
           \A d \in Daemons : ~Spares(p, d)
    PROVE  DaemonInv'
<1>1. ASSUME NEW d \in Daemons PROVE LooksEarly(d)'
  <2>1. CASE d = p
    BY <2>1
  <2>2. CASE d # p
    BY <2>2, LookersApart DEF DaemonInv, LooksEarly
  <2> QED BY <2>1, <2>2
<1>2. ASSUME NEW d \in Daemons, d # p PROVE Undisturbed(d)'
  <2>1. d \in contested \/ daemon[d] \notin Named
    BY <1>2 DEF DaemonInv, Undisturbed
  <2> QED BY <1>2, <2>1 DEF Undisturbed
<1> QED BY <1>1, <1>2 DEF DaemonInv

LEMMA LookTyped ==
    ASSUME DaemonInv, NEW p \in Lookers, NEW place \in {"none", "probe", "unlink", "seen"},
           NEW pid \in Daemons \union {NoPid}, SetLook(p, place, pid)
    PROVE  /\ look' \in [Lookers -> LookStates]
           /\ look'[p] = [at |-> place, saw |-> pid]
           /\ \A q \in Lookers : q # p => look'[q] = look[q]
BY DEF DaemonInv, DaemonTyped, SetLook, LookStates

LEMMA SawTyped ==
    ASSUME DaemonInv, NEW p \in Lookers, NEW pid, Saw(p, pid)
    PROVE  /\ look' \in [Lookers -> LookStates]
           /\ look'[p] = NoLook /\ look[p].at = "seen" /\ look[p].saw = pid
           /\ \A q \in Lookers : q # p => look'[q] = look[q]
<1>1. NoLook \in LookStates
  BY DEF NoLook, LookStates
<1> QED BY <1>1 DEF DaemonInv, DaemonTyped, Saw

LEMMA GoesTyped ==
    ASSUME DaemonInv, NEW c \in Commands,
           NEW place \in {"confirm", "await", "started", "done"},
           NEW pid \in Daemons \union {NoPid}, Goes(c, place, pid)
    PROVE  command' \in [Commands -> CommandStates]
<1>1. command \in [Commands -> CommandStates]
  BY DEF DaemonInv, DaemonTyped
<1>2. command' = [command EXCEPT ![c] = [command[c] EXCEPT !.at = place, !.about = pid]]
  BY <1>1 DEF Goes
<1>3. [command[c] EXCEPT !.at = place, !.about = pid] \in CommandStates
  <2>1. command[c] \in CommandStates
    BY <1>1
  <2> QED BY <2>1 DEF CommandStates
<1> QED BY <1>1, <1>2, <1>3

LEMMA GiveKeeps ==
    ASSUME DaemonInv, NEW c \in Commands,
           NEW does \in {"start", "stop", "status"}, Give(c, does)
    PROVE  DaemonInv'
<1>1. UNCHANGED <<pidFile, daemon, term, port, look, contested>>
  BY DEF Give
<1>2. command' \in [Commands -> CommandStates]
  BY DEF Give, DaemonInv, DaemonTyped, CommandStates
<1>3. DaemonTyped'
  BY <1>1, <1>2 DEF DaemonInv, DaemonTyped, DaemonTypeOK
<1>4. \A p \in Lookers, d \in Daemons : Spares(p, d)' <=> Spares(p, d)
  BY <1>1 DEF Spares
<1> QED BY <1>1, <1>3, <1>4, StepOfOne, LookersApart DEF DaemonInv, LooksEarly

\* The look of a command, or of a daemon that boots.
LEMMA LooksKeep ==
    ASSUME DaemonInv, NEW p \in Lookers, BeginsLook(p) \/ LookStep(p),
           p \in Daemons /\ BeginsLook(p) => daemon[p] = "booting"
    PROVE  DaemonInv'
<1>1. UNCHANGED <<daemon, term, port, command, contested>>
  BY DEF BeginsLook, LookStep
<1>2. p \in Daemons => daemon[p] = "booting"
  <2>1. SUFFICES ASSUME p \in Daemons, LookStep(p) PROVE daemon[p] = "booting"
    OBVIOUS
  <2>2. look[p].at # "none"
    BY <2>1 DEF LookStep, Probes, Unlinks
  <2> QED BY <2>1, <2>2 DEF DaemonInv, LooksEarly
<1>3. look[p].saw \in Daemons \union {NoPid}
  <2>1. look[p] \in LookStates
    BY DEF DaemonInv, DaemonTyped
  <2> QED BY <2>1 DEF LookStates
<1>4. ASSUME NEW place \in {"probe", "unlink", "seen"}, NEW pid \in Daemons \union {NoPid},
             SetLook(p, place, pid), pidFile' = pidFile,
             \A d \in Daemons : daemon[d] \in Named /\ pidFile = d /\ Spares(p, d) =>
                 place # "unlink" /\ pid = d
      PROVE  DaemonInv'
  <2>1. /\ look' \in [Lookers -> LookStates]
        /\ look'[p] = [at |-> place, saw |-> pid]
        /\ \A q \in Lookers : q # p => look'[q] = look[q]
    BY <1>4, LookTyped
  <2>2. DaemonTyped'
    BY <1>1, <1>4, <2>1 DEF DaemonInv, DaemonTyped, DaemonTypeOK
  <2>3. ASSUME NEW d \in Daemons, daemon[d] \in Named, pidFile = d, Spares(p, d)
        PROVE  Spares(p, d)'
    <3>1. place # "unlink" /\ pid = d
      BY <1>4, <2>3
    <3> QED BY <1>1, <1>2, <2>1, <3>1, LookersApart DEF Spares, Named
  <2>4. p \in Daemons => LooksEarly(p)'
    BY <1>1, <1>2 DEF LooksEarly
  <2> QED BY <1>1, <1>4, <2>1, <2>2, <2>3, <2>4, StepOfOne
<1>5. CASE BeginsLook(p)
  <2>1. pidFile' = pidFile
    BY <1>5 DEF BeginsLook
  <2>2. CASE pidFile \in Daemons
    BY <1>4, <1>5, <2>1, <2>2 DEF BeginsLook, Looks
  <2>3. CASE pidFile \notin Daemons
    BY <1>4, <1>5, <2>1, <2>3 DEF BeginsLook, Looks
  <2> QED BY <2>2, <2>3
<1>6. CASE LookStep(p) /\ Probes(p) /\ pidFile' = pidFile
  <2>1. CASE look[p].saw \in Alive
    BY <1>3, <1>4, <1>6, <2>1 DEF Probes, Spares
  <2>2. CASE look[p].saw \notin Alive
    <3>1. ASSUME NEW d \in Daemons, daemon[d] \in Named, pidFile = d, Spares(p, d)
          PROVE  FALSE
      <4>1. look[p].saw = d
        BY <1>6, <3>1 DEF Probes, Spares
      <4> QED BY <2>2, <3>1, <4>1 DEF Alive, Named
    <3> QED BY <1>4, <1>6, <2>2, <3>1 DEF Probes
  <2> QED BY <2>1, <2>2
<1>7. CASE LookStep(p) /\ Unlinks(p)
  <2>1. SetLook(p, "seen", look[p].saw) /\ look[p].at = "unlink" /\ pidFile' = NoFile
    BY <1>7 DEF Unlinks
  <2>2. /\ look' \in [Lookers -> LookStates]
        /\ \A q \in Lookers : q # p => look'[q] = look[q]
    BY <1>3, <2>1, LookTyped
  <2>3. DaemonTyped'
    BY <1>1, <2>1, <2>2 DEF DaemonInv, DaemonTyped, DaemonTypeOK
  <2>4. \A d \in Daemons : ~Spares(p, d)
    BY <2>1 DEF Spares
  <2>5. p \in Daemons => LooksEarly(p)' /\ Undisturbed(p)'
    BY <1>1, <1>2 DEF LooksEarly, Undisturbed, Named
  <2> QED BY <1>1, <2>2, <2>3, <2>4, <2>5, WhoWrites
<1> QED BY <1>5, <1>6, <1>7 DEF LookStep

\* A command uses what it saw; a start that saw nobody forks a daemon that has yet
\* to look for itself.
LEMMA CommandUses ==
    ASSUME DaemonInv, NEW c \in Commands, Fork(c) \/ Terminate(c) \/ Concludes(c)
    PROVE  DaemonInv'
<1>1. PICK pid \in Daemons \union {NoPid} : Saw(c, pid)
  BY DEF Fork, Terminate, Concludes
<1>2. /\ look' \in [Lookers -> LookStates]
      /\ look'[c] = NoLook
      /\ \A q \in Lookers : q # c => look'[q] = look[q]
  BY <1>1, SawTyped, LookersApart
<1>3. UNCHANGED <<pidFile, port, contested>>
  BY DEF Fork, Terminate, Concludes
<1>4. command' \in [Commands -> CommandStates]
  <2>1. CASE command' = command
    BY <2>1 DEF DaemonInv, DaemonTyped
  <2>2. CASE command' # command
    <3>1. command[c].about \in Daemons \union {NoPid}
      BY DEF DaemonInv, DaemonTyped, CommandStates
    <3>2. PICK place \in {"confirm", "await", "started", "done"},
               about \in Daemons \union {NoPid} : Goes(c, place, about)
      BY <2>2, <3>1 DEF Fork, Terminate, Concludes
    <3> QED BY <3>2, GoesTyped
  <2> QED BY <2>1, <2>2
<1>5. PICK d \in Daemons \union {NoPid} :
          /\ d \in Daemons => daemon[d] = "unborn" /\ daemon'[d] = "booting"
          /\ \A e \in Daemons : e # d => daemon'[e] = daemon[e]
          /\ daemon' \in [Daemons -> DaemonStates]
          /\ term' \subseteq Daemons
  <2>1. CASE Fork(c)
    BY <2>1, LookersApart DEF Fork, DaemonInv, DaemonTyped, DaemonTypeOK, DaemonStates
  <2>2. CASE Terminate(c) \/ Concludes(c)
    BY <2>2, LookersApart DEF Terminate, Concludes, DaemonInv, DaemonTyped, DaemonTypeOK
  <2> QED BY <2>1, <2>2
<1>6. DaemonTyped'
  BY <1>2, <1>3, <1>4, <1>5 DEF DaemonInv, DaemonTyped, DaemonTypeOK
<1>7. \A e \in Daemons : look'[e] = look[e]
  BY <1>2, LookersApart
<1>8. ASSUME NEW e \in Daemons PROVE LooksEarly(e)'
  BY <1>5, <1>7 DEF DaemonInv, LooksEarly
<1>9. ASSUME NEW e \in Daemons, NEW p \in Lookers, Spares(p, e) PROVE Spares(p, e)'
  <2>1. CASE p = c
    BY <1>2, <2>1, LookersApart DEF Spares, NoLook
  <2>2. CASE p # c /\ p = d
    <3>1. look[p].at = "none"
      BY <1>5, <2>2, LookersApart DEF DaemonInv, LooksEarly
    <3> QED BY <1>2, <1>5, <2>2, <3>1, LookersApart DEF Spares, Named
  <2>3. CASE p # c /\ p # d
    BY <1>2, <1>5, <1>9, <2>3 DEF Spares
  <2> QED BY <2>1, <2>2, <2>3
<1>10. ASSUME NEW e \in Daemons PROVE Undisturbed(e)'
  BY <1>3, <1>5, <1>9 DEF DaemonInv, Undisturbed, Named
<1> QED BY <1>6, <1>8, <1>10 DEF DaemonInv

LEMMA BecomesOf ==
    ASSUME DaemonInv, NEW d \in Daemons, NEW from, NEW to \in DaemonStates, Becomes(d, from, to)
    PROVE  /\ daemon' \in [Daemons -> DaemonStates]
           /\ daemon[d] = from /\ daemon'[d] = to
           /\ \A e \in Daemons : e # d => daemon'[e] = daemon[e]
BY DEF Becomes, DaemonInv, DaemonTyped, DaemonTypeOK

\* A daemon that boots fails, is refused, or takes the file to be free; one whose
\* listener fails or is closed goes on to its end.
LEMMA DaemonGoesOn ==
    ASSUME DaemonInv, NEW d \in Daemons,
           \/ BootFails(d) \/ Refused(d) \/ Free(d)
           \/ Listens(d) \/ ShutsDown(d) \/ DrainsRequests(d) \/ Exits(d)
    PROVE  DaemonInv'
<1>1. /\ UNCHANGED <<pidFile, term, command, contested>> /\ d \in Lookers
      /\ port' \in Daemons \union {NoPid}
  BY LookersApart DEF BootFails, Refused, Free, Listens, ShutsDown, DrainsRequests, Exits,
                      OthersRest, DaemonInv, DaemonTyped, DaemonTypeOK
<1>2. PICK from \in {"booting", "leaving"} \union Named, to \in DaemonStates :
          /\ Becomes(d, from, to)
          /\ to # "booting"
          /\ to \in Named => from \in Named
          /\ from = "booting" => to = "gone" \/ (to = "create" /\ Free(d))
          /\ from # "booting" => look' = look
          /\ from = "leaving" => to = "gone"
  BY DEF BootFails, Refused, Free, Listens, ShutsDown, DrainsRequests, Exits, Named, DaemonStates
<1>3. /\ daemon' \in [Daemons -> DaemonStates] /\ daemon[d] = from /\ daemon'[d] = to
      /\ \A e \in Daemons : e # d => daemon'[e] = daemon[e]
  BY <1>2, BecomesOf
<1>4. /\ look' \in [Lookers -> LookStates] /\ look'[d].at = "none"
      /\ \A q \in Lookers : q # d => look'[q] = look[q]
  <2>1. CASE from = "booting"
    <3>1. CASE BootFails(d)
      BY <3>1 DEF BootFails, DaemonInv, DaemonTyped
    <3>2. CASE Refused(d)
      BY <1>1, <3>2, SawTyped DEF Refused, NoLook
    <3>3. CASE Free(d)
      BY <1>1, <3>3, SawTyped DEF Free, NoLook
    <3> QED BY <1>3, <2>1, <3>1, <3>2, <3>3 DEF Listens, ShutsDown, DrainsRequests, Exits, Becomes
  <2>2. CASE from # "booting"
    BY <1>2, <1>3, <2>2 DEF DaemonInv, DaemonTyped, LooksEarly
  <2> QED BY <2>1, <2>2
<1>5. DaemonTyped'
  BY <1>1, <1>3, <1>4 DEF DaemonInv, DaemonTyped, DaemonTypeOK
<1>6. LooksEarly(d)' /\ (daemon'[d] \in Named => daemon[d] \in Named)
  BY <1>2, <1>3, <1>4 DEF LooksEarly
<1>7. ASSUME NEW e \in Daemons, e # d, Spares(d, e) PROVE Spares(d, e)'
  <2>1. to = "gone"
    <3>1. from \notin Named
      BY <1>3, <1>7 DEF Spares
    <3>2. ~Free(d)
      BY <1>3, <1>7 DEF Spares, Free, Saw, Becomes
    <3> QED BY <1>2, <3>1, <3>2
  <2> QED BY <1>3, <1>4, <2>1 DEF Spares, Named
<1> QED BY <1>1, <1>3, <1>4, <1>5, <1>6, <1>7, StepOfOne

\* It writes the file, in two steps, and removes it.
LEMMA WritesKeep ==
    ASSUME DaemonInv, NEW d \in Daemons, Truncates(d) \/ Writes(d) \/ RemovesPid(d)
    PROVE  DaemonInv'
<1>1. UNCHANGED <<term, command, port, look>> /\ d \in Lookers
  BY LookersApart DEF Truncates, Writes, RemovesPid, OthersRest
<1>2. PICK from \in {"create", "write", "cleaning"}, to \in {"write", "recorded", "leaving"} :
          Becomes(d, from, to) /\ (to = "recorded" => Writes(d))
  BY DEF Truncates, Writes, RemovesPid
<1>3. /\ daemon' \in [Daemons -> DaemonStates] /\ daemon[d] = from /\ daemon'[d] = to
      /\ \A e \in Daemons : e # d => daemon'[e] = daemon[e]
  <2>1. to \in DaemonStates
    BY DEF DaemonStates
  <2> QED BY <1>2, <2>1, BecomesOf
<1>4. DaemonTyped'
  BY <1>1, <1>3 DEF DaemonInv, DaemonTyped, DaemonTypeOK, Truncates, Writes, RemovesPid
<1>5. \A e \in Daemons : ~Spares(d, e)
  BY <1>3 DEF Spares, Named
<1>6. LooksEarly(d)'
  BY <1>1, <1>3 DEF DaemonInv, LooksEarly
<1>7. contested \subseteq contested'
  BY DEF Truncates, Writes, RemovesPid, OthersRest
<1>8. Undisturbed(d)'
  <2>1. SUFFICES ASSUME to = "recorded", d \notin contested' PROVE Undisturbed(d)'
    BY <1>3 DEF Undisturbed, Named
  <2>2. pidFile' = d /\ contested' = contested \union {e \in {d} : \E p \in Lookers \ {d} : Committed(p)}
    BY <1>2, <2>1 DEF Writes
  <2>3. \A p \in Lookers : p # d => ~Committed(p)
    BY <2>1, <2>2
  <2>4. \A p \in Lookers : p # d => Spares(p, d)
    BY <2>3, UncommittedSpares
  <2>5. \A p \in Lookers : p # d => Spares(p, d)'
    BY <1>1, <1>3, <2>4 DEF Spares
  <2> QED BY <2>2, <2>5 DEF Undisturbed
<1> QED BY <1>1, <1>3, <1>4, <1>5, <1>6, <1>7, <1>8, WhoWrites

\* Who is killed spares everybody.
LEMMA KilledKeeps ==
    ASSUME DaemonInv, NEW d \in Daemons, Killed(d)
    PROVE  DaemonInv'
<1>1. /\ daemon' = [daemon EXCEPT ![d] = "gone"]
      /\ look' = [look EXCEPT ![d] = NoLook]
      /\ UNCHANGED <<pidFile, term, command, contested>>
      /\ port' = port \/ port' = NoPid
  BY DEF Killed
<1>2. /\ daemon' \in [Daemons -> DaemonStates] /\ daemon'[d] = "gone"
      /\ \A e \in Daemons : e # d => daemon'[e] = daemon[e]
  BY <1>1 DEF DaemonInv, DaemonTyped, DaemonTypeOK, DaemonStates
<1>3. /\ look' \in [Lookers -> LookStates] /\ look'[d] = NoLook
      /\ \A p \in Lookers : p # d => look'[p] = look[p]
  <2>1. NoLook \in LookStates
    BY DEF NoLook, LookStates
  <2> QED BY <1>1, <2>1, LookersApart DEF DaemonInv, DaemonTyped
<1>4. DaemonTyped'
  BY <1>1, <1>2, <1>3 DEF DaemonInv, DaemonTyped, DaemonTypeOK
<1>5. LooksEarly(d)' /\ daemon'[d] \notin Named /\ \A e \in Daemons : Spares(d, e)'
  BY <1>2, <1>3 DEF LooksEarly, Spares, NoLook, Named
<1> QED BY <1>1, <1>2, <1>3, <1>4, <1>5, StepOfOne, LookersApart

LEMMA DaemonInitInv == DaemonInit => DaemonInv
<1> SUFFICES ASSUME DaemonInit PROVE DaemonInv
  OBVIOUS
<1>1. DaemonTyped
  BY DEF DaemonInit, DaemonTyped, DaemonTypeOK, DaemonStates, CommandStates, LookStates,
         NotGiven, NoLook
<1>2. \A d \in Daemons : LooksEarly(d) /\ Undisturbed(d)
  BY LookersApart DEF DaemonInit, LooksEarly, Undisturbed, NoLook, Named
<1> QED BY <1>1, <1>2 DEF DaemonInv

LEMMA DaemonNextInv ==
    ASSUME DaemonInv, [DaemonNext]_daemonVars
    PROVE  DaemonInv'
<1>1. CASE UNCHANGED daemonVars
  BY <1>1 DEF daemonVars, DaemonInv, DaemonTyped, DaemonTypeOK, LooksEarly, Undisturbed, Spares
<1>2. CASE \E c \in Commands : \E does \in {"start", "stop", "status"} : Give(c, does)
  BY <1>2, GiveKeeps
<1>3. CASE \E c \in Commands : CommandStep(c)
  BY <1>3, LooksKeep, CommandUses, LookersApart DEF CommandStep, CommandLooks
<1>4. CASE \E d \in Daemons : DaemonStep(d) \/ Killed(d)
  <2>1. PICK d \in Daemons : DaemonStep(d) \/ Killed(d)
    BY <1>4
  <2>2. d \in Lookers
    BY LookersApart
  <2>3. CASE DaemonLooks(d)
    BY <2>2, <2>3, LooksKeep DEF DaemonLooks
  <2>4. CASE LookStep(d)
    <3>1. look[d].at \in {"probe", "unlink"}
      BY <2>4 DEF LookStep, Probes, Unlinks
    <3>2. daemon[d] = "booting"
      BY <3>1 DEF DaemonInv, LooksEarly
    <3> QED BY <2>2, <2>4, <3>2, LooksKeep
  <2>5. CASE Truncates(d) \/ Writes(d) \/ RemovesPid(d)
    BY <2>5, WritesKeep
  <2>6. CASE \/ BootFails(d) \/ Refused(d) \/ Free(d)
             \/ Listens(d) \/ ShutsDown(d) \/ DrainsRequests(d) \/ Exits(d)
    BY <2>6, DaemonGoesOn
  <2>7. CASE Killed(d)
    BY <2>7, KilledKeeps
  <2> QED BY <2>1, <2>3, <2>4, <2>5, <2>6, <2>7 DEF DaemonStep
<1> QED BY <1>1, <1>2, <1>3, <1>4 DEF DaemonNext, Nothing

\* Commands may be given at once, starts may give up on a slow child that boots
\* later, and daemons may be killed anywhere: whoever looks at the file of a
\* daemon nobody contested finds it alive, and leaves the file alone.
THEOREM DaemonInductive == DaemonSpec => []DaemonInv
<1>1. DaemonInv /\ [DaemonNext]_daemonVars => DaemonInv'
  BY DaemonNextInv
<1> QED BY <1>1, DaemonInitInv, PTL DEF DaemonSpec

\* Such a daemon is therefore one that mcp stop and status can find (mcp.go,
\* mcpPIDPath) until it removes the file itself.
THEOREM ServingAlwaysRecorded == DaemonSpec => []ServingIsRecorded
<1>1. DaemonInv => ServingIsRecorded
  BY DEF DaemonInv, DaemonTyped, ServingIsRecorded, Undisturbed, Named
<1> QED BY <1>1, DaemonInductive, PTL

=============================================================================
