-------------------------- MODULE JobQueueProofs --------------------------
(***************************************************************************)
(* Theorems about the job queue for every set of documents, lanes and      *)
(* processes and every bound.                                              *)
(***************************************************************************)
EXTENDS JobQueue, TLAPS

-----------------------------------------------------------------------------
(* What a lane step does, with the conditions under which the code takes   *)
(* it left out: it moves the lane or records one verdict.                  *)

Moves(w) ==
    /\ \/ Drop(w)
       \/ \E e \in Errors : MoveTo(w, "settling", e)
       \/ /\ lane[w].phase = "claimed"
          /\ lane[w].charged
          /\ MoveTo(w, "preparing", "none")
    /\ UNCHANGED <<job, doc, spent>>

Commits(w) ==
    /\ CommitEffects(w)
    /\ Drop(w) \/ MoveTo(w, "settling", "transient")
    /\ UNCHANGED spent

Effect(w) ==
    \/ Moves(w)
    \/ Begin(w)
    \/ \E due \in BOOLEAN : ReleaseJob(w, due)
    \/ WaitJob(w)
    \/ RetryJob(w)
    \/ FailJob(w)
    \/ Commits(w)

Counted == faults' \in 0..MaxFaults

LEMMA LaneEffect ==
  ASSUME faults \in 0..MaxFaults, NEW w \in Lanes, LaneStep(w)
  PROVE  /\ lane[w].phase # "idle"
         /\ Effect(w)
         /\ Counted
         /\ UNCHANGED <<proc, maint, orphans>>
<1> USE QueueAssumption DEF QueueAssumption, Effect, Counted, Spend
<1>0. ASSUME FailJob(w) \/ FailBusy(w)
      PROVE  Effect(w) /\ Counted /\ UNCHANGED <<proc, maint, orphans>>
  <2>1. CASE FailJob(w)
    BY <2>1 DEF FailJob, Transition
  <2>2. CASE FailBusy(w)
    <3>1. ReleaseJob(w, FALSE) /\ Spend
      BY <2>2 DEF FailBusy
    <3>2. \E due \in BOOLEAN : ReleaseJob(w, due)
      BY <3>1
    <3>3. Counted
      BY <3>1
    <3>4. UNCHANGED <<proc, maint, orphans>>
      BY <3>1, SMTT(40) DEF ReleaseJob, Transition
    <3> QED BY <3>2, <3>3, <3>4
  <2> QED BY <1>0, <2>1, <2>2
<1>1. CASE GiveBack(w)
  BY <1>1 DEF GiveBack, ReleaseJob, Transition
<1>2. CASE FailExhausted(w)
  BY <1>0, <1>2 DEF FailExhausted
<1>3. CASE Prepare(w)
  BY <1>3 DEF Prepare, Moves
<1>4. CASE NotBegun(w)
  BY <1>4 DEF NotBegun, AtBegin, Moves, Errors
<1>5. CASE Begin(w)
  BY <1>5 DEF Begin, AtBegin
<1>6. CASE BeginBusy(w)
  BY <1>6 DEF BeginBusy, AtBegin, Moves, Errors
<1>7. CASE BeginLost(w)
  BY <1>7 DEF BeginLost, AtBegin, Moves, LostLease
<1>8. CASE HandlerFails(w)
  BY <1>8 DEF HandlerFails, Moves, Errors
<1>9. CASE Commit(w)
  BY <1>9 DEF Commit, CommitEffects, Commits
<1>10. CASE CommitLate(w)
  BY <1>10 DEF CommitLate, CommitEffects, Commits
<1>11. CASE CommitUncertain(w)
  BY <1>11 DEF CommitUncertain, Moves, Errors
<1>12. CASE LeaseLost(w)
  BY <1>12 DEF LeaseLost, Moves, LostLease
<1>13. CASE LeaseUncertain(w)
  BY <1>13, SMTT(40) DEF LeaseUncertain, Moves
<1>14. CASE SettleBusy(w)
  BY <1>14 DEF SettleBusy, Settling, ReleaseJob, Transition
<1>15. CASE SettleSource(w)
  BY <1>15, SMTT(40) DEF SettleSource, Settling, WaitJob, Transition
<1>16. CASE SettleCancelled(w)
  BY <1>16 DEF SettleCancelled, Settling, ReleaseJob, Transition
<1>17. CASE SettleFail(w)
  BY <1>0, <1>17 DEF SettleFail, Settling
<1>18. CASE SettleRetry(w)
  BY <1>18 DEF SettleRetry, Settling, RetryJob, Transition
<1>19. CASE SettleLost(w)
  BY <1>19 DEF SettleLost, Settling, Moves, LostLease
<1>20. CASE VerdictLost(w)
  BY <1>20 DEF VerdictLost, Settling, Moves
<1> QED
  BY <1>1, <1>2, <1>3, <1>4, <1>5, <1>6, <1>7, <1>8, <1>9, <1>10, <1>11,
     <1>12, <1>13, <1>14, <1>15, <1>16, <1>17, <1>18, <1>19, <1>20 DEF LaneStep
-----------------------------------------------------------------------------
(* The inductive invariant.                                                *)

\* What a lane knows of its own claim: a handler runs only on a charged
\* claim, and ran says exactly whether it has.
LaneInv ==
    \A w \in Lanes : lane[w].phase # "idle" =>
        /\ lane[w].phase \in {"claimed", "preparing"} => ~lane[w].ran
        /\ lane[w].phase = "preparing" => lane[w].charged
        /\ lane[w].phase = "running" => lane[w].ran
        /\ lane[w].ran => lane[w].charged

\* The claim a lane holds is the latest one and has not been resolved.
Current(w) ==
    /\ lane[w].phase # "idle"
    /\ job[lane[w].job].state = "RUNNING"
    /\ job[lane[w].job].gen = lane[w].gen

\* The charge of the current claim is still in the row: unspent before the
\* handler runs, spent by exactly this run after.  This is what a refund
\* gives back.
BudgetInv ==
    /\ \A j \in Jobs : job[j].state = "NONE" => job[j].attempts = 0
    /\ \A w \in Lanes : Current(w) =>
          /\ lane[w].ran => spent[lane[w].job] >= 1
          /\ lane[w].charged /\ ~lane[w].ran =>
                spent[lane[w].job] < job[lane[w].job].attempts

\* Who holds the advisory lock of a job_id.
Holds(w, j) == /\ lane[w].phase = "running"
               /\ lane[w].job = j
               /\ lane[w].gen > job[j].born
Haunts(o, j) == o[1] = j /\ o[2] > job[j].born

\* A claim of a job_id is numbered above the row's insertion.
Sound(r) == r.born <= r.gen /\ (r.state = "RUNNING" => r.born < r.gen)

LockInv ==
    /\ \A j \in Jobs : Sound(job[j])
    /\ \A o \in orphans : o[2] <= job[o[1]].gen
    /\ \A j \in Jobs : \A v, w \in Lanes : Holds(v, j) /\ Holds(w, j) => v = w
    /\ \A j \in Jobs : \A o \in orphans, w \in Lanes :
          ~(Haunts(o, j) /\ Holds(w, j))

IInv == /\ TypeOK /\ OneOwner /\ LaneInv /\ BudgetKept /\ BudgetInv
        /\ LockInv /\ QuietWhenSettled /\ Agreement

-----------------------------------------------------------------------------
(* Types.                                                                  *)

LEMMA RowTypes ==
  /\ NoRow \in JobRow
  /\ \A r \in JobRow : NewRow(r) \in JobRow /\ Deleted(r) \in JobRow
  /\ \A r \in JobRow : ClaimedRow(r) \in JobRow /\ CompletedRow(r) \in JobRow
<1> USE QueueAssumption DEF QueueAssumption, JobRow, JobStates
<1>1. NoRow \in JobRow
  BY DEF NoRow
<1>2. ASSUME NEW r \in JobRow PROVE NewRow(r) \in JobRow
  BY DEF NewRow
<1>3. ASSUME NEW r \in JobRow PROVE Deleted(r) \in JobRow
  BY <1>1 DEF Deleted
<1>4. ASSUME NEW r \in JobRow PROVE CompletedRow(r) \in JobRow
  BY DEF CompletedRow
<1>5. ASSUME NEW r \in JobRow PROVE ClaimedRow(r) \in JobRow
  <2>1. \A g \in Nat, a \in 0..MaxAttempts :
          [r EXCEPT !.state = "RUNNING", !.gen = g, !.live = TRUE,
                    !.attempts = a] \in JobRow
    OBVIOUS
  <2>2. r.gen + 1 \in Nat
    OBVIOUS
  <2>3. (IF r.attempts < MaxAttempts THEN r.attempts + 1 ELSE r.attempts)
          \in 0..MaxAttempts
    OBVIOUS
  <2> QED BY <2>1, <2>2, <2>3 DEF ClaimedRow
<1> QED BY <1>1, <1>2, <1>3, <1>4, <1>5

LEMMA TypeInit == Init => TypeOK
  BY QueueAssumption, RowTypes DEF QueueAssumption, Init, TypeOK, Statuses,
         Lane, Idle, NoJob, Phases, Errors, Modes

LEMMA TypeProc ==
  ASSUME TypeOK, NEW p \in Processes, ProcStep(p)
  PROVE  TypeOK'
<1> USE QueueAssumption DEF TypeOK, QueueAssumption
<1>1. CASE Start(p) BY <1>1 DEF Start, Modes
<1>2. CASE LoseMaintenance(p) BY <1>2 DEF LoseMaintenance, Spend
<1>3. CASE Interrupt(p) BY <1>3 DEF Interrupt, Spend, Modes
<1>4. CASE Exit(p) BY <1>4 DEF Exit, Modes
<1>5. CASE Crash(p)
  <2>1. orphans' \subseteq Jobs \X Nat
    BY <1>5 DEF Crash, Lane
  <2>2. lane' \in [Lanes -> Lane]
    BY <1>5 DEF Crash, Lane, Idle, NoJob, Phases, Errors
  <2>3. \A w \in Lanes : lane'[w].phase # "idle" => lane'[w].job \in Jobs
    BY <1>5 DEF Crash, Idle
  <2> QED BY <1>5, <2>1, <2>2, <2>3 DEF Crash, Spend, Modes
<1> QED BY <1>1, <1>2, <1>3, <1>4, <1>5 DEF ProcStep

\* A lane that drops its claim, moves on or begins stays well typed.
LEMMA TypeOfLanes ==
  ASSUME TypeOK, NEW w \in Lanes, lane[w].phase # "idle", Effect(w)
  PROVE  /\ lane' \in [Lanes -> Lane]
         /\ \A v \in Lanes : lane'[v].phase # "idle" => lane'[v].job \in Jobs
<1> USE DEF TypeOK
<1>1. CASE Drop(w)
  BY <1>1 DEF Drop, Lane, Idle, NoJob, Phases, Errors
<1>2. ASSUME NEW ph \in Phases, NEW e \in Errors, MoveTo(w, ph, e)
      PROVE  /\ lane' \in [Lanes -> Lane]
             /\ \A v \in Lanes : lane'[v].phase # "idle" => lane'[v].job \in Jobs
  BY <1>2, ZenonT(60) DEF MoveTo, Lane
<1>3. CASE Begin(w)
  <2>1. lane' = [lane EXCEPT ![w].phase = "running", ![w].ran = TRUE]
    BY <1>3 DEF Begin
  <2>2. [lane[w] EXCEPT !.phase = "running", !.ran = TRUE] \in Lane
    BY DEF Lane, Phases
  <2> QED BY <2>1, <2>2
<1>4. "settling" \in Phases /\ "preparing" \in Phases /\ "none" \in Errors
      /\ "transient" \in Errors
  BY DEF Phases, Errors
<1>5. \/ Drop(w)
      \/ Begin(w)
      \/ \E ph \in Phases, e \in Errors : MoveTo(w, ph, e)
  BY <1>4 DEF Effect, Moves, ReleaseJob, WaitJob, RetryJob,
              FailJob, Transition, Commits
<1> QED BY <1>1, <1>2, <1>3, <1>5

-----------------------------------------------------------------------------
(* Rows.  Every step leaves a row alone or moves it on: generations never  *)
(* go back, and a new job_id starts above every claim of the old one.      *)

Grown(q, r) ==
    /\ r.gen >= q.gen
    /\ r.born = q.born \/ r.born >= q.gen
    /\ Sound(q) => Sound(r)
Grows == /\ job' \in [Jobs -> JobRow]
         /\ \A k \in Jobs : Grown(job[k], job'[k])

LEMMA Growth ==
  /\ \A r \in JobRow : Grown(r, r)
  /\ \A r \in JobRow : Grown(r, NewRow(r)) /\ Grown(r, Deleted(r))
  /\ \A r \in JobRow : Grown(r, CompletedRow(r)) /\ Grown(r, ClaimedRow(r))
  /\ \A r \in JobRow : Grown(r, NewRow(Deleted(r)))
<1> SUFFICES ASSUME NEW r \in JobRow
             PROVE  /\ Grown(r, r) /\ Grown(r, NewRow(r)) /\ Grown(r, Deleted(r))
                    /\ Grown(r, CompletedRow(r)) /\ Grown(r, ClaimedRow(r))
                    /\ Grown(r, NewRow(Deleted(r)))
  OBVIOUS
<1> r.gen \in Nat /\ r.born \in Nat
  BY DEF JobRow
<1> USE DEF Grown, Sound
<1>1. Grown(r, r) OBVIOUS
<1>2. Grown(r, NewRow(r)) BY DEF NewRow
<1>3. Grown(r, Deleted(r)) BY DEF Deleted, NoRow
<1>4. Grown(r, CompletedRow(r))
  <2>1. /\ CompletedRow(r).gen = r.gen /\ CompletedRow(r).born = r.born
        /\ CompletedRow(r).state = "COMPLETED"
    BY DEF CompletedRow, JobRow
  <2> QED BY <2>1
<1>5. Grown(r, ClaimedRow(r))
  <2>1. ClaimedRow(r).gen = r.gen + 1 /\ ClaimedRow(r).born = r.born
    BY DEF ClaimedRow, JobRow
  <2> QED BY <2>1
<1>6. Grown(r, NewRow(Deleted(r)))
  <2>1. Deleted(r).gen = r.gen
    BY DEF Deleted, NoRow
  <2> QED BY <2>1 DEF NewRow
<1> QED BY <1>1, <1>2, <1>3, <1>4, <1>5, <1>6

LEMMA Inserted ==
  ASSUME NEW rows \in [Jobs -> JobRow], NEW f
  PROVE  /\ WithJobs(rows, f) \in [Jobs -> JobRow]
         /\ \A k \in Jobs : \/ WithJobs(rows, f)[k] = rows[k]
                            \/ WithJobs(rows, f)[k] = NewRow(rows[k])
BY RowTypes DEF WithJobs

\* What a verdict does to its row and to nobody else's.
Verdict(w, s) ==
    /\ Owned(w)
    /\ Drop(w)
    /\ job' \in [Jobs -> JobRow]
    /\ \A k \in Jobs : k # lane[w].job => job'[k] = job[k]
    /\ job'[lane[w].job].born = job[lane[w].job].born
    /\ job'[lane[w].job].gen = job[lane[w].job].gen
    /\ job'[lane[w].job].state = s

LEMMA VerdictRows ==
  ASSUME TypeOK, NEW w \in Lanes, lane[w].phase # "idle",
         NEW s \in JobStates, NEW due \in BOOLEAN, NEW a \in 0..MaxAttempts,
         Transition(w, s, due, a)
  PROVE  Verdict(w, s) /\ job'[lane[w].job].attempts = a
<1> DEFINE j == lane[w].job
<1>1. j \in Jobs /\ job \in [Jobs -> JobRow] /\ job[j] \in JobRow
  BY DEF TypeOK
<1>2. /\ Owned(w) /\ Drop(w)
      /\ job' = [job EXCEPT ![j].state = s, ![j].live = FALSE,
                            ![j].due = due, ![j].attempts = a]
  BY DEF Transition
<1> HIDE DEF j
<1>3. [job[j] EXCEPT !.state = s, !.live = FALSE, !.due = due,
                     !.attempts = a] \in JobRow
  BY <1>1 DEF JobRow
<1>4. job'[j] = [job[j] EXCEPT !.state = s, !.live = FALSE, !.due = due,
                               !.attempts = a]
  BY <1>1, <1>2
<1>5. \A k \in Jobs : k # j => job'[k] = job[k]
  BY <1>1, <1>2
<1>6. job' \in [Jobs -> JobRow]
  BY <1>1, <1>2, <1>3
<1>7. /\ job'[j].born = job[j].born /\ job'[j].gen = job[j].gen
      /\ job'[j].state = s /\ job'[j].attempts = a
  BY <1>1, <1>4 DEF JobRow
<1> QED BY <1>2, <1>5, <1>6, <1>7 DEF Verdict, j

\* Every verdict is such a transition, with its attempts in range.
LEMMA VerdictCases ==
  ASSUME TypeOK, NEW w \in Lanes, lane[w].phase # "idle",
         \/ \E due \in BOOLEAN : ReleaseJob(w, due)
         \/ WaitJob(w) \/ RetryJob(w) \/ FailJob(w)
  PROVE  \E s \in {"READY", "WAITING_SOURCE", "FAILED"} :
            /\ Verdict(w, s)
            /\ s = "FAILED" => FailJob(w)
<1>1. /\ Refunded(w) \in 0..MaxAttempts
      /\ job[lane[w].job].attempts \in 0..MaxAttempts
  BY QueueAssumption DEF QueueAssumption, TypeOK, Refunded, JobRow
<1>2. /\ "READY" \in JobStates /\ "WAITING_SOURCE" \in JobStates
      /\ "FAILED" \in JobStates
  BY DEF JobStates
<1>3. ASSUME NEW due \in BOOLEAN, ReleaseJob(w, due) PROVE Verdict(w, "READY")
  BY <1>1, <1>2, <1>3, VerdictRows DEF ReleaseJob
<1>4. CASE WaitJob(w)
  BY <1>1, <1>2, <1>4, VerdictRows DEF WaitJob
<1>5. CASE RetryJob(w)
  BY <1>1, <1>2, <1>5, VerdictRows DEF RetryJob
<1>6. CASE FailJob(w)
  <2>1. Verdict(w, "FAILED")
    BY <1>1, <1>2, <1>6, VerdictRows DEF FailJob
  <2> QED BY <1>6, <2>1
<1> QED BY <1>3, <1>4, <1>5, <1>6

LEMMA GrowsOnePlace ==
  ASSUME job \in [Jobs -> JobRow], NEW j \in Jobs, NEW r \in JobRow,
         Grown(job[j], r), job' = [job EXCEPT ![j] = r]
  PROVE  Grows
<1>1. job' \in [Jobs -> JobRow]
  OBVIOUS
<1>2. \A k \in Jobs : job'[k] = IF k = j THEN r ELSE job[k]
  OBVIOUS
<1>3. \A k \in Jobs : Grown(job[k], job'[k])
  BY <1>2, Growth
<1> QED BY <1>1, <1>3 DEF Grows

LEMMA GrowsCommit ==
  ASSUME TypeOK, NEW w \in Lanes, lane[w].phase # "idle", CommitEffects(w)
  PROVE  Grows
<1> DEFINE j == lane[w].job
           e == <<j[1], "embed">>
<1>1. j \in Jobs /\ e \in Jobs /\ job \in [Jobs -> JobRow]
  BY DEF TypeOK, Jobs, Stages
<1>2. PICK f \in Admissions : CommitHandOff(j, f) \/ CommitEnd(j, f)
  BY DEF CommitEffects
<1>3. ASSUME NEW rows \in [Jobs -> JobRow], job' = WithJobs(rows, f),
             \A k \in Jobs : \/ rows[k] = job[k]
                             \/ rows[k] = CompletedRow(job[k])
                             \/ rows[k] = NewRow(job[k])
      PROVE  Grows
  <2>1. job' \in [Jobs -> JobRow]
    BY <1>3, Inserted
  <2>2. ASSUME NEW k \in Jobs PROVE Grown(job[k], job'[k])
    <3>1. job[k] \in JobRow /\ rows[k] \in JobRow
      BY <1>1, <1>3
    <3>2. Grown(job[k], rows[k])
      BY <1>3, <3>1, Growth
    <3>3. Grown(rows[k], job'[k])
      BY <1>3, <3>1, Growth, Inserted
    <3>4. job'[k] \in JobRow
      BY <2>1
    <3> QED
      BY <3>1, <3>2, <3>3, <3>4 DEF Grown, Sound, JobRow
  <2> QED BY <2>1, <2>2 DEF Grows
<1>4. CASE CommitEnd(j, f)
  <2> DEFINE rows == [job EXCEPT ![j] = CompletedRow(@)]
  <2>1. rows \in [Jobs -> JobRow]
    BY <1>1, RowTypes
  <2>2. \A k \in Jobs : rows[k] = job[k] \/ rows[k] = CompletedRow(job[k])
    BY <1>1
  <2>3. job' = WithJobs(rows, f)
    BY <1>4 DEF CommitEnd
  <2> QED BY <2>1, <2>2, <2>3, <1>3
<1>5. CASE CommitHandOff(j, f)
  <2> DEFINE rows == [job EXCEPT ![j] = CompletedRow(@),
                                 ![e] = IF @.state = "NONE" THEN NewRow(@) ELSE @]
  <2>1. j # e
    BY <1>5 DEF CommitHandOff
  <2>2. rows \in [Jobs -> JobRow]
    BY <1>1, <2>1, RowTypes
  <2>3. \A k \in Jobs : \/ rows[k] = job[k]
                       \/ rows[k] = CompletedRow(job[k])
                       \/ rows[k] = NewRow(job[k])
    BY <1>1, <2>1
  <2>4. job' = WithJobs(rows, f)
    BY <1>5 DEF CommitHandOff
  <2> QED BY <2>2, <2>3, <2>4, <1>3
<1> QED BY <1>2, <1>4, <1>5

LEMMA GrowsLane ==
  ASSUME TypeOK, NEW w \in Lanes, lane[w].phase # "idle", Effect(w)
  PROVE  Grows
<1>1. CASE UNCHANGED job
  BY <1>1, Growth DEF Grows, TypeOK
<1>2. ASSUME NEW s \in JobStates, Verdict(w, s) PROVE Grows
  <2>1. ASSUME NEW k \in Jobs PROVE Grown(job[k], job'[k])
    <3>1. job[k] \in JobRow
      BY DEF TypeOK
    <3>2. CASE k = lane[w].job
      <4>1. /\ job'[k].born = job[k].born /\ job'[k].gen = job[k].gen
            /\ job[k].state = "RUNNING"
        BY <1>2, <3>2 DEF Verdict, Owned
      <4>2. job[k].gen \in Nat /\ job[k].born \in Nat
        BY <3>1 DEF JobRow
      <4> QED BY <4>1, <4>2 DEF Grown, Sound
    <3>3. CASE k # lane[w].job
      BY <1>2, <3>1, <3>3, Growth DEF Verdict
    <3> QED BY <3>2, <3>3
  <2> QED BY <1>2, <2>1 DEF Verdict, Grows
<1>3. CASE Commits(w)
  BY <1>3, GrowsCommit DEF Commits
<1>4. CASE \/ \E due \in BOOLEAN : ReleaseJob(w, due)
           \/ WaitJob(w) \/ RetryJob(w) \/ FailJob(w)
  <2>1. PICK s \in {"READY", "WAITING_SOURCE", "FAILED"} : Verdict(w, s)
    BY <1>4, VerdictCases
  <2>2. s \in JobStates
    BY DEF JobStates
  <2> QED BY <2>1, <2>2, <1>2
<1> QED BY <1>1, <1>3, <1>4 DEF Effect, Moves, Begin

LEMMA GrowsJobStep ==
  ASSUME TypeOK, NEW j \in Jobs, JobStep(j)
  PROVE  Grows
<1>1. job \in [Jobs -> JobRow] /\ job[j] \in JobRow
  BY DEF TypeOK
<1>2. [job[j] EXCEPT !.due = TRUE] \in JobRow
      /\ [job[j] EXCEPT !.live = FALSE] \in JobRow
  BY <1>1 DEF JobRow
<1>3. /\ Grown(job[j], [job[j] EXCEPT !.due = TRUE])
      /\ Grown(job[j], [job[j] EXCEPT !.live = FALSE])
  BY <1>1 DEF JobRow, Sound, Grown
<1>4. CASE BecomeDue(j)
  <2>1. job' = [job EXCEPT ![j] = [job[j] EXCEPT !.due = TRUE]]
    BY <1>1, <1>4 DEF BecomeDue
  <2> QED BY <1>1, <1>2, <1>3, <2>1, GrowsOnePlace
<1>5. CASE Expire(j) \/ ExpireHeld(j)
  <2>1. job' = [job EXCEPT ![j] = [job[j] EXCEPT !.live = FALSE]]
    BY <1>1, <1>5 DEF Expire, ExpireHeld
  <2> QED BY <1>1, <1>2, <1>3, <2>1, GrowsOnePlace
<1>6. CASE ClaimLost(j)
  <2>1. job' = [job EXCEPT ![j] = ClaimedRow(job[j])]
    BY <1>1, <1>6 DEF ClaimLost
  <2> QED BY <1>1, <2>1, RowTypes, Growth, GrowsOnePlace
<1> QED BY <1>4, <1>5, <1>6 DEF JobStep

LEMMA GrowsClaim ==
  ASSUME TypeOK, NEW w \in Lanes, NEW j \in Jobs, Claim(w, j)
  PROVE  Grows
<1>1. job \in [Jobs -> JobRow] /\ job[j] \in JobRow
  BY DEF TypeOK
<1>2. job' = [job EXCEPT ![j] = ClaimedRow(job[j])]
  BY <1>1 DEF Claim
<1> QED BY <1>1, <1>2, RowTypes, Growth, GrowsOnePlace

LEMMA GrowsResume ==
  ASSUME TypeOK, ResumeSources
  PROVE  Grows
<1>1. job \in [Jobs -> JobRow]
  BY DEF TypeOK
<1>2. ASSUME NEW k \in Jobs PROVE job'[k] \in JobRow /\ Grown(job[k], job'[k])
  <2>1. job[k] \in JobRow /\ job[k].gen \in Nat /\ job[k].gen + 1 \in Nat
    BY <1>1 DEF JobRow
  <2>2. \A g \in Nat : [job[k] EXCEPT !.state = "READY", !.gen = g, !.due = TRUE,
                                      !.live = FALSE] \in JobRow
    BY <2>1 DEF JobRow, JobStates
  <2>3. CASE job[k].state = "WAITING_SOURCE"
    <3>1. job'[k] = [job[k] EXCEPT !.state = "READY", !.gen = job[k].gen + 1,
                                  !.due = TRUE, !.live = FALSE]
      BY <2>3 DEF ResumeSources
    <3>2. job'[k].gen = job[k].gen + 1 /\ job'[k].born = job[k].born
      BY <2>1, <3>1 DEF JobRow
    <3>3. Grown(job[k], job'[k])
      BY <2>1, <3>2 DEF Grown, Sound, JobRow
    <3> QED BY <2>1, <2>2, <3>1, <3>3
  <2>4. CASE job[k].state # "WAITING_SOURCE"
    BY <2>1, <2>4, Growth DEF ResumeSources
  <2> QED BY <2>3, <2>4
<1>3. job' \in [Jobs -> JobRow]
  BY <1>2 DEF ResumeSources
<1> QED BY <1>2, <1>3 DEF Grows

LEMMA GrowsDocStep ==
  ASSUME TypeOK, NEW d \in Docs, DocStep(d)
  PROVE  Grows
<1>1. job \in [Jobs -> JobRow]
  BY DEF TypeOK
<1>2. ASSUME NEW r \in Routes, Admit(d, r) PROVE Grows
  <2>1. job' = WithJobs(job, [x \in {d} |-> r])
    BY <1>2 DEF Admit
  <2> QED BY <1>1, <2>1, Inserted, Growth DEF Grows
<1>3. ASSUME NEW r \in Routes, Reset(d, r) PROVE Grows
  <2> DEFINE rows == [j \in Jobs |-> IF j[1] = d THEN Deleted(job[j]) ELSE job[j]]
  <2>1. rows \in [Jobs -> JobRow]
    BY <1>1, RowTypes
  <2>2. job' = WithJobs(rows, [x \in {d} |-> r])
    BY <1>3 DEF Reset
  <2>3. job' \in [Jobs -> JobRow]
    BY <2>1, <2>2, Inserted
  <2>4. ASSUME NEW k \in Jobs PROVE Grown(job[k], job'[k])
    <3>1. job[k] \in JobRow /\ Deleted(job[k]) \in JobRow
      BY <1>1, RowTypes
    <3>2. rows[k] = Deleted(job[k]) \/ rows[k] = job[k]
      OBVIOUS
    <3>3. job'[k] = rows[k] \/ job'[k] = NewRow(rows[k])
      BY <2>1, <2>2, Inserted
    <3> QED BY <3>1, <3>2, <3>3, Growth
  <2> QED BY <2>3, <2>4 DEF Grows
<1>4. CASE Forget(d)
  <2>1. \A k \in Jobs : job'[k] = Deleted(job[k]) \/ job'[k] = job[k]
    BY <1>4 DEF Forget
  <2>2. job' \in [Jobs -> JobRow]
    BY <1>1, <1>4, RowTypes DEF Forget
  <2> QED BY <1>1, <2>1, <2>2, Growth DEF Grows
<1>5. CASE Recover(d)
  <2>1. ASSUME NEW k \in Jobs
        PROVE  job'[k] \in JobRow /\ Grown(job[k], job'[k])
    <3>1. job[k] \in JobRow /\ job[k].gen \in Nat /\ job[k].gen + 1 \in Nat
      BY <1>1 DEF JobRow
    <3>2. \A g \in Nat : [job[k] EXCEPT !.state = "READY", !.gen = g,
                   !.attempts = 0, !.due = TRUE, !.live = FALSE] \in JobRow
      <4>1. 0 \in 0..MaxAttempts
        BY QueueAssumption DEF QueueAssumption
      <4>2. \A g \in Nat, a \in 0..MaxAttempts :
              [job[k] EXCEPT !.state = "READY", !.gen = g, !.attempts = a,
                             !.due = TRUE, !.live = FALSE] \in JobRow
        BY <3>1 DEF JobRow, JobStates
      <4> QED BY <4>1, <4>2
    <3>3. CASE job'[k] = [job[k] EXCEPT !.state = "READY", !.gen = job[k].gen + 1,
                             !.attempts = 0, !.due = TRUE, !.live = FALSE]
      <4>1. job'[k].gen = job[k].gen + 1 /\ job'[k].born = job[k].born
        BY <3>1, <3>3 DEF JobRow
      <4>2. Grown(job[k], job'[k])
        BY <3>1, <4>1 DEF Grown, Sound, JobRow
      <4> QED BY <3>1, <3>2, <3>3, <4>2
    <3>4. CASE job'[k] = job[k]
      BY <3>1, <3>4, Growth
    <3> QED BY <1>5, <3>3, <3>4 DEF Recover
  <2>2. job' \in [Jobs -> JobRow]
    BY <2>1, <1>5 DEF Recover
  <2> QED BY <2>1, <2>2 DEF Grows
<1> QED BY <1>2, <1>3, <1>4, <1>5 DEF DocStep

LEMMA GrowsNext ==
  ASSUME TypeOK, [Next]_vars
  PROVE  Grows
<1>1. CASE UNCHANGED job
  BY <1>1, Growth DEF Grows, TypeOK
<1>2. ASSUME NEW p \in Processes, ProcStep(p) PROVE UNCHANGED job
  BY <1>2 DEF ProcStep, Start, LoseMaintenance, Interrupt, Exit, Crash
<1>3. ASSUME NEW o \in orphans, BackendEnds(o) PROVE UNCHANGED job
  BY <1>3 DEF BackendEnds
<1>4. ASSUME NEW w \in Lanes, LaneStep(w) PROVE Grows
  <2>1. lane[w].phase # "idle" /\ Effect(w)
    BY <1>4, LaneEffect DEF TypeOK
  <2> QED BY <2>1, GrowsLane
<1> QED
  BY <1>1, <1>2, <1>3, <1>4, GrowsJobStep, GrowsDocStep, GrowsClaim, GrowsResume
     DEF Next, vars

-----------------------------------------------------------------------------
(* Lanes.  A claim is only ever taken by Claim; every other step leaves a  *)
(* lane with the claim it had or with none.                                *)

Kept ==
    \A v \in Lanes : lane'[v].phase # "idle" =>
        /\ lane[v].phase # "idle"
        /\ lane'[v].job = lane[v].job
        /\ lane'[v].gen = lane[v].gen
        /\ lane'[v].charged = lane[v].charged

\* Moving on changes a lane's phase and error only.
LEMMA MovesOn ==
  ASSUME TypeOK, NEW w \in Lanes, NEW ph, NEW e, MoveTo(w, ph, e)
  PROVE  /\ lane'[w].phase = ph /\ lane'[w].err = e
         /\ lane'[w].job = lane[w].job /\ lane'[w].gen = lane[w].gen
         /\ lane'[w].charged = lane[w].charged /\ lane'[w].ran = lane[w].ran
         /\ \A v \in Lanes : v # w => lane'[v] = lane[v]
<1>1. /\ lane \in [Lanes -> Lane] /\ lane[w] \in Lane
      /\ lane' = [lane EXCEPT ![w].phase = ph, ![w].err = e]
  BY DEF TypeOK, MoveTo
<1>2. lane'[w] = [lane[w] EXCEPT !.phase = ph, !.err = e]
  BY <1>1
<1>3. \A v \in Lanes : v # w => lane'[v] = lane[v]
  BY <1>1
<1> QED BY <1>1, <1>2, <1>3 DEF Lane

LEMMA LanesKept ==
  ASSUME TypeOK, NEW w \in Lanes, lane[w].phase # "idle", Effect(w)
  PROVE  /\ Kept
         /\ \A v \in Lanes : v # w => lane'[v] = lane[v]
         /\ lane'[w].phase = "running" => Begin(w)
<1> USE DEF TypeOK, Lane, Kept
<1>1. CASE Drop(w)
  BY <1>1 DEF Drop, Idle
<1>2. CASE \/ \E e \in Errors : MoveTo(w, "settling", e)
           \/ MoveTo(w, "settling", "transient")
           \/ MoveTo(w, "preparing", "none")
  BY <1>2, MovesOn
<1>3. CASE Begin(w)
  BY <1>3 DEF Begin
<1> QED
  BY <1>1, <1>2, <1>3 DEF Effect, Moves, ReleaseJob, WaitJob, RetryJob,
                          FailJob, Transition, Commits

LEMMA KeptNext ==
  ASSUME TypeOK, [Next]_vars
  PROVE  Kept \/ \E w \in Lanes, j \in Jobs : Claim(w, j)
<1>1. CASE UNCHANGED lane
  BY <1>1 DEF Kept
<1>2. ASSUME NEW p \in Processes, ProcStep(p) PROVE Kept
  BY <1>2 DEF ProcStep, Start, LoseMaintenance, Interrupt, Exit, Crash, Kept,
              Idle
<1>3. ASSUME NEW w \in Lanes, LaneStep(w) PROVE Kept
  <2>1. lane[w].phase # "idle" /\ Effect(w)
    BY <1>3, LaneEffect DEF TypeOK
  <2> QED BY <2>1, LanesKept
<1>4. ASSUME NEW j \in Jobs, JobStep(j) PROVE UNCHANGED lane
  BY <1>4 DEF JobStep, BecomeDue, Expire, ExpireHeld, ClaimLost
<1>5. ASSUME NEW d \in Docs, DocStep(d) PROVE UNCHANGED lane
  BY <1>5 DEF DocStep, Recover, Forget, Admit, Reset
<1> QED
  BY <1>1, <1>2, <1>3, <1>4, <1>5 DEF Next, vars, BackendEnds, ResumeSources

LEMMA OwnersKept ==
  ASSUME TypeOK, OneOwner, Grows, Kept
  PROVE  OneOwner'
<1>1. ASSUME NEW w \in Lanes, lane'[w].phase # "idle"
      PROVE  lane'[w].gen <= job'[lane'[w].job].gen
  <2>1. /\ lane[w].phase # "idle" /\ lane'[w].gen = lane[w].gen
        /\ lane'[w].job = lane[w].job /\ lane[w].job \in Jobs
        /\ lane[w].gen \in Nat
    BY <1>1 DEF Kept, TypeOK, Lane
  <2>2. /\ job[lane[w].job].gen \in Nat /\ job'[lane[w].job].gen \in Nat
        /\ job'[lane[w].job].gen >= job[lane[w].job].gen
    BY <2>1 DEF TypeOK, JobRow, Grows, Grown
  <2>3. lane[w].gen <= job[lane[w].job].gen
    BY <2>1 DEF OneOwner
  <2> QED BY <2>1, <2>2, <2>3
<1>2. ASSUME NEW v \in Lanes, NEW w \in Lanes, v # w, lane'[v].phase # "idle",
             lane'[w].phase # "idle", lane'[v].job = lane'[w].job
      PROVE  lane'[v].gen # lane'[w].gen
  BY <1>2 DEF Kept, OneOwner
<1> QED BY <1>1, <1>2 DEF OneOwner

\* A claim's generation is above every one any lane holds of that job.
LEMMA OwnersClaim ==
  ASSUME TypeOK, OneOwner, NEW w \in Lanes, NEW j \in Jobs, Claim(w, j)
  PROVE  OneOwner'
<1>1. /\ lane' = [lane EXCEPT ![w] =
                    [phase |-> "claimed", job |-> j, gen |-> job[j].gen + 1,
                     charged |-> job[j].attempts < MaxAttempts,
                     last |-> job[j].attempts + 1 >= MaxAttempts,
                     ran |-> FALSE, err |-> "none"]]
      /\ job' = [job EXCEPT ![j] = ClaimedRow(job[j])]
  BY DEF Claim
<1>2. /\ lane'[w].job = j /\ lane'[w].gen = job[j].gen + 1
      /\ \A v \in Lanes : v # w => lane'[v] = lane[v]
  BY <1>1 DEF TypeOK
<1>3. /\ job'[j].gen = job[j].gen + 1
      /\ \A k \in Jobs : k # j => job'[k] = job[k]
  BY <1>1 DEF TypeOK, JobRow, ClaimedRow
<1>4. /\ \A k \in Jobs : job[k].gen \in Nat
      /\ \A v \in Lanes : lane[v].gen \in Nat
  BY DEF TypeOK, JobRow, Lane
<1>5. \A v \in Lanes : lane[v].phase # "idle" =>
          lane[v].job \in Jobs /\ lane[v].gen <= job[lane[v].job].gen
  BY DEF TypeOK, OneOwner
<1>6. ASSUME NEW v \in Lanes, lane'[v].phase # "idle"
      PROVE  lane'[v].gen <= job'[lane'[v].job].gen
  BY <1>2, <1>3, <1>4, <1>5, <1>6
<1>7. ASSUME NEW u \in Lanes, NEW v \in Lanes, u # v, lane'[u].phase # "idle",
             lane'[v].phase # "idle", lane'[u].job = lane'[v].job
      PROVE  lane'[u].gen # lane'[v].gen
  BY <1>2, <1>4, <1>5, <1>7 DEF OneOwner
<1> QED BY <1>6, <1>7 DEF OneOwner

LEMMA OwnersNext ==
  ASSUME TypeOK, OneOwner, [Next]_vars
  PROVE  OneOwner'
  BY GrowsNext, KeptNext, OwnersKept, OwnersClaim

-----------------------------------------------------------------------------
(* Locks.  Only Begin takes a job's lock and only where it is free; every  *)
(* other step keeps, frees or bequeaths it.                                *)

RunsKept ==
    \A v \in Lanes : lane'[v].phase = "running" =>
        /\ lane[v].phase = "running"
        /\ lane'[v].job = lane[v].job
        /\ lane'[v].gen = lane[v].gen

\* A row that moves on frees the locks of its earlier job_ids and adds none.
LEMMA LockNumbers ==
  ASSUME TypeOK, OneOwner, LockInv, Grows, NEW j \in Jobs
  PROVE  /\ job[j].gen \in Nat /\ job[j].born \in Nat
         /\ job'[j].gen \in Nat /\ job'[j].born \in Nat
         /\ \A g \in Nat : g <= job[j].gen /\ g > job'[j].born
                              => g > job[j].born
         /\ \A w \in Lanes : lane[w].phase # "idle" /\ lane[w].job = j
                              => lane[w].gen <= job[j].gen
         /\ \A w \in Lanes : lane[w].gen \in Nat
         /\ \A o \in orphans : o[1] \in Jobs /\ o[2] \in Nat
         /\ \A o \in orphans : o[1] = j => o[2] <= job[j].gen
<1>1. /\ job[j].gen \in Nat /\ job[j].born \in Nat
      /\ job'[j].gen \in Nat /\ job'[j].born \in Nat
  BY DEF TypeOK, JobRow, Grows
<1>2. Grown(job[j], job'[j]) /\ Sound(job[j])
  BY DEF Grows, LockInv
<1>3. \A g \in Nat : g <= job[j].gen /\ g > job'[j].born => g > job[j].born
  BY <1>1, <1>2 DEF Grown, Sound
<1>4. \A w \in Lanes : lane[w].phase # "idle" /\ lane[w].job = j
                       => lane[w].gen <= job[j].gen
  BY DEF OneOwner
<1>5. \A w \in Lanes : lane[w].gen \in Nat
  BY DEF TypeOK, Lane
<1>6. \A o \in orphans : o[1] \in Jobs /\ o[2] \in Nat
  BY DEF TypeOK
<1>7. \A o \in orphans : o[1] = j => o[2] <= job[j].gen
  BY DEF LockInv
<1> QED BY <1>1, <1>3, <1>4, <1>5, <1>6, <1>7

LEMMA HauntsKept ==
  ASSUME TypeOK, OneOwner, LockInv, Grows, NEW j \in Jobs, NEW o \in orphans
  PROVE  /\ Haunts(o, j)' => Haunts(o, j)
         /\ o[2] <= job'[o[1]].gen
<1>1. Haunts(o, j)' => Haunts(o, j)
  BY LockNumbers DEF Haunts
<1>2. o[1] \in Jobs /\ o[2] \in Nat /\ o[2] <= job[o[1]].gen
  BY DEF TypeOK, LockInv
<1>3. /\ job[o[1]].gen \in Nat /\ job'[o[1]].gen \in Nat
      /\ job'[o[1]].gen >= job[o[1]].gen
  BY <1>2 DEF TypeOK, JobRow, Grows, Grown
<1> QED BY <1>1, <1>2, <1>3

LEMMA SoundKept ==
  ASSUME LockInv, Grows
  PROVE  \A j \in Jobs : Sound(job'[j])
BY DEF LockInv, Grows, Grown

LEMMA LocksKept ==
  ASSUME TypeOK, OneOwner, LockInv, Grows, RunsKept, orphans' \subseteq orphans
  PROVE  LockInv' /\ \A j \in Jobs : Locked(j)' => Locked(j)
<1>1. ASSUME NEW j \in Jobs, NEW w \in Lanes, Holds(w, j)'
      PROVE  Holds(w, j)
  BY <1>1, LockNumbers DEF Holds, RunsKept
<1>2. ASSUME NEW j \in Jobs, NEW o \in orphans', Haunts(o, j)'
      PROVE  o \in orphans /\ Haunts(o, j)
  BY <1>2, HauntsKept
<1>3. \A o \in orphans' : o[2] <= job'[o[1]].gen
  BY HauntsKept DEF TypeOK
<1>4. \A j \in Jobs : \A v, w \in Lanes : Holds(v, j)' /\ Holds(w, j)' => v = w
  BY <1>1 DEF LockInv
<1>5. \A j \in Jobs : \A o \in orphans', w \in Lanes :
        ~(Haunts(o, j)' /\ Holds(w, j)')
  BY <1>1, <1>2 DEF LockInv
<1>6. \A j \in Jobs : Locked(j)' => Locked(j)
  BY <1>1, <1>2 DEF Locked, Holds, Haunts
<1> QED BY <1>3, <1>4, <1>5, <1>6, SoundKept DEF LockInv

\* Begin takes a free lock.
LEMMA LocksBegin ==
  ASSUME TypeOK, OneOwner, LockInv, Grows, NEW w \in Lanes, Begin(w),
         UNCHANGED orphans
  PROVE  /\ LockInv'
         /\ \A j \in Jobs : Locked(j)' => Locked(j) \/ j = lane[w].job
<1>1. /\ job' = job /\ ~Locked(lane[w].job)
      /\ lane' = [lane EXCEPT ![w].phase = "running", ![w].ran = TRUE]
  BY DEF Begin
<1>2. /\ lane[w] \in Lane
      /\ lane'[w] = [lane[w] EXCEPT !.phase = "running", !.ran = TRUE]
      /\ \A v \in Lanes : v # w => lane'[v] = lane[v]
  BY <1>1 DEF TypeOK
<1>3. lane'[w].job = lane[w].job /\ lane'[w].gen = lane[w].gen
  BY <1>2 DEF Lane
<1>4. ASSUME NEW j \in Jobs, NEW v \in Lanes, Holds(v, j)'
      PROVE  Holds(v, j) \/ (v = w /\ j = lane[w].job)
  BY <1>1, <1>2, <1>3, <1>4 DEF Holds
<1>5. \A j \in Jobs, o \in orphans : Haunts(o, j)' <=> Haunts(o, j)
  BY <1>1 DEF Haunts
<1>6. /\ \A v \in Lanes : ~Holds(v, lane[w].job)
      /\ \A o \in orphans : ~Haunts(o, lane[w].job)
  BY <1>1 DEF Locked, Holds, Haunts
<1>7. \A j \in Jobs : \A u, v \in Lanes : Holds(u, j)' /\ Holds(v, j)' => u = v
  BY <1>4, <1>6 DEF LockInv
<1>8. \A j \in Jobs : \A o \in orphans, v \in Lanes :
        ~(Haunts(o, j)' /\ Holds(v, j)')
  BY <1>4, <1>5, <1>6 DEF LockInv
<1>9. \A j \in Jobs : Locked(j)' => Locked(j) \/ j = lane[w].job
  BY <1>4, <1>5 DEF Locked, Holds, Haunts
<1>10. \A o \in orphans : o[2] <= job'[o[1]].gen
  BY <1>1 DEF LockInv
<1> QED BY <1>7, <1>8, <1>9, <1>10, SoundKept DEF LockInv

\* A dying process leaves its locks to its backends.
LEMMA LocksCrash ==
  ASSUME TypeOK, OneOwner, LockInv, Grows, NEW p \in Processes, Crash(p)
  PROVE  LockInv' /\ \A j \in Jobs : Locked(j)' => Locked(j)
<1> DEFINE dead == {v \in Lanes : ProcOf[v] = p /\ lane[v].phase = "running"}
<1>1. /\ job' = job
      /\ orphans' = orphans \union {<<lane[v].job, lane[v].gen>> : v \in dead}
      /\ lane' = [v \in Lanes |-> IF ProcOf[v] = p THEN Idle ELSE lane[v]]
  BY DEF Crash
<1>2. ASSUME NEW j \in Jobs, NEW v \in Lanes, Holds(v, j)'
      PROVE  Holds(v, j) /\ ProcOf[v] # p
  BY <1>1, <1>2 DEF Holds, Idle
<1>3. ASSUME NEW j \in Jobs, NEW o \in orphans', Haunts(o, j)'
      PROVE  \/ o \in orphans /\ Haunts(o, j)
             \/ \E v \in dead : Holds(v, j)
  BY <1>1, <1>3 DEF Haunts, Holds
<1>4. \A j \in Jobs : \A u, v \in Lanes : Holds(u, j)' /\ Holds(v, j)' => u = v
  BY <1>2 DEF LockInv
<1>5. \A j \in Jobs : \A o \in orphans', v \in Lanes :
        ~(Haunts(o, j)' /\ Holds(v, j)')
  BY <1>2, <1>3 DEF LockInv
<1>6. \A o \in orphans' : o[2] <= job'[o[1]].gen
  <2>1. \A v \in dead : lane[v].gen <= job[lane[v].job].gen
    BY DEF OneOwner
  <2> QED BY <1>1, <2>1 DEF LockInv
<1>7. \A j \in Jobs : Locked(j)' => Locked(j)
  BY <1>2, <1>3 DEF Locked, Holds, Haunts
<1> QED BY <1>4, <1>5, <1>6, <1>7, SoundKept DEF LockInv

LEMMA LocksNext ==
  ASSUME TypeOK, OneOwner, LockInv, [Next]_vars
  PROVE  /\ LockInv'
         /\ \A j \in Jobs : Locked(j)' =>
               Locked(j) \/ \E w \in Lanes : Begin(w) /\ j = lane[w].job
<1>1. Grows
  BY GrowsNext
<1>2. ASSUME RunsKept, orphans' \subseteq orphans
      PROVE  LockInv' /\ \A j \in Jobs : Locked(j)' => Locked(j)
  BY <1>1, <1>2, LocksKept
<1>3. CASE UNCHANGED <<lane, orphans>>
  BY <1>2, <1>3 DEF RunsKept
<1>4. ASSUME NEW p \in Processes, ProcStep(p)
      PROVE  LockInv' /\ \A j \in Jobs : Locked(j)' => Locked(j)
  <2>1. CASE Crash(p)
    BY <1>1, <2>1, LocksCrash
  <2>2. CASE ~Crash(p)
    BY <1>2, <1>4, <2>2 DEF ProcStep, Start, LoseMaintenance, Interrupt, Exit,
                            RunsKept
  <2> QED BY <2>1, <2>2
<1>5. ASSUME NEW o \in orphans, BackendEnds(o)
      PROVE  LockInv' /\ \A j \in Jobs : Locked(j)' => Locked(j)
  BY <1>2, <1>5 DEF BackendEnds, RunsKept
<1>6. ASSUME NEW w \in Lanes, LaneStep(w)
      PROVE  /\ LockInv'
             /\ \A j \in Jobs : Locked(j)' =>
                   Locked(j) \/ (Begin(w) /\ j = lane[w].job)
  <2>1. lane[w].phase # "idle" /\ Effect(w) /\ UNCHANGED orphans
    BY <1>6, LaneEffect DEF TypeOK
  <2>2. CASE Begin(w)
    BY <1>1, <2>1, <2>2, LocksBegin
  <2>3. CASE ~Begin(w)
    <3>1. Kept /\ lane'[w].phase # "running"
          /\ \A v \in Lanes : v # w => lane'[v] = lane[v]
      BY <2>1, <2>3, LanesKept
    <3>2. RunsKept
      BY <3>1 DEF RunsKept
    <3> QED BY <1>2, <2>1, <3>2
  <2> QED BY <2>2, <2>3
<1>7. ASSUME NEW w \in Lanes, NEW j \in Jobs, Claim(w, j)
      PROVE  LockInv' /\ \A k \in Jobs : Locked(k)' => Locked(k)
  <2>1. RunsKept
    BY <1>7 DEF Claim, RunsKept, TypeOK
  <2> QED BY <1>2, <1>7, <2>1 DEF Claim
<1>8. ASSUME NEW j \in Jobs, JobStep(j) PROVE UNCHANGED <<lane, orphans>>
  BY <1>8, SMTT(40) DEF JobStep, BecomeDue, Expire, ExpireHeld, ClaimLost
<1>9. ASSUME NEW d \in Docs, DocStep(d) PROVE UNCHANGED <<lane, orphans>>
  BY <1>9 DEF DocStep, Recover, Forget, Admit, Reset
<1>10. CASE ResumeSources
  BY <1>3, <1>10 DEF ResumeSources
<1> QED
  BY <1>3, <1>4, <1>5, <1>6, <1>7, <1>8, <1>9, <1>10 DEF Next, vars

-----------------------------------------------------------------------------
(* Settled jobs.  A row becomes FAILED or COMPLETED only by the verdict or *)
(* the commit of a lane that owns it.                                      *)

SettlesRow(w, j) ==
    /\ lane[w].phase # "idle"
    /\ lane[w].job = j
    /\ FailJob(w) \/ Commits(w)
    /\ UNCHANGED orphans

Settled == {"FAILED", "COMPLETED"}

LEMMA StatesOfRows ==
  /\ \A r \in JobRow : NewRow(r).state = "READY" /\ Deleted(r).state = "NONE"
  /\ \A r \in JobRow : ClaimedRow(r).state = "RUNNING"
  /\ \A r \in JobRow : CompletedRow(r).state = "COMPLETED"
BY DEF NewRow, Deleted, NoRow, ClaimedRow, CompletedRow, JobRow

LEMMA SettledByLane ==
  ASSUME TypeOK, NEW w \in Lanes, lane[w].phase # "idle", Effect(w),
         UNCHANGED orphans, NEW j \in Jobs, job'[j].state \in Settled
  PROVE  job'[j] = job[j] \/ SettlesRow(w, j)
<1>1. CASE UNCHANGED job
  BY <1>1
<1>2. CASE Commits(w)
  <2> DEFINE c == lane[w].job
             e == <<c[1], "embed">>
  <2>1. c \in Jobs /\ e \in Jobs /\ job \in [Jobs -> JobRow]
    BY DEF TypeOK, Jobs, Stages
  <2>2. ASSUME NEW rows \in [Jobs -> JobRow], NEW f, job' = WithJobs(rows, f),
               \A k \in Jobs : \/ rows[k] = job[k]
                               \/ k = c /\ rows[k] = CompletedRow(job[k])
                               \/ rows[k] = NewRow(job[k])
        PROVE  job'[j] = job[j] \/ j = c
    <3>1. job'[j] = rows[j] \/ job'[j] = NewRow(rows[j])
      BY <2>2, Inserted
    <3>2. job'[j].state # "READY"
      BY DEF Settled
    <3>3. job'[j] = rows[j] /\ rows[j] # NewRow(job[j])
      BY <2>1, <2>2, <3>1, <3>2, StatesOfRows
    <3> QED BY <2>2, <3>3
  <2>3. PICK f \in Admissions : CommitHandOff(c, f) \/ CommitEnd(c, f)
    BY <1>2 DEF Commits, CommitEffects
  <2>4. CASE CommitEnd(c, f)
    <3> DEFINE rows == [job EXCEPT ![c] = CompletedRow(@)]
    <3>1. rows \in [Jobs -> JobRow]
      BY <2>1, RowTypes
    <3>2. \A k \in Jobs : \/ rows[k] = job[k]
                          \/ k = c /\ rows[k] = CompletedRow(job[k])
      BY <2>1
    <3>3. job' = WithJobs(rows, f)
      BY <2>4 DEF CommitEnd
    <3> QED BY <1>2, <2>2, <3>1, <3>2, <3>3 DEF SettlesRow
  <2>5. CASE CommitHandOff(c, f)
    <3> DEFINE rows == [job EXCEPT ![c] = CompletedRow(@),
                                   ![e] = IF @.state = "NONE" THEN NewRow(@) ELSE @]
    <3>1. c # e
      BY <2>5 DEF CommitHandOff
    <3>2. rows \in [Jobs -> JobRow]
      BY <2>1, <3>1, RowTypes
    <3>3. \A k \in Jobs : \/ rows[k] = job[k]
                          \/ k = c /\ rows[k] = CompletedRow(job[k])
                          \/ rows[k] = NewRow(job[k])
      BY <2>1, <3>1
    <3>4. job' = WithJobs(rows, f)
      BY <2>5 DEF CommitHandOff
    <3> QED BY <1>2, <2>2, <3>2, <3>3, <3>4 DEF SettlesRow
  <2> QED BY <2>3, <2>4, <2>5
<1>3. CASE \/ \E due \in BOOLEAN : ReleaseJob(w, due)
           \/ WaitJob(w) \/ RetryJob(w) \/ FailJob(w)
  <2>1. PICK s \in {"READY", "WAITING_SOURCE", "FAILED"} :
            Verdict(w, s) /\ (s = "FAILED" => FailJob(w))
    BY <1>3, VerdictCases
  <2> QED BY <2>1 DEF Verdict, Settled, SettlesRow
<1> QED BY <1>1, <1>2, <1>3 DEF Effect, Moves, Begin

LEMMA SettledByNext ==
  ASSUME TypeOK, [Next]_vars, NEW j \in Jobs, job'[j].state \in Settled
  PROVE  job'[j].state = job[j].state \/ \E w \in Lanes : SettlesRow(w, j)
<1> DEFINE Same == job'[j].state = job[j].state
<1>1. /\ job \in [Jobs -> JobRow] /\ job[j] \in JobRow
      /\ job'[j].state # "READY" /\ job'[j].state # "RUNNING"
      /\ job'[j].state # "NONE"
  BY DEF TypeOK, Settled
<1>2. CASE UNCHANGED job
  BY <1>2
<1>3. ASSUME NEW p \in Processes, ProcStep(p) PROVE UNCHANGED job
  BY <1>3 DEF ProcStep, Start, LoseMaintenance, Interrupt, Exit, Crash
<1>4. ASSUME NEW w \in Lanes, LaneStep(w) PROVE Same \/ SettlesRow(w, j)
  <2>1. lane[w].phase # "idle" /\ Effect(w) /\ UNCHANGED orphans
    BY <1>4, LaneEffect DEF TypeOK
  <2> QED BY <2>1, SettledByLane
<1>5. ASSUME NEW k \in Jobs, JobStep(k) PROVE Same
  <2>1. CASE BecomeDue(k) \/ Expire(k) \/ ExpireHeld(k)
    BY <1>1, <2>1 DEF BecomeDue, Expire, ExpireHeld, JobRow
  <2>2. CASE ClaimLost(k)
    BY <1>1, <2>2, StatesOfRows DEF ClaimLost
  <2> QED BY <1>5, <2>1, <2>2 DEF JobStep
<1>6. ASSUME NEW w \in Lanes, NEW k \in Jobs, Claim(w, k) PROVE Same
  BY <1>1, <1>6, StatesOfRows DEF Claim
<1>7. CASE ResumeSources
  <2>1. job[j].state # "WAITING_SOURCE"
    <3>1. SUFFICES ASSUME job[j].state = "WAITING_SOURCE" PROVE FALSE
      OBVIOUS
    <3>2. job'[j] = [job[j] EXCEPT !.state = "READY", !.gen = job[j].gen + 1,
                                   !.due = TRUE, !.live = FALSE]
      BY <1>7, <3>1 DEF ResumeSources
    <3>3. job'[j].state = "READY"
      BY <1>1, <3>2 DEF JobRow
    <3> QED BY <1>1, <3>3
  <2> QED BY <1>7, <2>1 DEF ResumeSources
<1>8. ASSUME NEW d \in Docs, DocStep(d) PROVE Same
  <2>1. ASSUME NEW rows \in [Jobs -> JobRow], NEW f, job' = WithJobs(rows, f)
        PROVE  job'[j] = rows[j]
    <3>1. job'[j] = rows[j] \/ job'[j] = NewRow(rows[j])
      BY <2>1, Inserted
    <3>2. NewRow(rows[j]).state = "READY"
      BY StatesOfRows
    <3> QED BY <1>1, <3>1, <3>2
  <2>2. ASSUME NEW r \in Routes, Admit(d, r) PROVE Same
    BY <1>1, <2>1, <2>2 DEF Admit
  <2>3. ASSUME NEW r \in Routes, Reset(d, r) PROVE Same
    <3> DEFINE rows == [k \in Jobs |-> IF k[1] = d THEN Deleted(job[k]) ELSE job[k]]
    <3>1. rows \in [Jobs -> JobRow]
      BY <1>1, RowTypes
    <3>2. job' = WithJobs(rows, [x \in {d} |-> r])
      BY <2>3 DEF Reset
    <3>3. job'[j] = rows[j]
      BY <2>1, <3>1, <3>2
    <3> QED BY <1>1, <3>3, StatesOfRows
  <2>4. CASE Forget(d)
    BY <1>1, <2>4, StatesOfRows DEF Forget
  <2>5. CASE Recover(d)
    <3>1. \/ job'[j] = job[j]
          \/ job'[j] = [job[j] EXCEPT !.state = "READY", !.gen = job[j].gen + 1,
                             !.attempts = 0, !.due = TRUE, !.live = FALSE]
      BY <2>5 DEF Recover
    <3>2. job'[j] # [job[j] EXCEPT !.state = "READY", !.gen = job[j].gen + 1,
                             !.attempts = 0, !.due = TRUE, !.live = FALSE]
      BY <1>1 DEF JobRow
    <3> QED BY <3>1, <3>2
  <2> QED BY <1>8, <2>2, <2>3, <2>4, <2>5 DEF DocStep
<1> QED
  BY <1>2, <1>3, <1>4, <1>5, <1>6, <1>7, <1>8 DEF Next, vars, BackendEnds

LEMMA QuietNext ==
  ASSUME TypeOK, OneOwner, LockInv, QuietWhenSettled, [Next]_vars
  PROVE  QuietWhenSettled'
<1> SUFFICES ASSUME NEW j \in Jobs, job'[j].state \in Settled, Locked(j)'
             PROVE  FALSE
  BY DEF QuietWhenSettled, Settled
<1>1. Grows
  BY GrowsNext
<1>2. Locked(j)
  <2>1. ASSUME NEW w \in Lanes, Begin(w), j = lane[w].job PROVE FALSE
    BY <2>1 DEF Begin, Owned, Settled
  <2> QED BY <2>1, LocksNext
<1>3. job[j].state \notin Settled
  BY <1>2 DEF QuietWhenSettled, Settled
<1>4. PICK w \in Lanes : SettlesRow(w, j)
  BY <1>3, SettledByNext
<1>5. ~FailJob(w)
  BY <1>2, <1>4 DEF FailJob, SettlesRow
<1>6. /\ Commits(w) /\ Owned(w) /\ lane[w].phase = "running"
      /\ lane[w].job = j
  BY <1>4, <1>5 DEF SettlesRow, Commits, CommitEffects
<1>7. Holds(w, j)
  BY <1>6 DEF Holds, Owned, LockInv, Sound
<1>8. /\ lane'[w].phase # "running"
      /\ \A v \in Lanes : v # w => lane'[v] = lane[v]
  <2>1. CASE Drop(w)
    BY <2>1 DEF Drop, Idle, TypeOK
  <2>2. CASE MoveTo(w, "settling", "transient")
    BY <2>2, MovesOn
  <2> QED BY <1>6, <2>1, <2>2 DEF Commits
<1>9. \A v \in Lanes : ~Holds(v, j)'
  <2>1. ASSUME NEW v \in Lanes, Holds(v, j)' PROVE Holds(v, j) /\ v # w
    BY <1>1, <1>8, <2>1, LockNumbers DEF Holds
  <2> QED BY <1>7, <2>1 DEF LockInv
<1>10. \A o \in orphans : ~Haunts(o, j)'
  BY <1>1, <1>7, HauntsKept DEF LockInv
<1> QED BY <1>4, <1>9, <1>10 DEF Locked, Holds, Haunts, SettlesRow

-----------------------------------------------------------------------------
(* Documents.  What a commit and an admission leave, row by row.           *)

Stubbed(r) == IF r = "declined" THEN "SKIPPED" ELSE "PENDING"

LEMMA JobParts ==
  /\ \A d \in Docs, s \in Stages : <<d, s>> \in Jobs
  /\ \A j \in Jobs : j[1] \in Docs /\ j[2] \in Stages /\ j = <<j[1], j[2]>>
  /\ \A d \in Docs : JobsOf(d) = {<<d, "extract">>, <<d, "embed">>}
BY DEF Jobs, Stages, JobsOf

LEMMA AdmittedDocs ==
  ASSUME NEW f \in Admissions, NEW d \in DOMAIN f
  PROVE  d \in Docs /\ doc[d] = "ABSENT" /\ f[d] \in Routes
BY DEF Admissions

\* A document no lane works on and no row speaks for.
LEMMA AbsentRows ==
  ASSUME Agreement, NEW d \in Docs, doc[d] = "ABSENT"
  PROVE  \A s \in Stages : job[<<d, s>>].state = "NONE"
BY DEF Agreement, Agrees, Stages

LEMMA AgreesStory ==
  ASSUME NEW s \in Statuses, NEW x, NEW e
  PROVE  Agrees(s, x, e) <=>
         \/ s = "ABSENT" /\ x = "NONE" /\ e = "NONE"
         \/ s = "PENDING" /\ x \in OpenStates /\ e = "NONE"
         \/ s = "PENDING" /\ x \in {"NONE", "COMPLETED"} /\ e \in OpenStates
         \/ s = "PROCESSING" /\ x = "COMPLETED" /\ e \in OpenStates
         \/ /\ s = "COMPLETED" /\ "COMPLETED" \in {x, e}
            /\ x \in {"NONE", "COMPLETED"} /\ e \in {"NONE", "COMPLETED"}
         \/ /\ s = "SKIPPED"
            /\ x \in {"NONE", "COMPLETED"} /\ e \in {"NONE", "COMPLETED"}
         \/ s = "FAILED" /\ x = "FAILED" /\ e = "NONE"
         \/ s = "FAILED" /\ x \in {"NONE", "COMPLETED"} /\ e = "FAILED"
BY DEF Agrees, Statuses

LEMMA RunningDoc ==
  ASSUME TypeOK, Agreement, NEW j \in Jobs, job[j].state = "RUNNING"
  PROVE  /\ doc[j[1]] # "ABSENT"
         /\ j[2] = "extract" => job[<<j[1], "embed">>].state = "NONE"
         /\ j[2] = "embed" => job[<<j[1], "extract">>].state \in {"NONE", "COMPLETED"}
<1>1. j[1] \in Docs /\ (j = <<j[1], "extract">> \/ j = <<j[1], "embed">>)
      /\ j[2] \in Stages
  BY JobParts DEF Stages
<1>2. Agrees(doc[j[1]], job[<<j[1], "extract">>].state, job[<<j[1], "embed">>].state)
  BY <1>1 DEF Agreement
<1>3. doc[j[1]] \in Statuses
  BY <1>1 DEF TypeOK
<1>4. CASE j = <<j[1], "extract">>
  <2>1. job[<<j[1], "extract">>].state = "RUNNING" /\ j[2] = "extract"
    BY <1>4
  <2> QED BY <1>2, <1>3, <2>1, AgreesStory DEF OpenStates
<1>5. CASE j = <<j[1], "embed">>
  <2>1. job[<<j[1], "embed">>].state = "RUNNING" /\ j[2] = "embed"
    BY <1>5
  <2> QED BY <1>2, <1>3, <2>1, AgreesStory DEF OpenStates
<1> QED BY <1>1, <1>4, <1>5

\* The rows of a commit: its own, the hand-off's, those of new members.
Handed(j, k) == /\ j[2] = "extract"
                /\ k = <<j[1], "embed">>
                /\ job[k].state = "NONE"
                /\ job'[k] = NewRow(job[k])

CommitLeaves(j, f) ==
    /\ j[1] \notin DOMAIN f
    /\ job'[j] = CompletedRow(job[j])
    /\ \A k \in Jobs : k[1] \in DOMAIN f =>
          job'[k] = IF f[k[1]] = k[2] THEN NewRow(job[k]) ELSE job[k]
    /\ \A k \in Jobs : k # j /\ k[1] \notin DOMAIN f =>
          job'[k] = job[k] \/ Handed(j, k)
    /\ \A d \in Docs : d # j[1] =>
          doc'[d] = IF d \in DOMAIN f THEN Stubbed(f[d]) ELSE doc[d]
    /\ \/ doc'[j[1]] = "PROCESSING" /\ Handed(j, <<j[1], "embed">>)
       \/ /\ doc'[j[1]] \in {"COMPLETED", "SKIPPED"}
          /\ \A k \in Jobs : k # j /\ k[1] = j[1] => job'[k] = job[k]

LEMMA CommitRows ==
  ASSUME TypeOK, Agreement, NEW w \in Lanes, CommitEffects(w)
  PROVE  /\ lane[w].job \in Jobs /\ Owned(w)
         /\ \E f \in Admissions : CommitLeaves(lane[w].job, f)
<1> DEFINE j == lane[w].job
           e == <<j[1], "embed">>
<1>1. /\ j \in Jobs /\ e \in Jobs /\ job \in [Jobs -> JobRow] /\ Owned(w)
      /\ doc \in [Docs -> Statuses] /\ j[1] \in Docs
  BY JobParts DEF TypeOK, CommitEffects, Stages
<1>2. PICK f \in Admissions : CommitHandOff(j, f) \/ CommitEnd(j, f)
  BY DEF CommitEffects
<1>3. doc[j[1]] # "ABSENT" /\ (j[2] = "extract" => job[e].state = "NONE")
  BY <1>1, RunningDoc DEF Owned
<1>4. j[1] \notin DOMAIN f
  BY <1>3, AdmittedDocs
<1> HIDE DEF j, e
<1>5. CASE CommitEnd(j, f)
  <2> DEFINE rows == [job EXCEPT ![j] = CompletedRow(@)]
  <2>1. job' = WithJobs(rows, f)
    BY <1>5 DEF CommitEnd
  <2>2. \A k \in Jobs : rows[k] = IF k = j THEN CompletedRow(job[k]) ELSE job[k]
    BY <1>1
  <2> HIDE DEF rows
  <2>3. \A k \in Jobs : job'[k] = IF k[1] \in DOMAIN f /\ f[k[1]] = k[2]
                                  THEN NewRow(rows[k]) ELSE rows[k]
    BY <2>1 DEF WithJobs
  <2>4. PICK v \in {"COMPLETED", "SKIPPED"} :
            doc' = WithStubs([doc EXCEPT ![j[1]] = v], f)
    BY <1>5 DEF CommitEnd
  <2>5. /\ doc'[j[1]] = v
        /\ \A d \in Docs : d # j[1] =>
             doc'[d] = IF d \in DOMAIN f THEN Stubbed(f[d]) ELSE doc[d]
    BY <1>1, <1>4, <2>4 DEF WithStubs, Stubbed
  <2>6. /\ job'[j] = CompletedRow(job[j])
        /\ \A k \in Jobs : k[1] \in DOMAIN f =>
             job'[k] = IF f[k[1]] = k[2] THEN NewRow(job[k]) ELSE job[k]
        /\ \A k \in Jobs : k # j /\ k[1] \notin DOMAIN f => job'[k] = job[k]
    BY <1>1, <1>4, <2>2, <2>3
  <2> QED BY <1>1, <1>4, <2>5, <2>6 DEF CommitLeaves, j
<1>6. CASE CommitHandOff(j, f)
  <2> DEFINE rows == [job EXCEPT ![j] = CompletedRow(@),
                                 ![e] = IF @.state = "NONE" THEN NewRow(@) ELSE @]
  <2>1. /\ job' = WithJobs(rows, f)
        /\ doc' = WithStubs([doc EXCEPT ![j[1]] = "PROCESSING"], f)
        /\ j[2] = "extract"
    BY <1>6 DEF CommitHandOff, e
  <2>2. j # e /\ e[1] = j[1] /\ e[2] = "embed" /\ e = <<j[1], "embed">>
    BY <2>1 DEF e
  <2>3. \A k \in Jobs : rows[k] = IF k = j THEN CompletedRow(job[k])
                                 ELSE IF k = e THEN NewRow(job[k]) ELSE job[k]
    BY <1>1, <1>3, <2>1, <2>2
  <2> HIDE DEF rows
  <2>4. \A k \in Jobs : job'[k] = IF k[1] \in DOMAIN f /\ f[k[1]] = k[2]
                                  THEN NewRow(rows[k]) ELSE rows[k]
    BY <2>1 DEF WithJobs
  <2>5. /\ doc'[j[1]] = "PROCESSING"
        /\ \A d \in Docs : d # j[1] =>
             doc'[d] = IF d \in DOMAIN f THEN Stubbed(f[d]) ELSE doc[d]
    BY <1>1, <1>4, <2>1 DEF WithStubs, Stubbed
  <2>6. Handed(j, e)
    BY <1>1, <1>3, <1>4, <2>1, <2>2, <2>3, <2>4 DEF Handed
  <2>7. /\ job'[j] = CompletedRow(job[j])
        /\ \A k \in Jobs : k[1] \in DOMAIN f =>
             job'[k] = IF f[k[1]] = k[2] THEN NewRow(job[k]) ELSE job[k]
        /\ \A k \in Jobs : k # j /\ k # e /\ k[1] \notin DOMAIN f => job'[k] = job[k]
    BY <1>1, <1>4, <2>2, <2>3, <2>4
  <2> QED BY <1>1, <1>4, <2>2, <2>5, <2>6, <2>7 DEF CommitLeaves, j
<1> QED BY <1>2, <1>5, <1>6

-----------------------------------------------------------------------------
(* Budget.                                                                 *)

LEMMA LaneInvNext ==
  ASSUME TypeOK, LaneInv, [Next]_vars
  PROVE  LaneInv'
<1>1. CASE UNCHANGED lane
  BY <1>1 DEF LaneInv
<1>2. ASSUME NEW p \in Processes, ProcStep(p) PROVE LaneInv'
  BY <1>2 DEF ProcStep, Start, LoseMaintenance, Interrupt, Exit, Crash, LaneInv,
              Idle
<1>3. ASSUME NEW w \in Lanes, LaneStep(w) PROVE LaneInv'
  <2>1. lane[w].phase # "idle" /\ Effect(w)
    BY <1>3, LaneEffect DEF TypeOK
  <2>2. CASE Drop(w)
    BY <2>2 DEF Drop, Idle, LaneInv, TypeOK
  <2>3. ASSUME NEW e, MoveTo(w, "settling", e) PROVE LaneInv'
    BY <2>1, <2>3, MovesOn DEF LaneInv
  <2>4. CASE lane[w].phase = "claimed" /\ lane[w].charged /\ MoveTo(w, "preparing", "none")
    BY <2>1, <2>4, MovesOn DEF LaneInv
  <2>5. CASE Begin(w)
    <3>1. /\ lane[w] \in Lane /\ lane[w].charged
          /\ lane'[w] = [lane[w] EXCEPT !.phase = "running", !.ran = TRUE]
          /\ \A v \in Lanes : v # w => lane'[v] = lane[v]
      BY <2>5 DEF Begin, AtBegin, LaneInv, TypeOK
    <3>2. lane'[w].phase = "running" /\ lane'[w].ran /\ lane'[w].charged
      BY <3>1 DEF Lane
    <3> QED BY <3>1, <3>2 DEF LaneInv
  <2> QED
    BY <2>1, <2>2, <2>3, <2>4, <2>5 DEF Effect, Moves, Commits, ReleaseJob,
                               WaitJob, RetryJob, FailJob, Transition
<1>4. ASSUME NEW w \in Lanes, NEW j \in Jobs, Claim(w, j) PROVE LaneInv'
  BY <1>4 DEF Claim, LaneInv, TypeOK
<1>5. ASSUME NEW j \in Jobs, JobStep(j) PROVE UNCHANGED lane
  BY <1>5, SMTT(40) DEF JobStep, BecomeDue, Expire, ExpireHeld, ClaimLost
<1>6. ASSUME NEW d \in Docs, DocStep(d) PROVE UNCHANGED lane
  BY <1>6 DEF DocStep, Recover, Forget, Admit, Reset
<1> QED
  BY <1>1, <1>2, <1>3, <1>4, <1>5, <1>6 DEF Next, vars, BackendEnds, ResumeSources

\* A step either leaves a row's budget alone or leaves no lane current on it.
Calm(j) ==
    /\ job'[j].state = job[j].state
    /\ job'[j].gen = job[j].gen
    /\ job'[j].attempts = job[j].attempts
    /\ spent'[j] = spent[j]
Over(j) ==
    /\ spent'[j] \in Nat /\ spent'[j] <= job'[j].attempts
    /\ job'[j].state = "NONE" => job'[j].attempts = 0
    /\ job'[j].state # "RUNNING" \/ job'[j].gen > job[j].gen
RanKept == \A v \in Lanes : lane'[v].phase # "idle" => lane'[v].ran = lane[v].ran

Budget == BudgetKept /\ BudgetInv /\ spent \in [Jobs -> Nat]

LEMMA BudgetFrame ==
  ASSUME TypeOK, OneOwner, Budget, Kept, RanKept, Grows,
         \A j \in Jobs : Calm(j) \/ Over(j), spent' \in [Jobs -> Nat]
  PROVE  Budget'
<1>1. \A j \in Jobs : job[j].attempts \in Nat /\ job'[j].attempts \in Nat
  BY QueueAssumption DEF TypeOK, Grows, JobRow, QueueAssumption
<1>2. BudgetKept'
  BY <1>1 DEF Calm, Over, Budget, BudgetKept
<1>3. \A j \in Jobs : job'[j].state = "NONE" => job'[j].attempts = 0
  BY DEF Calm, Over, Budget, BudgetInv
<1>4. ASSUME NEW w \in Lanes, Current(w)'
      PROVE  /\ lane'[w].ran => spent'[lane'[w].job] >= 1
             /\ lane'[w].charged /\ ~lane'[w].ran =>
                   spent'[lane'[w].job] < job'[lane'[w].job].attempts
  <2>1. /\ lane[w].phase # "idle" /\ lane'[w].job = lane[w].job
        /\ lane'[w].gen = lane[w].gen /\ lane'[w].charged = lane[w].charged
        /\ lane'[w].ran = lane[w].ran /\ lane[w].job \in Jobs
        /\ lane[w].gen \in Nat
    BY <1>4 DEF Current, Kept, RanKept, TypeOK, Lane
  <2>2. lane[w].gen <= job[lane[w].job].gen /\ job[lane[w].job].gen \in Nat
    BY <2>1 DEF OneOwner, TypeOK, JobRow
  <2>3. Calm(lane[w].job)
    BY <1>4, <2>1, <2>2 DEF Over, Current
  <2>4. Current(w)
    BY <1>4, <2>1, <2>3 DEF Current, Calm
  <2> QED BY <2>1, <2>3, <2>4 DEF Budget, BudgetInv, Calm
<1> QED BY <1>2, <1>3, <1>4 DEF Budget, BudgetInv

\* Rows inserted for content the workspace does not hold carry no history.
LEMMA AbsentBudget ==
  ASSUME TypeOK, Budget, NEW j \in Jobs, job[j].state = "NONE"
  PROVE  job[j].attempts = 0 /\ spent[j] = 0
BY QueueAssumption DEF Budget, BudgetKept, BudgetInv, TypeOK, JobRow, QueueAssumption

LEMMA NewRowOver ==
  ASSUME TypeOK, NEW j \in Jobs, NEW r \in JobRow, job'[j] = NewRow(r), spent'[j] = 0
  PROVE  Over(j)
BY DEF Over, NewRow

\* The attempt a verdict gives back is the claim's own, and the run with it.
LEMMA RefundFits ==
  ASSUME TypeOK, Budget, LaneInv, NEW w \in Lanes, lane[w].phase # "idle", Owned(w),
         UnspendRun(w)
  PROVE  /\ spent' \in [Jobs -> Nat]
         /\ spent'[lane[w].job] <= Refunded(w)
         /\ \A k \in Jobs : k # lane[w].job => spent'[k] = spent[k]
<1> DEFINE j == lane[w].job
<1>1. /\ j \in Jobs /\ Current(w) /\ spent \in [Jobs -> Nat]
      /\ job[j].attempts \in Nat /\ spent[j] \in Nat
      /\ spent[j] <= job[j].attempts
  BY QueueAssumption DEF TypeOK, Owned, Current, Budget, BudgetKept, JobRow,
                         QueueAssumption
<1>2. CASE lane[w].ran
  <2>1. spent[j] >= 1 /\ lane[w].charged
    BY <1>1, <1>2 DEF Budget, BudgetInv, LaneInv
  <2>2. spent' = [spent EXCEPT ![j] = spent[j] - 1]
    BY <1>2 DEF UnspendRun
  <2>3. Refunded(w) = job[j].attempts - 1
    BY <1>1, <2>1 DEF Refunded
  <2> QED BY <1>1, <2>1, <2>2, <2>3
<1>3. CASE ~lane[w].ran
  <2>1. spent' = spent
    BY <1>3 DEF UnspendRun
  <2>2. lane[w].charged => spent[j] < job[j].attempts
    BY <1>1, <1>3 DEF Budget, BudgetInv
  <2> QED BY <1>1, <2>1, <2>2 DEF Refunded
<1> QED BY <1>2, <1>3

LEMMA BudgetVerdict ==
  ASSUME TypeOK, Budget, LaneInv, NEW w \in Lanes, lane[w].phase # "idle",
         \/ \E due \in BOOLEAN : ReleaseJob(w, due)
         \/ WaitJob(w) \/ RetryJob(w) \/ FailJob(w)
  PROVE  spent' \in [Jobs -> Nat] /\ \A j \in Jobs : Calm(j) \/ Over(j)
<1> DEFINE j == lane[w].job
<1>1. /\ j \in Jobs /\ spent \in [Jobs -> Nat]
      /\ Refunded(w) \in 0..MaxAttempts /\ job[j].attempts \in 0..MaxAttempts
      /\ spent[j] <= job[j].attempts
  BY QueueAssumption DEF QueueAssumption, TypeOK, Refunded, JobRow, Budget, BudgetKept
<1>2. /\ "READY" \in JobStates /\ "WAITING_SOURCE" \in JobStates
      /\ "FAILED" \in JobStates
  BY DEF JobStates
<1>3. ASSUME NEW s \in JobStates, s \notin {"NONE", "RUNNING"}, Verdict(w, s),
             spent'[j] \in Nat, spent'[j] <= job'[j].attempts,
             \A k \in Jobs : k # j => spent'[k] = spent[k]
      PROVE  \A k \in Jobs : Calm(k) \/ Over(k)
  BY <1>1, <1>3 DEF Verdict, Calm, Over
<1>4. ASSUME NEW s \in {"READY", "WAITING_SOURCE"}, NEW due \in BOOLEAN,
             Transition(w, s, due, Refunded(w)), UnspendRun(w)
      PROVE  spent' \in [Jobs -> Nat] /\ \A k \in Jobs : Calm(k) \/ Over(k)
  <2>1. Verdict(w, s) /\ job'[j].attempts = Refunded(w)
    BY <1>1, <1>2, <1>4, VerdictRows
  <2>2. /\ spent' \in [Jobs -> Nat] /\ spent'[j] <= Refunded(w)
        /\ \A k \in Jobs : k # j => spent'[k] = spent[k]
    BY <1>4, <2>1, RefundFits DEF Verdict
  <2> QED BY <1>1, <1>2, <1>3, <2>1, <2>2
<1>5. ASSUME NEW s \in {"READY", "FAILED"}, NEW due \in BOOLEAN,
             Transition(w, s, due, job[j].attempts), UNCHANGED spent
      PROVE  spent' \in [Jobs -> Nat] /\ \A k \in Jobs : Calm(k) \/ Over(k)
  <2>1. Verdict(w, s) /\ job'[j].attempts = job[j].attempts
    BY <1>1, <1>2, <1>5, VerdictRows
  <2> QED BY <1>1, <1>2, <1>3, <1>5, <2>1
<1> QED BY <1>4, <1>5 DEF ReleaseJob, WaitJob, RetryJob, FailJob

LEMMA BudgetCommit ==
  ASSUME TypeOK, Budget, Agreement, NEW w \in Lanes, CommitEffects(w),
         UNCHANGED spent
  PROVE  \A k \in Jobs : Calm(k) \/ Over(k)
<1> DEFINE j == lane[w].job
<1>1. PICK f \in Admissions : CommitLeaves(j, f)
  BY CommitRows
<1>2. j \in Jobs /\ spent \in [Jobs -> Nat]
  BY CommitRows DEF Budget
<1>3. ASSUME NEW k \in Jobs, job[k].state = "NONE", job'[k] = NewRow(job[k])
      PROVE  Over(k)
  BY <1>3, AbsentBudget, NewRowOver DEF TypeOK
<1>4. ASSUME NEW k \in Jobs PROVE Calm(k) \/ Over(k)
  <2>1. CASE job'[k] = job[k]
    BY <2>1 DEF Calm
  <2>2. CASE k = j
    <3>1. job[j] \in JobRow /\ job'[j] = CompletedRow(job[j])
      BY <1>1, <1>2 DEF CommitLeaves, TypeOK
    <3>2. job'[j].state = "COMPLETED" /\ job'[j].attempts = job[j].attempts
      BY <3>1 DEF CompletedRow, JobRow
    <3> QED BY <1>2, <2>2, <3>2 DEF Over, Budget, BudgetKept
  <2>3. CASE k # j /\ k[1] \in DOMAIN f
    <3>1. job'[k] = NewRow(job[k]) \/ job'[k] = job[k]
      BY <1>1, <2>3 DEF CommitLeaves
    <3>2. job[k].state = "NONE"
      BY <2>3, AdmittedDocs, AbsentRows, JobParts
    <3> QED BY <1>3, <2>1, <3>1, <3>2
  <2>4. CASE k # j /\ k[1] \notin DOMAIN f
    BY <1>1, <1>3, <2>1, <2>4 DEF CommitLeaves, Handed
  <2> QED BY <2>2, <2>3, <2>4
<1> QED BY <1>4

\* A charged claim that has not run yet still has its charge to spend.
LEMMA BudgetBegin ==
  ASSUME TypeOK, OneOwner, Budget, LaneInv, NEW w \in Lanes, Begin(w)
  PROVE  Budget'
<1> DEFINE j == lane[w].job
<1>1. /\ lane[w] \in Lane /\ job' = job /\ Owned(w) /\ lane[w].charged
      /\ ~lane[w].ran /\ lane[w].phase # "idle" /\ j \in Jobs
      /\ lane' = [lane EXCEPT ![w].phase = "running", ![w].ran = TRUE]
      /\ spent' = [spent EXCEPT ![j] = spent[j] + 1]
  BY DEF Begin, AtBegin, LaneInv, TypeOK
<1>2. /\ Current(w) /\ spent \in [Jobs -> Nat] /\ spent[j] \in Nat
      /\ spent[j] < job[j].attempts /\ job[j].attempts \in Nat
  BY <1>1, QueueAssumption DEF Owned, Current, Budget, BudgetInv, TypeOK, JobRow,
                               QueueAssumption
<1>3. /\ spent'[j] = spent[j] + 1 /\ spent' \in [Jobs -> Nat]
      /\ \A k \in Jobs : k # j => spent'[k] = spent[k]
  BY <1>1, <1>2
<1>4. /\ lane'[w] = [lane[w] EXCEPT !.phase = "running", !.ran = TRUE]
      /\ \A v \in Lanes : v # w => lane'[v] = lane[v]
  BY <1>1 DEF TypeOK
<1>5. lane'[w].job = j /\ lane'[w].ran
  BY <1>1, <1>4, ZenonT(60) DEF Lane
<1> HIDE DEF j
<1>6. BudgetKept'
  <2>1. \A k \in Jobs : spent'[k] <= job[k].attempts
    BY <1>2, <1>3 DEF Budget, BudgetKept
  <2> QED BY <1>1, <2>1 DEF BudgetKept
<1>7. ASSUME NEW v \in Lanes, Current(v)'
      PROVE  /\ lane'[v].ran => spent'[lane'[v].job] >= 1
             /\ lane'[v].charged /\ ~lane'[v].ran =>
                   spent'[lane'[v].job] < job'[lane'[v].job].attempts
  <2>1. CASE v = w
    BY <1>2, <1>3, <1>5, <2>1
  <2>2. CASE v # w
    <3>1. Current(v) /\ lane'[v] = lane[v]
      BY <1>1, <1>4, <1>7, <2>2 DEF Current
    <3>2. lane[v].job # j
      BY <1>1, <1>2, <2>2, <3>1 DEF Current, OneOwner, j
    <3>3. lane[v].job \in Jobs
      BY <3>1 DEF Current, TypeOK
    <3> QED BY <1>1, <1>3, <3>1, <3>2, <3>3 DEF Budget, BudgetInv
  <2> QED BY <2>1, <2>2
<1>8. \A k \in Jobs : job'[k].state = "NONE" => job'[k].attempts = 0
  BY <1>1 DEF Budget, BudgetInv
<1> QED BY <1>3, <1>6, <1>7, <1>8 DEF Budget, BudgetInv

\* A claim charges an attempt whenever one is left.
LEMMA ClaimedBudget ==
  ASSUME TypeOK, Budget, NEW j \in Jobs
  PROVE  /\ ClaimedRow(job[j]).state = "RUNNING"
         /\ ClaimedRow(job[j]).gen = job[j].gen + 1
         /\ ClaimedRow(job[j]).attempts \in Nat
         /\ spent[j] \in Nat /\ spent[j] <= ClaimedRow(job[j]).attempts
         /\ job[j].attempts < MaxAttempts =>
               spent[j] < ClaimedRow(job[j]).attempts
<1>1. /\ job[j] \in JobRow /\ job[j].attempts \in Nat /\ job[j].gen \in Nat
      /\ spent[j] \in Nat /\ spent[j] <= job[j].attempts
  BY QueueAssumption DEF TypeOK, JobRow, QueueAssumption, Budget, BudgetKept
<1>2. /\ ClaimedRow(job[j]).state = "RUNNING"
      /\ ClaimedRow(job[j]).gen = job[j].gen + 1
      /\ ClaimedRow(job[j]).attempts = IF job[j].attempts < MaxAttempts
                                       THEN job[j].attempts + 1 ELSE job[j].attempts
  BY <1>1 DEF ClaimedRow, JobRow
<1> QED BY <1>1, <1>2

LEMMA BudgetClaim ==
  ASSUME TypeOK, OneOwner, Budget, LaneInv, NEW w \in Lanes, NEW j \in Jobs,
         Claim(w, j)
  PROVE  Budget'
<1>1. /\ job' = [job EXCEPT ![j] = ClaimedRow(job[j])] /\ spent' = spent
      /\ lane' = [lane EXCEPT ![w] =
            [phase |-> "claimed", job |-> j, gen |-> job[j].gen + 1,
             charged |-> job[j].attempts < MaxAttempts,
             last |-> job[j].attempts + 1 >= MaxAttempts,
             ran |-> FALSE, err |-> "none"]]
      /\ job \in [Jobs -> JobRow] /\ lane \in [Lanes -> Lane]
  BY DEF Claim, TypeOK
<1>2. /\ job'[j] = ClaimedRow(job[j])
      /\ \A k \in Jobs : k # j => job'[k] = job[k]
      /\ \A v \in Lanes : v # w => lane'[v] = lane[v]
      /\ lane'[w].job = j /\ ~lane'[w].ran
      /\ lane'[w].charged = (job[j].attempts < MaxAttempts)
  BY <1>1
<1>3. BudgetKept'
  BY <1>1, <1>2, ClaimedBudget DEF Budget, BudgetKept
<1>4. \A k \in Jobs : job'[k].state = "NONE" => job'[k].attempts = 0
  BY <1>2, ClaimedBudget DEF Budget, BudgetInv
<1>5. ASSUME NEW v \in Lanes, Current(v)'
      PROVE  /\ lane'[v].ran => spent'[lane'[v].job] >= 1
             /\ lane'[v].charged /\ ~lane'[v].ran =>
                   spent'[lane'[v].job] < job'[lane'[v].job].attempts
  <2>1. CASE v = w
    BY <1>1, <1>2, <2>1, ClaimedBudget
  <2>2. CASE v # w
    <3>1. /\ lane'[v] = lane[v] /\ lane[v].phase # "idle"
          /\ lane[v].job \in Jobs /\ lane[v].gen \in Nat
      BY <1>2, <1>5, <2>2 DEF Current, TypeOK, Lane
    <3>2. lane[v].job # j
      <4>1. lane[v].job = j => lane[v].gen <= job[j].gen
        BY <3>1 DEF OneOwner
      <4>2. job[j].gen \in Nat /\ job'[j].gen = job[j].gen + 1
        BY <1>2, ClaimedBudget DEF TypeOK, JobRow
      <4> QED BY <1>5, <3>1, <4>1, <4>2 DEF Current
    <3>3. Current(v)
      BY <1>2, <1>5, <3>1, <3>2 DEF Current
    <3> QED BY <1>1, <1>2, <3>1, <3>2, <3>3 DEF Budget, BudgetInv
  <2> QED BY <2>1, <2>2
<1> QED BY <1>1, <1>3, <1>4, <1>5 DEF Budget, BudgetInv

LEMMA BudgetDocStep ==
  ASSUME TypeOK, Budget, Agreement, NEW d \in Docs, DocStep(d)
  PROVE  spent' \in [Jobs -> Nat] /\ \A k \in Jobs : Calm(k) \/ Over(k)
<1>1. job \in [Jobs -> JobRow] /\ spent \in [Jobs -> Nat]
  BY DEF TypeOK
<1>2. ASSUME NEW r \in Routes, Admit(d, r)
      PROVE  spent' \in [Jobs -> Nat] /\ \A k \in Jobs : Calm(k) \/ Over(k)
  <2>1. /\ job' = WithJobs(job, [x \in {d} |-> r]) /\ spent' = spent
        /\ doc[d] = "ABSENT"
    BY <1>2 DEF Admit
  <2>2. ASSUME NEW k \in Jobs PROVE Calm(k) \/ Over(k)
    <3>1. job'[k] = job[k] \/ (k[1] = d /\ job'[k] = NewRow(job[k]))
      BY <2>1 DEF WithJobs
    <3>2. CASE job'[k] = job[k]
      BY <2>1, <3>2 DEF Calm
    <3>3. CASE k[1] = d /\ job'[k] = NewRow(job[k])
      <4>1. job[k].state = "NONE"
        BY <2>1, <3>3, AbsentRows, JobParts
      <4> QED BY <1>1, <2>1, <3>3, <4>1, AbsentBudget, NewRowOver
    <3> QED BY <3>1, <3>2, <3>3
  <2> QED BY <1>1, <2>1, <2>2
<1>3. ASSUME NEW k \in Jobs, spent'[k] = 0, job'[k] = Deleted(job[k]) PROVE Over(k)
  BY <1>3 DEF Over, Deleted, NoRow
<1>4. ASSUME NEW r \in Routes, Reset(d, r)
      PROVE  spent' \in [Jobs -> Nat] /\ \A k \in Jobs : Calm(k) \/ Over(k)
  <2> DEFINE rows == [j \in Jobs |-> IF j[1] = d THEN Deleted(job[j]) ELSE job[j]]
  <2>1. /\ job' = WithJobs(rows, [x \in {d} |-> r])
        /\ spent' = [j \in Jobs |-> IF j[1] = d THEN 0 ELSE spent[j]]
    BY <1>4 DEF Reset
  <2>2. ASSUME NEW k \in Jobs PROVE Calm(k) \/ Over(k)
    <3>1. CASE k[1] # d
      BY <2>1, <3>1 DEF WithJobs, Calm
    <3>2. CASE k[1] = d
      <4>1. spent'[k] = 0 /\ Deleted(job[k]) \in JobRow
        BY <1>1, <2>1, <3>2, RowTypes
      <4>2. job'[k] = Deleted(job[k]) \/ job'[k] = NewRow(Deleted(job[k]))
        BY <2>1, <3>2 DEF WithJobs
      <4> QED BY <1>3, <4>1, <4>2, NewRowOver
    <3> QED BY <3>1, <3>2
  <2> QED BY <1>1, <2>1, <2>2
<1>5. CASE Forget(d)
  <2>1. \A k \in Jobs : k[1] = d => spent'[k] = 0 /\ job'[k] = Deleted(job[k])
    BY <1>5 DEF Forget
  <2>2. \A k \in Jobs : k[1] # d => spent'[k] = spent[k] /\ job'[k] = job[k]
    BY <1>5 DEF Forget
  <2>3. spent' \in [Jobs -> Nat]
    BY <1>1, <1>5 DEF Forget
  <2> QED BY <1>3, <2>1, <2>2, <2>3 DEF Calm
<1>6. CASE Recover(d)
  <2>1. spent' \in [Jobs -> Nat]
    BY <1>1, <1>6 DEF Recover
  <2>2. ASSUME NEW k \in Jobs PROVE Calm(k) \/ Over(k)
    <3>1. \/ job'[k] = job[k] /\ spent'[k] = spent[k]
          \/ /\ spent'[k] = 0
             /\ job'[k] = [job[k] EXCEPT !.state = "READY", !.gen = job[k].gen + 1,
                             !.attempts = 0, !.due = TRUE, !.live = FALSE]
      BY <1>6 DEF Recover
    <3>2. CASE job'[k] = job[k] /\ spent'[k] = spent[k]
      BY <3>2 DEF Calm
    <3>3. CASE job'[k] = [job[k] EXCEPT !.state = "READY", !.gen = job[k].gen + 1,
                             !.attempts = 0, !.due = TRUE, !.live = FALSE]
      <4>1. job'[k].state = "READY" /\ job'[k].attempts = 0
        BY <1>1, <3>3 DEF JobRow
      <4> QED BY <3>1, <3>2, <4>1 DEF Over
    <3> QED BY <3>1, <3>2, <3>3
  <2> QED BY <2>1, <2>2
<1> QED BY <1>2, <1>4, <1>5, <1>6 DEF DocStep

LEMMA BudgetNext ==
  ASSUME TypeOK, OneOwner, Budget, LaneInv, Agreement, [Next]_vars
  PROVE  Budget'
<1>1. Grows
  BY GrowsNext
<1>2. ASSUME Kept, RanKept, \A j \in Jobs : Calm(j) \/ Over(j), spent' \in [Jobs -> Nat]
      PROVE  Budget'
  BY <1>1, <1>2, BudgetFrame
<1>3. ASSUME Kept, RanKept, UNCHANGED <<job, spent>> PROVE Budget'
  BY <1>2, <1>3 DEF Calm, Budget
<1>4. CASE UNCHANGED vars
  BY <1>3, <1>4 DEF vars, Kept, RanKept
<1>5. ASSUME NEW p \in Processes, ProcStep(p) PROVE Budget'
  <2>1. Kept /\ RanKept /\ UNCHANGED <<job, spent>>
    BY <1>5 DEF ProcStep, Start, LoseMaintenance, Interrupt, Exit, Crash, Kept,
                RanKept, Idle
  <2> QED BY <1>3, <2>1
<1>6. ASSUME NEW o \in orphans, BackendEnds(o) PROVE Budget'
  BY <1>3, <1>6 DEF BackendEnds, Kept, RanKept
<1>7. ASSUME NEW w \in Lanes, LaneStep(w) PROVE Budget'
  <2>1. lane[w].phase # "idle" /\ Effect(w)
    BY <1>7, LaneEffect DEF TypeOK
  <2>2. CASE Begin(w)
    BY <2>2, BudgetBegin
  <2>3. CASE ~Begin(w)
    <3>1. Kept
      BY <2>1, LanesKept
    <3>2. RanKept
      <4>1. CASE Drop(w)
        BY <4>1 DEF Drop, RanKept, Idle, TypeOK
      <4>2. ASSUME NEW ph, NEW e, MoveTo(w, ph, e) PROVE RanKept
        BY <4>2, MovesOn DEF RanKept
      <4> QED BY <2>1, <2>3, <4>1, <4>2 DEF Effect, Moves, Commits, ReleaseJob,
                               WaitJob, RetryJob, FailJob, Transition
    <3>3. CASE Moves(w)
      BY <1>3, <3>1, <3>2, <3>3 DEF Moves
    <3>4. CASE Commits(w)
      BY <1>2, <3>1, <3>2, <3>4, BudgetCommit DEF Commits, Budget
    <3>5. CASE \/ \E due \in BOOLEAN : ReleaseJob(w, due)
               \/ WaitJob(w) \/ RetryJob(w) \/ FailJob(w)
      BY <1>2, <2>1, <3>1, <3>2, <3>5, BudgetVerdict
    <3> QED BY <2>1, <2>3, <3>3, <3>4, <3>5 DEF Effect
  <2> QED BY <2>2, <2>3
<1>8. ASSUME NEW w \in Lanes, NEW j \in Jobs, Claim(w, j) PROVE Budget'
  BY <1>8, BudgetClaim
<1>9. ASSUME NEW j \in Jobs, JobStep(j) PROVE Budget'
  <2>1. Kept /\ RanKept /\ UNCHANGED spent
    BY <1>9 DEF JobStep, BecomeDue, Expire, ExpireHeld, ClaimLost, Kept, RanKept
  <2>2. CASE BecomeDue(j) \/ Expire(j) \/ ExpireHeld(j)
    <3>1. \A k \in Jobs : Calm(k)
      BY <2>1, <2>2 DEF BecomeDue, Expire, ExpireHeld, Calm, TypeOK, JobRow
    <3> QED BY <1>2, <2>1, <3>1 DEF Budget
  <2>3. CASE ClaimLost(j)
    <3>1. /\ job'[j] = ClaimedRow(job[j])
          /\ \A k \in Jobs : k # j => job'[k] = job[k]
      BY <2>3 DEF ClaimLost, TypeOK
    <3>2. Over(j)
      BY <2>1, <3>1, ClaimedBudget DEF Over, TypeOK, JobRow
    <3>3. \A k \in Jobs : Calm(k) \/ Over(k)
      BY <2>1, <3>1, <3>2 DEF Calm
    <3> QED BY <1>2, <2>1, <3>3 DEF Budget
  <2> QED BY <1>9, <2>2, <2>3 DEF JobStep
<1>10. ASSUME NEW d \in Docs, DocStep(d) PROVE Budget'
  <2>1. Kept /\ RanKept
    BY <1>10 DEF DocStep, Recover, Forget, Admit, Reset, Kept, RanKept
  <2> QED BY <1>2, <1>10, <2>1, BudgetDocStep, SMTT(40)
<1>11. CASE ResumeSources
  <2>1. Kept /\ RanKept /\ UNCHANGED spent
    BY <1>11 DEF ResumeSources, Kept, RanKept
  <2>2. ASSUME NEW k \in Jobs PROVE Calm(k) \/ Over(k)
    <3>1. job[k] \in JobRow /\ spent[k] \in Nat /\ spent[k] <= job[k].attempts
      BY DEF TypeOK, Budget, BudgetKept
    <3>2. CASE job[k].state = "WAITING_SOURCE"
      <4>1. job'[k] = [job[k] EXCEPT !.state = "READY", !.gen = job[k].gen + 1,
                                    !.due = TRUE, !.live = FALSE]
        BY <1>11, <3>2 DEF ResumeSources
      <4>2. job'[k].state = "READY" /\ job'[k].attempts = job[k].attempts
        BY <3>1, <4>1 DEF JobRow
      <4> QED BY <2>1, <3>1, <4>2 DEF Over
    <3>3. CASE job[k].state # "WAITING_SOURCE"
      BY <1>11, <2>1, <3>3 DEF ResumeSources, Calm
    <3> QED BY <3>2, <3>3
  <2> QED BY <1>2, <2>1, <2>2 DEF Budget
<1> QED
  BY <1>4, <1>5, <1>6, <1>7, <1>8, <1>9, <1>10, <1>11 DEF Next, vars

-----------------------------------------------------------------------------
(* Agreement of documents and jobs.                                        *)

Story(d) ==
    Agrees(doc[d], job[<<d, "extract">>].state, job[<<d, "embed">>].state)
SameClass(x, y) == x = y \/ (x \in OpenStates /\ y \in OpenStates)
SameStory(d) ==
    /\ doc'[d] = doc[d]
    /\ \A s \in Stages : SameClass(job[<<d, s>>].state, job'[<<d, s>>].state)

LEMMA StoryKept ==
  ASSUME TypeOK, Agreement, NEW d \in Docs, SameStory(d)
  PROVE  Story(d)'
<1>1. /\ doc[d] \in Statuses /\ doc'[d] = doc[d] /\ Story(d)
      /\ SameClass(job[<<d, "extract">>].state, job'[<<d, "extract">>].state)
      /\ SameClass(job[<<d, "embed">>].state, job'[<<d, "embed">>].state)
  BY DEF TypeOK, Agreement, Story, SameStory, Stages
<1> QED BY <1>1, AgreesStory DEF Story, SameClass, OpenStates

LEMMA StoriesKept ==
  ASSUME TypeOK, Agreement, UNCHANGED doc,
         \A j \in Jobs : SameClass(job[j].state, job'[j].state)
  PROVE  Agreement'
<1>1. \A d \in Docs : SameStory(d)
  BY JobParts DEF SameStory
<1> QED BY <1>1, StoryKept DEF Agreement, Story

\* A document just stubbed, with the job of its route and no other.
LEMMA StoryStubbed ==
  ASSUME NEW d \in Docs, NEW r \in Routes, doc'[d] = Stubbed(r),
         \A s \in Stages : IF s = r THEN job'[<<d, s>>].state = "READY"
                                    ELSE job'[<<d, s>>].state = "NONE"
  PROVE  Story(d)'
<1>1. "extract" \in Stages /\ "embed" \in Stages
  BY DEF Stages
<1>2. doc'[d] \in Statuses
  BY DEF Stubbed, Statuses
<1>3. CASE r = "extract"
  <2>1. /\ doc'[d] = "PENDING" /\ job'[<<d, "extract">>].state = "READY"
        /\ job'[<<d, "embed">>].state = "NONE"
    BY <1>1, <1>3 DEF Stubbed
  <2> QED BY <1>2, <2>1, AgreesStory DEF Story, OpenStates
<1>4. CASE r = "embed"
  <2>1. /\ doc'[d] = "PENDING" /\ job'[<<d, "embed">>].state = "READY"
        /\ job'[<<d, "extract">>].state = "NONE"
    BY <1>1, <1>4 DEF Stubbed
  <2> QED BY <1>2, <2>1, AgreesStory DEF Story, OpenStates
<1>5. CASE r = "declined"
  <2>1. /\ doc'[d] = "SKIPPED" /\ job'[<<d, "embed">>].state = "NONE"
        /\ job'[<<d, "extract">>].state = "NONE"
    BY <1>1, <1>5 DEF Stubbed
  <2> QED BY <1>2, <2>1, AgreesStory DEF Story
<1> QED BY <1>3, <1>4, <1>5 DEF Routes, Stages

LEMMA AgreementFail ==
  ASSUME TypeOK, Agreement, NEW w \in Lanes, lane[w].phase # "idle", FailJob(w)
  PROVE  Agreement'
<1>0. PICK j \in Jobs : j = lane[w].job
  BY DEF TypeOK
<1> DEFINE x == <<j[1], "extract">>
           e == <<j[1], "embed">>
<1>1. "FAILED" \in JobStates /\ job[j].attempts \in 0..MaxAttempts /\ j \in Jobs
  BY <1>0 DEF JobStates, TypeOK, JobRow
<1>2. /\ Owned(w) /\ job'[j].state = "FAILED"
      /\ \A k \in Jobs : k # j => job'[k] = job[k]
      /\ doc' = [doc EXCEPT ![j[1]] = "FAILED"]
  BY <1>0, <1>1, VerdictRows DEF FailJob, Verdict
<1>3. j[1] \in Docs /\ x \in Jobs /\ e \in Jobs /\ (j = x \/ j = e)
  BY <1>1, JobParts DEF Stages
<1>4. /\ doc'[j[1]] = "FAILED" /\ "FAILED" \in Statuses
      /\ \A d \in Docs : d # j[1] => doc'[d] = doc[d]
  BY <1>2, <1>3 DEF TypeOK, Statuses
<1>5. /\ j[2] = "extract" => job[e].state = "NONE"
      /\ j[2] = "embed" => job[x].state \in {"NONE", "COMPLETED"}
  BY <1>0, <1>1, <1>2, RunningDoc DEF Owned
<1>6. Story(j[1])'
  <2>1. x # e
    OBVIOUS
  <2>2. CASE j = x
    BY <1>2, <1>3, <1>4, <1>5, <2>1, <2>2, AgreesStory DEF Story
  <2>3. CASE j = e
    BY <1>2, <1>3, <1>4, <1>5, <2>1, <2>3, AgreesStory DEF Story
  <2> QED BY <1>3, <2>2, <2>3
<1>7. ASSUME NEW d \in Docs, d # j[1] PROVE Story(d)'
  <2>1. \A s \in Stages : job'[<<d, s>>] = job[<<d, s>>]
    BY <1>2, <1>7, JobParts
  <2> QED BY <1>4, <1>7, <2>1, StoryKept DEF SameStory, SameClass
<1> QED BY <1>6, <1>7 DEF Agreement, Story

LEMMA AgreementCommit ==
  ASSUME TypeOK, Agreement, NEW w \in Lanes, CommitEffects(w)
  PROVE  Agreement'
<1>0. PICK j \in Jobs : j = lane[w].job
  BY CommitRows
<1> DEFINE x == <<j[1], "extract">>
           e == <<j[1], "embed">>
<1>1. PICK f \in Admissions : CommitLeaves(j, f)
  BY <1>0, CommitRows
<1>2. /\ j \in Jobs /\ job[j].state = "RUNNING" /\ j[1] \in Docs
      /\ x \in Jobs /\ e \in Jobs /\ (j = x \/ j = e)
      /\ \A k \in Jobs : job[k] \in JobRow
  BY <1>0, CommitRows, JobParts DEF Owned, Stages, TypeOK
<1>3. /\ j[2] = "extract" => job[e].state = "NONE"
      /\ j[2] = "embed" => job[x].state \in {"NONE", "COMPLETED"}
  BY <1>2, RunningDoc
<1>4. job'[j].state = "COMPLETED"
  BY <1>1, <1>2, StatesOfRows DEF CommitLeaves
<1>5. Story(j[1])'
  <2>1. x # e
    OBVIOUS
  <2>2. CASE doc'[j[1]] = "PROCESSING" /\ Handed(j, e)
    <3>1. j = x /\ job'[e].state = "READY"
      BY <1>2, <2>1, <2>2, StatesOfRows DEF Handed
    <3> QED BY <1>4, <2>2, <3>1, AgreesStory DEF Story, Statuses, OpenStates
  <2>3. CASE /\ doc'[j[1]] \in {"COMPLETED", "SKIPPED"}
             /\ \A k \in Jobs : k # j /\ k[1] = j[1] => job'[k] = job[k]
    <3>1. doc'[j[1]] \in Statuses
      BY <2>3 DEF Statuses
    <3>2. CASE j = x
      <4>1. job'[x].state = "COMPLETED" /\ job'[e].state = "NONE"
        BY <1>2, <1>3, <1>4, <2>1, <2>3, <3>2
      <4> QED BY <2>3, <3>1, <4>1, AgreesStory DEF Story
    <3>3. CASE j = e
      <4>1. /\ job'[e].state = "COMPLETED"
            /\ job'[x].state \in {"NONE", "COMPLETED"}
        BY <1>2, <1>3, <1>4, <2>1, <2>3, <3>3
      <4> QED BY <2>3, <3>1, <4>1, AgreesStory DEF Story
    <3> QED BY <1>2, <3>2, <3>3
  <2> QED BY <1>1, <2>2, <2>3 DEF CommitLeaves
<1>6. ASSUME NEW d \in Docs, d # j[1], d \in DOMAIN f PROVE Story(d)'
  <2>1. f[d] \in Routes /\ doc[d] = "ABSENT"
    BY <1>6, AdmittedDocs
  <2>2. doc'[d] = Stubbed(f[d])
    BY <1>1, <1>6 DEF CommitLeaves
  <2>3. ASSUME NEW s \in Stages
        PROVE  IF s = f[d] THEN job'[<<d, s>>].state = "READY"
                           ELSE job'[<<d, s>>].state = "NONE"
    <3>1. <<d, s>> \in Jobs /\ job[<<d, s>>].state = "NONE"
      BY <2>1, AbsentRows, JobParts
    <3>2. job'[<<d, s>>] = IF f[d] = s THEN NewRow(job[<<d, s>>]) ELSE job[<<d, s>>]
      BY <1>1, <1>6, <3>1 DEF CommitLeaves
    <3>3. NewRow(job[<<d, s>>]).state = "READY"
      BY <1>2, <3>1, StatesOfRows
    <3> QED BY <3>1, <3>2, <3>3
  <2> QED BY <2>1, <2>2, <2>3, StoryStubbed
<1>7. ASSUME NEW d \in Docs, d # j[1], d \notin DOMAIN f PROVE Story(d)'
  <2>1. doc'[d] = doc[d]
    BY <1>1, <1>7 DEF CommitLeaves
  <2>2. ASSUME NEW s \in Stages PROVE job'[<<d, s>>] = job[<<d, s>>]
    <3>1. <<d, s>> \in Jobs /\ <<d, s>> # j /\ <<d, s>> # e
      BY <1>7, JobParts
    <3> QED BY <1>1, <1>7, <3>1 DEF CommitLeaves, Handed
  <2> QED BY <2>1, <2>2, StoryKept DEF SameStory, SameClass
<1> QED BY <1>5, <1>6, <1>7 DEF Agreement, Story

\* Recovery finds exactly one job of the document open or failed, and makes
\* that one READY.
LEMMA RecoverRows ==
  ASSUME TypeOK, Agreement, NEW d \in Docs, Recover(d)
  PROVE  /\ doc' = [doc EXCEPT ![d] = "PENDING"]
         /\ \E s \in Stages :
              /\ job[<<d, s>>].state \in OpenStates \union {"FAILED"}
              /\ job'[<<d, s>>].state = "READY"
              /\ \A k \in Jobs : k # <<d, s>> => job'[k] = job[k]
              /\ s = "extract" => job[<<d, "embed">>].state = "NONE"
              /\ s = "embed" => job[<<d, "extract">>].state \in {"NONE", "COMPLETED"}
<1> DEFINE x == <<d, "extract">>
           e == <<d, "embed">>
           open == {k \in JobsOf(d) : job[k].state \in OpenStates \union {"FAILED"}}
           eligible == {k \in open : Resettable(k)}
<1>1. /\ doc[d] \in Unfinished \union {"FAILED"}
      /\ open = {} \/ eligible # {}
      /\ doc' = [doc EXCEPT ![d] = "PENDING"]
      /\ job' = [k \in Jobs |->
            IF k \in eligible
            THEN [job[k] EXCEPT !.state = "READY", !.gen = @ + 1,
                                !.attempts = 0, !.due = TRUE, !.live = FALSE]
            ELSE job[k]]
  BY DEF Recover
<1>2. /\ x \in Jobs /\ e \in Jobs /\ x # e /\ JobsOf(d) = {x, e}
  BY JobParts DEF Stages
<1>3. doc[d] \in Statuses /\ Story(d)
  BY DEF Agreement, Story, TypeOK
<1>4. \A k \in open : k \in JobsOf(d) /\ job[k].state \in OpenStates \union {"FAILED"}
  OBVIOUS
<1>5. \A k \in JobsOf(d) : job[k].state \in OpenStates \union {"FAILED"} => k \in open
  OBVIOUS
<1>6. eligible \subseteq open
  OBVIOUS
<1> HIDE DEF open, eligible
<1>7. \/ /\ job[x].state \in OpenStates \union {"FAILED"}
         /\ job[e].state = "NONE"
      \/ /\ job[e].state \in OpenStates \union {"FAILED"}
         /\ job[x].state \in {"NONE", "COMPLETED"}
  <2>1. doc[d] \in {"PENDING", "PROCESSING", "FAILED"}
    BY <1>1 DEF Unfinished
  <2>2. Agrees(doc[d], job[x].state, job[e].state)
    BY <1>3 DEF Story
  <2> HIDE DEF x, e
  <2> QED BY <1>3, <2>1, <2>2, AgreesStory
<1>8. PICK c \in eligible : TRUE
  BY <1>1, <1>2, <1>5, <1>7
<1>9. /\ c \in Jobs /\ (c = x \/ c = e)
      /\ job[c].state \in OpenStates \union {"FAILED"}
      /\ c = x => job[e].state = "NONE"
      /\ c = e => job[x].state \in {"NONE", "COMPLETED"}
  <2>1. c \in {x, e} /\ job[c].state \in OpenStates \union {"FAILED"}
    BY <1>2, <1>4, <1>6, <1>8
  <2> HIDE DEF x, e
  <2> QED BY <1>2, <1>7, <2>1 DEF OpenStates
<1>10. \A k \in Jobs : k # c => k \notin eligible
  <2>1. \A k \in eligible : k \in {x, e} /\ job[k].state \in OpenStates \union {"FAILED"}
    BY <1>2, <1>4, <1>6
  <2> HIDE DEF x, e
  <2> QED BY <1>9, <2>1 DEF OpenStates
<1>11. /\ job'[c].state = "READY"
       /\ \A k \in Jobs : k # c => job'[k] = job[k]
  <2>1. job[c] \in JobRow
    BY <1>9 DEF TypeOK
  <2>2. job'[c] = [job[c] EXCEPT !.state = "READY", !.gen = job[c].gen + 1,
                             !.attempts = 0, !.due = TRUE, !.live = FALSE]
    BY <1>1, <1>8, <1>9
  <2>3. job'[c].state = "READY"
    BY <2>1, <2>2 DEF JobRow
  <2> QED BY <1>1, <1>10, <2>3
<1>12. CASE c = x
  <2>1. x = <<d, "extract">> /\ "extract" \in Stages
    BY DEF Stages
  <2> QED BY <1>1, <1>9, <1>11, <1>12, <2>1
<1>13. CASE c = e
  <2>1. e = <<d, "embed">> /\ "embed" \in Stages
    BY DEF Stages
  <2> QED BY <1>1, <1>9, <1>11, <1>13, <2>1
<1> QED BY <1>9, <1>12, <1>13

LEMMA AgreementDocStep ==
  ASSUME TypeOK, Agreement, NEW d \in Docs, DocStep(d)
  PROVE  Agreement'
<1>1. /\ job \in [Jobs -> JobRow] /\ doc \in [Docs -> Statuses]
      /\ \A c \in Docs, s \in Stages : <<c, s>> \in Jobs /\ <<c, s>>[1] = c
  BY JobParts DEF TypeOK
<1>2. ASSUME Story(d)', \A c \in Docs : c # d => SameStory(c) PROVE Agreement'
  BY <1>2, StoryKept DEF Agreement, Story
<1>3. ASSUME \A c \in Docs : c # d => doc'[c] = doc[c],
             \A k \in Jobs : k[1] # d => job'[k] = job[k]
      PROVE  \A c \in Docs : c # d => SameStory(c)
  BY <1>1, <1>3 DEF SameStory, SameClass
<1>4. ASSUME NEW r \in Routes, NEW rows \in [Jobs -> JobRow],
             \A s \in Stages : rows[<<d, s>>].state = "NONE",
             \A k \in Jobs : k[1] # d => rows[k] = job[k],
             job' = WithJobs(rows, [x \in {d} |-> r]),
             doc' = WithStubs(doc, [x \in {d} |-> r])
      PROVE  Agreement'
  <2>1. /\ doc'[d] = Stubbed(r)
        /\ \A c \in Docs : c # d => doc'[c] = doc[c]
    BY <1>4 DEF WithStubs, Stubbed
  <2>2. /\ \A k \in Jobs : k[1] # d => job'[k] = job[k]
        /\ \A s \in Stages : job'[<<d, s>>] = IF r = s THEN NewRow(rows[<<d, s>>])
                                                ELSE rows[<<d, s>>]
    BY <1>1, <1>4 DEF WithJobs
  <2>3. ASSUME NEW s \in Stages
        PROVE  IF s = r THEN job'[<<d, s>>].state = "READY"
                        ELSE job'[<<d, s>>].state = "NONE"
    <3>1. rows[<<d, s>>] \in JobRow /\ NewRow(rows[<<d, s>>]).state = "READY"
      BY <1>1, <1>4, StatesOfRows
    <3> QED BY <1>4, <2>2, <3>1
  <2>4. Story(d)'
    BY <2>1, <2>3, StoryStubbed
  <2> QED BY <1>2, <1>3, <2>1, <2>2, <2>4
<1>5. ASSUME NEW r \in Routes, Admit(d, r) PROVE Agreement'
  <2>1. \A s \in Stages : job[<<d, s>>].state = "NONE"
    BY <1>5, AbsentRows DEF Admit
  <2> QED BY <1>1, <1>4, <1>5, <2>1 DEF Admit
<1>6. ASSUME NEW r \in Routes, Reset(d, r) PROVE Agreement'
  <2> DEFINE rows == [k \in Jobs |-> IF k[1] = d THEN Deleted(job[k]) ELSE job[k]]
  <2>1. /\ job' = WithJobs(rows, [x \in {d} |-> r])
        /\ doc' = WithStubs(doc, [x \in {d} |-> r])
    BY <1>6 DEF Reset
  <2>2. rows \in [Jobs -> JobRow]
    BY <1>1, RowTypes
  <2>3. \A s \in Stages : rows[<<d, s>>].state = "NONE"
    BY <1>1, StatesOfRows
  <2>4. \A k \in Jobs : k[1] # d => rows[k] = job[k]
    OBVIOUS
  <2> HIDE DEF rows
  <2> QED BY <1>4, <2>1, <2>2, <2>3, <2>4
<1>7. CASE Forget(d)
  <2>1. /\ doc' = [doc EXCEPT ![d] = "ABSENT"]
        /\ job' = [k \in Jobs |-> IF k[1] = d THEN Deleted(job[k]) ELSE job[k]]
    BY <1>7 DEF Forget
  <2>2. /\ \A c \in Docs : c # d => doc'[c] = doc[c]
        /\ \A k \in Jobs : k[1] # d => job'[k] = job[k]
        /\ doc'[d] = "ABSENT"
    BY <1>1, <2>1
  <2>3. \A s \in Stages : job'[<<d, s>>].state = "NONE"
    BY <1>1, <2>1, StatesOfRows
  <2>4. Story(d)'
    BY <2>2, <2>3, AgreesStory DEF Story, Statuses, Stages
  <2> QED BY <1>2, <1>3, <2>2, <2>4
<1>8. CASE Recover(d)
  <2>1. PICK s \in Stages :
          /\ job'[<<d, s>>].state = "READY"
          /\ \A k \in Jobs : k # <<d, s>> => job'[k] = job[k]
          /\ s = "extract" => job[<<d, "embed">>].state = "NONE"
          /\ s = "embed" => job[<<d, "extract">>].state \in {"NONE", "COMPLETED"}
    BY <1>8, RecoverRows
  <2>2. /\ doc'[d] = "PENDING" /\ "PENDING" \in Statuses
        /\ \A c \in Docs : c # d => doc'[c] = doc[c]
    BY <1>1, <1>8, RecoverRows, ZenonT(60) DEF Statuses
  <2>3. \A k \in Jobs : k[1] # d => job'[k] = job[k]
    BY <2>1
  <2>4. \/ /\ job'[<<d, "extract">>].state = "READY"
           /\ job'[<<d, "embed">>].state = "NONE"
        \/ /\ job'[<<d, "embed">>].state = "READY"
           /\ job'[<<d, "extract">>].state \in {"NONE", "COMPLETED"}
    BY <1>1, <2>1 DEF Stages
  <2>5. Story(d)'
    BY <2>2, <2>4, AgreesStory DEF Story, OpenStates
  <2> QED BY <1>2, <1>3, <2>2, <2>3, <2>5
<1> QED BY <1>5, <1>6, <1>7, <1>8 DEF DocStep

LEMMA AgreementNext ==
  ASSUME TypeOK, Agreement, [Next]_vars
  PROVE  Agreement'
<1>1. CASE UNCHANGED <<job, doc>>
  BY <1>1, StoriesKept DEF SameClass
<1>2. ASSUME NEW p \in Processes, ProcStep(p) PROVE UNCHANGED <<job, doc>>
  BY <1>2 DEF ProcStep, Start, LoseMaintenance, Interrupt, Exit, Crash
<1>3. ASSUME NEW w \in Lanes, LaneStep(w) PROVE Agreement'
  <2>1. lane[w].phase # "idle" /\ Effect(w)
    BY <1>3, LaneEffect DEF TypeOK
  <2>2. CASE FailJob(w)
    BY <2>1, <2>2, AgreementFail
  <2>3. CASE Commits(w)
    BY <2>3, AgreementCommit DEF Commits
  <2>4. CASE \/ \E due \in BOOLEAN : ReleaseJob(w, due)
             \/ WaitJob(w) \/ RetryJob(w)
    <3>1. UNCHANGED doc
      BY <2>4 DEF ReleaseJob, WaitJob, RetryJob
    <3>2. PICK s \in {"READY", "WAITING_SOURCE", "FAILED"} :
              Verdict(w, s) /\ (s = "FAILED" => FailJob(w))
      BY <2>1, <2>4, VerdictCases
    <3>3. CASE s = "FAILED"
      BY <2>2, <3>2, <3>3
    <3>4. CASE s # "FAILED"
      <4>1. \A j \in Jobs : SameClass(job[j].state, job'[j].state)
        BY <3>2, <3>4 DEF Verdict, Owned, SameClass, OpenStates
      <4> QED BY <3>1, <4>1, StoriesKept
    <3> QED BY <3>3, <3>4
  <2> QED BY <1>1, <2>1, <2>2, <2>3, <2>4 DEF Effect, Moves, Begin
<1>4. ASSUME NEW j \in Jobs, UNCHANGED doc, job[j].state \in OpenStates,
             job'[j].state \in OpenStates,
             \A k \in Jobs : k # j => job'[k] = job[k]
      PROVE  Agreement'
  BY <1>4, StoriesKept DEF SameClass
<1>5. ASSUME NEW j \in Jobs, Claimable(j), UNCHANGED doc,
             job' = [job EXCEPT ![j] = ClaimedRow(job[j])]
      PROVE  Agreement'
  BY <1>4, <1>5, StatesOfRows DEF Claimable, OpenStates, TypeOK
<1>6. ASSUME NEW w \in Lanes, NEW j \in Jobs, Claim(w, j) PROVE Agreement'
  BY <1>5, <1>6 DEF Claim
<1>7. ASSUME NEW j \in Jobs, JobStep(j) PROVE Agreement'
  <2>1. CASE ClaimLost(j)
    BY <1>5, <2>1 DEF ClaimLost
  <2>2. CASE BecomeDue(j) \/ Expire(j) \/ ExpireHeld(j)
    <3>1. UNCHANGED doc /\ \A k \in Jobs : job'[k].state = job[k].state
      BY <2>2 DEF BecomeDue, Expire, ExpireHeld, TypeOK, JobRow
    <3> QED BY <3>1, StoriesKept DEF SameClass
  <2> QED BY <1>7, <2>1, <2>2 DEF JobStep
<1>8. CASE ResumeSources
  <2>1. ASSUME NEW k \in Jobs PROVE SameClass(job[k].state, job'[k].state)
    <3>1. job[k] \in JobRow
      BY DEF TypeOK
    <3>2. CASE job[k].state = "WAITING_SOURCE"
      <4>1. job'[k] = [job[k] EXCEPT !.state = "READY", !.gen = job[k].gen + 1,
                                    !.due = TRUE, !.live = FALSE]
        BY <1>8, <3>2 DEF ResumeSources
      <4>2. job'[k].state = "READY"
        BY <3>1, <4>1 DEF JobRow
      <4> QED BY <3>2, <4>2 DEF SameClass, OpenStates
    <3>3. CASE job[k].state # "WAITING_SOURCE"
      BY <1>8, <3>3 DEF ResumeSources, SameClass
    <3> QED BY <3>2, <3>3
  <2> QED BY <1>8, <2>1, StoriesKept DEF ResumeSources
<1> QED
  BY <1>1, <1>2, <1>3, <1>6, <1>7, <1>8, AgreementDocStep
     DEF Next, vars, BackendEnds

-----------------------------------------------------------------------------
(* Types again, now that no refund can take spent below zero.              *)

LEMMA StubTypes ==
  ASSUME NEW docs \in [Docs -> Statuses], NEW f
  PROVE  WithStubs(docs, f) \in [Docs -> Statuses]
BY DEF WithStubs, Statuses

LEMMA DocTypes ==
  ASSUME TypeOK, [Next]_vars
  PROVE  doc' \in [Docs -> Statuses]
<1> USE DEF TypeOK
<1>1. ASSUME NEW p \in Processes, ProcStep(p) PROVE UNCHANGED doc
  BY <1>1 DEF ProcStep, Start, LoseMaintenance, Interrupt, Exit, Crash
<1>2. ASSUME NEW w \in Lanes, LaneStep(w) PROVE doc' \in [Docs -> Statuses]
  <2>1. Effect(w) /\ lane[w].phase # "idle" /\ lane[w].job[1] \in Docs
    BY <1>2, LaneEffect, JobParts
  <2>2. CASE FailJob(w)
    BY <2>1, <2>2 DEF FailJob, Statuses
  <2>3. CASE Commits(w)
    <3>1. \A v \in Statuses : [doc EXCEPT ![lane[w].job[1]] = v] \in [Docs -> Statuses]
      BY <2>1
    <3>2. "PROCESSING" \in Statuses /\ "COMPLETED" \in Statuses /\ "SKIPPED" \in Statuses
      BY DEF Statuses
    <3>3. PICK f \in Admissions : \/ CommitHandOff(lane[w].job, f)
                                  \/ CommitEnd(lane[w].job, f)
      BY <2>3 DEF Commits, CommitEffects
    <3>4. PICK v \in Statuses :
              doc' = WithStubs([doc EXCEPT ![lane[w].job[1]] = v], f)
      BY <3>2, <3>3 DEF CommitHandOff, CommitEnd
    <3> QED BY <3>1, <3>4, StubTypes
  <2> QED BY <2>1, <2>2, <2>3 DEF Effect, Moves, Begin, ReleaseJob, WaitJob, RetryJob
<1>3. ASSUME NEW j \in Jobs, JobStep(j) PROVE UNCHANGED doc
  BY <1>3 DEF JobStep, BecomeDue, Expire, ExpireHeld, ClaimLost
<1>4. ASSUME NEW d \in Docs, DocStep(d) PROVE doc' \in [Docs -> Statuses]
  <2>1. CASE Recover(d) \/ Forget(d)
    BY <2>1 DEF Recover, Forget, Statuses
  <2>2. ASSUME NEW r \in Routes, Admit(d, r) \/ Reset(d, r)
        PROVE  doc' \in [Docs -> Statuses]
    <3>1. doc' = WithStubs(doc, [x \in {d} |-> r])
      BY <2>2 DEF Admit, Reset
    <3> QED BY <3>1, StubTypes
  <2> QED BY <1>4, <2>1, <2>2 DEF DocStep
<1> QED
  BY <1>1, <1>2, <1>3, <1>4 DEF Next, vars, BackendEnds, Claim, ResumeSources

LEMMA TypeNext ==
  ASSUME TypeOK, Budget', [Next]_vars
  PROVE  TypeOK'
<1>1. job' \in [Jobs -> JobRow] /\ doc' \in [Docs -> Statuses] /\ spent' \in [Jobs -> Nat]
  BY GrowsNext, DocTypes DEF Grows, Budget
<1>2. ASSUME UNCHANGED <<lane, proc, maint>>, orphans' \subseteq orphans, Counted
      PROVE  TypeOK'
  BY <1>1, <1>2 DEF TypeOK, Counted
<1>3. ASSUME NEW w \in Lanes, LaneStep(w) PROVE TypeOK'
  <2>1. lane[w].phase # "idle" /\ Effect(w) /\ Counted /\ UNCHANGED <<proc, maint, orphans>>
    BY <1>3, LaneEffect DEF TypeOK
  <2>2. /\ lane' \in [Lanes -> Lane]
        /\ \A v \in Lanes : lane'[v].phase # "idle" => lane'[v].job \in Jobs
    BY <2>1, TypeOfLanes
  <2> QED BY <1>1, <2>1, <2>2 DEF TypeOK, Counted
<1>4. ASSUME NEW w \in Lanes, NEW j \in Jobs, Claim(w, j) PROVE TypeOK'
  <2> DEFINE held == [phase |-> "claimed", job |-> j, gen |-> job[j].gen + 1,
                      charged |-> job[j].attempts < MaxAttempts,
                      last |-> job[j].attempts + 1 >= MaxAttempts,
                      ran |-> FALSE, err |-> "none"]
  <2>1. job[j].gen + 1 \in Nat
    BY DEF TypeOK, JobRow
  <2>2. held \in Lane
    BY <2>1 DEF Lane, Phases, Errors
  <2>3. lane' = [lane EXCEPT ![w] = held] /\ held.job = j
    BY <1>4 DEF Claim
  <2> HIDE DEF held
  <2>4. /\ lane' \in [Lanes -> Lane]
        /\ \A v \in Lanes : lane'[v].phase # "idle" => lane'[v].job \in Jobs
    BY <2>2, <2>3 DEF TypeOK
  <2> QED BY <1>1, <1>4, <2>4 DEF TypeOK, Claim
<1>5. ASSUME NEW j \in Jobs, JobStep(j) PROVE TypeOK'
  BY <1>2, <1>5, QueueAssumption
     DEF JobStep, BecomeDue, Expire, ExpireHeld, ClaimLost, Spend, Counted, TypeOK,
         QueueAssumption
<1>6. ASSUME NEW d \in Docs, DocStep(d) PROVE TypeOK'
  <2>1. UNCHANGED <<lane, proc, maint, orphans>> /\ (UNCHANGED faults \/ Spend)
    BY <1>6 DEF DocStep, Recover, Forget, Admit, Reset
  <2>2. Counted
    BY <2>1, QueueAssumption DEF Spend, Counted, TypeOK, QueueAssumption
  <2> QED BY <1>2, <2>1, <2>2
<1>7. ASSUME NEW o \in orphans, BackendEnds(o) PROVE TypeOK'
  BY <1>2, <1>7 DEF BackendEnds, Counted, TypeOK
<1>8. CASE ResumeSources
  BY <1>2, <1>8 DEF ResumeSources, Counted, TypeOK
<1>9. CASE UNCHANGED vars
  BY <1>2, <1>9 DEF vars, Counted, TypeOK
<1> QED
  BY <1>3, <1>4, <1>5, <1>6, <1>7, <1>8, <1>9, TypeProc DEF Next

-----------------------------------------------------------------------------
(* Theorems.                                                               *)

\* The inductive invariant holds of the empty queue and is kept by every step.
THEOREM Inductive == Spec => []IInv
<1>1. Init => IInv
  <2> SUFFICES ASSUME Init PROVE IInv
    OBVIOUS
  <2>1. TypeOK
    BY TypeInit
  <2>2. /\ \A w \in Lanes : lane[w].phase = "idle"
        /\ \A j \in Jobs : /\ job[j].state = "NONE" /\ job[j].born = 0
                           /\ job[j].gen = 0 /\ job[j].attempts = 0
                           /\ spent[j] = 0
        /\ orphans = {}
    BY DEF Init, Idle, NoRow
  <2>3. OneOwner /\ LaneInv
    BY <2>2 DEF OneOwner, LaneInv
  <2>4. BudgetKept /\ BudgetInv
    BY <2>2 DEF BudgetKept, BudgetInv, Current
  <2>5. LockInv
    BY <2>2 DEF LockInv, Sound, Holds, Haunts
  <2>6. QuietWhenSettled
    BY <2>2 DEF QuietWhenSettled
  <2>7. Agreement
    <3>1. ASSUME NEW d \in Docs PROVE Story(d)
      <4>1. /\ doc[d] = "ABSENT" /\ job[<<d, "extract">>].state = "NONE"
            /\ job[<<d, "embed">>].state = "NONE"
        BY <2>2, JobParts DEF Init, Stages
      <4> QED BY <4>1, AgreesStory DEF Story, Statuses
    <3> QED BY <3>1 DEF Agreement, Story
  <2> QED BY <2>1, <2>3, <2>4, <2>5, <2>6, <2>7 DEF IInv
<1>2. IInv /\ [Next]_vars => IInv'
  <2> SUFFICES ASSUME IInv, [Next]_vars PROVE IInv'
    OBVIOUS
  <2>1. /\ TypeOK /\ OneOwner /\ LaneInv /\ Budget /\ LockInv
        /\ QuietWhenSettled /\ Agreement
    BY DEF IInv, Budget, TypeOK
  <2>2. Budget'
    BY <2>1, BudgetNext
  <2>3. TypeOK'
    BY <2>1, <2>2, TypeNext
  <2>4. OneOwner' /\ LaneInv'
    BY <2>1, OwnersNext, LaneInvNext
  <2>5. LockInv'
    BY <2>1, LocksNext
  <2>6. QuietWhenSettled'
    BY <2>1, QuietNext
  <2>7. Agreement'
    BY <2>1, AgreementNext
  <2> QED BY <2>2, <2>3, <2>4, <2>5, <2>6, <2>7 DEF IInv, Budget
<1> QED BY <1>1, <1>2, PTL DEF Spec

\* Every variable stays in its type.
THEOREM TypeCorrect == Spec => []TypeOK
<1>1. IInv => TypeOK
  BY DEF IInv
<1> QED BY <1>1, Inductive, PTL

\* No two lanes of any processes ever hold the same claim.
THEOREM OneOwnerAlways == Spec => []OneOwner
<1>1. IInv => OneOwner
  BY DEF IInv
<1> QED BY <1>1, Inductive, PTL

\* A retry cycle never pays for more handler runs than it has attempts.
THEOREM BudgetAlwaysKept == Spec => []BudgetKept
<1>1. IInv => BudgetKept
  BY DEF IInv
<1> QED BY <1>1, Inductive, PTL

\* No handler is inside its transaction once its job is settled.
THEOREM SettledIsQuiet == Spec => []QuietWhenSettled
<1>1. IInv => QuietWhenSettled
  BY DEF IInv
<1> QED BY <1>1, Inductive, PTL

\* A document and its jobs tell the same story between any two steps.
THEOREM StoriesAgree == Spec => []Agreement
<1>1. IInv => Agreement
  BY DEF IInv
<1> QED BY <1>1, Inductive, PTL

-----------------------------------------------------------------------------
(* The queue implements StageLedger: each step of it is one step of the    *)
(* ledger or leaves it alone.                                              *)

Ledger == [j \in Jobs |-> StageOf(job[j].state)]

LEMMA LedgerJobs ==
  /\ L!LJobs = Jobs /\ L!LStages = Stages /\ L!LRoutes = Routes
  /\ L!LAdmissions = Admissions
BY DEF L!LJobs, L!LStages, L!LRoutes, L!LAdmissions, Jobs, Stages, Routes,
       Admissions

LEMMA LedgerRows == \A k \in Jobs : /\ Ledger[k] = StageOf(job[k].state)
                                    /\ Ledger'[k] = StageOf(job'[k].state)
BY DEF Ledger

LEMMA StageValues ==
  /\ StageOf("NONE") = "none" /\ StageOf("READY") = "open"
  /\ StageOf("RUNNING") = "open" /\ StageOf("COMPLETED") = "completed"
  /\ StageOf("FAILED") = "failed"
  /\ \A x \in OpenStates : StageOf(x) = "open"
  /\ \A r \in JobRow : /\ StageOf(NewRow(r).state) = "open"
                       /\ StageOf(Deleted(r).state) = "none"
                       /\ StageOf(CompletedRow(r).state) = "completed"
BY StatesOfRows DEF StageOf, OpenStates

LEMMA LedgerAlone ==
  ASSUME UNCHANGED doc, \A j \in Jobs : SameClass(job[j].state, job'[j].state)
  PROVE  UNCHANGED L!lvars
<1>1. \A j \in Jobs : StageOf(job'[j].state) = StageOf(job[j].state)
  BY DEF SameClass, StageOf, OpenStates
<1>2. Ledger' = Ledger
  BY <1>1 DEF Ledger
<1> QED BY <1>2 DEF L!lvars, Ledger

\* Stubs: the ledger's new documents are the queue's.
LEMMA LedgerStubs ==
  ASSUME NEW docs, NEW f
  PROVE  L!LWithStubs(docs, f) = WithStubs(docs, f)
BY DEF L!LWithStubs, WithStubs

LEMMA LedgerFail ==
  ASSUME TypeOK, NEW w \in Lanes, lane[w].phase # "idle", FailJob(w)
  PROVE  \E d \in Docs, s \in Stages : L!LFail(d, s)
<1>1. PICK j \in Jobs : j = lane[w].job
  BY DEF TypeOK
<1>2. "FAILED" \in JobStates /\ job[j].attempts \in 0..MaxAttempts
  BY DEF JobStates, TypeOK, JobRow
<1>3. /\ job[j].state = "RUNNING" /\ job'[j].state = "FAILED"
      /\ \A k \in Jobs : k # j => job'[k] = job[k]
      /\ doc' = [doc EXCEPT ![j[1]] = "FAILED"]
  BY <1>1, <1>2, VerdictRows DEF FailJob, Verdict, Owned
<1>4. Ledger' = [Ledger EXCEPT ![j] = "failed"] /\ Ledger[j] = "open"
  BY <1>3, StageValues DEF Ledger
<1>5. j[1] \in Docs /\ j[2] \in Stages /\ j = <<j[1], j[2]>>
  BY JobParts
<1>6. L!LFail(j[1], j[2])
  BY <1>3, <1>4, <1>5 DEF L!LFail, Ledger
<1> QED BY <1>5, <1>6

LEMMA LedgerCommit ==
  ASSUME TypeOK, Agreement, NEW w \in Lanes, CommitEffects(w),
         doc' \in [Docs -> Statuses]
  PROVE  \E d \in Docs, f \in Admissions :
            L!LHandOff(d, f) \/ \E s \in Stages : L!LEnd(d, s, f)
<1>1. PICK j \in Jobs : j = lane[w].job
  BY CommitRows
<1>2. PICK f \in Admissions : CommitLeaves(j, f)
  BY <1>1, CommitRows
<1> DEFINE d == j[1]
           s == j[2]
           e == <<d, "embed">>
<1>3. /\ d \in Docs /\ s \in Stages /\ j = <<d, s>> /\ e \in Jobs
      /\ job[j].state = "RUNNING" /\ \A k \in Jobs : job[k] \in JobRow
      /\ doc \in [Docs -> Statuses]
  BY <1>1, CommitRows, JobParts DEF Owned, TypeOK, Stages
<1>4. /\ d \notin DOMAIN f
      /\ Ledger'[j] = "completed" /\ Ledger[j] = "open"
      /\ \A k \in Jobs : k[1] \in DOMAIN f =>
            Ledger'[k] = IF f[k[1]] = k[2] THEN "open" ELSE Ledger[k]
      /\ \A k \in Jobs : k # j /\ k[1] \notin DOMAIN f =>
            Ledger'[k] = Ledger[k] \/ Handed(j, k)
  BY <1>2, <1>3, LedgerRows, StageValues DEF CommitLeaves
<1>5. doc' = WithStubs([doc EXCEPT ![d] = doc'[d]], f)
  BY <1>2, <1>3 DEF CommitLeaves, WithStubs, Stubbed
<1>6. CASE doc'[d] = "PROCESSING" /\ Handed(j, e)
  <2>1. /\ s = "extract" /\ Ledger[e] = "none" /\ Ledger'[e] = "open" /\ e # j
    BY <1>3, <1>6, LedgerRows, StageValues DEF Handed
  <2>2. \A k \in Jobs : k # j /\ k # e /\ k[1] \notin DOMAIN f =>
            Ledger'[k] = Ledger[k]
    BY <1>4 DEF Handed
  <2> DEFINE st == [Ledger EXCEPT ![j] = "completed", ![e] = "open"]
  <2>3. \A k \in Jobs : st[k] = IF k = j THEN "completed"
                               ELSE IF k = e THEN "open" ELSE Ledger[k]
    BY <1>3, <2>1 DEF Ledger
  <2>4. \A k \in Jobs : Ledger'[k] = IF k[1] \in DOMAIN f /\ f[k[1]] = k[2]
                                    THEN "open" ELSE st[k]
    BY <1>3, <1>4, <2>1, <2>2, <2>3, ZenonT(60)
  <2> HIDE DEF st
  <2>5. Ledger' = L!LWithJobs(st, f)
    BY <2>4, LedgerJobs DEF L!LWithJobs, Ledger
  <2>6. j = <<d, "extract">>
    BY <1>3, <2>1
  <2>7. L!LHandOff(d, f)
    BY <1>4, <1>5, <1>6, <2>1, <2>5, <2>6, LedgerStubs DEF L!LHandOff, Ledger, st
  <2> QED BY <1>3, <2>7
<1>7. CASE /\ doc'[d] \in {"COMPLETED", "SKIPPED"}
           /\ \A k \in Jobs : k # j /\ k[1] = d => job'[k] = job[k]
  <2>1. \A k \in Jobs : k # j /\ k[1] \notin DOMAIN f => Ledger'[k] = Ledger[k]
    <3>1. ASSUME NEW k \in Jobs, k # j, k[1] \notin DOMAIN f, Handed(j, k)
          PROVE  Ledger'[k] = Ledger[k]
      BY <1>7, <3>1, LedgerRows DEF Handed
    <3> QED BY <1>4, <3>1
  <2> DEFINE st == [Ledger EXCEPT ![j] = "completed"]
  <2>2. \A k \in Jobs : st[k] = IF k = j THEN "completed" ELSE Ledger[k]
    BY DEF Ledger
  <2>3. \A k \in Jobs : Ledger'[k] = IF k[1] \in DOMAIN f /\ f[k[1]] = k[2]
                                    THEN "open" ELSE st[k]
    BY <1>4, <2>1, <2>2
  <2> HIDE DEF st
  <2>4. Ledger' = L!LWithJobs(st, f)
    BY <2>3, LedgerJobs DEF L!LWithJobs, Ledger
  <2>5. L!LEnd(d, s, f)
    BY <1>3, <1>4, <1>5, <1>7, <2>4, LedgerStubs DEF L!LEnd, Ledger, st
  <2> QED BY <1>3, <2>5
<1> QED BY <1>2, <1>6, <1>7 DEF CommitLeaves

LEMMA LedgerDocStep ==
  ASSUME TypeOK, Agreement, NEW d \in Docs, DocStep(d)
  PROVE  \/ L!LForget(d)
         \/ \E s \in Stages : L!LRecover(d, s)
         \/ \E r \in Routes : L!LAdmit(d, r) \/ L!LReroute(d, r)
<1>1. job \in [Jobs -> JobRow]
  BY DEF TypeOK
<1>2. CASE Recover(d)
  <2>1. PICK s \in Stages :
          /\ job[<<d, s>>].state \in OpenStates \union {"FAILED"}
          /\ job'[<<d, s>>].state = "READY"
          /\ \A k \in Jobs : k # <<d, s>> => job'[k] = job[k]
    BY <1>2, RecoverRows
  <2>2. doc' = [doc EXCEPT ![d] = "PENDING"]
    BY <1>2, RecoverRows
  <2>3. <<d, s>> \in Jobs
    BY JobParts
  <2>4. /\ Ledger[<<d, s>>] \in {"open", "failed"}
        /\ Ledger' = [Ledger EXCEPT ![<<d, s>>] = "open"]
    BY <2>1, <2>3, StageValues DEF Ledger
  <2>5. L!LRecover(d, s)
    BY <2>2, <2>4 DEF L!LRecover, Ledger
  <2> QED BY <2>5
<1>3. CASE Forget(d)
  <2>1. /\ doc[d] # "ABSENT" /\ doc' = [doc EXCEPT ![d] = "ABSENT"]
        /\ job' = [j \in Jobs |-> IF j[1] = d THEN Deleted(job[j]) ELSE job[j]]
    BY <1>3 DEF Forget
  <2>2. Ledger' = [j \in Jobs |-> IF j[1] = d THEN "none" ELSE Ledger[j]]
    BY <1>1, <2>1, StageValues DEF Ledger
  <2> QED BY <2>1, <2>2, LedgerJobs DEF L!LForget, Ledger
<1>4. ASSUME NEW rows \in [Jobs -> JobRow], NEW f, job' = WithJobs(rows, f)
      PROVE  Ledger' = L!LWithJobs([j \in Jobs |-> StageOf(rows[j].state)], f)
  BY <1>4, StageValues, LedgerJobs DEF Ledger, L!LWithJobs, WithJobs
<1>5. ASSUME NEW r \in Routes, Admit(d, r) PROVE L!LAdmit(d, r)
  <2>1. /\ doc[d] = "ABSENT" /\ job' = WithJobs(job, [x \in {d} |-> r])
        /\ doc' = WithStubs(doc, [x \in {d} |-> r])
    BY <1>5 DEF Admit
  <2>2. Ledger' = L!LWithJobs(Ledger, [x \in {d} |-> r])
    BY <1>1, <1>4, <2>1 DEF Ledger
  <2> QED BY <2>1, <2>2, LedgerStubs DEF L!LAdmit, Ledger
<1>6. ASSUME NEW r \in Routes, Reset(d, r) PROVE L!LReroute(d, r)
  <2> DEFINE rows == [j \in Jobs |-> IF j[1] = d THEN Deleted(job[j]) ELSE job[j]]
             none == [j \in Jobs |-> IF j[1] = d THEN "none" ELSE Ledger[j]]
  <2>1. /\ doc[d] # "ABSENT" /\ job' = WithJobs(rows, [x \in {d} |-> r])
        /\ doc' = WithStubs(doc, [x \in {d} |-> r])
    BY <1>6 DEF Reset
  <2>2. rows \in [Jobs -> JobRow]
    BY <1>1, RowTypes
  <2>3. [j \in Jobs |-> StageOf(rows[j].state)] = none
    BY <1>1, StageValues DEF Ledger
  <2> HIDE DEF rows
  <2>4. Ledger' = L!LWithJobs(none, [x \in {d} |-> r])
    BY <1>4, <2>1, <2>2, <2>3
  <2> QED BY <2>1, <2>4, LedgerStubs, LedgerJobs DEF L!LReroute, Ledger
<1> QED BY <1>2, <1>3, <1>5, <1>6 DEF DocStep

LEMMA LedgerNext ==
  ASSUME TypeOK, Agreement, [Next]_vars
  PROVE  [L!LNext]_(L!lvars)
<1>1. CASE UNCHANGED <<job, doc>>
  BY <1>1, LedgerAlone DEF SameClass
<1>2. ASSUME NEW p \in Processes, ProcStep(p) PROVE UNCHANGED <<job, doc>>
  BY <1>2 DEF ProcStep, Start, LoseMaintenance, Interrupt, Exit, Crash
<1>3. ASSUME NEW w \in Lanes, LaneStep(w) PROVE [L!LNext]_(L!lvars)
  <2>1. lane[w].phase # "idle" /\ Effect(w)
    BY <1>3, LaneEffect DEF TypeOK
  <2>2. CASE FailJob(w)
    <3>1. PICK d \in Docs, s \in Stages : L!LFail(d, s)
      BY <2>1, <2>2, LedgerFail
    <3>2. L!LDocStep(d)
      BY <3>1, LedgerJobs DEF L!LDocStep
    <3> QED BY <3>2 DEF L!LNext
  <2>3. CASE Commits(w)
    <3>1. doc' \in [Docs -> Statuses]
      BY DocTypes
    <3>2. PICK d \in Docs, f \in Admissions :
              L!LHandOff(d, f) \/ \E s \in Stages : L!LEnd(d, s, f)
      BY <2>3, <3>1, LedgerCommit DEF Commits
    <3>3. L!LDocStep(d)
      BY <3>2, LedgerJobs DEF L!LDocStep
    <3> QED BY <3>3 DEF L!LNext
  <2>4. CASE \/ \E due \in BOOLEAN : ReleaseJob(w, due)
             \/ WaitJob(w) \/ RetryJob(w)
    <3>1. UNCHANGED doc
      BY <2>4 DEF ReleaseJob, WaitJob, RetryJob
    <3>2. PICK s \in {"READY", "WAITING_SOURCE", "FAILED"} :
              Verdict(w, s) /\ (s = "FAILED" => FailJob(w))
      BY <2>1, <2>4, VerdictCases
    <3>3. CASE s = "FAILED"
      BY <2>2, <3>2, <3>3
    <3>4. CASE s # "FAILED"
      <4>1. \A j \in Jobs : SameClass(job[j].state, job'[j].state)
        BY <3>2, <3>4 DEF Verdict, Owned, SameClass, OpenStates
      <4> QED BY <3>1, <4>1, LedgerAlone
    <3> QED BY <3>3, <3>4
  <2> QED BY <1>1, <2>1, <2>2, <2>3, <2>4 DEF Effect, Moves, Begin
<1>4. ASSUME NEW j \in Jobs, Claimable(j), UNCHANGED doc,
             job' = [job EXCEPT ![j] = ClaimedRow(job[j])]
      PROVE  UNCHANGED L!lvars
  <2>1. \A k \in Jobs : SameClass(job[k].state, job'[k].state)
    BY <1>4, StatesOfRows DEF Claimable, SameClass, OpenStates, TypeOK
  <2> QED BY <1>4, <2>1, LedgerAlone
<1>5. ASSUME NEW w \in Lanes, NEW j \in Jobs, Claim(w, j) PROVE UNCHANGED L!lvars
  BY <1>4, <1>5 DEF Claim
<1>6. ASSUME NEW j \in Jobs, JobStep(j) PROVE UNCHANGED L!lvars
  <2>1. CASE ClaimLost(j)
    BY <1>4, <2>1 DEF ClaimLost
  <2>2. CASE BecomeDue(j) \/ Expire(j) \/ ExpireHeld(j)
    <3>1. UNCHANGED doc /\ \A k \in Jobs : job'[k].state = job[k].state
      BY <2>2 DEF BecomeDue, Expire, ExpireHeld, TypeOK, JobRow
    <3> QED BY <3>1, LedgerAlone DEF SameClass
  <2> QED BY <1>6, <2>1, <2>2 DEF JobStep
<1>7. CASE ResumeSources
  <2>1. ASSUME NEW k \in Jobs PROVE SameClass(job[k].state, job'[k].state)
    <3>1. job[k] \in JobRow
      BY DEF TypeOK
    <3>2. CASE job[k].state = "WAITING_SOURCE"
      <4>1. job'[k] = [job[k] EXCEPT !.state = "READY", !.gen = job[k].gen + 1,
                                    !.due = TRUE, !.live = FALSE]
        BY <1>7, <3>2 DEF ResumeSources
      <4>2. job'[k].state = "READY"
        BY <3>1, <4>1 DEF JobRow
      <4> QED BY <3>2, <4>2 DEF SameClass, OpenStates
    <3>3. CASE job[k].state # "WAITING_SOURCE"
      BY <1>7, <3>3 DEF ResumeSources, SameClass
    <3> QED BY <3>2, <3>3
  <2> QED BY <1>7, <2>1, LedgerAlone DEF ResumeSources
<1>8. ASSUME NEW d \in Docs, DocStep(d) PROVE L!LNext
  BY <1>8, LedgerDocStep, LedgerJobs DEF L!LDocStep, L!LNext
<1> QED
  BY <1>1, <1>2, <1>3, <1>5, <1>6, <1>7, <1>8 DEF Next, vars, BackendEnds

\* Every behaviour of the queue is, seen through StageOf, a behaviour of the
\* ledger: no crash, lost answer or stale worker shows half of a step.
THEOREM Refinement == Spec => ImplementsLedger
<1>1. Init => L!LInit
  BY LedgerJobs, StageValues DEF Init, L!LInit, NoRow
<1>2. IInv /\ [Next]_vars => [L!LNext]_(L!lvars)
  BY LedgerNext DEF IInv
<1> QED BY <1>1, <1>2, Inductive, PTL DEF Spec, ImplementsLedger, L!LSpec
=============================================================================
